---------------------------- MODULE Mounts_proofs ----------------------------
(***************************************************************************)
(* What the requests of Mounts keep, for every number of threads,          *)
(* documents, mounts and knowledge bases: types; why a mount is unlinked   *)
(* (UnlinkInv) and why it has lost its file (FileInv); and, where no       *)
(* request failed or crossed a removal, that tables and permission service *)
(* agree (DocsFit and BasesFit, from who meets whom and what each request  *)
(* has written already).                                                   *)
(***************************************************************************)
EXTENDS Mounts, TLAPS

-----------------------------------------------------------------------------
(* Types *)

Kinds == {"none", "upload", "unmount", "purge", "create", "drop"}

Pcs == {"idle", "find", "store", "register", "insert", "find mount", "link", "insert mount",
        "parse", "unlink", "select", "delete execution", "delete mount", "count", "retire",
        "delete row", "snapshot", "delete mounts", "delete file", "delete base mounts",
        "delete base"}

JobSet == [kind : Kinds, pc : Pcs, content : Contents \cup {Idle.content}, doc : 0 .. MaxDocs,
           kb : KBs \cup {Idle.kb}, mount : Nat, seen : SUBSET Nat, mark : Nat,
           warned : BOOLEAN]

\* What a thread serves, where it is and what it has.
Serving(j) ==
    \/ j.kind = "none" /\ j.pc = "idle" /\ j.doc = 0
    \/ /\ j.kind = "upload" /\ j.kb \in KBs /\ j.content \in Contents
       /\ \/ j.pc = "find" /\ j.doc = 0
          \/ /\ j.pc \in {"store", "register", "insert", "find mount", "link", "insert mount",
                          "parse"}
             /\ j.doc \in Docs
    \/ /\ j.kind = "unmount" /\ j.kb \in KBs /\ j.doc \in Docs
       /\ j.pc \in {"unlink", "select", "delete execution", "delete mount", "count", "retire",
                    "delete row"}
    \/ /\ j.kind = "purge" /\ j.doc \in Docs
       /\ j.pc \in {"snapshot", "retire", "delete mounts", "delete file", "delete row"}
    \/ j.kind = "create" /\ j.pc \in {"register", "insert"} /\ j.kb \in KBs /\ j.doc = 0
    \/ /\ j.kind = "drop" /\ j.kb \in KBs /\ j.doc = 0
       /\ j.pc \in {"count", "retire", "delete base mounts", "delete base"}

JobsTyped == job \in [Procs -> JobSet] /\ \A p \in Procs : Serving(job[p])

RowsTyped ==
    /\ documents \subseteq [doc : Docs, content : Contents]
    /\ mounts \subseteq [id : 1 .. ids, doc : Docs, kb : KBs]
    /\ kbs \subseteq KBs

ServiceTyped ==
    /\ registered \in [Resources -> {"unknown", "live", "retired"}]
    /\ linked \subseteq Pairs

CountsTyped == docs \in 0 .. MaxDocs /\ ids \in 0 .. MaxMounts

HistoryTyped ==
    asked \subseteq Pairs /\ mark \in [Docs -> Nat] /\ fileMark \in [Docs -> Nat]

MirrorTyped == mirror \in [todo : SUBSET Pairs, gap : SUBSET Pairs]

TypeOK ==
    /\ JobsTyped /\ RowsTyped /\ ServiceTyped /\ CountsTyped /\ HistoryTyped /\ MirrorTyped
    /\ disturbed \subseteq Resources

LEMMA InitTyped == Init => TypeOK
<1> SUFFICES ASSUME Init PROVE TypeOK
  OBVIOUS
<1> USE MountsAssumption
<1>1. Idle \in JobSet /\ Serving(Idle)
  BY DEF Idle, JobSet, Serving, Kinds, Pcs
<1>2. JobsTyped
  BY <1>1 DEF Init, JobsTyped
<1>3. RowsTyped /\ ServiceTyped /\ CountsTyped /\ MirrorTyped
  BY DEF Init, RowsTyped, ServiceTyped, CountsTyped, MirrorTyped, Resources, Docs
<1>4. HistoryTyped
  BY DEF Init, HistoryTyped, Docs
<1> QED
  BY <1>2, <1>3, <1>4 DEF TypeOK, Init

LEMMA TrackTyped ==
  ASSUME NEW failed, disturbed \subseteq Resources, Track(failed)
  PROVE  disturbed' \subseteq Resources
  BY DEF Track, Resources

\* The thread goes on with a typed request, and the others go on as they were.
LEMMA Continued ==
  ASSUME NEW p \in Procs, NEW j \in JobSet, Serving(j), JobsTyped, job' = [job EXCEPT ![p] = j]
  PROVE  JobsTyped' /\ job'[p] = j /\ \A q \in Procs \ {p} : job'[q] = job[q]
  BY DEF JobsTyped

LEMMA FailedTyped ==
  ASSUME NEW p \in Procs, TypeOK, Fails(p)
  PROVE  JobsTyped' /\ MirrorTyped' /\ disturbed' \subseteq Resources
<1>1. Idle \in JobSet /\ Serving(Idle)
  BY MountsAssumption DEF Idle, JobSet, Serving, Kinds, Pcs
<1> QED
  BY <1>1, Continued, TrackTyped DEF Fails, TypeOK, MirrorTyped

\* The places a request goes to from where it is.
LEMMA Moves ==
  ASSUME NEW j \in JobSet, Serving(j)
  PROVE  /\ j.pc = "store" => Serving([j EXCEPT !.pc = "register"])
         /\ j.pc = "register" => Serving([j EXCEPT !.pc = "insert"])
         /\ j.pc = "insert" /\ j.kind = "upload" => Serving([j EXCEPT !.pc = "find mount"])
         /\ j.pc = "find mount" => Serving([j EXCEPT !.pc = "link"])
         /\ j.pc = "link" => Serving([j EXCEPT !.pc = "insert mount"])
         /\ j.pc = "unlink" => Serving([j EXCEPT !.pc = "select"])
         /\ j.pc = "select" => Serving([j EXCEPT !.pc = "delete mount"])
         /\ j.pc = "delete execution" => Serving([j EXCEPT !.pc = "delete mount"])
         /\ j.pc = "delete mount" => Serving([j EXCEPT !.pc = "count"])
         /\ j.pc = "retire" /\ j.kind = "unmount" => Serving([j EXCEPT !.pc = "delete row"])
         /\ j.pc = "retire" /\ j.kind = "purge" => Serving([j EXCEPT !.pc = "delete mounts"])
         /\ j.pc = "delete mounts" => Serving([j EXCEPT !.pc = "delete file"])
         /\ j.pc = "delete file" => Serving([j EXCEPT !.pc = "delete row"])
         /\ j.pc = "count" /\ j.kind = "drop" => Serving([j EXCEPT !.pc = "retire"])
         /\ j.pc = "retire" /\ j.kind = "drop" =>
              Serving([j EXCEPT !.pc = "delete base mounts"])
         /\ j.pc = "delete base mounts" => Serving([j EXCEPT !.pc = "delete base"])
  BY DEF Serving, JobSet

\* What a request has where it is.
LEMMA Places ==
  ASSUME NEW j \in JobSet, Serving(j)
  PROVE  /\ j.pc \in {"find", "store", "find mount", "link", "insert mount", "parse"} =>
              j.kind = "upload" /\ j.kb \in KBs /\ j.content \in Contents
         /\ j.pc \in {"store", "find mount", "link", "insert mount", "parse", "delete row"} =>
              j.doc \in Docs
         /\ j.kind = "upload" /\ j.pc # "find" => j.doc \in Docs
         /\ j.kind = "upload" => j.content \in Contents /\ j.kb \in KBs
         /\ j.pc \in {"unlink", "select", "delete execution", "delete mount"} =>
              j.kind = "unmount"
         /\ j.kind = "unmount" => j.doc \in Docs /\ j.kb \in KBs
         /\ j.pc \in {"snapshot", "delete mounts", "delete file"} => j.kind = "purge"
         /\ j.kind = "purge" => j.doc \in Docs
         /\ j.pc \in {"delete base mounts", "delete base"} => j.kind = "drop"
         /\ j.kind \in {"create", "drop"} => j.kb \in KBs /\ j.doc = 0
         /\ j.kind = "none" <=> j.pc = "idle"
         /\ j.pc = "find" => j.doc = 0
  BY DEF Serving, JobSet

\* The moves that change more than the place.
LEMMA Takes ==
  ASSUME NEW j \in JobSet, Serving(j)
  PROVE  /\ j.pc = "find" => \A d \in Docs, pc \in {"store", "find mount"} :
              /\ [j EXCEPT !.doc = d, !.pc = pc] \in JobSet
              /\ Serving([j EXCEPT !.doc = d, !.pc = pc])
         /\ \A i \in Nat : j.pc \in {"find mount", "insert mount"} =>
              /\ [j EXCEPT !.mount = i, !.pc = "parse"] \in JobSet
              /\ Serving([j EXCEPT !.mount = i, !.pc = "parse"])
         /\ j.pc = "unlink" =>
              /\ [j EXCEPT !.warned = TRUE, !.pc = "select"] \in JobSet
              /\ Serving([j EXCEPT !.warned = TRUE, !.pc = "select"])
         /\ \A i \in Nat : j.pc = "select" =>
              /\ [j EXCEPT !.mount = i, !.pc = "delete execution"] \in JobSet
              /\ Serving([j EXCEPT !.mount = i, !.pc = "delete execution"])
         /\ \A i \in Nat : j.pc = "count" /\ j.kind = "unmount" =>
              /\ [j EXCEPT !.mark = i, !.pc = "retire"] \in JobSet
              /\ Serving([j EXCEPT !.mark = i, !.pc = "retire"])
         /\ \A S \in SUBSET Nat, i \in Nat : j.pc = "snapshot" =>
              /\ [j EXCEPT !.seen = S, !.mark = i, !.pc = "retire"] \in JobSet
              /\ Serving([j EXCEPT !.seen = S, !.mark = i, !.pc = "retire"])
         /\ \A i \in Nat : j.pc = "delete mounts" =>
              /\ [j EXCEPT !.seen = @ \ {i}] \in JobSet
              /\ Serving([j EXCEPT !.seen = @ \ {i}])
<1> USE MountsAssumption
<1>0. j.kind \in Kinds /\ j.pc \in Pcs /\ \A d \in Docs : d \in 0 .. MaxDocs
  BY DEF JobSet, Docs
<1>1. ASSUME j.pc = "find", NEW d \in Docs, NEW pc \in {"store", "find mount"}
      PROVE  /\ [j EXCEPT !.doc = d, !.pc = pc] \in JobSet
             /\ Serving([j EXCEPT !.doc = d, !.pc = pc])
  BY <1>0, <1>1 DEF JobSet, Serving, Pcs
<1>2. ASSUME NEW i \in Nat, j.pc \in {"find mount", "insert mount"}
      PROVE  /\ [j EXCEPT !.mount = i, !.pc = "parse"] \in JobSet
             /\ Serving([j EXCEPT !.mount = i, !.pc = "parse"])
  BY <1>0, <1>2 DEF JobSet, Serving, Pcs
<1>3. ASSUME j.pc = "unlink"
      PROVE  /\ [j EXCEPT !.warned = TRUE, !.pc = "select"] \in JobSet
             /\ Serving([j EXCEPT !.warned = TRUE, !.pc = "select"])
  BY <1>0, <1>3 DEF JobSet, Serving, Pcs
<1>4. ASSUME NEW i \in Nat, j.pc = "select"
      PROVE  /\ [j EXCEPT !.mount = i, !.pc = "delete execution"] \in JobSet
             /\ Serving([j EXCEPT !.mount = i, !.pc = "delete execution"])
  BY <1>0, <1>4 DEF JobSet, Serving, Pcs
<1>5. ASSUME NEW i \in Nat, j.pc = "count", j.kind = "unmount"
      PROVE  /\ [j EXCEPT !.mark = i, !.pc = "retire"] \in JobSet
             /\ Serving([j EXCEPT !.mark = i, !.pc = "retire"])
  BY <1>0, <1>5 DEF JobSet, Serving, Pcs
<1>6. ASSUME NEW S \in SUBSET Nat, NEW i \in Nat, j.pc = "snapshot"
      PROVE  /\ [j EXCEPT !.seen = S, !.mark = i, !.pc = "retire"] \in JobSet
             /\ Serving([j EXCEPT !.seen = S, !.mark = i, !.pc = "retire"])
  BY <1>0, <1>6 DEF JobSet, Serving, Pcs
<1>7. ASSUME NEW i \in Nat, j.pc = "delete mounts"
      PROVE  /\ [j EXCEPT !.seen = @ \ {i}] \in JobSet
             /\ Serving([j EXCEPT !.seen = @ \ {i}])
  BY <1>0, <1>7 DEF JobSet, Serving, Pcs
<1> QED
  BY <1>1, <1>2, <1>3, <1>4, <1>5, <1>6, <1>7

\* The requests that are taken.
LEMMA Requested ==
  /\ Idle \in JobSet /\ Serving(Idle)
  /\ \A c \in Contents, k \in KBs :
       LET j == [Idle EXCEPT !.kind = "upload", !.pc = "find", !.content = c, !.kb = k]
       IN  j \in JobSet /\ Serving(j)
  /\ \A d \in Docs, k \in KBs :
       LET j == [Idle EXCEPT !.kind = "unmount", !.pc = "unlink", !.doc = d, !.kb = k]
       IN  j \in JobSet /\ Serving(j)
  /\ \A d \in Docs :
       LET j == [Idle EXCEPT !.kind = "purge", !.pc = "snapshot", !.doc = d]
       IN  j \in JobSet /\ Serving(j)
  /\ \A k \in KBs :
       LET j == [Idle EXCEPT !.kind = "create", !.pc = "register", !.kb = k]
       IN  j \in JobSet /\ Serving(j)
  /\ \A k \in KBs :
       LET j == [Idle EXCEPT !.kind = "drop", !.pc = "count", !.kb = k]
       IN  j \in JobSet /\ Serving(j)
<1> USE MountsAssumption
<1>0. \A d \in Docs : d \in 0 .. MaxDocs
  BY DEF Docs
<1>1. /\ Idle \in JobSet /\ Serving(Idle) /\ Idle.doc = 0 /\ Idle.kind \in Kinds
      /\ Idle.pc \in Pcs /\ Idle.content \in Contents \cup {Idle.content}
      /\ Idle.kb \in KBs \cup {Idle.kb}
  BY DEF Idle, JobSet, Serving, Kinds, Pcs
<1> HIDE DEF Idle
<1>2. ASSUME NEW c \in Contents, NEW k \in KBs
      PROVE  LET j == [Idle EXCEPT !.kind = "upload", !.pc = "find", !.content = c, !.kb = k]
             IN  j \in JobSet /\ Serving(j)
  <2> DEFINE j == [Idle EXCEPT !.kind = "upload", !.pc = "find", !.content = c, !.kb = k]
  <2>1. j \in JobSet
    BY <1>0, <1>1 DEF JobSet, Kinds, Pcs
  <2>2. Serving(j)
    BY <1>1 DEF JobSet, Serving
  <2> QED
    BY <2>1, <2>2
<1>3. ASSUME NEW d \in Docs, NEW k \in KBs
      PROVE  LET j == [Idle EXCEPT !.kind = "unmount", !.pc = "unlink", !.doc = d, !.kb = k]
             IN  j \in JobSet /\ Serving(j)
  <2> DEFINE j == [Idle EXCEPT !.kind = "unmount", !.pc = "unlink", !.doc = d, !.kb = k]
  <2>1. j \in JobSet
    BY <1>0, <1>1 DEF JobSet, Kinds, Pcs
  <2>2. Serving(j)
    BY <1>1 DEF JobSet, Serving
  <2> QED
    BY <2>1, <2>2
<1>4. ASSUME NEW d \in Docs
      PROVE  LET j == [Idle EXCEPT !.kind = "purge", !.pc = "snapshot", !.doc = d]
             IN  j \in JobSet /\ Serving(j)
  <2> DEFINE j == [Idle EXCEPT !.kind = "purge", !.pc = "snapshot", !.doc = d]
  <2>1. j \in JobSet
    BY <1>0, <1>1 DEF JobSet, Kinds, Pcs
  <2>2. Serving(j)
    BY <1>1 DEF JobSet, Serving
  <2> QED
    BY <2>1, <2>2
<1>5. ASSUME NEW k \in KBs
      PROVE  LET j == [Idle EXCEPT !.kind = "create", !.pc = "register", !.kb = k]
             IN  j \in JobSet /\ Serving(j)
  <2> DEFINE j == [Idle EXCEPT !.kind = "create", !.pc = "register", !.kb = k]
  <2>1. j \in JobSet
    BY <1>0, <1>1 DEF JobSet, Kinds, Pcs
  <2>2. Serving(j)
    BY <1>1 DEF JobSet, Serving
  <2> QED
    BY <2>1, <2>2
<1>6. ASSUME NEW k \in KBs
      PROVE  LET j == [Idle EXCEPT !.kind = "drop", !.pc = "count", !.kb = k]
             IN  j \in JobSet /\ Serving(j)
  <2> DEFINE j == [Idle EXCEPT !.kind = "drop", !.pc = "count", !.kb = k]
  <2>1. j \in JobSet
    BY <1>0, <1>1 DEF JobSet, Kinds, Pcs
  <2>2. Serving(j)
    BY <1>1 DEF JobSet, Serving
  <2> QED
    BY <2>1, <2>2
<1> QED
  BY <1>1, <1>2, <1>3, <1>4, <1>5, <1>6

\* Whoever goes on, with a typed request, keeps the types of what every request changes.
LEMMA ContinuedTyped ==
  ASSUME NEW p \in Procs, TypeOK, NEW j \in JobSet, Serving(j), Continue(p, j)
  PROVE  JobsTyped' /\ MirrorTyped' /\ disturbed' \subseteq Resources
  BY Continued, TrackTyped DEF Continue, TypeOK, MirrorTyped

\* The move to a place of the same kind of request.
LEMMA GoneTyped ==
  ASSUME NEW p \in Procs, TypeOK, NEW pc \in Pcs, Goto(p, pc),
         Serving([job[p] EXCEPT !.pc = pc])
  PROVE  JobsTyped' /\ MirrorTyped' /\ disturbed' \subseteq Resources
<1>1. [job[p] EXCEPT !.pc = pc] \in JobSet
  BY DEF TypeOK, JobsTyped, JobSet
<1> QED
  BY <1>1, ContinuedTyped DEF Goto

LEMMA AnsweredTyped ==
  ASSUME NEW p \in Procs, TypeOK, Answer(p)
  PROVE  JobsTyped' /\ MirrorTyped' /\ disturbed' \subseteq Resources
<1>1. Idle \in JobSet /\ Serving(Idle)
  BY MountsAssumption DEF Idle, JobSet, Serving, Kinds, Pcs
<1> QED
  BY <1>1, ContinuedTyped DEF Answer

LEMMA CalledTyped ==
  ASSUME NEW p \in Procs, TypeOK, NEW pc \in Pcs, Called(p, pc),
         Serving([job[p] EXCEPT !.pc = pc])
  PROVE  JobsTyped' /\ MirrorTyped' /\ disturbed' \subseteq Resources
  BY GoneTyped, FailedTyped DEF Called

\* What the service holds and what is remembered of it, after each call.
LEMMA CallsTyped ==
  ASSUME TypeOK
  PROVE  /\ \A r \in Resources : Register(r) => ServiceTyped' /\ asked' \subseteq Pairs
         /\ \A d \in Docs, k \in KBs :
              Link(d, k) \/ Unlink(d, k) => ServiceTyped' /\ asked' \subseteq Pairs
         /\ \A r \in Resources : Retire(r) => ServiceTyped'
<1> USE DEF TypeOK, ServiceTyped, HistoryTyped
<1>1. ASSUME NEW r \in Resources, Register(r) PROVE ServiceTyped' /\ asked' \subseteq Pairs
  BY <1>1 DEF Register
<1>2. ASSUME NEW d \in Docs, NEW k \in KBs, Link(d, k)
      PROVE  ServiceTyped' /\ asked' \subseteq Pairs
  BY <1>2 DEF Link, Pairs
<1>3. ASSUME NEW d \in Docs, NEW k \in KBs, Unlink(d, k)
      PROVE  ServiceTyped' /\ asked' \subseteq Pairs
  BY <1>3 DEF Unlink, Pairs
<1>4. ASSUME NEW r \in Resources, Retire(r) PROVE ServiceTyped'
  BY <1>4 DEF Retire
<1> QED
  BY <1>1, <1>2, <1>3, <1>4

LEMMA TypeStep == TypeOK /\ [Next]_vars => TypeOK'
<1> SUFFICES ASSUME TypeOK, [Next]_vars PROVE TypeOK'
  OBVIOUS
<1> USE MountsAssumption
<1> DEFINE Moved == JobsTyped' /\ MirrorTyped' /\ disturbed' \subseteq Resources
<1>0. /\ Docs \subseteq Resources /\ KBs \subseteq Resources
      /\ Docs \subseteq Nat /\ ids \in Nat /\ docs \in Nat
      /\ \A d \in Docs : d \in 0 .. MaxDocs
  BY DEF Docs, Resources, TypeOK, CountsTyped
<1>a. \A m \in mounts : m.id \in Nat /\ m.id <= ids /\ m.doc \in Docs /\ m.kb \in KBs
  BY <1>0 DEF TypeOK, RowsTyped
<1>b. ids + 1 \in Nat
  BY <1>0
<1>1. ASSUME NEW p \in Procs, Serve(p) PROVE TypeOK'
  <2>0. job[p] \in JobSet /\ Serving(job[p])
    BY DEF TypeOK, JobsTyped
  <2>a. job[p].mark \in Nat /\ job[p].seen \in SUBSET Nat /\ job[p].mount \in Nat
    BY <2>0 DEF JobSet
  <2>1. CASE \/ BeginUpload(p) \/ BeginUnmount(p) \/ BeginPurge(p) \/ BeginCreate(p)
             \/ BeginDrop(p)
    <3>1. PICK j : Begin(p, j) /\ j \in JobSet /\ Serving(j)
      <4>0. \A d \in 1 .. docs : d \in Docs
        BY <1>0 DEF Docs, TypeOK, CountsTyped
      <4>1. kbs \subseteq KBs
        BY DEF TypeOK, RowsTyped
      <4> QED
        BY <2>1, <4>0, <4>1, Requested
           DEF BeginUpload, BeginUnmount, BeginPurge, BeginCreate, BeginDrop
    <3>2. Moved
      BY <3>1, ContinuedTyped DEF Begin
    <3> QED
      BY <3>1, <3>2 DEF Begin, TypeOK, rows, service, history, RowsTyped, ServiceTyped,
         CountsTyped, HistoryTyped
  <2>2. CASE FindDocument(p)
    <3>1. Moved
      <4>1. ASSUME NEW r \in documents,
                   Continue(p, [job[p] EXCEPT !.doc = r.doc, !.pc = "find mount"])
            PROVE  Moved
        <5>1. r.doc \in Docs
          BY DEF TypeOK, RowsTyped
        <5>2. job[p].pc = "find"
          BY <2>2 DEF FindDocument
        <5> QED
          BY <4>1, <5>1, <5>2, <2>0, Takes, ContinuedTyped
      <4>2. ASSUME docs < MaxDocs, Continue(p, [job[p] EXCEPT !.doc = docs + 1, !.pc = "store"])
            PROVE  Moved
        <5>1. docs + 1 \in Docs /\ docs + 1 \in 0 .. MaxDocs
          BY <4>2, <1>0 DEF Docs, TypeOK, CountsTyped
        <5>2. job[p].pc = "find"
          BY <2>2 DEF FindDocument
        <5> QED
          BY <4>2, <5>1, <5>2, <2>0, Takes, ContinuedTyped
      <4> QED
        BY <2>2, <4>1, <4>2 DEF FindDocument
    <3>2. docs' \in 0 .. MaxDocs
      <4>1. docs' = docs \/ (docs < MaxDocs /\ docs' = docs + 1)
        BY <2>2 DEF FindDocument
      <4> QED
        BY <4>1, <1>0 DEF TypeOK, CountsTyped
    <3> QED
      BY <2>2, <3>1, <3>2 DEF FindDocument, TypeOK, rows, service, history, RowsTyped,
         ServiceTyped, CountsTyped, HistoryTyped
  <2>3. CASE PutFile(p)
    <3>1. Moved
      BY <2>3, <2>0, Moves, Places, Takes, GoneTyped DEF PutFile, Pcs
    <3> QED
      BY <2>3, <2>0, <3>1, Places DEF PutFile, TypeOK, rows, service, counts, history,
         RowsTyped, ServiceTyped, CountsTyped, HistoryTyped
  <2>4. CASE RegisterDocument(p)
    <3>1. Moved
      BY <2>4, <2>0, Moves, Places, Takes, CalledTyped DEF RegisterDocument, Pcs
    <3> QED
      BY <2>4, <2>0, <3>1, Places, <1>0, CallsTyped
         DEF RegisterDocument, TypeOK, rows, service, counts, history,
         RowsTyped, ServiceTyped, CountsTyped, HistoryTyped, MirrorTyped
  <2>5. CASE InsertDocument(p)
    <3>1. Moved
      BY <2>5, <2>0, Moves, Places, Takes, GoneTyped, FailedTyped DEF InsertDocument, Pcs
    <3>2. RowsTyped'
      <4>1. job[p].doc \in Docs /\ job[p].content \in Contents
        BY <2>5, <2>0, Places DEF InsertDocument
      <4>2. documents' = documents
              \/ documents' = documents \cup {[doc |-> job[p].doc, content |-> job[p].content]}
        BY <2>5 DEF InsertDocument
      <4>3. UNCHANGED <<mounts, kbs, ids>>
        BY <2>5 DEF InsertDocument, counts
      <4> QED
        BY <4>1, <4>2, <4>3 DEF TypeOK, RowsTyped
    <3> QED
      BY <2>5, <3>1, <3>2 DEF InsertDocument, TypeOK, service, counts, history, ServiceTyped,
         CountsTyped, HistoryTyped
  <2>6. CASE FindMount(p)
    <3>1. Moved
      BY <2>6, <2>0, Moves, Places, Takes, <1>a, GoneTyped, ContinuedTyped
         DEF FindMount, Pcs, MountsOn
    <3> QED
      BY <2>6, <2>0, <3>1, Places DEF FindMount, TypeOK, rows, service, counts, history,
         RowsTyped, ServiceTyped, CountsTyped, HistoryTyped
  <2>7. CASE LinkMount(p)
    <3>1. Moved
      BY <2>7, <2>0, Moves, Places, Takes, CalledTyped DEF LinkMount, Pcs
    <3> QED
      BY <2>7, <2>0, <3>1, Places, CallsTyped DEF LinkMount, TypeOK, rows, service, counts, history,
         RowsTyped, ServiceTyped, CountsTyped, HistoryTyped
  <2>8. CASE InsertMount(p)
    <3>1. Moved
      BY <2>8, <2>0, Moves, Places, Takes, <1>b, FailedTyped, ContinuedTyped DEF InsertMount, Pcs
    <3>2. ids' \in 0 .. MaxMounts /\ ids <= ids'
      <4>1. ids' = ids \/ (ids < MaxMounts /\ ids' = ids + 1)
        BY <2>8 DEF InsertMount
      <4> QED
        BY <4>1, <1>0 DEF TypeOK, CountsTyped
    <3>3. mounts' = mounts \/ /\ ids' = ids + 1
                              /\ mounts' = mounts \cup
                                   {[id |-> ids + 1, doc |-> job[p].doc, kb |-> job[p].kb]}
      BY <2>8 DEF InsertMount
    <3>4. job[p].doc \in Docs /\ job[p].kb \in KBs
      BY <2>8, <2>0, Places DEF InsertMount
    <3>5. mounts' \subseteq [id : 1 .. ids', doc : Docs, kb : KBs]
      BY <1>0, <3>2, <3>3, <3>4 DEF TypeOK, RowsTyped
    <3> QED
      BY <2>8, <3>1, <3>2, <3>5 DEF InsertMount, TypeOK, service, counts, history, RowsTyped,
         ServiceTyped, CountsTyped, HistoryTyped
  <2>9. CASE RequestParse(p)
    <3>1. Moved
      BY <2>9, <2>0, Moves, Places, Takes, AnsweredTyped, FailedTyped DEF RequestParse, Pcs
    <3> QED
      BY <2>9, <2>0, <3>1, Places DEF RequestParse, TypeOK, rows, service, counts, history,
         RowsTyped, ServiceTyped, CountsTyped, HistoryTyped
  <2>10. CASE UnlinkMount(p)
    <3>1. Moved
      BY <2>10, <2>0, Moves, Places, Takes, CalledTyped, ContinuedTyped DEF UnlinkMount, Pcs
    <3> QED
      BY <2>10, <2>0, <3>1, Places, CallsTyped
         DEF UnlinkMount, TypeOK, rows, service, counts, history,
         RowsTyped, ServiceTyped, CountsTyped, HistoryTyped
  <2>11. CASE SelectMount(p)
    <3>1. Moved
      BY <2>11, <2>0, Moves, Places, Takes, <1>a, GoneTyped, ContinuedTyped
         DEF SelectMount, Pcs, MountsOn
    <3> QED
      BY <2>11, <2>0, <3>1, Places DEF SelectMount, TypeOK, rows, service, counts, history,
         RowsTyped, ServiceTyped, CountsTyped, HistoryTyped
  <2>12. CASE DeleteExecution(p)
    <3>1. Moved
      BY <2>12, <2>0, Moves, Places, Takes, GoneTyped DEF DeleteExecution, Pcs
    <3> QED
      BY <2>12, <2>0, <3>1, Places DEF DeleteExecution, TypeOK, rows, service, counts, history,
         RowsTyped, ServiceTyped, CountsTyped, HistoryTyped
  <2>13. CASE DeleteMount(p)
    <3>1. Moved
      BY <2>13, <2>0, Moves, Places, Takes, GoneTyped, FailedTyped DEF DeleteMount, Pcs
    <3> QED
      BY <2>13, <2>0, <3>1, Places DEF DeleteMount, TypeOK, rows, service, counts, history,
         RowsTyped, ServiceTyped, CountsTyped, HistoryTyped
  <2>14. CASE CountMounts(p)
    <3>1. Moved
      BY <2>14, <2>0, Moves, Places, Takes, <1>b, AnsweredTyped, ContinuedTyped DEF CountMounts, Pcs
    <3> QED
      BY <2>14, <2>0, <3>1, Places DEF CountMounts, TypeOK, rows, service, counts, history,
         RowsTyped, ServiceTyped, CountsTyped, HistoryTyped
  <2>15. CASE RetireUnmounted(p)
    <3>1. Moved
      BY <2>15, <2>0, Moves, Places, Takes, CalledTyped, GoneTyped DEF RetireUnmounted, Pcs
    <3>2. job[p].doc \in Docs /\ job[p].doc \in Resources
      BY <2>15, <2>0, <1>0, Places DEF RetireUnmounted
    <3>3. ServiceTyped'
      BY <2>15, <3>2, CallsTyped DEF RetireUnmounted, service, TypeOK, ServiceTyped
    <3>4. mark' \in [Docs -> Nat]
      BY <2>15, <3>2, <2>a DEF RetireUnmounted, Lesser, TypeOK, HistoryTyped
    <3> QED
      BY <2>15, <3>1, <3>3, <3>4 DEF RetireUnmounted, TypeOK, rows, counts, RowsTyped,
         CountsTyped, HistoryTyped
  <2>16. CASE SnapshotMounts(p)
    <3>1. Moved
      <4>1. {m.id : m \in MountsOf(job[p].doc)} \in SUBSET Nat /\ ids + 1 \in Nat
        BY <1>0, <1>a DEF MountsOf
      <4> QED
        BY <4>1, <2>16, <2>0, Takes, AnsweredTyped, ContinuedTyped DEF SnapshotMounts
    <3> QED
      BY <2>16, <2>0, <3>1, Places DEF SnapshotMounts, TypeOK, rows, service, counts, history,
         RowsTyped, ServiceTyped, CountsTyped, HistoryTyped
  <2>17. CASE RetirePurged(p)
    <3>1. Moved
      BY <2>17, <2>0, Moves, Places, Takes, CalledTyped DEF RetirePurged, Pcs
    <3> QED
      BY <2>17, <2>0, <3>1, Places, <1>0, CallsTyped
         DEF RetirePurged, TypeOK, rows, service, counts, history,
         RowsTyped, ServiceTyped, CountsTyped, HistoryTyped
  <2>18. CASE DeleteSnapshot(p)
    <3>1. Moved
      BY <2>18, <2>0, Moves, Places, Takes, <2>a, GoneTyped, FailedTyped, ContinuedTyped
         DEF DeleteSnapshot, Pcs
    <3> QED
      BY <2>18, <2>0, <3>1, Places DEF DeleteSnapshot, TypeOK, rows, service, counts, history,
         RowsTyped, ServiceTyped, CountsTyped, HistoryTyped
  <2>19. CASE DeleteFile(p)
    <3>1. Moved
      BY <2>19, <2>0, Moves, Places, Takes, GoneTyped DEF DeleteFile, Pcs
    <3> QED
      BY <2>19, <2>0, <3>1, Places, <2>a DEF DeleteFile, TypeOK, rows, service, counts, history,
         RowsTyped, ServiceTyped, CountsTyped, HistoryTyped, Lesser
  <2>20. CASE RegisterBase(p)
    <3>1. Moved
      BY <2>20, <2>0, Moves, Places, Takes, CalledTyped DEF RegisterBase, Pcs
    <3> QED
      BY <2>20, <2>0, <3>1, Places, <1>0, CallsTyped
         DEF RegisterBase, TypeOK, rows, service, counts, history,
         RowsTyped, ServiceTyped, CountsTyped, HistoryTyped
  <2>21. CASE InsertBase(p)
    <3>1. Moved
      BY <2>21, <2>0, Moves, Places, Takes, AnsweredTyped DEF InsertBase, Pcs
    <3> QED
      BY <2>21, <2>0, <3>1, Places DEF InsertBase, TypeOK, rows, service, counts, history,
         RowsTyped, ServiceTyped, CountsTyped, HistoryTyped
  <2>22. CASE CountBase(p)
    <3>1. Moved
      BY <2>22, <2>0, Moves, Places, Takes, AnsweredTyped, GoneTyped DEF CountBase, Pcs
    <3> QED
      BY <2>22, <2>0, <3>1, Places DEF CountBase, TypeOK, rows, service, counts, history,
         RowsTyped, ServiceTyped, CountsTyped, HistoryTyped
  <2>23. CASE RetireBase(p)
    <3>1. Moved
      BY <2>23, <2>0, Moves, Places, Takes, CalledTyped DEF RetireBase, Pcs
    <3> QED
      BY <2>23, <2>0, <3>1, Places, <1>0, CallsTyped
         DEF RetireBase, TypeOK, rows, service, counts, history,
         RowsTyped, ServiceTyped, CountsTyped, HistoryTyped
  <2>24. CASE DeleteBaseMounts(p)
    <3>1. Moved
      BY <2>24, <2>0, Moves, Places, Takes, GoneTyped, FailedTyped DEF DeleteBaseMounts, Pcs
    <3> QED
      BY <2>24, <2>0, <3>1, Places DEF DeleteBaseMounts, TypeOK, rows, service, counts, history,
         RowsTyped, ServiceTyped, CountsTyped, HistoryTyped
  <2>25. CASE DeleteBase(p)
    <3>1. Moved
      BY <2>25, <2>0, Moves, Places, Takes, AnsweredTyped, FailedTyped DEF DeleteBase, Pcs
    <3> QED
      BY <2>25, <2>0, <3>1, Places DEF DeleteBase, TypeOK, rows, service, counts, history,
         RowsTyped, ServiceTyped, CountsTyped, HistoryTyped
  <2>26. CASE DeleteDocument(p)
    <3>1. Moved
      BY <2>26, <2>0, Moves, Places, Takes, AnsweredTyped, FailedTyped DEF DeleteDocument, Pcs
    <3> QED
      BY <2>26, <2>0, <3>1, Places DEF DeleteDocument, TypeOK, rows, service, counts, history,
         RowsTyped, ServiceTyped, CountsTyped, HistoryTyped
  <2>27. CASE Stop(p)
    <3>1. Moved
      BY <2>27, <2>0, Moves, Places, Takes, FailedTyped DEF Stop, Pcs
    <3> QED
      BY <2>27, <2>0, <3>1, Places DEF Stop, TypeOK, rows, service, counts, history,
         RowsTyped, ServiceTyped, CountsTyped, HistoryTyped
  <2> QED
    BY <1>1, <2>1, <2>2, <2>3, <2>4, <2>5, <2>6, <2>7, <2>8, <2>9, <2>10, <2>11, <2>12, <2>13,
       <2>14, <2>15, <2>16, <2>17, <2>18, <2>19, <2>20, <2>21, <2>22, <2>23, <2>24, <2>25,
       <2>26, <2>27
       DEF Serve, Upload, Unmount, Purge, Base
<1>2. CASE Sample \/ FindsGap \/ ClosesGap \/ PassesOver
  <2> USE DEF TypeOK, rows, service, counts, history, RowsTyped, ServiceTyped, CountsTyped,
              HistoryTyped
  <2>1. CASE Sample
    <3>1. MirrorTyped'
      BY <2>1 DEF Sample, MirrorTyped, Pairs
    <3> QED
      BY <2>1, <3>1, TrackTyped DEF Sample, JobsTyped
  <2>2. CASE FindsGap
    <3>1. MirrorTyped'
      BY <2>2 DEF FindsGap, FindGap, MirrorTyped, Pairs
    <3> QED
      BY <2>2, <3>1, TrackTyped DEF FindsGap, FindGap, JobsTyped
  <2>3. CASE ClosesGap
    <3>1. MirrorTyped'
      BY <2>3 DEF ClosesGap, CloseGap, MirrorTyped, Pairs
    <3> QED
      BY <2>3, <3>1, TrackTyped, CallsTyped DEF ClosesGap, CloseGap, JobsTyped
  <2>4. CASE PassesOver
    <3>1. MirrorTyped'
      BY <2>4 DEF PassesOver, PassOver, MirrorTyped, Pairs
    <3> QED
      BY <2>4, <3>1, TrackTyped DEF PassesOver, PassOver, JobsTyped
  <2> QED
    BY <1>2, <2>1, <2>2, <2>3, <2>4
<1>3. CASE UNCHANGED vars
  BY <1>3 DEF vars, rows, service, counts, history, TypeOK, JobsTyped, RowsTyped, ServiceTyped,
     CountsTyped, HistoryTyped, MirrorTyped
<1> QED
  BY <1>1, <1>2, <1>3 DEF Next

\* Type correctness of documents, mounts and knowledge bases, of the requests on them and of the
\* reconciliation, for any number of threads, contents and knowledge bases.
THEOREM TypeCorrect == Spec => []TypeOK
  BY InitTyped, TypeStep, PTL DEF Spec

-----------------------------------------------------------------------------
(* Where requests go *)

At(p, kind, pc) == job[p].kind = kind /\ job[p].pc = pc
Over(p) == job'[p] = Idle
Same(p) ==
    /\ job'[p].doc = job[p].doc /\ job'[p].kb = job[p].kb
    /\ job'[p].seen = job[p].seen /\ job'[p].mark = job[p].mark

\* While a thread goes on the others stand still, and so does the reconciliation.
LEMMA OthersStand ==
  ASSUME NEW p \in Procs, TypeOK, Serve(p)
  PROVE  /\ \A q \in Procs \ {p} : job'[q] = job[q]
         /\ mirror' = mirror
         /\ \E failed : Track(failed)
<1>1. /\ (\E j : Continue(p, j)) \/ Fails(p)
  BY DEF Serve, Upload, Unmount, Purge, Base, Begin, BeginUpload, BeginUnmount, BeginPurge,
     BeginCreate, BeginDrop, FindDocument, PutFile, RegisterDocument, InsertDocument, FindMount,
     LinkMount, InsertMount, RequestParse, UnlinkMount, SelectMount, DeleteExecution,
     DeleteMount, CountMounts, RetireUnmounted, SnapshotMounts, RetirePurged, DeleteSnapshot,
     DeleteFile, DeleteDocument, RegisterBase, InsertBase, CountBase, RetireBase,
     DeleteBaseMounts, DeleteBase, Stop, Called, Goto, Answer
<1> QED
  BY <1>1 DEF Continue, Fails, TypeOK, JobsTyped

\* What a request has when it goes on, by the record it goes on with.
LEMMA Went ==
  ASSUME NEW p \in Procs, TypeOK
  PROVE  /\ \A pc \in Pcs : Goto(p, pc) =>
              At(p, job[p].kind, pc)' /\ job'[p].kind = job[p].kind /\ Same(p)
         /\ \A j : Continue(p, j) => job'[p] = j
         /\ Answer(p) \/ Fails(p) => Over(p)
<1>1. job[p] \in JobSet /\ \A j : job' = [job EXCEPT ![p] = j] => job'[p] = j
  BY DEF TypeOK, JobsTyped
<1>2. ASSUME NEW pc \in Pcs, Goto(p, pc)
      PROVE  At(p, job[p].kind, pc)' /\ job'[p].kind = job[p].kind /\ Same(p)
  <2>1. job'[p] = [job[p] EXCEPT !.pc = pc]
    BY <1>1, <1>2 DEF Goto, Continue
  <2> QED
    BY <1>1, <2>1 DEF At, Same, JobSet
<1> QED
  BY <1>1, <1>2 DEF Continue, Answer, Fails, Over

\* The requests that a thread takes.
LEMMA TakenMoves ==
  ASSUME NEW p \in Procs, TypeOK
  PROVE  /\ (BeginUpload(p) =>
              /\ job[p].pc = "idle"
              /\ At(p, "upload", "find")' /\ job'[p].kb \in kbs /\ job'[p].doc = 0)
         /\ (BeginUnmount(p) =>
              /\ job[p].pc = "idle"
              /\ At(p, "unmount", "unlink")' /\ job'[p].doc \in 1 .. docs
              /\ HasRow(job'[p].doc) \/ <<job'[p].doc, job'[p].kb>> \in linked)
         /\ (BeginPurge(p) =>
              /\ job[p].pc = "idle"
              /\ At(p, "purge", "snapshot")' /\ job'[p].doc \in 1 .. docs
              /\ HasRow(job'[p].doc))
         /\ (BeginCreate(p) =>
              /\ job[p].pc = "idle"
              /\ At(p, "create", "register")' /\ job'[p].kb \in KBs \ kbs /\ job'[p].doc = 0
              /\ registered[job'[p].kb] = "unknown"
              /\ \A q \in Procs : job[q].kind = "create" => job[q].kb # job'[p].kb)
         /\ (BeginDrop(p) =>
              /\ job[p].pc = "idle"
              /\ At(p, "drop", "count")' /\ job'[p].kb \in kbs /\ job'[p].doc = 0)
<1>0. /\ job[p] \in JobSet /\ Serving(job[p]) /\ job[p].mark \in Nat /\ job[p].seen \in SUBSET Nat
      /\ ids \in Nat /\ docs \in Nat
  BY DEF TypeOK, JobsTyped, JobSet, CountsTyped
<1>1. ASSUME BeginUpload(p)
      PROVE  /\ job[p].pc = "idle"
             /\ At(p, "upload", "find")' /\ job'[p].kb \in kbs /\ job'[p].doc = 0
  <2>1. PICK c \in Contents, k \in kbs :
          Begin(p, [Idle EXCEPT !.kind = "upload", !.pc = "find", !.content = c,
                                          !.kb = k])
    BY <1>1 DEF BeginUpload
  <2>2. job'[p] = [Idle EXCEPT !.kind = "upload", !.pc = "find", !.content = c,
                                          !.kb = k]
    BY <2>1, Went DEF Begin
  <2>3. At(p, "upload", "find")' /\ job'[p].kb = k /\ job'[p].doc = 0
    BY <2>2 DEF At, Idle
  <2> QED
    BY <2>1, <2>3 DEF Begin, Active
<1>2. ASSUME BeginUnmount(p)
      PROVE  /\ job[p].pc = "idle"
             /\ At(p, "unmount", "unlink")' /\ job'[p].doc \in 1 .. docs
             /\ HasRow(job'[p].doc) \/ <<job'[p].doc, job'[p].kb>> \in linked
  <2>1. PICK d \in 1 .. docs, k \in KBs :
          Begin(p, [Idle EXCEPT !.kind = "unmount", !.pc = "unlink", !.doc = d,
                                          !.kb = k]) /\ (HasRow(d) \/ <<d, k>> \in linked)
    BY <1>2 DEF BeginUnmount
  <2>2. job'[p] = [Idle EXCEPT !.kind = "unmount", !.pc = "unlink", !.doc = d,
                                          !.kb = k]
    BY <2>1, Went DEF Begin
  <2>3. At(p, "unmount", "unlink")' /\ job'[p].kb = k /\ job'[p].doc = d
    BY <2>2 DEF At, Idle
  <2> QED
    BY <2>1, <2>3 DEF Begin, Active
<1>3. ASSUME BeginPurge(p)
      PROVE  /\ job[p].pc = "idle"
             /\ At(p, "purge", "snapshot")' /\ job'[p].doc \in 1 .. docs
             /\ HasRow(job'[p].doc)
  <2>1. PICK d \in 1 .. docs :
          Begin(p, [Idle EXCEPT !.kind = "purge", !.pc = "snapshot", !.doc = d]) /\ HasRow(d)
    BY <1>3 DEF BeginPurge
  <2>2. job'[p] = [Idle EXCEPT !.kind = "purge", !.pc = "snapshot", !.doc = d]
    BY <2>1, Went DEF Begin
  <2>3. At(p, "purge", "snapshot")' /\ job'[p].doc = d
    BY <2>2 DEF At, Idle
  <2> QED
    BY <2>1, <2>3 DEF Begin, Active
<1>4. ASSUME BeginCreate(p)
      PROVE  /\ job[p].pc = "idle"
             /\ At(p, "create", "register")' /\ job'[p].kb \in KBs \ kbs /\ job'[p].doc = 0
             /\ registered[job'[p].kb] = "unknown"
             /\ \A q \in Procs : job[q].kind = "create" => job[q].kb # job'[p].kb
  <2>1. PICK k \in KBs \ kbs :
          Begin(p, [Idle EXCEPT !.kind = "create", !.pc = "register", !.kb = k])
                     /\ registered[k] = "unknown"
                     /\ \A q \in Procs : job[q].kind = "create" => job[q].kb # k
    BY <1>4 DEF BeginCreate
  <2>2. job'[p] = [Idle EXCEPT !.kind = "create", !.pc = "register", !.kb = k]
    BY <2>1, Went DEF Begin
  <2>3. At(p, "create", "register")' /\ job'[p].kb = k /\ job'[p].doc = 0
    BY <2>2 DEF At, Idle
  <2> QED
    BY <2>1, <2>3 DEF Begin, Active
<1>5. ASSUME BeginDrop(p)
      PROVE  /\ job[p].pc = "idle"
             /\ At(p, "drop", "count")' /\ job'[p].kb \in kbs /\ job'[p].doc = 0
  <2>1. PICK k \in kbs : Begin(p, [Idle EXCEPT !.kind = "drop", !.pc = "count", !.kb = k])
    BY <1>5 DEF BeginDrop
  <2>2. job'[p] = [Idle EXCEPT !.kind = "drop", !.pc = "count", !.kb = k]
    BY <2>1, Went DEF Begin
  <2>3. At(p, "drop", "count")' /\ job'[p].kb = k /\ job'[p].doc = 0
    BY <2>2 DEF At, Idle
  <2> QED
    BY <2>1, <2>3 DEF Begin, Active
<1> QED
  BY <1>1, <1>2, <1>3, <1>4, <1>5

\* Where an upload goes from each of its statements and calls.
LEMMA UploadMoves ==
  ASSUME NEW p \in Procs, TypeOK
  PROVE  /\ (FindDocument(p) =>
              /\ At(p, "upload", "find")
              /\ \/ /\ At(p, "upload", "store")' /\ job'[p].doc = docs + 1 /\ job'[p].kb = job[p].kb
                 \/ /\ At(p, "upload", "find mount")' /\ job'[p].kb = job[p].kb
                    /\ \E r \in documents : r.doc = job'[p].doc)
         /\ (PutFile(p) =>
              /\ At(p, "upload", "store")
              /\ At(p, "upload", "register")' /\ Same(p))
         /\ (RegisterDocument(p) =>
              /\ At(p, "upload", "register")
              /\ \/ At(p, "upload", "insert")' /\ Same(p)
                 \/ Over(p))
         /\ (InsertDocument(p) =>
              /\ At(p, "upload", "insert")
              /\ \/ At(p, "upload", "find mount")' /\ Same(p)
                 \/ Over(p))
         /\ (FindMount(p) =>
              /\ At(p, "upload", "find mount")
              /\ \/ At(p, "upload", "link")' /\ Same(p)
                 \/ At(p, "upload", "parse")' /\ Same(p))
         /\ (LinkMount(p) =>
              /\ At(p, "upload", "link")
              /\ \/ At(p, "upload", "insert mount")' /\ Same(p)
                 \/ Over(p))
         /\ (InsertMount(p) =>
              /\ At(p, "upload", "insert mount")
              /\ \/ At(p, "upload", "parse")' /\ Same(p)
                 \/ Over(p))
         /\ (RequestParse(p) => At(p, "upload", "parse") /\ Over(p))
<1>0. /\ job[p] \in JobSet /\ Serving(job[p]) /\ job[p].mark \in Nat /\ job[p].seen \in SUBSET Nat
      /\ ids \in Nat /\ docs \in Nat
  BY DEF TypeOK, JobsTyped, JobSet, CountsTyped
<1>1. ASSUME FindDocument(p)
      PROVE  /\ At(p, "upload", "find")
             /\ \/ /\ At(p, "upload", "store")' /\ job'[p].doc = docs + 1 /\ job'[p].kb = job[p].kb
                \/ /\ At(p, "upload", "find mount")' /\ job'[p].kb = job[p].kb
                   /\ \E r \in documents : r.doc = job'[p].doc
  <2>1. ASSUME Continue(p, [job[p] EXCEPT !.doc = docs + 1, !.pc = "store"])
        PROVE  job'[p].kind = job[p].kind /\ job'[p].pc = "store" /\ job'[p].doc = docs + 1
               /\ job'[p].kb = job[p].kb
    <3>1. job'[p] = [job[p] EXCEPT !.doc = docs + 1, !.pc = "store"]
      BY <2>1, Went
    <3> QED
      BY <3>1, <2>1, <1>0 DEF JobSet, At, Same
  <2>2. ASSUME NEW r \in documents, Continue(p, [job[p] EXCEPT !.doc = r.doc, !.pc = "find mount"])
        PROVE  /\ job'[p].kind = job[p].kind /\ job'[p].pc = "find mount"
               /\ job'[p].doc = r.doc /\ job'[p].kb = job[p].kb
    <3>1. job'[p] = [job[p] EXCEPT !.doc = r.doc, !.pc = "find mount"]
      BY <2>2, Went
    <3> QED
      BY <3>1, <2>2, <1>0 DEF JobSet, At, Same
  <2>a. job[p].pc # "idle" /\ Serving(job[p])
    BY <1>1, <1>0 DEF FindDocument
  <2> QED
    BY <1>1, <2>1, <2>2, <1>0, Went, Places DEF FindDocument, At, Called, Pcs
<1>2. ASSUME PutFile(p)
      PROVE  /\ At(p, "upload", "store")
             /\ At(p, "upload", "register")' /\ Same(p)
  BY <1>2, <1>0, Went, Places DEF PutFile, At, Over, Called, Pcs
<1>3. ASSUME RegisterDocument(p)
      PROVE  /\ At(p, "upload", "register")
             /\ \/ At(p, "upload", "insert")' /\ Same(p)
                \/ Over(p)
  BY <1>3, <1>0, Went, Places DEF RegisterDocument, At, Over, Called, Pcs
<1>4. ASSUME InsertDocument(p)
      PROVE  /\ At(p, "upload", "insert")
             /\ \/ At(p, "upload", "find mount")' /\ Same(p)
                \/ Over(p)
  BY <1>4, <1>0, Went, Places DEF InsertDocument, At, Over, Called, Pcs
<1>5. ASSUME FindMount(p)
      PROVE  /\ At(p, "upload", "find mount")
             /\ \/ At(p, "upload", "link")' /\ Same(p)
                \/ At(p, "upload", "parse")' /\ Same(p)
  <2>1. ASSUME NEW m \in mounts, Continue(p, [job[p] EXCEPT !.mount = m.id, !.pc = "parse"])
        PROVE  job'[p].kind = job[p].kind /\ Same(p) /\ job'[p].pc = "parse"
    <3>1. job'[p] = [job[p] EXCEPT !.mount = m.id, !.pc = "parse"]
      BY <2>1, Went
    <3> QED
      BY <3>1, <2>1, <1>0 DEF JobSet, At, Same
  <2>a. job[p].pc # "idle" /\ Serving(job[p])
    BY <1>5, <1>0 DEF FindMount
  <2> QED
    BY <1>5, <2>1, <1>0, Went, Places DEF FindMount, At, Called, Pcs, MountsOn
<1>6. ASSUME LinkMount(p)
      PROVE  /\ At(p, "upload", "link")
             /\ \/ At(p, "upload", "insert mount")' /\ Same(p)
                \/ Over(p)
  BY <1>6, <1>0, Went, Places DEF LinkMount, At, Over, Called, Pcs
<1>7. ASSUME InsertMount(p)
      PROVE  /\ At(p, "upload", "insert mount")
             /\ \/ At(p, "upload", "parse")' /\ Same(p)
                \/ Over(p)
  <2>1. ASSUME Continue(p, [job[p] EXCEPT !.mount = ids + 1, !.pc = "parse"])
        PROVE  job'[p].kind = job[p].kind /\ Same(p) /\ job'[p].pc = "parse"
    <3>1. job'[p] = [job[p] EXCEPT !.mount = ids + 1, !.pc = "parse"]
      BY <2>1, Went
    <3> QED
      BY <3>1, <2>1, <1>0 DEF JobSet, At, Same
  <2>a. job[p].pc # "idle" /\ Serving(job[p])
    BY <1>7, <1>0 DEF InsertMount
  <2> QED
    BY <1>7, <2>1, <1>0, Went, Places DEF InsertMount, At, Called, Pcs
<1>8. ASSUME RequestParse(p)
      PROVE  At(p, "upload", "parse") /\ Over(p)
  BY <1>8, <1>0, Went, Places DEF RequestParse, At, Over, Called, Pcs
<1> QED
  BY <1>1, <1>2, <1>3, <1>4, <1>5, <1>6, <1>7, <1>8

\* Where a removal from one knowledge base goes.
LEMMA UnmountMoves ==
  ASSUME NEW p \in Procs, TypeOK
  PROVE  /\ (UnlinkMount(p) =>
              /\ At(p, "unmount", "unlink")
              /\ \/ At(p, "unmount", "select")' /\ Same(p)
                 \/ Over(p))
         /\ (SelectMount(p) =>
              /\ At(p, "unmount", "select")
              /\ \/ At(p, "unmount", "delete execution")' /\ Same(p)
                 \/ At(p, "unmount", "delete mount")' /\ Same(p))
         /\ (DeleteExecution(p) =>
              /\ At(p, "unmount", "delete execution")
              /\ At(p, "unmount", "delete mount")' /\ Same(p))
         /\ (DeleteMount(p) =>
              /\ At(p, "unmount", "delete mount")
              /\ \/ At(p, "unmount", "count")' /\ Same(p)
                 \/ Over(p))
         /\ (CountMounts(p) =>
              /\ At(p, "unmount", "count")
              /\ \/ /\ At(p, "unmount", "retire")'
                    /\ job'[p].doc = job[p].doc /\ job'[p].kb = job[p].kb
                    /\ job'[p].mark = ids + 1
                 \/ Over(p))
         /\ (RetireUnmounted(p) =>
              /\ At(p, "unmount", "retire")
              /\ \/ At(p, "unmount", "delete row")' /\ Same(p)
                 \/ Over(p))
<1>0. /\ job[p] \in JobSet /\ Serving(job[p]) /\ job[p].mark \in Nat /\ job[p].seen \in SUBSET Nat
      /\ ids \in Nat /\ docs \in Nat
  BY DEF TypeOK, JobsTyped, JobSet, CountsTyped
<1>1. ASSUME UnlinkMount(p)
      PROVE  /\ At(p, "unmount", "unlink")
             /\ \/ At(p, "unmount", "select")' /\ Same(p)
                \/ Over(p)
  <2>1. ASSUME Continue(p, [job[p] EXCEPT !.warned = TRUE, !.pc = "select"])
        PROVE  job'[p].kind = job[p].kind /\ Same(p) /\ job'[p].pc = "select"
    <3>1. job'[p] = [job[p] EXCEPT !.warned = TRUE, !.pc = "select"]
      BY <2>1, Went
    <3> QED
      BY <3>1, <2>1, <1>0 DEF JobSet, At, Same
  <2>a. job[p].pc # "idle" /\ Serving(job[p])
    BY <1>1, <1>0 DEF UnlinkMount
  <2> QED
    BY <1>1, <2>1, <1>0, Went, Places DEF UnlinkMount, At, Called, Pcs
<1>2. ASSUME SelectMount(p)
      PROVE  /\ At(p, "unmount", "select")
             /\ \/ At(p, "unmount", "delete execution")' /\ Same(p)
                \/ At(p, "unmount", "delete mount")' /\ Same(p)
  <2>1. ASSUME NEW m \in mounts,
               Continue(p, [job[p] EXCEPT !.mount = m.id, !.pc = "delete execution"])
        PROVE  job'[p].kind = job[p].kind /\ Same(p) /\ job'[p].pc = "delete execution"
    <3>1. job'[p] = [job[p] EXCEPT !.mount = m.id, !.pc = "delete execution"]
      BY <2>1, Went
    <3> QED
      BY <3>1, <2>1, <1>0 DEF JobSet, At, Same
  <2>a. job[p].pc # "idle" /\ Serving(job[p])
    BY <1>2, <1>0 DEF SelectMount
  <2> QED
    BY <1>2, <2>1, <1>0, Went, Places DEF SelectMount, At, Called, Pcs, MountsOn
<1>3. ASSUME DeleteExecution(p)
      PROVE  /\ At(p, "unmount", "delete execution")
             /\ At(p, "unmount", "delete mount")' /\ Same(p)
  BY <1>3, <1>0, Went, Places DEF DeleteExecution, At, Over, Called, Pcs
<1>4. ASSUME DeleteMount(p)
      PROVE  /\ At(p, "unmount", "delete mount")
             /\ \/ At(p, "unmount", "count")' /\ Same(p)
                \/ Over(p)
  BY <1>4, <1>0, Went, Places DEF DeleteMount, At, Over, Called, Pcs
<1>5. ASSUME CountMounts(p)
      PROVE  /\ At(p, "unmount", "count")
             /\ \/ /\ At(p, "unmount", "retire")'
                   /\ job'[p].doc = job[p].doc /\ job'[p].kb = job[p].kb
                   /\ job'[p].mark = ids + 1
                \/ Over(p)
  <2>1. ASSUME Continue(p, [job[p] EXCEPT !.mark = ids + 1, !.pc = "retire"])
        PROVE  job'[p].kind = job[p].kind /\ job'[p].doc = job[p].doc /\ job'[p].kb = job[p].kb
               /\ job'[p].mark = ids + 1 /\ job'[p].pc = "retire"
    <3>1. job'[p] = [job[p] EXCEPT !.mark = ids + 1, !.pc = "retire"]
      BY <2>1, Went
    <3> QED
      BY <3>1, <2>1, <1>0 DEF JobSet, At, Same
  <2>a. job[p].pc # "idle" /\ Serving(job[p])
    BY <1>5, <1>0 DEF CountMounts
  <2> QED
    BY <1>5, <2>1, <1>0, Went, Places DEF CountMounts, At, Called, Pcs
<1>6. ASSUME RetireUnmounted(p)
      PROVE  /\ At(p, "unmount", "retire")
             /\ \/ At(p, "unmount", "delete row")' /\ Same(p)
                \/ Over(p)
  BY <1>6, <1>0, Went, Places DEF RetireUnmounted, At, Over, Called, Pcs
<1> QED
  BY <1>1, <1>2, <1>3, <1>4, <1>5, <1>6

\* Where a purge goes, and where both removals end.
LEMMA PurgeMoves ==
  ASSUME NEW p \in Procs, TypeOK
  PROVE  /\ (SnapshotMounts(p) =>
              /\ At(p, "purge", "snapshot")
              /\ \/ /\ At(p, "purge", "retire")' /\ job'[p].doc = job[p].doc
                    /\ job'[p].seen = {m.id : m \in MountsOf(job[p].doc)} /\ job'[p].mark = ids + 1
                 \/ Over(p))
         /\ (RetirePurged(p) =>
              /\ At(p, "purge", "retire")
              /\ \/ At(p, "purge", "delete mounts")' /\ Same(p)
                 \/ Over(p))
         /\ (DeleteSnapshot(p) =>
              /\ At(p, "purge", "delete mounts")
              /\ \/ /\ At(p, "purge", "delete mounts")' /\ job'[p].doc = job[p].doc
                    /\ job'[p].mark = job[p].mark
                    /\ \E i \in job[p].seen : /\ job'[p].seen = job[p].seen \ {i}
                                             /\ mounts' = {m \in mounts : m.id # i}
                 \/ /\ At(p, "purge", "delete file")' /\ Same(p) /\ job[p].seen = {}
                    /\ mounts' = mounts
                 \/ Over(p) /\ mounts' = mounts)
         /\ (DeleteFile(p) =>
              /\ At(p, "purge", "delete file")
              /\ At(p, "purge", "delete row")' /\ Same(p))
         /\ (DeleteDocument(p) =>
              job[p].kind \in {"unmount", "purge"} /\ job[p].pc = "delete row" /\ Over(p))
<1>0. /\ job[p] \in JobSet /\ Serving(job[p]) /\ job[p].mark \in Nat /\ job[p].seen \in SUBSET Nat
      /\ ids \in Nat /\ docs \in Nat
  BY DEF TypeOK, JobsTyped, JobSet, CountsTyped
<1>1. ASSUME SnapshotMounts(p)
      PROVE  /\ At(p, "purge", "snapshot")
             /\ \/ /\ At(p, "purge", "retire")' /\ job'[p].doc = job[p].doc
                   /\ job'[p].seen = {m.id : m \in MountsOf(job[p].doc)} /\ job'[p].mark = ids + 1
                \/ Over(p)
  <2> DEFINE S == {m.id : m \in MountsOf(job[p].doc)}
  <2>1. CASE Answer(p)
    BY <1>1, <2>1, Went, <1>0, Places DEF SnapshotMounts, At
  <2>2. CASE Continue(p, [job[p] EXCEPT !.seen = S, !.mark = ids + 1, !.pc = "retire"])
    <3> HIDE DEF S
    <3>1. job'[p] = [job[p] EXCEPT !.seen = S, !.mark = ids + 1, !.pc = "retire"]
      BY <2>2, Went
    <3>2. /\ job'[p].kind = job[p].kind /\ job'[p].pc = "retire" /\ job'[p].doc = job[p].doc
          /\ job'[p].seen = S /\ job'[p].mark = ids + 1
      BY <3>1, <1>0 DEF JobSet
    <3> QED
      BY <1>1, <3>2, <1>0, Places DEF SnapshotMounts, At, S
  <2> QED
    BY <1>1, <2>1, <2>2 DEF SnapshotMounts
<1>2. ASSUME RetirePurged(p)
      PROVE  /\ At(p, "purge", "retire")
             /\ \/ At(p, "purge", "delete mounts")' /\ Same(p)
                \/ Over(p)
  BY <1>2, <1>0, Went, Places DEF RetirePurged, At, Over, Called, Pcs
<1>3. ASSUME DeleteSnapshot(p)
      PROVE  /\ At(p, "purge", "delete mounts")
             /\ \/ /\ At(p, "purge", "delete mounts")' /\ job'[p].doc = job[p].doc
                   /\ job'[p].mark = job[p].mark
                   /\ \E i \in job[p].seen : /\ job'[p].seen = job[p].seen \ {i}
                                            /\ mounts' = {m \in mounts : m.id # i}
                \/ /\ At(p, "purge", "delete file")' /\ Same(p) /\ job[p].seen = {}
                   /\ mounts' = mounts
                \/ Over(p) /\ mounts' = mounts
  <2>0. At(p, "purge", "delete mounts")
    BY <1>3, <1>0, Places DEF DeleteSnapshot, At
  <2>1. ASSUME NEW i \in job[p].seen, Continue(p, [job[p] EXCEPT !.seen = @ \ {i}])
        PROVE  /\ job'[p].kind = job[p].kind /\ job'[p].pc = job[p].pc
               /\ job'[p].doc = job[p].doc /\ job'[p].mark = job[p].mark
               /\ job'[p].seen = job[p].seen \ {i}
    <3>1. job'[p] = [job[p] EXCEPT !.seen = @ \ {i}]
      BY <2>1, Went
    <3> QED
      BY <3>1, <1>0 DEF JobSet
  <2>2. CASE \E i \in job[p].seen : /\ mounts' = {m \in mounts : m.id # i}
                                  /\ Continue(p, [job[p] EXCEPT !.seen = @ \ {i}])
    BY <2>0, <2>1, <2>2 DEF At
  <2>3. CASE Fails(p) /\ mounts' = mounts
    BY <2>0, <2>3, Went
  <2>4. CASE job[p].seen = {} /\ Goto(p, "delete file") /\ mounts' = mounts
    BY <2>0, <2>4, Went DEF At, Pcs
  <2> QED
    BY <1>3, <2>2, <2>3, <2>4 DEF DeleteSnapshot
<1>4. ASSUME DeleteFile(p)
      PROVE  /\ At(p, "purge", "delete file")
             /\ At(p, "purge", "delete row")' /\ Same(p)
  BY <1>4, <1>0, Went, Places DEF DeleteFile, At, Over, Called, Pcs
<1>5. ASSUME DeleteDocument(p)
      PROVE  job[p].kind \in {"unmount", "purge"} /\ job[p].pc = "delete row" /\ Over(p)
  BY <1>5, <1>0, Went, Places DEF DeleteDocument, At, Over, Called, Pcs
<1> QED
  BY <1>1, <1>2, <1>3, <1>4, <1>5

\* Where the creation and the deletion of a knowledge base go, and every request that fails.
LEMMA BaseMoves ==
  ASSUME NEW p \in Procs, TypeOK
  PROVE  /\ (RegisterBase(p) =>
              /\ At(p, "create", "register")
              /\ \/ At(p, "create", "insert")' /\ Same(p)
                 \/ Over(p))
         /\ (InsertBase(p) => At(p, "create", "insert") /\ Over(p))
         /\ (CountBase(p) =>
              /\ At(p, "drop", "count")
              /\ \/ At(p, "drop", "retire")' /\ Same(p)
                 \/ Over(p))
         /\ (RetireBase(p) =>
              /\ At(p, "drop", "retire")
              /\ \/ At(p, "drop", "delete base mounts")' /\ Same(p)
                 \/ Over(p))
         /\ (DeleteBaseMounts(p) =>
              /\ At(p, "drop", "delete base mounts")
              /\ \/ At(p, "drop", "delete base")' /\ Same(p)
                 \/ Over(p))
         /\ (DeleteBase(p) => At(p, "drop", "delete base") /\ Over(p))
         /\ (Stop(p) => Active(p) /\ Over(p))
<1>0. /\ job[p] \in JobSet /\ Serving(job[p]) /\ job[p].mark \in Nat /\ job[p].seen \in SUBSET Nat
      /\ ids \in Nat /\ docs \in Nat
  BY DEF TypeOK, JobsTyped, JobSet, CountsTyped
<1>1. ASSUME RegisterBase(p)
      PROVE  /\ At(p, "create", "register")
             /\ \/ At(p, "create", "insert")' /\ Same(p)
                \/ Over(p)
  BY <1>1, <1>0, Went, Places DEF RegisterBase, At, Over, Called, Pcs
<1>2. ASSUME InsertBase(p)
      PROVE  At(p, "create", "insert") /\ Over(p)
  BY <1>2, <1>0, Went, Places DEF InsertBase, At, Over, Called, Pcs
<1>3. ASSUME CountBase(p)
      PROVE  /\ At(p, "drop", "count")
             /\ \/ At(p, "drop", "retire")' /\ Same(p)
                \/ Over(p)
  BY <1>3, <1>0, Went, Places DEF CountBase, At, Over, Called, Pcs
<1>4. ASSUME RetireBase(p)
      PROVE  /\ At(p, "drop", "retire")
             /\ \/ At(p, "drop", "delete base mounts")' /\ Same(p)
                \/ Over(p)
  BY <1>4, <1>0, Went, Places DEF RetireBase, At, Over, Called, Pcs
<1>5. ASSUME DeleteBaseMounts(p)
      PROVE  /\ At(p, "drop", "delete base mounts")
             /\ \/ At(p, "drop", "delete base")' /\ Same(p)
                \/ Over(p)
  BY <1>5, <1>0, Went, Places DEF DeleteBaseMounts, At, Over, Called, Pcs
<1>6. ASSUME DeleteBase(p)
      PROVE  At(p, "drop", "delete base") /\ Over(p)
  BY <1>6, <1>0, Went, Places DEF DeleteBase, At, Over, Called, Pcs
<1>7. ASSUME Stop(p)
      PROVE  Active(p) /\ Over(p)
  BY <1>7, <1>0, Went, Places DEF Stop, At, Over, Called, Pcs
<1> QED
  BY <1>1, <1>2, <1>3, <1>4, <1>5, <1>6, <1>7

-----------------------------------------------------------------------------
(* Mounts and their numbers *)

\* The mounts after a step are mounts that were there, and the one a request inserts, whose
\* number is new.
LEMMA NewMount ==
  ASSUME TypeOK, [Next]_vars
  PROVE  /\ ids' \in {ids, ids + 1}
         /\ \A m \in mounts' : m \notin mounts =>
              /\ ids' = ids + 1 /\ m.id = ids + 1
              /\ \E p \in Procs : /\ InsertMount(p) /\ HasRow(job[p].doc) /\ job[p].kb \in kbs
                                  /\ m.doc = job[p].doc /\ m.kb = job[p].kb
<1>1. CASE \E p \in Procs : InsertMount(p)
  <2>1. PICK p \in Procs : InsertMount(p)
    BY <1>1
  <2> DEFINE new == [id |-> ids + 1, doc |-> job[p].doc, kb |-> job[p].kb]
  <2>2. new.id = ids + 1 /\ new.doc = job[p].doc /\ new.kb = job[p].kb
    OBVIOUS
  <2> HIDE DEF new
  <2>3. \/ /\ mounts' = mounts \cup {new} /\ ids' = ids + 1
           /\ HasRow(job[p].doc) /\ job[p].kb \in kbs
        \/ mounts' = mounts /\ ids' = ids
    BY <2>1 DEF InsertMount, new
  <2> QED
    BY <2>1, <2>2, <2>3
<1>2. CASE ~\E p \in Procs : InsertMount(p)
  <2>1. ids' = ids /\ mounts' \subseteq mounts
    <3>1. ASSUME NEW p \in Procs, Serve(p) PROVE ids' = ids /\ mounts' \subseteq mounts
      BY <1>2, <3>1 DEF Serve, Upload, Unmount, Purge, Base, Begin, BeginUpload, BeginUnmount,
         BeginPurge, BeginCreate, BeginDrop, FindDocument, PutFile, RegisterDocument,
         InsertDocument, FindMount, LinkMount, RequestParse, UnlinkMount, SelectMount,
         DeleteExecution, DeleteMount, CountMounts, RetireUnmounted, SnapshotMounts,
         RetirePurged, DeleteSnapshot, DeleteFile, DeleteDocument, RegisterBase, InsertBase,
         CountBase, RetireBase, DeleteBaseMounts, DeleteBase, Stop, rows, counts
    <3>2. CASE Sample \/ FindsGap \/ ClosesGap \/ PassesOver
      BY <3>2 DEF Sample, FindsGap, FindGap, ClosesGap, CloseGap, PassesOver, PassOver, rows,
         counts
    <3>3. CASE UNCHANGED vars
      BY <3>3 DEF vars, rows, counts
    <3> QED
      BY <3>1, <3>2, <3>3 DEF Next
  <2> QED
    BY <2>1 DEF TypeOK, CountsTyped
<1> QED
  BY <1>1, <1>2

\* A request that is not where it was, or has not what it had, took the step.
LEMMA WhoMoved ==
  ASSUME TypeOK, [Next]_vars, NEW q \in Procs
  PROVE  job'[q] = job[q] \/ Serve(q)
<1>1. ASSUME NEW p \in Procs, Serve(p) PROVE job'[q] = job[q] \/ Serve(q)
  BY <1>1, OthersStand
<1>2. CASE Sample \/ FindsGap \/ ClosesGap \/ PassesOver
  BY <1>2 DEF Sample, FindsGap, FindGap, ClosesGap, CloseGap, PassesOver, PassOver
<1>3. CASE UNCHANGED vars
  BY <1>3 DEF vars
<1> QED
  BY <1>1, <1>2, <1>3 DEF Next

LEMMA IdleFields == Idle.pc = "idle" /\ Idle.kind = "none" /\ Idle.doc = 0
  BY DEF Idle

\* How a request can have come to where it is.
LEMMA Arrivals ==
  ASSUME NEW p \in Procs, TypeOK, Serve(p)
  PROVE  /\ At(p, "upload", "register")' => PutFile(p) /\ Same(p)
         /\ At(p, "upload", "insert")' => RegisterDocument(p) /\ Same(p)
         /\ job'[p].pc = "insert mount" => LinkMount(p) /\ Same(p)
         /\ At(p, "unmount", "retire")' =>
              CountMounts(p) /\ job'[p].doc = job[p].doc /\ job'[p].mark = ids + 1
         /\ At(p, "purge", "retire")' =>
              /\ SnapshotMounts(p) /\ job'[p].doc = job[p].doc
              /\ job'[p].seen = {m.id : m \in MountsOf(job[p].doc)} /\ job'[p].mark = ids + 1
         /\ At(p, "purge", "delete mounts")' =>
              \/ RetirePurged(p) /\ Same(p)
              \/ /\ At(p, "purge", "delete mounts") /\ DeleteSnapshot(p)
                 /\ job'[p].doc = job[p].doc /\ job'[p].mark = job[p].mark
                 /\ \E i \in job[p].seen : /\ job'[p].seen = job[p].seen \ {i}
                                           /\ mounts' = {m \in mounts : m.id # i}
         /\ At(p, "purge", "delete file")' =>
              /\ DeleteSnapshot(p) /\ At(p, "purge", "delete mounts") /\ Same(p)
              /\ job[p].seen = {} /\ mounts' = mounts
<1>1. Over(p) => job'[p].pc = "idle" /\ job'[p].kind = "none"
  BY DEF Over, Idle
<1>2. CASE \/ BeginUpload(p) \/ BeginUnmount(p) \/ BeginPurge(p) \/ BeginCreate(p)
           \/ BeginDrop(p)
  BY <1>2, TakenMoves DEF At
<1>3. CASE Upload(p)
  BY <1>1, <1>3, UploadMoves DEF At, Upload
<1>4. CASE Unmount(p)
  BY <1>1, <1>4, UnmountMoves DEF At, Unmount
<1>5. CASE Purge(p) \/ DeleteDocument(p)
  BY <1>1, <1>5, PurgeMoves DEF At, Purge
<1>6. CASE Base(p) \/ Stop(p)
  BY <1>1, <1>6, BaseMoves DEF At, Base
<1> QED
  BY <1>2, <1>3, <1>4, <1>5, <1>6 DEF Serve

-----------------------------------------------------------------------------
(* Pairs are unlinked on request *)

\* The pair is the service's, or was unlinked on a request for it, or was unlinked with its
\* document before there were mounts of number n.
Explained(d, k, n) == <<d, k>> \in linked \/ <<d, k>> \in asked \/ mark[d] <= n

\* The mark of an unmount that is about to retire the document is below the document's mounts
\* and the mounts to come; and the pair that an upload linked has not been taken from it
\* unexplained.
UnlinkInv ==
    /\ \A m \in mounts : Explained(m.doc, m.kb, m.id)
    /\ \A p \in Procs : job[p].pc = "insert mount" => Explained(job[p].doc, job[p].kb, ids + 1)
    /\ \A p \in Procs : At(p, "unmount", "retire") =>
         /\ job[p].mark <= ids + 1
         /\ \A m \in mounts : m.doc = job[p].doc => m.id >= job[p].mark

\* What explains a pair lasts, or a better explanation takes its place: only an unmount that
\* retires the document unlinks without being asked, and it sets the mark.
LEMMA ExplainedStays ==
  ASSUME TypeOK, [Next]_vars, NEW d \in Docs, NEW k \in KBs, NEW n \in Nat, Explained(d, k, n),
         \A p \in Procs : At(p, "unmount", "retire") /\ job[p].doc = d => job[p].mark <= n
  PROVE  Explained(d, k, n)'
<1> DEFINE Kept == UNCHANGED <<linked, asked, mark>>
<1>0. /\ <<d, k>> \in Pairs /\ \A i \in KBs : i # d
      /\ \A pair \in linked : pair \in Pairs
      /\ mark \in [Docs -> Nat]
  BY MountsAssumption DEF TypeOK, ServiceTyped, HistoryTyped, Pairs, Docs
<1>1. Kept => Explained(d, k, n)'
  BY DEF Explained
<1>2. ASSUME NEW p \in Procs, Serve(p) PROVE Explained(d, k, n)'
  <2>0. job[p] \in JobSet /\ Serving(job[p]) /\ job[p].mark \in Nat
    BY DEF TypeOK, JobsTyped, JobSet
  <2>1. CASE LinkMount(p)
    BY <2>1, <1>0 DEF LinkMount, Link, Explained
  <2>2. CASE UnlinkMount(p)
    BY <2>2, <1>0 DEF UnlinkMount, Unlink, Explained, service
  <2>3. CASE RetireUnmounted(p)
    <3>1. CASE UNCHANGED <<service, mark>>
      BY <2>3, <3>1, <1>1 DEF RetireUnmounted, service
    <3>2. CASE Retire(job[p].doc) /\ mark' = [mark EXCEPT ![job[p].doc] = Lesser(@, job[p].mark)]
      <4>1. At(p, "unmount", "retire") /\ asked' = asked
        BY <2>3 DEF RetireUnmounted, At
      <4>2. CASE job[p].doc = d
        <5>1. job[p].mark <= n
          BY <4>1, <4>2
        <5>2. mark'[d] = Lesser(mark[d], job[p].mark)
          BY <3>2, <4>2, <1>0
        <5>3. mark'[d] <= n
          BY <5>1, <5>2, <1>0, <2>0 DEF Lesser
        <5> QED
          BY <5>3 DEF Explained
      <4>3. CASE job[p].doc # d
        <5>1. mark'[d] = mark[d]
          BY <3>2, <4>3, <1>0
        <5>2. <<d, k>> \in linked => <<d, k>> \in linked'
          BY <3>2, <4>3 DEF Retire
        <5> QED
          BY <4>1, <5>1, <5>2 DEF Explained
      <4> QED
        BY <4>2, <4>3
    <3> QED
      BY <2>3, <3>1, <3>2 DEF RetireUnmounted
  <2>4. CASE RetirePurged(p)
    <3>1. mark' = mark /\ asked' = asked \cup {pair \in Pairs : pair[1] = job[p].doc}
      BY <2>4 DEF RetirePurged
    <3>2. <<d, k>> \in linked => <<d, k>> \in linked' \/ d = job[p].doc
      BY <2>4 DEF RetirePurged, Retire
    <3> QED
      BY <3>1, <3>2, <1>0 DEF Explained
  <2>5. CASE RetireBase(p)
    <3>1. job[p].kb \in KBs
      BY <2>5, <2>0, Places DEF RetireBase
    <3>2. <<d, k>> \in linked => <<d, k>> \in linked'
      BY <2>5, <3>1, <1>0 DEF RetireBase, Retire
    <3>3. UNCHANGED <<asked, mark>>
      BY <2>5 DEF RetireBase, history
    <3> QED
      BY <3>2, <3>3 DEF Explained
  <2>6. CASE BeginUpload(p) \/ BeginUnmount(p) \/ BeginPurge(p) \/ BeginCreate(p) \/ BeginDrop(p)
    BY <2>6, <1>1 DEF BeginUpload, BeginUnmount, BeginPurge, BeginCreate, BeginDrop, Begin,
       service, history
  <2>7. CASE \/ FindDocument(p) \/ PutFile(p) \/ RegisterDocument(p) \/ InsertDocument(p)
             \/ FindMount(p) \/ InsertMount(p) \/ RequestParse(p)
    BY <2>7, <1>1 DEF FindDocument, PutFile, RegisterDocument, InsertDocument, FindMount,
       InsertMount, RequestParse, Register, service, history
  <2>8. CASE \/ SelectMount(p) \/ DeleteExecution(p) \/ DeleteMount(p) \/ CountMounts(p)
             \/ SnapshotMounts(p) \/ DeleteSnapshot(p) \/ DeleteFile(p) \/ DeleteDocument(p)
    BY <2>8, <1>1 DEF SelectMount, DeleteExecution, DeleteMount, CountMounts, SnapshotMounts,
       DeleteSnapshot, DeleteFile, DeleteDocument, service, history
  <2>9. CASE \/ RegisterBase(p) \/ InsertBase(p) \/ CountBase(p) \/ DeleteBaseMounts(p)
             \/ DeleteBase(p) \/ Stop(p)
    BY <2>9, <1>1 DEF RegisterBase, InsertBase, CountBase, DeleteBaseMounts, DeleteBase, Stop,
       Register, service, history
  <2> QED
    BY <1>2, <2>1, <2>2, <2>3, <2>4, <2>5, <2>6, <2>7, <2>8, <2>9
       DEF Serve, Upload, Unmount, Purge, Base
<1>3. CASE ClosesGap
  BY <1>3, <1>0 DEF ClosesGap, CloseGap, Link, Explained
<1>4. CASE Sample \/ FindsGap \/ PassesOver
  BY <1>4, <1>1 DEF Sample, FindsGap, FindGap, PassesOver, PassOver, service, history
<1>5. CASE UNCHANGED vars
  BY <1>5, <1>1 DEF vars, service, history
<1> QED
  BY <1>2, <1>3, <1>4, <1>5 DEF Next

LEMMA UnlinkStep == TypeOK /\ UnlinkInv /\ [Next]_vars => UnlinkInv'
<1> SUFFICES ASSUME TypeOK, UnlinkInv, [Next]_vars PROVE UnlinkInv'
  OBVIOUS
<1>0. /\ ids \in Nat /\ ids + 1 \in Nat /\ ids' \in {ids, ids + 1}
      /\ \A m \in mounts : m.id \in Nat /\ m.id <= ids /\ m.doc \in Docs /\ m.kb \in KBs
      /\ \A p \in Procs : job[p] \in JobSet /\ Serving(job[p]) /\ job[p].mark \in Nat
  BY NewMount DEF TypeOK, CountsTyped, RowsTyped, JobsTyped, JobSet
<1>1. ASSUME NEW m \in mounts' PROVE Explained(m.doc, m.kb, m.id)'
  <2>1. CASE m \in mounts
    BY <2>1, <1>0, ExplainedStays DEF UnlinkInv
  <2>2. CASE m \notin mounts
    <3>1. PICK p \in Procs : InsertMount(p) /\ m.doc = job[p].doc /\ m.kb = job[p].kb
      BY <2>2, NewMount
    <3>2. m.id = ids + 1
      BY <2>2, NewMount
    <3>3. job[p].pc = "insert mount" /\ m.doc \in Docs /\ m.kb \in KBs
      BY <3>1, <1>0, Places DEF InsertMount
    <3>4. Explained(m.doc, m.kb, m.id)
      BY <3>1, <3>2, <3>3 DEF UnlinkInv
    <3> QED
      BY <3>2, <3>3, <3>4, <1>0, ExplainedStays DEF UnlinkInv
  <2> QED
    BY <2>1, <2>2
<1>2. ASSUME NEW q \in Procs, job'[q].pc = "insert mount"
      PROVE  Explained(job[q].doc, job[q].kb, ids + 1)'
  <2>1. CASE job'[q] = job[q]
    <3>1. Explained(job[q].doc, job[q].kb, ids + 1) /\ job[q].doc \in Docs /\ job[q].kb \in KBs
      BY <1>2, <2>1, <1>0, Places DEF UnlinkInv
    <3>2. mark'[job[q].doc] \in Nat
      BY <3>1, TypeStep DEF TypeOK, HistoryTyped
    <3>3. Explained(job[q].doc, job[q].kb, ids + 1) => \/ <<job[q].doc, job[q].kb>> \in linked'
                                                      \/ <<job[q].doc, job[q].kb>> \in asked'
                                                      \/ mark'[job[q].doc] <= ids + 1
      BY <3>1, <1>0, ExplainedStays DEF UnlinkInv, Explained
    <3> QED
      BY <3>1, <3>2, <3>3, <2>1, <1>0 DEF Explained
  <2>2. CASE job'[q] # job[q]
    <3>1. LinkMount(q) /\ Same(q)
      BY <1>2, <2>2, WhoMoved, Arrivals
    <3> QED
      BY <3>1 DEF LinkMount, Link, Explained, Same
  <2> QED
    BY <2>1, <2>2
<1>3. ASSUME NEW q \in Procs, At(q, "unmount", "retire")'
      PROVE  /\ job'[q].mark <= ids' + 1
             /\ \A m \in mounts' : m.doc = job'[q].doc => m.id >= job'[q].mark
  <2>1. CASE job'[q] = job[q]
    <3>1. /\ At(q, "unmount", "retire") /\ job[q].mark <= ids + 1
          /\ \A m \in mounts : m.doc = job[q].doc => m.id >= job[q].mark
      BY <1>3, <2>1 DEF UnlinkInv, At
    <3>2. job[q].mark \in Nat
      BY <1>0
    <3>3. \A m \in mounts' : m \in mounts \/ m.id = ids + 1
      BY NewMount
    <3> QED
      BY <3>1, <3>2, <3>3, <2>1, <1>0
  <2>2. CASE job'[q] # job[q]
    <3>1. CountMounts(q) /\ job'[q].doc = job[q].doc /\ job'[q].mark = ids + 1
      BY <1>3, <2>2, WhoMoved, Arrivals
    <3>2. MountsOf(job[q].doc) = {} /\ mounts' = mounts
      <4>1. job'[q].pc # "idle"
        BY <1>3 DEF At
      <4>2. ~Answer(q)
        BY <4>1, Went, IdleFields DEF Over
      <4> QED
        BY <3>1, <4>2 DEF CountMounts, rows
    <3>3. \A m \in mounts' : m.doc # job[q].doc
      BY <3>2 DEF MountsOf
    <3>4. job'[q].mark <= ids' + 1
      <4>1. ids \in Nat /\ (ids' = ids \/ ids' = ids + 1)
        BY <1>0
      <4>2. ids + 1 <= ids' + 1
        BY <4>1
      <4> QED
        BY <3>1, <4>2
    <3> QED
      BY <3>1, <3>3, <3>4
  <2> QED
    BY <2>1, <2>2
<1> QED
  BY <1>1, <1>2, <1>3 DEF UnlinkInv

\* The service loses no mount that nobody asked it to lose: a mount that it does not have was
\* unlinked on a request for that pair, or by a purge of the document, or the document was
\* retired by the removal of what was then its last mount; for any number of threads,
\* documents and knowledge bases, with the requests' statements and calls in any order and
\* every request free to stop after each.
THEOREM MountsAreUnlinkedOnRequest == Spec => []UnlinkedOnRequest
<1>1. Init => UnlinkInv
  BY IdleFields DEF Init, UnlinkInv, At
<1>2. TypeOK /\ UnlinkInv => UnlinkedOnRequest
  BY DEF UnlinkInv, UnlinkedOnRequest, Explained, TypeOK, RowsTyped, HistoryTyped
<1> QED
  BY <1>1, <1>2, InitTyped, TypeStep, UnlinkStep, PTL DEF Spec

-----------------------------------------------------------------------------
(* Mounted documents keep their files *)

\* The file is stored, or a purge deleted it that saw all mounts of lesser number than n.
HasFile(d, n) == d \in objects \/ fileMark[d] <= n

\* An upload that has stored its file, and a row; and the mounts that a purge in progress did not
\* see are those inserted since.
FileInv ==
    /\ \A m \in mounts : HasFile(m.doc, m.id)
    /\ \A r \in documents : HasFile(r.doc, ids + 1)
    /\ \A p \in Procs : At(p, "upload", "register") \/ At(p, "upload", "insert") =>
         HasFile(job[p].doc, ids + 1)
    /\ \A p \in Procs :
         \/ At(p, "purge", "retire") \/ At(p, "purge", "delete mounts")
         \/ At(p, "purge", "delete file")
         => /\ job[p].mark <= ids + 1
            /\ \A m \in mounts : m.doc = job[p].doc => m.id >= job[p].mark \/ m.id \in job[p].seen
    /\ \A p \in Procs : At(p, "purge", "delete file") => job[p].seen = {}

LEMMA LesserBelow == \A a, b, n \in Nat : b <= n => Lesser(a, b) <= n
  BY DEF Lesser

LEMMA FileStays ==
  ASSUME TypeOK, [Next]_vars, NEW d \in Docs, NEW n \in Nat, HasFile(d, n),
         \A p \in Procs : At(p, "purge", "delete file") /\ job[p].doc = d => job[p].mark <= n
  PROVE  HasFile(d, n)'
<1>1. UNCHANGED <<objects, fileMark>> => HasFile(d, n)'
  BY DEF HasFile
<1>2. ASSUME NEW p \in Procs, Serve(p) PROVE HasFile(d, n)'
  <2>0. job[p] \in JobSet /\ Serving(job[p]) /\ job[p].mark \in Nat /\ fileMark \in [Docs -> Nat]
    BY DEF TypeOK, JobsTyped, JobSet, HistoryTyped
  <2>1. CASE PutFile(p)
    BY <2>1 DEF PutFile, HasFile, history
  <2>2. CASE DeleteFile(p)
    <3>1. At(p, "purge", "delete file")
      BY <2>2, PurgeMoves
    <3>2. CASE fileMark' = fileMark /\ objects' = objects
      BY <3>2, <1>1
    <3>3. CASE /\ objects' = objects \ {job[p].doc}
               /\ fileMark' = [fileMark EXCEPT ![job[p].doc] = Lesser(@, job[p].mark)]
      <4>1. CASE job[p].doc = d
        <5>1. fileMark'[d] = Lesser(fileMark[d], job[p].mark) /\ job[p].mark <= n
          BY <3>1, <3>3, <4>1, <2>0
        <5>2. fileMark'[d] <= n
          <6>1. fileMark[d] \in Nat
            BY <2>0
          <6> QED
            BY <5>1, <6>1, <2>0, LesserBelow
        <5> QED
          BY <5>2 DEF HasFile
      <4>2. CASE job[p].doc # d
        BY <3>3, <4>2, <2>0 DEF HasFile
      <4> QED
        BY <4>1, <4>2
    <3> QED
      BY <2>2, <3>2, <3>3 DEF DeleteFile
  <2>3. CASE BeginUpload(p) \/ BeginUnmount(p) \/ BeginPurge(p) \/ BeginCreate(p) \/ BeginDrop(p)
    BY <2>3, <1>1 DEF BeginUpload, BeginUnmount, BeginPurge, BeginCreate, BeginDrop, Begin, rows,
       history
  <2>4. CASE \/ FindDocument(p) \/ RegisterDocument(p) \/ InsertDocument(p)
             \/ FindMount(p) \/ LinkMount(p) \/ InsertMount(p) \/ RequestParse(p)
    BY <2>4, <1>1 DEF FindDocument, RegisterDocument, InsertDocument, FindMount, LinkMount,
       InsertMount, RequestParse, rows, history
  <2>5. CASE \/ UnlinkMount(p) \/ SelectMount(p) \/ DeleteExecution(p) \/ DeleteMount(p)
             \/ CountMounts(p) \/ RetireUnmounted(p) \/ SnapshotMounts(p) \/ RetirePurged(p)
             \/ DeleteSnapshot(p) \/ DeleteDocument(p)
    BY <2>5, <1>1 DEF UnlinkMount, SelectMount, DeleteExecution, DeleteMount, CountMounts,
       RetireUnmounted, SnapshotMounts, RetirePurged, DeleteSnapshot, DeleteDocument, rows,
       history
  <2>6. CASE \/ RegisterBase(p) \/ InsertBase(p) \/ CountBase(p) \/ RetireBase(p)
             \/ DeleteBaseMounts(p) \/ DeleteBase(p) \/ Stop(p)
    BY <2>6, <1>1 DEF RegisterBase, InsertBase, CountBase, RetireBase, DeleteBaseMounts,
       DeleteBase, Stop, rows, history
  <2> QED
    BY <1>2, <2>1, <2>2, <2>3, <2>4, <2>5, <2>6 DEF Serve, Upload, Unmount, Purge, Base
<1>3. CASE Sample \/ FindsGap \/ ClosesGap \/ PassesOver
  BY <1>3, <1>1 DEF Sample, FindsGap, FindGap, ClosesGap, CloseGap, PassesOver, PassOver, rows,
     history
<1>4. CASE UNCHANGED vars
  BY <1>4, <1>1 DEF vars, rows, history
<1> QED
  BY <1>2, <1>3, <1>4 DEF Next

\* A row that was not there is of the upload that inserts it.
LEMMA NewRow ==
  ASSUME TypeOK, [Next]_vars, NEW r \in documents', r \notin documents
  PROVE  \E p \in Procs : InsertDocument(p) /\ r.doc = job[p].doc /\ ids' = ids
<1>1. ASSUME NEW p \in Procs, InsertDocument(p)
      PROVE  r.doc = job[p].doc /\ ids' = ids
  <2> DEFINE new == [doc |-> job[p].doc, content |-> job[p].content]
  <2>1. new.doc = job[p].doc
    OBVIOUS
  <2> HIDE DEF new
  <2>2. documents' = documents \/ documents' = documents \cup {new}
    BY <1>1 DEF InsertDocument, new
  <2> QED
    BY <1>1, <2>1, <2>2 DEF InsertDocument, counts
<1>2. ASSUME NEW p \in Procs, Serve(p) PROVE InsertDocument(p)
  BY <1>2 DEF Serve, Upload, Unmount, Purge, Base, Begin, BeginUpload, BeginUnmount,
     BeginPurge, BeginCreate, BeginDrop, FindDocument, PutFile, RegisterDocument,
     FindMount, LinkMount, InsertMount, RequestParse, UnlinkMount, SelectMount,
     DeleteExecution, DeleteMount, CountMounts, RetireUnmounted, SnapshotMounts,
     RetirePurged, DeleteSnapshot, DeleteFile, DeleteDocument, RegisterBase, InsertBase,
     CountBase, RetireBase, DeleteBaseMounts, DeleteBase, Stop, rows
<1>3. CASE Sample \/ FindsGap \/ ClosesGap \/ PassesOver
  BY <1>3 DEF Sample, FindsGap, FindGap, ClosesGap, CloseGap, PassesOver, PassOver, rows
<1>4. CASE UNCHANGED vars
  BY <1>4 DEF vars, rows
<1> QED
  BY <1>1, <1>2, <1>3, <1>4 DEF Next

LEMMA FileStep == TypeOK /\ FileInv /\ [Next]_vars => FileInv'
<1> SUFFICES ASSUME TypeOK, FileInv, [Next]_vars PROVE FileInv'
  OBVIOUS
<1>0. /\ ids \in Nat /\ ids + 1 \in Nat /\ ids' \in {ids, ids + 1}
      /\ \A m \in mounts : m.id \in Nat /\ m.id <= ids /\ m.doc \in Docs
      /\ \A r \in documents : r.doc \in Docs
      /\ \A p \in Procs : job[p] \in JobSet /\ Serving(job[p]) /\ job[p].mark \in Nat
  BY NewMount DEF TypeOK, CountsTyped, RowsTyped, JobsTyped, JobSet
<1>a. fileMark' \in [Docs -> Nat]
  BY TypeStep DEF TypeOK, HistoryTyped
\* A file that lasts to the next number
<1>b. ASSUME NEW d \in Docs, HasFile(d, ids + 1) PROVE HasFile(d, ids + 1)'
  <2>1. d \in objects' \/ fileMark'[d] <= ids + 1
    BY <1>0, <1>b, FileStays DEF FileInv, HasFile
  <2> QED
    BY <2>1, <1>0, <1>a DEF HasFile
<1>1. ASSUME NEW m \in mounts' PROVE HasFile(m.doc, m.id)'
  <2>1. CASE m \in mounts
    <3>1. \A p \in Procs : At(p, "purge", "delete file") /\ job[p].doc = m.doc =>
             job[p].mark <= m.id
      BY <2>1, <1>0 DEF FileInv
    <3> QED
      BY <2>1, <3>1, <1>0, FileStays DEF FileInv
  <2>2. CASE m \notin mounts
    <3>1. PICK p \in Procs : HasRow(job[p].doc) /\ m.doc = job[p].doc
      BY <2>2, NewMount
    <3>2. m.id = ids + 1 /\ m.doc \in Docs /\ HasFile(m.doc, ids + 1)
      BY <2>2, <3>1, <1>0, NewMount DEF HasRow, FileInv
    <3>3. \A q \in Procs : At(q, "purge", "delete file") /\ job[q].doc = m.doc =>
             job[q].mark <= m.id
      BY <3>2 DEF FileInv
    <3>4. m.id \in Nat /\ HasFile(m.doc, m.id)
      BY <3>2, <1>0
    <3> QED
      BY <3>2, <3>3, <3>4, FileStays
  <2> QED
    BY <2>1, <2>2
<1>2. ASSUME NEW r \in documents' PROVE HasFile(r.doc, ids + 1)'
  <2>1. CASE r \in documents
    BY <2>1, <1>0, <1>b DEF FileInv
  <2>2. CASE r \notin documents
    <3>1. PICK p \in Procs : InsertDocument(p) /\ r.doc = job[p].doc
      BY <2>2, NewRow
    <3>2. At(p, "upload", "insert") /\ job[p].doc \in Docs
      BY <3>1, <1>0, UploadMoves, Places DEF At
    <3> QED
      BY <3>1, <3>2, <1>b DEF FileInv
  <2> QED
    BY <2>1, <2>2
<1>3. ASSUME NEW q \in Procs, At(q, "upload", "register")' \/ At(q, "upload", "insert")'
      PROVE  HasFile(job[q].doc, ids + 1)'
  <2>1. CASE job'[q] = job[q]
    <3>1. HasFile(job[q].doc, ids + 1) /\ job[q].doc \in Docs
      BY <1>3, <2>1, <1>0, Places DEF FileInv, At
    <3> QED
      BY <2>1, <3>1, <1>b DEF HasFile
  <2>2. CASE job'[q] # job[q]
    <3>1. (PutFile(q) \/ RegisterDocument(q)) /\ Same(q)
      BY <1>3, <2>2, WhoMoved, Arrivals
    <3>2. CASE PutFile(q)
      BY <3>1, <3>2 DEF PutFile, HasFile, Same
    <3>3. CASE RegisterDocument(q)
      <4>1. HasFile(job[q].doc, ids + 1) /\ job[q].doc \in Docs
        BY <3>3, <1>0, Places, UploadMoves DEF FileInv, At
      <4> QED
        BY <3>1, <4>1, <1>b DEF HasFile, Same
    <3> QED
      BY <3>1, <3>2, <3>3
  <2> QED
    BY <2>1, <2>2
<1>4. ASSUME NEW q \in Procs,
             \/ At(q, "purge", "retire")' \/ At(q, "purge", "delete mounts")'
             \/ At(q, "purge", "delete file")'
      PROVE  /\ job'[q].mark <= ids' + 1
             /\ \A m \in mounts' : m.doc = job'[q].doc =>
                  m.id >= job'[q].mark \/ m.id \in job'[q].seen
  <2> DEFINE Seen == /\ job[q].mark <= ids + 1
                     /\ \A m \in mounts : m.doc = job[q].doc =>
                          m.id >= job[q].mark \/ m.id \in job[q].seen
  <2>0. job[q].mark \in Nat /\ \A m \in mounts' : m \in mounts \/ m.id = ids + 1
    BY <1>0, NewMount
  <2>1. ASSUME Same(q), Seen
        PROVE  /\ job'[q].mark <= ids' + 1
               /\ \A m \in mounts' : m.doc = job'[q].doc =>
                    m.id >= job'[q].mark \/ m.id \in job'[q].seen
    BY <2>0, <2>1, <1>0 DEF Same
  <2>2. CASE job'[q] = job[q]
    <3>1. Seen
      BY <1>4, <2>2 DEF FileInv, At
    <3> QED
      BY <2>1, <2>2, <3>1 DEF Same
  <2>3. CASE job'[q] # job[q] /\ At(q, "purge", "retire")'
    <3>1. /\ SnapshotMounts(q) /\ job'[q].doc = job[q].doc
          /\ job'[q].seen = {m.id : m \in MountsOf(job[q].doc)} /\ job'[q].mark = ids + 1
      BY <2>3, WhoMoved, Arrivals
    <3>2. mounts' = mounts
      BY <3>1 DEF SnapshotMounts, rows
    <3>3. \A m \in mounts : m.doc = job[q].doc => m.id \in job'[q].seen
      BY <3>1 DEF MountsOf
    <3> QED
      BY <3>1, <3>2, <3>3, <1>0
  <2>4. CASE job'[q] # job[q] /\ At(q, "purge", "delete mounts")'
    <3>1. CASE RetirePurged(q) /\ Same(q)
      BY <2>1, <3>1, PurgeMoves DEF FileInv
    <3>2. ASSUME At(q, "purge", "delete mounts"), job'[q].doc = job[q].doc,
                 job'[q].mark = job[q].mark, NEW i \in job[q].seen,
                 job'[q].seen = job[q].seen \ {i}, mounts' = {m \in mounts : m.id # i}
          PROVE  /\ job'[q].mark <= ids' + 1
                 /\ \A m \in mounts' : m.doc = job'[q].doc =>
                      m.id >= job'[q].mark \/ m.id \in job'[q].seen
      <4>1. Seen
        BY <3>2 DEF FileInv
      <4>2. job'[q].mark <= ids' + 1
        <5>1. job[q].mark <= ids + 1 /\ job[q].mark \in Nat
          BY <4>1, <2>0
        <5>2. job[q].mark <= ids' + 1
          BY <5>1, <1>0
        <5> QED
          BY <5>2, <3>2
      <4>3. ASSUME NEW m \in mounts', m.doc = job'[q].doc
            PROVE  m.id >= job'[q].mark \/ m.id \in job'[q].seen
        BY <3>2, <4>1, <4>3
      <4> QED
        BY <4>2, <4>3
    <3> QED
      BY <2>4, <3>1, <3>2, WhoMoved, Arrivals
  <2>5. CASE job'[q] # job[q] /\ At(q, "purge", "delete file")'
    <3>1. At(q, "purge", "delete mounts") /\ Same(q)
      BY <2>5, WhoMoved, Arrivals
    <3> QED
      BY <2>1, <3>1 DEF FileInv
  <2> QED
    BY <1>4, <2>2, <2>3, <2>4, <2>5
<1>5. ASSUME NEW q \in Procs, At(q, "purge", "delete file")' PROVE job'[q].seen = {}
  <2>1. CASE job'[q] = job[q]
    BY <1>5, <2>1 DEF FileInv, At
  <2>2. CASE job'[q] # job[q]
    BY <1>5, <2>2, WhoMoved, Arrivals DEF Same
  <2> QED
    BY <2>1, <2>2
<1> QED
  BY <1>1, <1>2, <1>3, <1>4, <1>5 DEF FileInv

\* A mounted document keeps its file: no removal of another mount, no purge that fails on its
\* way and no upload of the same content takes it, and only a mount that the deleting purge
\* did not see may be without; for any number of threads, contents and knowledge bases.
THEOREM MountsKeepTheirFile == Spec => []MountKeepsFile
<1>1. Init => FileInv
  BY IdleFields DEF Init, FileInv, At
<1>2. TypeOK /\ FileInv => MountKeepsFile
  BY DEF FileInv, MountKeepsFile, HasFile, TypeOK, RowsTyped, HistoryTyped
<1> QED
  BY <1>1, <1>2, InitTyped, TypeStep, FileStep, PTL DEF Spec

-----------------------------------------------------------------------------
(* Tables and service: who meets whom *)

\* A removal of the document is alone on it, and neither the reconciliation nor the deletion of
\* a knowledge base crosses what else is done with it.
Calm(d) ==
    /\ \A p \in Procs : job[p].kind \in {"unmount", "purge"} /\ job[p].doc = d =>
         /\ ~Sampled(mirror, d)
         /\ \A q \in Procs \ {p} : job[q].doc # d
    /\ \A p \in Procs : job[p].kind = "drop" =>
         /\ ~Sampled(mirror, d)
         /\ \A q \in Procs : job[q].kind = "upload" /\ job[q].doc = d => job[q].kb # job[p].kb

NoConflict == \A d \in Docs : d \notin disturbed => ~Conflict(job, mirror, d)
AllCalm == \A d \in Docs : d \notin disturbed => Calm(d)

LEMMA CalmWithoutConflict == TypeOK /\ NoConflict => AllCalm
<1> SUFFICES ASSUME TypeOK, NoConflict, NEW d \in Docs, d \notin disturbed PROVE Calm(d)
  BY DEF AllCalm
<1>1. ~Conflict(job, mirror, d)
  BY DEF NoConflict
<1>2. d # 0 /\ \A p \in Procs : job[p] \in JobSet /\ Serving(job[p])
  BY DEF TypeOK, JobsTyped, Docs
<1>3. \A p \in Procs : job[p].doc = d \/ job[p].kind = "drop" => job[p].pc # "idle"
  BY <1>2 DEF Serving, JobSet
<1> QED
  BY <1>1, <1>2, <1>3 DEF Conflict, Removes, Calm

\* A step adds to what is disturbed the documents on which its request failed, and those with a
\* conflict after it.
LEMMA Tracked ==
  ASSUME TypeOK, [Next]_vars
  PROVE  /\ disturbed \subseteq disturbed'
         /\ NoConflict => NoConflict'
         /\ \A p \in Procs : Fails(p) =>
              IF job[p].kind \in {"create", "drop"}
              THEN job[p].kb \in Resources => job[p].kb \in disturbed'
              ELSE job[p].doc \in Resources => job[p].doc \in disturbed'
<1>1. \A failed : Track(failed) => disturbed \subseteq disturbed' /\ NoConflict'
  BY DEF Track, NoConflict
<1>2. \A p \in Procs : Fails(p) =>
              IF job[p].kind \in {"create", "drop"}
              THEN job[p].kb \in Resources => job[p].kb \in disturbed'
              ELSE job[p].doc \in Resources => job[p].doc \in disturbed'
  BY DEF Fails, Track
<1>3. ASSUME NEW p \in Procs, Serve(p) PROVE \E failed : Track(failed)
  BY <1>3, OthersStand
<1>4. CASE Sample \/ FindsGap \/ ClosesGap \/ PassesOver
  <2>1. Track({})
    BY <1>4 DEF Sample, FindsGap, FindGap, ClosesGap, CloseGap, PassesOver, PassOver
  <2> QED
    BY <2>1, <1>1, <1>2
<1>5. CASE UNCHANGED vars
  <2>1. UNCHANGED <<job, mirror, disturbed>>
    BY <1>5 DEF vars
  <2> QED
    BY <2>1, <1>2 DEF NoConflict
<1> QED
  BY <1>1, <1>2, <1>3, <1>4, <1>5 DEF Next

\* Every mount refers to a row: the row is there when the mount is inserted, and is not deleted
\* while there is one.
Referred == \A m \in mounts : HasRow(m.doc)

LEMMA ReferredStep == TypeOK /\ Referred /\ [Next]_vars => Referred'
<1> SUFFICES ASSUME TypeOK, Referred, [Next]_vars, NEW m \in mounts' PROVE HasRow(m.doc)'
  BY DEF Referred
<1>1. HasRow(m.doc)
  BY NewMount DEF Referred
<1>2. documents \subseteq documents' => HasRow(m.doc)'
  BY <1>1 DEF HasRow
<1>3. ASSUME NEW p \in Procs, DeleteDocument(p) PROVE HasRow(m.doc)'
  BY <1>1, <1>2, <1>3 DEF DeleteDocument, HasRow, MountsOf
<1>4. ASSUME NEW p \in Procs, Serve(p), ~DeleteDocument(p) PROVE documents \subseteq documents'
  <2>1. CASE InsertDocument(p)
    BY <2>1 DEF InsertDocument
  <2> QED
    BY <1>4, <2>1 DEF Serve, Upload, Unmount, Purge, Base, Begin, BeginUpload, BeginUnmount,
       BeginPurge, BeginCreate, BeginDrop, FindDocument, PutFile, RegisterDocument,
       FindMount, LinkMount, InsertMount, RequestParse, UnlinkMount, SelectMount,
       DeleteExecution, DeleteMount, CountMounts, RetireUnmounted, SnapshotMounts,
       RetirePurged, DeleteSnapshot, DeleteFile, RegisterBase, InsertBase, CountBase,
       RetireBase, DeleteBaseMounts, DeleteBase, Stop, rows
<1>5. CASE Sample \/ FindsGap \/ ClosesGap \/ PassesOver
  BY <1>2, <1>5 DEF Sample, FindsGap, FindGap, ClosesGap, CloseGap, PassesOver, PassOver, rows
<1>6. CASE UNCHANGED vars
  BY <1>2, <1>6 DEF vars, rows
<1> QED
  BY <1>2, <1>3, <1>4, <1>5, <1>6 DEF Next

\* A mount number is of one mount, and a purge's numbers are of its document's mounts.
NumbersFit ==
    /\ \A m, n \in mounts : m.id = n.id => m = n
    /\ \A p \in Procs : At(p, "purge", "retire") \/ At(p, "purge", "delete mounts") =>
         \A i \in job[p].seen : i <= ids /\ \A m \in mounts : m.id = i => m.doc = job[p].doc

LEMMA NumbersStep == TypeOK /\ NumbersFit /\ [Next]_vars => NumbersFit'
<1> SUFFICES ASSUME TypeOK, NumbersFit, [Next]_vars PROVE NumbersFit'
  OBVIOUS
<1>0. /\ ids \in Nat /\ ids' \in {ids, ids + 1}
      /\ \A m \in mounts : m.id \in Nat /\ m.id <= ids
      /\ \A m \in mounts' : m \notin mounts => m.id = ids + 1
      /\ \A p \in Procs : job[p].seen \in SUBSET Nat
  BY NewMount DEF TypeOK, CountsTyped, RowsTyped, JobsTyped, JobSet
<1>1. ASSUME NEW m \in mounts', NEW n \in mounts', m.id = n.id PROVE m = n
  <2>1. CASE m \in mounts /\ n \in mounts
    BY <1>1, <2>1 DEF NumbersFit
  <2>2. CASE m \notin mounts /\ n \notin mounts
    <3>1. PICK p \in Procs : InsertMount(p)
      BY <2>2, NewMount
    <3> DEFINE new == [id |-> ids + 1, doc |-> job[p].doc, kb |-> job[p].kb]
    <3>2. mounts' = mounts \/ mounts' = mounts \cup {new}
      BY <3>1 DEF InsertMount
    <3> HIDE DEF new
    <3> QED
      BY <2>2, <3>2
  <2>3. CASE m \in mounts /\ n \notin mounts
    BY <1>1, <2>3, <1>0
  <2>4. CASE m \notin mounts /\ n \in mounts
    BY <1>1, <2>4, <1>0
  <2> QED
    BY <2>1, <2>2, <2>3, <2>4
<1>2. ASSUME NEW q \in Procs, At(q, "purge", "retire")' \/ At(q, "purge", "delete mounts")',
             NEW i \in job'[q].seen
      PROVE  i <= ids' /\ \A m \in mounts' : m.id = i => m.doc = job'[q].doc
  <2>1. ASSUME At(q, "purge", "retire") \/ At(q, "purge", "delete mounts"), i \in job[q].seen,
               job'[q].doc = job[q].doc
        PROVE  i <= ids' /\ \A m \in mounts' : m.id = i => m.doc = job'[q].doc
    <3>1. i <= ids /\ i \in Nat /\ \A m \in mounts : m.id = i => m.doc = job[q].doc
      BY <2>1, <1>0 DEF NumbersFit
    <3>2. \A m \in mounts' : m.id = i => m \in mounts
      BY <3>1, <1>0
    <3>3. i <= ids'
      BY <3>1, <1>0
    <3> QED
      BY <2>1, <3>1, <3>2, <3>3
  <2>2. CASE job'[q] = job[q]
    BY <1>2, <2>1, <2>2 DEF At
  <2>3. CASE job'[q] # job[q] /\ At(q, "purge", "retire")'
    <3>1. /\ SnapshotMounts(q) /\ job'[q].doc = job[q].doc
          /\ job'[q].seen = {m.id : m \in MountsOf(job[q].doc)}
      BY <2>3, WhoMoved, Arrivals
    <3>2. mounts' = mounts
      BY <3>1 DEF SnapshotMounts, rows
    <3>3. PICK m \in mounts : m.id = i /\ m.doc = job[q].doc
      BY <1>2, <3>1 DEF MountsOf
    <3>4. i <= ids'
      BY <3>3, <1>0
    <3>5. \A n \in mounts : n.id = i => n = m
      BY <3>3 DEF NumbersFit
    <3> QED
      BY <3>1, <3>2, <3>3, <3>4, <3>5
  <2>4. CASE job'[q] # job[q] /\ At(q, "purge", "delete mounts")'
    <3>1. CASE RetirePurged(q) /\ Same(q)
      BY <1>2, <2>1, <3>1, PurgeMoves DEF Same
    <3>2. CASE /\ At(q, "purge", "delete mounts") /\ job'[q].doc = job[q].doc
               /\ \E k \in job[q].seen : job'[q].seen = job[q].seen \ {k}
      BY <1>2, <2>1, <3>2
    <3> QED
      BY <2>4, <3>1, <3>2, WhoMoved, Arrivals
  <2> QED
    BY <1>2, <2>2, <2>3, <2>4
<1> QED
  BY <1>1, <1>2 DEF NumbersFit

\* The service has heard of every knowledge base that has a row, and of those that mounts,
\* uploads, deletions and the reconciliation refer to.
Known ==
    /\ \A k \in kbs : registered[k] # "unknown"
    /\ \A m \in mounts : registered[m.kb] # "unknown"
    /\ \A pair \in mirror.todo \cup mirror.gap : registered[pair[2]] # "unknown"
    /\ \A p \in Procs :
         job[p].kind \in {"upload", "drop"} \/ At(p, "create", "insert") =>
            registered[job[p].kb] # "unknown"

\* What the service has heard of it does not forget.
LEMMA Remembered ==
  ASSUME TypeOK, [Next]_vars, NEW r \in Resources, registered[r] # "unknown"
  PROVE  registered'[r] # "unknown"
<1>0. registered \in [Resources -> {"unknown", "live", "retired"}] /\ Docs \subseteq Resources
      /\ KBs \subseteq Resources
  BY DEF TypeOK, ServiceTyped, Resources
<1>1. /\ \A s \in Resources : Register(s) \/ Retire(s) => registered'[r] # "unknown"
      /\ \A d, k : Link(d, k) => registered'[r] # "unknown"
      /\ \A d, k : Unlink(d, k) => registered'[r] # "unknown"
  BY <1>0 DEF Register, Retire, Link, Unlink
<1>2. ASSUME NEW p \in Procs, Serve(p) PROVE registered'[r] # "unknown"
  <2>0. job[p] \in JobSet /\ Serving(job[p])
    BY DEF TypeOK, JobsTyped
  <2>1. CASE RegisterDocument(p)
    BY <2>1, <2>0, <1>0, <1>1, Places DEF RegisterDocument
  <2>2. CASE RegisterBase(p)
    BY <2>2, <2>0, <1>0, <1>1, Places DEF RegisterBase
  <2>3. CASE LinkMount(p)
    BY <2>3, <1>1 DEF LinkMount
  <2>4. CASE UnlinkMount(p)
    BY <2>4, <1>1 DEF UnlinkMount, service
  <2>5. CASE RetireUnmounted(p)
    BY <2>5, <2>0, <1>0, <1>1, Places DEF RetireUnmounted, service
  <2>6. CASE RetirePurged(p)
    BY <2>6, <2>0, <1>0, <1>1, Places DEF RetirePurged
  <2>7. CASE RetireBase(p)
    BY <2>7, <2>0, <1>0, <1>1, Places DEF RetireBase
  <2>8. CASE BeginUpload(p) \/ BeginUnmount(p) \/ BeginPurge(p) \/ BeginCreate(p) \/ BeginDrop(p)
    BY <2>8 DEF BeginUpload, BeginUnmount, BeginPurge, BeginCreate, BeginDrop, Begin, service
  <2>9. CASE \/ FindDocument(p) \/ PutFile(p) \/ InsertDocument(p) \/ FindMount(p)
             \/ InsertMount(p) \/ RequestParse(p) \/ SelectMount(p) \/ DeleteExecution(p)
             \/ DeleteMount(p) \/ CountMounts(p) \/ SnapshotMounts(p) \/ DeleteSnapshot(p)
             \/ DeleteFile(p) \/ DeleteDocument(p)
    BY <2>9 DEF FindDocument, PutFile, InsertDocument, FindMount, InsertMount, RequestParse,
       SelectMount, DeleteExecution, DeleteMount, CountMounts, SnapshotMounts, DeleteSnapshot,
       DeleteFile, DeleteDocument, service
  <2>10. CASE \/ InsertBase(p) \/ CountBase(p) \/ DeleteBaseMounts(p) \/ DeleteBase(p) \/ Stop(p)
    BY <2>10 DEF InsertBase, CountBase, DeleteBaseMounts, DeleteBase, Stop, service
  <2> QED
    BY <1>2, <2>1, <2>2, <2>3, <2>4, <2>5, <2>6, <2>7, <2>8, <2>9, <2>10
       DEF Serve, Upload, Unmount, Purge, Base
<1>3. CASE ClosesGap
  BY <1>3, <1>1 DEF ClosesGap, CloseGap
<1>4. CASE Sample \/ FindsGap \/ PassesOver
  BY <1>4 DEF Sample, FindsGap, FindGap, PassesOver, PassOver, service
<1>5. CASE UNCHANGED vars
  BY <1>5 DEF vars, service
<1> QED
  BY <1>2, <1>3, <1>4, <1>5 DEF Next

\* What a request on a knowledge base has come from.
LEMMA BaseArrivals ==
  ASSUME NEW p \in Procs, TypeOK, Serve(p)
  PROVE  /\ job'[p].kind = "upload" =>
              \/ BeginUpload(p) /\ job'[p].kb \in kbs /\ At(p, "upload", "find")' /\ job'[p].doc = 0
              \/ job[p].kind = "upload" /\ job'[p].kb = job[p].kb
         /\ job'[p].kind = "drop" =>
              \/ BeginDrop(p) /\ At(p, "drop", "count")' /\ job'[p].kb \in kbs
              \/ CountBase(p) /\ At(p, "drop", "count") /\ At(p, "drop", "retire")' /\ Same(p)
              \/ /\ RetireBase(p) /\ At(p, "drop", "retire")
                 /\ At(p, "drop", "delete base mounts")' /\ Same(p)
              \/ /\ DeleteBaseMounts(p) /\ At(p, "drop", "delete base mounts")
                 /\ At(p, "drop", "delete base")' /\ Same(p)
         /\ job'[p].kind = "create" =>
              \/ /\ BeginCreate(p) /\ At(p, "create", "register")' /\ job'[p].kb \in KBs \ kbs
                 /\ registered[job'[p].kb] = "unknown"
                 /\ \A q \in Procs : job[q].kind = "create" => job[q].kb # job'[p].kb
              \/ /\ RegisterBase(p) /\ At(p, "create", "register")
                 /\ At(p, "create", "insert")' /\ Same(p)
<1>1. Over(p) => job'[p].kind = "none"
  BY IdleFields DEF Over
<1>2. CASE \/ BeginUpload(p) \/ BeginUnmount(p) \/ BeginPurge(p) \/ BeginCreate(p)
           \/ BeginDrop(p)
  BY <1>2, TakenMoves DEF At
<1>3. CASE Upload(p)
  BY <1>1, <1>3, UploadMoves DEF At, Upload, Same
<1>4. CASE Unmount(p)
  BY <1>1, <1>4, UnmountMoves DEF At, Unmount
<1>5. CASE Purge(p) \/ DeleteDocument(p)
  BY <1>1, <1>5, PurgeMoves DEF At, Purge
<1>6. CASE Base(p) \/ Stop(p)
  BY <1>1, <1>6, BaseMoves DEF At, Base
<1> QED
  BY <1>2, <1>3, <1>4, <1>5, <1>6 DEF Serve

\* A knowledge base gets its row from its creation, and loses it to a deletion that found no
\* mount.
LEMMA BaseRows ==
  ASSUME TypeOK, [Next]_vars
  PROVE  /\ \A k \in kbs' : k \notin kbs =>
              \E p \in Procs : InsertBase(p) /\ At(p, "create", "insert") /\ job[p].kb = k
         /\ \A k \in kbs : k \notin kbs' =>
              \E p \in Procs : DeleteBase(p) /\ At(p, "drop", "delete base") /\ job[p].kb = k
<1>1. ASSUME NEW p \in Procs, InsertBase(p)
      PROVE  kbs' = kbs \cup {job[p].kb} /\ At(p, "create", "insert")
  BY <1>1, BaseMoves DEF InsertBase
<1>2. ASSUME NEW p \in Procs, DeleteBase(p)
      PROVE  kbs' \in {kbs, kbs \ {job[p].kb}} /\ At(p, "drop", "delete base")
  BY <1>2, BaseMoves DEF DeleteBase
<1>3. ASSUME NEW p \in Procs, Serve(p), ~InsertBase(p), ~DeleteBase(p) PROVE kbs' = kbs
  BY <1>3 DEF Serve, Upload, Unmount, Purge, Base, Begin, BeginUpload, BeginUnmount,
     BeginPurge, BeginCreate, BeginDrop, FindDocument, PutFile, RegisterDocument,
     InsertDocument, FindMount, LinkMount, InsertMount, RequestParse, UnlinkMount, SelectMount,
     DeleteExecution, DeleteMount, CountMounts, RetireUnmounted, SnapshotMounts,
     RetirePurged, DeleteSnapshot, DeleteFile, DeleteDocument, RegisterBase, CountBase,
     RetireBase, DeleteBaseMounts, Stop, rows
<1>4. CASE Sample \/ FindsGap \/ ClosesGap \/ PassesOver
  BY <1>4 DEF Sample, FindsGap, FindGap, ClosesGap, CloseGap, PassesOver, PassOver, rows
<1>5. CASE UNCHANGED vars
  BY <1>5 DEF vars, rows
<1> QED
  BY <1>1, <1>2, <1>3, <1>4, <1>5 DEF Next

\* The reconciliation holds pairs that it held, or pairs of mounts.
LEMMA Samples ==
  ASSUME TypeOK, [Next]_vars, NEW pair \in mirror'.todo \cup mirror'.gap
  PROVE  \/ pair \in mirror.todo \cup mirror.gap
         \/ Sample /\ \E m \in mounts : pair = <<m.doc, m.kb>>
<1>0. mirror \in [todo : SUBSET Pairs, gap : SUBSET Pairs]
  BY DEF TypeOK, MirrorTyped
<1>1. ASSUME NEW p \in Procs, Serve(p) PROVE mirror' = mirror
  BY <1>1, OthersStand
<1>2. CASE Sample
  BY <1>0, <1>2 DEF Sample
<1>3. CASE FindsGap
  BY <1>0, <1>3 DEF FindsGap, FindGap
<1>4. CASE ClosesGap
  BY <1>0, <1>4 DEF ClosesGap, CloseGap
<1>5. CASE PassesOver
  BY <1>0, <1>5 DEF PassesOver, PassOver
<1>6. CASE UNCHANGED vars
  BY <1>6 DEF vars
<1> QED
  BY <1>1, <1>2, <1>3, <1>4, <1>5, <1>6 DEF Next

LEMMA KnownStep == TypeOK /\ Known /\ [Next]_vars => Known'
<1> SUFFICES ASSUME TypeOK, Known, [Next]_vars PROVE Known'
  OBVIOUS
<1>0. /\ KBs \subseteq Resources /\ kbs \subseteq KBs
      /\ \A m \in mounts : m.kb \in KBs
      /\ \A pair \in mirror.todo \cup mirror.gap : pair[2] \in KBs
      /\ \A p \in Procs : job[p] \in JobSet /\ Serving(job[p])
  BY DEF TypeOK, RowsTyped, JobsTyped, MirrorTyped, Resources, Pairs
<1>r. \A k \in KBs : registered[k] # "unknown" => registered'[k] # "unknown"
  BY <1>0, Remembered
<1>1. ASSUME NEW k \in kbs' PROVE registered'[k] # "unknown"
  <2>1. CASE k \in kbs
    BY <2>1, <1>0, <1>r DEF Known
  <2>2. CASE k \notin kbs
    <3>1. PICK p \in Procs : At(p, "create", "insert") /\ job[p].kb = k
      BY <2>2, BaseRows
    <3>2. k \in KBs
      BY <3>1, <1>0, Places DEF At
    <3> QED
      BY <3>1, <3>2, <1>r DEF Known
  <2> QED
    BY <2>1, <2>2
<1>2. ASSUME NEW m \in mounts' PROVE registered'[m.kb] # "unknown"
  <2>1. CASE m \in mounts
    BY <2>1, <1>0, <1>r DEF Known
  <2>2. CASE m \notin mounts
    BY <2>2, <1>0, <1>r, NewMount DEF Known
  <2> QED
    BY <2>1, <2>2
<1>3. ASSUME NEW pair \in mirror'.todo \cup mirror'.gap PROVE registered'[pair[2]] # "unknown"
  BY <1>0, <1>r, Samples DEF Known
<1>4. ASSUME NEW q \in Procs,
             job'[q].kind \in {"upload", "drop"} \/ At(q, "create", "insert")'
      PROVE  registered'[job'[q].kb] # "unknown"
  <2>1. CASE \/ job'[q].kb \in kbs
             \/ /\ job[q].kind \in {"upload", "drop"} \/ At(q, "create", "insert")
                /\ job'[q].kb = job[q].kb
    <3>1. registered[job'[q].kb] # "unknown" /\ job'[q].kb \in KBs
      BY <2>1, <1>0, Places DEF Known, At
    <3> QED
      BY <3>1, <1>r
  <2>2. CASE RegisterBase(q) /\ Same(q)
    <3>1. job[q].kb \in KBs
      BY <2>2, <1>0, Places DEF RegisterBase
    <3> QED
      BY <2>2, <3>1, <1>0 DEF RegisterBase, Register, Same, TypeOK, ServiceTyped
  <2>3. CASE job'[q] = job[q]
    BY <1>4, <2>1, <2>3 DEF At
  <2>4. CASE job'[q] # job[q]
    BY <1>4, <2>1, <2>2, <2>4, WhoMoved, BaseArrivals DEF At, Same
  <2> QED
    BY <2>3, <2>4
<1> QED
  BY <1>1, <1>2, <1>3, <1>4 DEF Known

\* What tables and service have of the document is as it was.
ViewSame(d) ==
    /\ registered'[d] = registered[d]
    /\ HasRow(d)' <=> HasRow(d)
    /\ \A k \in KBs : <<d, k>> \in linked' <=> <<d, k>> \in linked
    /\ MountsOf(d)' = MountsOf(d)

\* A request on another document, or on a knowledge base, changes nothing of this document,
\* unless it deletes the mounts of the knowledge base.
LEMMA Elsewhere ==
  ASSUME TypeOK, NumbersFit, NEW p \in Procs, Serve(p), NEW d \in Docs, job[p].doc # d
  PROVE  /\ registered'[d] = registered[d]
         /\ HasRow(d)' <=> HasRow(d)
         /\ \A k \in KBs : <<d, k>> \in linked' <=> <<d, k>> \in linked
         /\ \/ DeleteBaseMounts(p) /\ mounts' = {m \in mounts : m.kb # job[p].kb}
            \/ MountsOf(d)' = MountsOf(d)
<1>0. /\ registered \in [Resources -> {"unknown", "live", "retired"}] /\ d \in Resources
      /\ job[p] \in JobSet /\ Serving(job[p])
      /\ \A k \in KBs : k # d /\ k \in Resources
      /\ \A e \in Docs : e \in Resources
  BY MountsAssumption DEF TypeOK, ServiceTyped, Resources, Docs, JobsTyped
<1> DEFINE Service == /\ registered'[d] = registered[d]
                      /\ \A k \in KBs : <<d, k>> \in linked' <=> <<d, k>> \in linked
<1>1. /\ \A r \in Resources : r # d /\ (Register(r) \/ Retire(r)) => Service
      /\ \A e \in Docs, k \in KBs : e # d /\ (Link(e, k) \/ Unlink(e, k)) => Service
      /\ UNCHANGED service => Service
  BY <1>0 DEF Register, Retire, Link, Unlink, service
<1>2. Service
  <2>1. CASE RegisterDocument(p) \/ RetirePurged(p)
    BY <2>1, <1>0, <1>1, Places DEF RegisterDocument, RetirePurged
  <2>2. CASE RetireUnmounted(p)
    BY <2>2, <1>0, <1>1, Places DEF RetireUnmounted
  <2>3. CASE LinkMount(p)
    BY <2>3, <1>0, <1>1, Places DEF LinkMount
  <2>4. CASE UnlinkMount(p)
    BY <2>4, <1>0, <1>1, Places DEF UnlinkMount
  <2>5. CASE RegisterBase(p)
    BY <2>5, <1>0, <1>1, Places DEF RegisterBase
  <2>6. CASE RetireBase(p)
    BY <2>6, <1>0, <1>1, Places DEF RetireBase
  <2>8. CASE BeginUpload(p) \/ BeginUnmount(p) \/ BeginPurge(p) \/ BeginCreate(p) \/ BeginDrop(p)
    BY <2>8, <1>1 DEF BeginUpload, BeginUnmount, BeginPurge, BeginCreate, BeginDrop, Begin
  <2>9. CASE \/ FindDocument(p) \/ PutFile(p) \/ InsertDocument(p) \/ FindMount(p)
             \/ InsertMount(p) \/ RequestParse(p) \/ SelectMount(p) \/ DeleteExecution(p)
             \/ DeleteMount(p) \/ CountMounts(p) \/ SnapshotMounts(p) \/ DeleteSnapshot(p)
             \/ DeleteFile(p) \/ DeleteDocument(p)
    BY <2>9, <1>1 DEF FindDocument, PutFile, InsertDocument, FindMount, InsertMount,
       RequestParse, SelectMount, DeleteExecution, DeleteMount, CountMounts, SnapshotMounts,
       DeleteSnapshot, DeleteFile, DeleteDocument
  <2>10. CASE \/ InsertBase(p) \/ CountBase(p) \/ DeleteBaseMounts(p) \/ DeleteBase(p) \/ Stop(p)
    BY <2>10, <1>1 DEF InsertBase, CountBase, DeleteBaseMounts, DeleteBase, Stop
  <2> QED
    BY <2>1, <2>2, <2>3, <2>4, <2>5, <2>6, <2>8, <2>9, <2>10
       DEF Serve, Upload, Unmount, Purge, Base
<1>3. HasRow(d)' <=> HasRow(d)
  <2>1. CASE InsertDocument(p)
    <3> DEFINE new == [doc |-> job[p].doc, content |-> job[p].content]
    <3>1. new.doc # d
      OBVIOUS
    <3> HIDE DEF new
    <3>2. documents' = documents \/ documents' = documents \cup {new}
      BY <2>1 DEF InsertDocument, new
    <3> QED
      BY <3>1, <3>2 DEF HasRow
  <2>2. CASE DeleteDocument(p)
    BY <2>2 DEF DeleteDocument, HasRow
  <2>3. CASE ~InsertDocument(p) /\ ~DeleteDocument(p)
    <3>1. documents' = documents
      BY <2>3 DEF Serve, Upload, Unmount, Purge, Base, Begin, BeginUpload, BeginUnmount,
         BeginPurge, BeginCreate, BeginDrop, FindDocument, PutFile, RegisterDocument,
         FindMount, LinkMount, InsertMount, RequestParse, UnlinkMount, SelectMount,
         DeleteExecution, DeleteMount, CountMounts, RetireUnmounted, SnapshotMounts,
         RetirePurged, DeleteSnapshot, DeleteFile, RegisterBase, InsertBase, CountBase,
         RetireBase, DeleteBaseMounts, DeleteBase, Stop, rows
    <3> QED
      BY <3>1 DEF HasRow
  <2> QED
    BY <2>1, <2>2, <2>3
<1>4. \/ DeleteBaseMounts(p) /\ mounts' = {m \in mounts : m.kb # job[p].kb}
      \/ MountsOf(d)' = MountsOf(d)
  <2>1. CASE InsertMount(p)
    <3> DEFINE new == [id |-> ids + 1, doc |-> job[p].doc, kb |-> job[p].kb]
    <3>1. new.doc # d
      OBVIOUS
    <3> HIDE DEF new
    <3>2. mounts' = mounts \/ mounts' = mounts \cup {new}
      BY <2>1 DEF InsertMount, new
    <3> QED
      BY <3>1, <3>2 DEF MountsOf
  <2>2. CASE DeleteMount(p)
    <3>1. mounts' = mounts \/ mounts' = mounts \ MountsOn(job[p].doc, job[p].kb)
      BY <2>2 DEF DeleteMount
    <3> QED
      BY <3>1 DEF MountsOn, MountsOf
  <2>3. CASE DeleteSnapshot(p)
    <3>1. \/ mounts' = mounts
          \/ \E i \in job[p].seen : mounts' = {m \in mounts : m.id # i}
      BY <2>3 DEF DeleteSnapshot
    <3>2. At(p, "purge", "delete mounts")
      BY <2>3, PurgeMoves
    <3>3. \A i \in job[p].seen, m \in mounts : m.id = i => m.doc # d
      BY <3>2 DEF NumbersFit
    <3> QED
      BY <3>1, <3>3 DEF MountsOf
  <2>4. CASE DeleteBaseMounts(p)
    <3>1. mounts' = mounts \/ mounts' = {m \in mounts : m.kb # job[p].kb}
      BY <2>4 DEF DeleteBaseMounts
    <3> QED
      BY <2>4, <3>1 DEF MountsOf
  <2>5. CASE ~InsertMount(p) /\ ~DeleteMount(p) /\ ~DeleteSnapshot(p) /\ ~DeleteBaseMounts(p)
    <3>1. mounts' = mounts
      BY <2>5 DEF Serve, Upload, Unmount, Purge, Base, Begin, BeginUpload, BeginUnmount,
         BeginPurge, BeginCreate, BeginDrop, FindDocument, PutFile, RegisterDocument,
         InsertDocument, FindMount, LinkMount, RequestParse, UnlinkMount, SelectMount,
         DeleteExecution, CountMounts, RetireUnmounted, SnapshotMounts, DeleteDocument,
         RetirePurged, DeleteFile, RegisterBase, InsertBase, CountBase, RetireBase,
         DeleteBase, Stop, rows
    <3> QED
      BY <3>1 DEF MountsOf
  <2> QED
    BY <2>1, <2>2, <2>3, <2>4, <2>5
<1> QED
  BY <1>2, <1>3, <1>4

\* The document that a request is on is the one that it was on, one that there is, or a new one.
LEMMA DocArrivals ==
  ASSUME NEW p \in Procs, TypeOK, Serve(p)
  PROVE  \/ job'[p].doc = job[p].doc
         \/ job'[p].doc = 0
         \/ BeginUnmount(p) /\ job[p].doc = 0 /\ job'[p].doc \in 1 .. docs
         \/ BeginPurge(p) /\ job[p].doc = 0 /\ job'[p].doc \in 1 .. docs
         \/ /\ FindDocument(p) /\ job[p].doc = 0
            /\ \/ \E r \in documents : r.doc = job'[p].doc
               \/ job'[p].doc = docs + 1 /\ docs' = docs + 1
<1>0. job[p] \in JobSet /\ Serving(job[p])
  BY DEF TypeOK, JobsTyped
<1>1. /\ Over(p) => job'[p].doc = 0
      /\ job[p].pc = "idle" => job[p].doc = 0
  BY <1>0, IdleFields DEF Over, Serving
<1>2. CASE \/ BeginUpload(p) \/ BeginUnmount(p) \/ BeginPurge(p) \/ BeginCreate(p)
           \/ BeginDrop(p)
  BY <1>1, <1>2, TakenMoves
<1>3. CASE FindDocument(p)
  <2>1. job[p].doc = 0
    BY <1>3, <1>0, UploadMoves, Places DEF At
  <2>2. CASE \E r \in documents : r.doc = job'[p].doc
    BY <1>3, <2>1, <2>2
  <2>3. CASE /\ Continue(p, [job[p] EXCEPT !.doc = docs + 1, !.pc = "store"])
             /\ docs' = docs + 1
    <3>1. job'[p] = [job[p] EXCEPT !.doc = docs + 1, !.pc = "store"]
      BY <2>3, Went
    <3>2. job'[p].doc = docs + 1
      BY <3>1, <1>0 DEF JobSet
    <3> QED
      BY <1>3, <2>1, <2>3, <3>2
  <2>4. ASSUME NEW r \in documents,
               Continue(p, [job[p] EXCEPT !.doc = r.doc, !.pc = "find mount"])
        PROVE  \E s \in documents : s.doc = job'[p].doc
    <3>1. job'[p] = [job[p] EXCEPT !.doc = r.doc, !.pc = "find mount"]
      BY <2>4, Went
    <3>2. job'[p].doc = r.doc
      BY <3>1, <1>0 DEF JobSet
    <3> QED
      BY <3>2
  <2> QED
    BY <1>3, <2>2, <2>3, <2>4 DEF FindDocument
<1>4. CASE Upload(p) /\ ~FindDocument(p)
  BY <1>1, <1>4, UploadMoves DEF Upload, Same
<1>5. CASE Unmount(p)
  BY <1>1, <1>5, UnmountMoves DEF Unmount, Same
<1>6. CASE Purge(p) \/ DeleteDocument(p)
  BY <1>1, <1>6, PurgeMoves DEF Purge, Same
<1>7. CASE Base(p) \/ Stop(p)
  BY <1>1, <1>7, BaseMoves DEF Base, Same
<1> QED
  BY <1>2, <1>3, <1>4, <1>5, <1>6, <1>7 DEF Serve

\* Nobody has anything of a document that there is not yet.
Fresh ==
    \A d \in Docs : d > docs =>
        /\ ~HasRow(d) /\ MountsOf(d) = {} /\ registered[d] = "unknown"
        /\ \A k \in KBs : <<d, k>> \notin linked
        /\ \A p \in Procs : job[p].doc # d
        /\ ~Sampled(mirror, d)

LEMMA FreshStep == TypeOK /\ NumbersFit /\ Fresh /\ [Next]_vars => Fresh'
<1> SUFFICES ASSUME TypeOK, NumbersFit, Fresh, [Next]_vars, NEW d \in Docs, d > docs'
             PROVE  /\ ~HasRow(d)' /\ MountsOf(d)' = {} /\ registered'[d] = "unknown"
                    /\ \A k \in KBs : <<d, k>> \notin linked'
                    /\ \A p \in Procs : job'[p].doc # d
                    /\ ~Sampled(mirror, d)'
  BY DEF Fresh
<1>0. docs \in Nat /\ d \in Nat /\ d # 0
  BY DEF TypeOK, CountsTyped, Docs
<1>1. docs' \in {docs, docs + 1}
  <2>1. ASSUME NEW p \in Procs, Serve(p) PROVE docs' \in {docs, docs + 1}
    <3>1. CASE FindDocument(p)
      BY <3>1 DEF FindDocument
    <3>2. CASE ~FindDocument(p)
      BY <2>1, <3>2 DEF Serve, Upload, Unmount, Purge, Base, Begin, BeginUpload, BeginUnmount,
         BeginPurge, BeginCreate, BeginDrop, PutFile, RegisterDocument, InsertDocument,
         FindMount, LinkMount, InsertMount, RequestParse, UnlinkMount, SelectMount,
         DeleteExecution, DeleteMount, CountMounts, RetireUnmounted, SnapshotMounts,
         RetirePurged, DeleteSnapshot, DeleteFile, DeleteDocument, RegisterBase, InsertBase,
         CountBase, RetireBase, DeleteBaseMounts, DeleteBase, Stop, counts
    <3> QED
      BY <3>1, <3>2
  <2>2. CASE Sample \/ FindsGap \/ ClosesGap \/ PassesOver
    BY <2>2 DEF Sample, FindsGap, FindGap, ClosesGap, CloseGap, PassesOver, PassOver, counts
  <2>3. CASE UNCHANGED vars
    BY <2>3 DEF vars, counts
  <2> QED
    BY <2>1, <2>2, <2>3 DEF Next
<1>2. /\ ~HasRow(d) /\ MountsOf(d) = {} /\ registered[d] = "unknown"
      /\ \A k \in KBs : <<d, k>> \notin linked
      /\ \A p \in Procs : job[p].doc # d
      /\ ~Sampled(mirror, d)
  BY <1>0, <1>1 DEF Fresh
<1>3. ~Sampled(mirror, d)'
  <2>1. ASSUME NEW pair \in mirror'.todo \cup mirror'.gap PROVE pair[1] # d
    <3>1. CASE pair \in mirror.todo \cup mirror.gap
      BY <3>1, <1>2 DEF Sampled
    <3>2. ASSUME NEW m \in mounts, pair = <<m.doc, m.kb>> PROVE pair[1] # d
      BY <3>2, <1>2 DEF MountsOf
    <3> QED
      BY <3>1, <3>2, Samples
  <2> QED
    BY <2>1 DEF Sampled
<1>4. ASSUME NEW p \in Procs, Serve(p)
      PROVE  /\ ~HasRow(d)' /\ MountsOf(d)' = {} /\ registered'[d] = "unknown"
             /\ \A k \in KBs : <<d, k>> \notin linked'
  BY <1>2, <1>4, Elsewhere DEF MountsOf
<1>5. ASSUME NEW p \in Procs PROVE job'[p].doc # d
  <2>1. CASE job'[p] = job[p]
    BY <2>1, <1>2
  <2>2. CASE job'[p] # job[p]
    BY <2>2, <1>0, <1>1, <1>2, WhoMoved, DocArrivals DEF HasRow
  <2> QED
    BY <2>1, <2>2
<1>6. CASE Sample \/ FindsGap \/ PassesOver
  BY <1>2, <1>3, <1>5, <1>6 DEF Sample, FindsGap, FindGap, PassesOver, PassOver, rows, service,
     HasRow, MountsOf
<1>7. CASE ClosesGap
  <2>1. PICK e \in Docs, k \in KBs : CloseGap(e, k)
    BY <1>7 DEF ClosesGap
  <2>2. e # d
    BY <2>1, <1>2 DEF CloseGap, Sampled
  <2>3. d \in Resources /\ k # d
    BY MountsAssumption, <1>0 DEF Resources
  <2> QED
    BY <1>2, <1>3, <1>5, <2>1, <2>2, <2>3 DEF CloseGap, Link, rows, HasRow, MountsOf
<1>8. CASE UNCHANGED vars
  BY <1>2, <1>3, <1>5, <1>8 DEF vars, rows, service, HasRow, MountsOf
<1> QED
  BY <1>3, <1>4, <1>5, <1>6, <1>7, <1>8 DEF Next

\* What a deletion of a knowledge base that is past its count deletes unseen are mounts of
\* disturbed documents.
DropsEmpty ==
    \A p \in Procs : job[p].kind = "drop" /\ job[p].pc # "count" =>
        \A m \in mounts : m.kb = job[p].kb => m.doc \in disturbed

LEMMA DropsStep == TypeOK /\ AllCalm /\ DropsEmpty /\ [Next]_vars => DropsEmpty'
<1> SUFFICES ASSUME TypeOK, AllCalm, DropsEmpty, [Next]_vars, NEW q \in Procs,
                    job'[q].kind = "drop", job'[q].pc # "count", NEW m \in mounts',
                    m.kb = job'[q].kb
             PROVE  m.doc \in disturbed'
  BY DEF DropsEmpty
<1>1. ASSUME job[q].kind = "drop", job[q].pc # "count", job'[q].kb = job[q].kb
      PROVE  m.doc \in disturbed'
  <2>1. CASE m \in mounts
    BY <1>1, <2>1, Tracked DEF DropsEmpty
  <2>2. CASE m \notin mounts
    <3>1. PICK p \in Procs : InsertMount(p) /\ m.doc = job[p].doc /\ m.kb = job[p].kb
      BY <2>2, NewMount
    <3>2. job[p].kind = "upload" /\ job[p].doc \in Docs
      BY <3>1, Places DEF InsertMount, TypeOK, JobsTyped
    <3> QED
      BY <1>1, <3>1, <3>2, Tracked DEF AllCalm, Calm
  <2> QED
    BY <2>1, <2>2
<1>2. CASE job'[q] = job[q]
  BY <1>1, <1>2
<1>3. CASE CountBase(q) /\ At(q, "drop", "count") /\ At(q, "drop", "retire")' /\ Same(q)
  <2>1. ~Answer(q)
    BY <1>3, Went, IdleFields DEF Over, At
  <2> QED
    BY <1>3, <2>1 DEF CountBase, rows, Same
<1>4. CASE job'[q] # job[q]
  BY <1>1, <1>3, <1>4, WhoMoved, BaseArrivals DEF At, Same
<1> QED
  BY <1>2, <1>4

-----------------------------------------------------------------------------
(* Tables and service: documents *)

\* What a request that does not fail does to its document, and where it goes.
RowSame(d) == HasRow(d)' <=> HasRow(d)
PairsSame(d) == \A k \in KBs : <<d, k>> \in linked' <=> <<d, k>> \in linked
MountsSame(d) == MountsOf(d)' = MountsOf(d)
StateSame(d) == registered'[d] = registered[d]

UploadEffects(p, d) ==
    \/ /\ At(p, "upload", "store") /\ At(p, "upload", "register")' /\ Same(p)
       /\ RowSame(d) /\ PairsSame(d) /\ MountsSame(d) /\ StateSame(d)
    \/ /\ At(p, "upload", "register") /\ At(p, "upload", "insert")' /\ Same(p)
       /\ RowSame(d) /\ PairsSame(d) /\ MountsSame(d) /\ registered'[d] = "live"
    \/ /\ At(p, "upload", "insert") /\ At(p, "upload", "find mount")' /\ Same(p)
       /\ HasRow(d)' /\ PairsSame(d) /\ MountsSame(d) /\ StateSame(d)
    \/ /\ At(p, "upload", "find mount") /\ Same(p)
       /\ At(p, "upload", "link")' \/ At(p, "upload", "parse")'
       /\ RowSame(d) /\ PairsSame(d) /\ MountsSame(d) /\ StateSame(d)
    \/ /\ At(p, "upload", "link") /\ At(p, "upload", "insert mount")' /\ Same(p)
       /\ RowSame(d) /\ MountsSame(d) /\ (registered[d] = "live" => registered'[d] = "live")
       /\ \A k \in KBs : <<d, k>> \in linked' <=> <<d, k>> \in linked \/ k = job[p].kb
    \/ /\ At(p, "upload", "insert mount") /\ At(p, "upload", "parse")' /\ Same(p)
       /\ RowSame(d) /\ PairsSame(d) /\ StateSame(d)
       /\ \E new : new.kb = job[p].kb /\ MountsOf(d)' = MountsOf(d) \cup {new}
    \/ /\ At(p, "upload", "parse") /\ Over(p)
       /\ RowSame(d) /\ PairsSame(d) /\ MountsSame(d) /\ StateSame(d)

LEMMA OfUploads ==
  ASSUME TypeOK, NEW d \in Docs, NEW p \in Procs, job[p].doc = d, Upload(p), ~Fails(p)
  PROVE  UploadEffects(p, d)
<1>0. /\ job[p] \in JobSet /\ Serving(job[p])
      /\ registered \in [Resources -> {"unknown", "live", "retired"}] /\ d \in Resources
      /\ d # 0
  BY DEF TypeOK, ServiceTyped, Resources, Docs, JobsTyped
<1>1. CASE FindDocument(p)
  BY <1>0, <1>1, UploadMoves, Places DEF At
<1>2. CASE PutFile(p)
  BY <1>2, UploadMoves DEF PutFile, service, UploadEffects, RowSame, PairsSame, MountsSame,
     StateSame, HasRow, MountsOf
<1>3. CASE RegisterDocument(p)
  <2>1. At(p, "upload", "register") /\ At(p, "upload", "insert")' /\ Same(p)
    <3>1. Goto(p, "insert") /\ At(p, "upload", "register")
      BY <1>3, UploadMoves DEF RegisterDocument, Called
    <3> QED
      BY <3>1, Went DEF At, Pcs
  <2>2. registered'[d] = "live" /\ linked' = linked
    BY <1>0, <1>3 DEF RegisterDocument, Register
  <2> QED
    BY <1>3, <2>1, <2>2 DEF RegisterDocument, rows, UploadEffects, RowSame, PairsSame,
       MountsSame, HasRow, MountsOf
<1>4. CASE InsertDocument(p)
  <2>1. At(p, "upload", "insert") /\ At(p, "upload", "find mount")' /\ Same(p)
    <3>1. Goto(p, "find mount") /\ At(p, "upload", "insert")
      BY <1>4, UploadMoves DEF InsertDocument
    <3> QED
      BY <3>1, Went DEF At, Pcs
  <2> DEFINE new == [doc |-> job[p].doc, content |-> job[p].content]
  <2>2. new.doc = d
    OBVIOUS
  <2>3. documents' = documents \cup {new}
    BY <1>4 DEF InsertDocument
  <2> HIDE DEF new
  <2>4. HasRow(d)'
    BY <2>2, <2>3 DEF HasRow
  <2> QED
    BY <1>4, <2>1, <2>4 DEF InsertDocument, service, UploadEffects, PairsSame,
       MountsSame, MountsOf, StateSame
<1>5. CASE FindMount(p)
  BY <1>5, UploadMoves DEF FindMount, rows, service, UploadEffects, RowSame, PairsSame,
     MountsSame, StateSame, HasRow, MountsOf
<1>6. CASE LinkMount(p)
  <2>1. At(p, "upload", "link") /\ At(p, "upload", "insert mount")' /\ Same(p)
    <3>1. Goto(p, "insert mount") /\ At(p, "upload", "link")
      BY <1>6, UploadMoves DEF LinkMount, Called
    <3> QED
      BY <3>1, Went DEF At, Pcs
  <2>2. /\ registered[d] = "live" => registered'[d] = "live"
        /\ \A k \in KBs : <<d, k>> \in linked' <=> <<d, k>> \in linked \/ k = job[p].kb
    BY <1>0, <1>6 DEF LinkMount, Link
  <2> QED
    BY <1>6, <2>1, <2>2 DEF LinkMount, rows, UploadEffects, RowSame, MountsSame, HasRow, MountsOf
<1>7. CASE InsertMount(p)
  <2> DEFINE new == [id |-> ids + 1, doc |-> job[p].doc, kb |-> job[p].kb]
  <2>1. /\ Continue(p, [job[p] EXCEPT !.mount = ids + 1, !.pc = "parse"])
        /\ mounts' = mounts \cup {new} /\ At(p, "upload", "insert mount")
    BY <1>7, UploadMoves DEF InsertMount
  <2>2. At(p, "upload", "parse")' /\ Same(p)
    <3>1. job'[p] = [job[p] EXCEPT !.mount = ids + 1, !.pc = "parse"]
      BY <2>1, Went
    <3> QED
      BY <3>1, <2>1, <1>0 DEF At, Same, JobSet
  <2>3. new.kb = job[p].kb /\ new.doc = d
    OBVIOUS
  <2> HIDE DEF new
  <2>4. MountsOf(d)' = MountsOf(d) \cup {new}
    BY <2>1, <2>3 DEF MountsOf
  <2>5. RowSame(d) /\ PairsSame(d) /\ StateSame(d)
    BY <1>7 DEF InsertMount, service, RowSame, PairsSame, StateSame, HasRow
  <2> QED
    BY <2>1, <2>2, <2>3, <2>4, <2>5 DEF UploadEffects
<1>8. CASE RequestParse(p)
  BY <1>8, UploadMoves DEF RequestParse, service, UploadEffects, RowSame, PairsSame,
     MountsSame, StateSame, HasRow, MountsOf
<1> QED
  BY <1>1, <1>2, <1>3, <1>4, <1>5, <1>6, <1>7, <1>8 DEF Upload

UnmountEffects(p, d) ==
    \/ /\ At(p, "unmount", "unlink") /\ At(p, "unmount", "select")' /\ Same(p)
       /\ RowSame(d) /\ MountsSame(d) /\ StateSame(d)
       /\ \A k \in KBs : <<d, k>> \in linked' <=> <<d, k>> \in linked /\ k # job[p].kb
    \/ /\ At(p, "unmount", "select") \/ At(p, "unmount", "delete execution")
       /\ At(p, "unmount", "delete execution")' \/ At(p, "unmount", "delete mount")'
       /\ Same(p) /\ RowSame(d) /\ PairsSame(d) /\ MountsSame(d) /\ StateSame(d)
    \/ /\ At(p, "unmount", "delete mount") /\ At(p, "unmount", "count")' /\ Same(p)
       /\ RowSame(d) /\ PairsSame(d) /\ StateSame(d)
       /\ MountsOf(d)' = {m \in MountsOf(d) : m.kb # job[p].kb}
    \/ /\ At(p, "unmount", "count")
       /\ \/ Over(p)
          \/ MountsOf(d) = {} /\ At(p, "unmount", "retire")' /\ job'[p].doc = d
       /\ RowSame(d) /\ PairsSame(d) /\ MountsSame(d) /\ StateSame(d)
    \/ /\ At(p, "unmount", "retire") /\ At(p, "unmount", "delete row")' /\ Same(p)
       /\ RowSame(d) /\ MountsSame(d) /\ registered'[d] # "live"
       /\ \/ PairsSame(d)
          \/ \A k \in KBs : <<d, k>> \notin linked'

LEMMA OfUnmounts ==
  ASSUME TypeOK, NEW d \in Docs, NEW p \in Procs, job[p].doc = d, Unmount(p), ~Fails(p)
  PROVE  UnmountEffects(p, d)
<1>0. /\ job[p] \in JobSet /\ Serving(job[p])
      /\ registered \in [Resources -> {"unknown", "live", "retired"}] /\ d \in Resources
      /\ linked \subseteq Pairs /\ d # 0
  BY DEF TypeOK, ServiceTyped, Resources, Docs, JobsTyped
<1>1. CASE UnlinkMount(p)
  <2>1. At(p, "unmount", "unlink") /\ At(p, "unmount", "select")' /\ Same(p)
    <3>1. CASE Over(p)
      <4>1. CASE Goto(p, "select")
        BY <4>1, <3>1, Went, IdleFields DEF At, Over, Pcs
      <4>2. CASE Continue(p, [job[p] EXCEPT !.warned = TRUE, !.pc = "select"])
        <5>1. job'[p] = [job[p] EXCEPT !.warned = TRUE, !.pc = "select"]
          BY <4>2, Went
        <5>2. job'[p].pc = "select"
          BY <5>1, <1>0 DEF JobSet
        <5> QED
          BY <5>2, <3>1, IdleFields DEF Over
      <4> QED
        BY <1>1, <4>1, <4>2 DEF UnlinkMount, Called
    <3> QED
      BY <1>1, <3>1, UnmountMoves
  <2>2. /\ StateSame(d)
        /\ \A k \in KBs : <<d, k>> \in linked' <=> <<d, k>> \in linked /\ k # job[p].kb
    BY <1>1 DEF UnlinkMount, Unlink, NotFound, service, StateSame
  <2> QED
    BY <1>1, <2>1, <2>2 DEF UnlinkMount, rows, UnmountEffects, RowSame, MountsSame, HasRow,
       MountsOf
<1>2. CASE SelectMount(p) \/ DeleteExecution(p)
  BY <1>2, UnmountMoves DEF SelectMount, DeleteExecution, rows, service, UnmountEffects,
     RowSame, PairsSame, MountsSame, StateSame, HasRow, MountsOf
<1>3. CASE DeleteMount(p)
  <2>1. At(p, "unmount", "delete mount") /\ At(p, "unmount", "count")' /\ Same(p)
    <3>1. Goto(p, "count") /\ At(p, "unmount", "delete mount")
      BY <1>3, UnmountMoves DEF DeleteMount
    <3> QED
      BY <3>1, Went DEF At, Pcs
  <2>2. mounts' = mounts \ MountsOn(d, job[p].kb)
    BY <1>3 DEF DeleteMount
  <2>3. MountsOf(d)' = {m \in MountsOf(d) : m.kb # job[p].kb}
    BY <2>2 DEF MountsOn, MountsOf
  <2> QED
    BY <1>3, <2>1, <2>3 DEF DeleteMount, service, UnmountEffects, RowSame, PairsSame,
       StateSame, HasRow
<1>4. CASE CountMounts(p)
  <2>1. /\ At(p, "unmount", "count")
        /\ Over(p) \/ (At(p, "unmount", "retire")' /\ job'[p].doc = d)
    BY <1>4, UnmountMoves
  <2>2. MountsOf(d) # {} => Over(p)
    BY <1>4, Went DEF CountMounts
  <2> QED
    BY <1>4, <2>1, <2>2 DEF CountMounts, rows, service, UnmountEffects, RowSame, PairsSame,
       MountsSame, StateSame, HasRow, MountsOf
<1>5. CASE RetireUnmounted(p)
  <2>1. At(p, "unmount", "retire") /\ At(p, "unmount", "delete row")' /\ Same(p)
    <3>1. Goto(p, "delete row") /\ At(p, "unmount", "retire")
      BY <1>5, UnmountMoves DEF RetireUnmounted, Called
    <3> QED
      BY <3>1, Went DEF At, Pcs
  <2>2. /\ registered'[d] # "live"
        /\ PairsSame(d) \/ \A k \in KBs : <<d, k>> \notin linked'
    BY <1>0, <1>5 DEF RetireUnmounted, Retire, PairsSame, service
  <2> QED
    BY <1>5, <2>1, <2>2 DEF RetireUnmounted, rows, UnmountEffects, RowSame, MountsSame, HasRow,
       MountsOf
<1> QED
  BY <1>1, <1>2, <1>3, <1>4, <1>5 DEF Unmount

PurgeEffects(p, d) ==
    \/ /\ At(p, "purge", "snapshot")
       /\ \/ Over(p)
          \/ /\ At(p, "purge", "retire")' /\ job'[p].doc = d
             /\ \A m \in MountsOf(d) : m.id \in job'[p].seen
       /\ RowSame(d) /\ PairsSame(d) /\ MountsSame(d) /\ StateSame(d)
    \/ /\ At(p, "purge", "retire") /\ At(p, "purge", "delete mounts")' /\ Same(p)
       /\ RowSame(d) /\ MountsSame(d) /\ registered'[d] # "live"
       /\ \A k \in KBs : <<d, k>> \notin linked'
    \/ /\ At(p, "purge", "delete mounts") /\ At(p, "purge", "delete mounts")' /\ job'[p].doc = d
       /\ RowSame(d) /\ PairsSame(d) /\ StateSame(d)
       /\ \E i : /\ MountsOf(d)' = {m \in MountsOf(d) : m.id # i}
                 /\ job'[p].seen = job[p].seen \ {i}
    \/ /\ At(p, "purge", "delete mounts") /\ At(p, "purge", "delete file")' /\ Same(p)
       /\ job[p].seen = {}
       /\ RowSame(d) /\ PairsSame(d) /\ MountsSame(d) /\ StateSame(d)
    \/ /\ At(p, "purge", "delete file") /\ At(p, "purge", "delete row")' /\ Same(p)
       /\ RowSame(d) /\ PairsSame(d) /\ MountsSame(d) /\ StateSame(d)
    \/ /\ At(p, "unmount", "delete row") \/ At(p, "purge", "delete row")
       /\ Over(p)
       /\ ~HasRow(d)' /\ PairsSame(d) /\ MountsSame(d) /\ StateSame(d)

LEMMA OfPurges ==
  ASSUME TypeOK, NEW d \in Docs, NEW p \in Procs, job[p].doc = d, Purge(p) \/ DeleteDocument(p),
         ~Fails(p)
  PROVE  PurgeEffects(p, d)
<1>0. /\ job[p] \in JobSet /\ Serving(job[p])
      /\ registered \in [Resources -> {"unknown", "live", "retired"}] /\ d \in Resources
      /\ linked \subseteq Pairs /\ d # 0
  BY DEF TypeOK, ServiceTyped, Resources, Docs, JobsTyped
<1>1. CASE SnapshotMounts(p)
  <2>1. /\ At(p, "purge", "snapshot")
        /\ \/ Over(p)
           \/ /\ At(p, "purge", "retire")' /\ job'[p].doc = d
              /\ \A m \in MountsOf(d) : m.id \in job'[p].seen
    BY <1>1, PurgeMoves
  <2> QED
    BY <1>1, <2>1 DEF SnapshotMounts, rows, service, PurgeEffects, RowSame, PairsSame,
       MountsSame, StateSame, HasRow, MountsOf
<1>2. CASE RetirePurged(p)
  <2>1. At(p, "purge", "retire") /\ At(p, "purge", "delete mounts")' /\ Same(p)
    <3>1. Goto(p, "delete mounts") /\ At(p, "purge", "retire")
      BY <1>2, PurgeMoves DEF RetirePurged, Called
    <3> QED
      BY <3>1, Went DEF At, Pcs
  <2>2. registered'[d] # "live" /\ \A k \in KBs : <<d, k>> \notin linked'
    BY <1>0, <1>2 DEF RetirePurged, Retire
  <2> QED
    BY <1>2, <2>1, <2>2 DEF RetirePurged, rows, PurgeEffects, RowSame, MountsSame, HasRow,
       MountsOf
<1>3. CASE DeleteSnapshot(p)
  <2>0. At(p, "purge", "delete mounts") /\ RowSame(d) /\ PairsSame(d) /\ StateSame(d)
    BY <1>3, PurgeMoves DEF DeleteSnapshot, service, RowSame, PairsSame, StateSame, HasRow
  <2>1. ~Over(p)
    <3>1. ASSUME NEW i \in job[p].seen, Continue(p, [job[p] EXCEPT !.seen = @ \ {i}])
          PROVE  ~Over(p)
      <4>1. job'[p] = [job[p] EXCEPT !.seen = @ \ {i}]
        BY <3>1, Went
      <4>2. job'[p].pc = job[p].pc
        BY <4>1, <1>0 DEF JobSet
      <4> QED
        BY <4>2, <2>0, IdleFields DEF Over, At
    <3>2. Goto(p, "delete file") => ~Over(p)
      BY Went, IdleFields DEF Over, At, Pcs
    <3> QED
      BY <1>3, <3>1, <3>2 DEF DeleteSnapshot
  <2>2. CASE /\ At(p, "purge", "delete mounts")' /\ job'[p].doc = job[p].doc
             /\ \E i \in job[p].seen : /\ job'[p].seen = job[p].seen \ {i}
                                       /\ mounts' = {m \in mounts : m.id # i}
    <3>1. \E i : /\ MountsOf(d)' = {m \in MountsOf(d) : m.id # i}
                 /\ job'[p].seen = job[p].seen \ {i}
      BY <2>2 DEF MountsOf
    <3> QED
      BY <2>0, <2>2, <3>1 DEF PurgeEffects
  <2>3. CASE At(p, "purge", "delete file")' /\ Same(p) /\ job[p].seen = {} /\ mounts' = mounts
    BY <2>0, <2>3 DEF PurgeEffects, MountsSame, MountsOf
  <2> QED
    BY <1>3, <2>1, <2>2, <2>3, PurgeMoves
<1>4. CASE DeleteFile(p)
  BY <1>4, PurgeMoves DEF DeleteFile, service, PurgeEffects, RowSame, PairsSame, MountsSame,
     StateSame, HasRow, MountsOf
<1>5. CASE DeleteDocument(p)
  <2>1. /\ At(p, "unmount", "delete row") \/ At(p, "purge", "delete row")
        /\ Over(p)
    BY <1>5, PurgeMoves DEF At
  <2>2. ~HasRow(d)'
    BY <1>5 DEF DeleteDocument, HasRow
  <2> QED
    BY <1>5, <2>1, <2>2 DEF DeleteDocument, service, PurgeEffects, PairsSame, MountsSame,
       StateSame, MountsOf
<1> QED
  BY <1>1, <1>2, <1>3, <1>4, <1>5 DEF Purge

\* A request on the document at one of some places
AtOn(p, d, kind, pcs) == job[p].doc = d /\ job[p].kind = kind /\ job[p].pc \in pcs

\* A removal has retired the document, or taken a pair from the service; an upload has given it.
Retired(p, d) ==
    \/ AtOn(p, d, "purge", {"delete mounts", "delete file", "delete row"})
    \/ AtOn(p, d, "unmount", {"delete row"})
Unlinked(p, d, k) ==
    \/ AtOn(p, d, "purge", {"delete mounts"})
    \/ /\ AtOn(p, d, "unmount", {"select", "delete execution", "delete mount"})
       /\ job[p].kb = k
Linked(p, d, k) == AtOn(p, d, "upload", {"insert mount"}) /\ job[p].kb = k
Registered(p, d) == AtOn(p, d, "upload", {"insert"})

Mounted(d, k) == \E m \in MountsOf(d) : m.kb = k

\* Row and registration agree, or a request is between the two; so do mounts and pairs.
RowFits(d) ==
    /\ HasRow(d) /\ registered[d] # "live" => \E p \in Procs : Retired(p, d)
    /\ ~HasRow(d) /\ registered[d] = "live" => \E p \in Procs : Registered(p, d)
PairsFit(d) ==
    \A k \in KBs :
      /\ <<d, k>> \in linked /\ ~Mounted(d, k) => \E p \in Procs : Linked(p, d, k)
      /\ <<d, k>> \notin linked /\ Mounted(d, k) => \E p \in Procs : Unlinked(p, d, k)

\* What the requests on the document know of it.
NewFits(p, d) ==
    AtOn(p, d, "upload", {"store", "register", "insert"}) =>
      /\ ~HasRow(d) /\ \A k \in KBs : <<d, k>> \notin linked
      /\ job[p].pc = "insert" => registered[d] = "live"
      /\ job[p].pc # "insert" => registered[d] # "live"
      /\ \A q \in Procs : job[q].doc = d => q = p
MountingFits(p, d) ==
    AtOn(p, d, "upload", {"find mount", "link", "insert mount", "parse"}) =>
      /\ HasRow(d) /\ registered[d] = "live"
      /\ job[p].pc = "insert mount" => <<d, job[p].kb>> \in linked
RemovalFits(p, d) ==
    /\ AtOn(p, d, "unmount", {"select", "delete execution", "delete mount"}) =>
         <<d, job[p].kb>> \notin linked
    /\ AtOn(p, d, "unmount", {"retire", "delete row"}) => MountsOf(d) = {}
    /\ AtOn(p, d, "purge", {"retire", "delete mounts"}) =>
         \A m \in MountsOf(d) : m.id \in job[p].seen
    /\ AtOn(p, d, "purge", {"delete mounts"}) => \A k \in KBs : <<d, k>> \notin linked
    /\ AtOn(p, d, "purge", {"delete file", "delete row"}) => MountsOf(d) = {}
    /\ Retired(p, d) => registered[d] # "live"
JobFits(p, d) == NewFits(p, d) /\ MountingFits(p, d) /\ RemovalFits(p, d)
SampledFits(d) == \A k \in KBs : <<d, k>> \in mirror.todo \cup mirror.gap => Mounted(d, k)

DocFits(d) ==
    RowFits(d) /\ PairsFit(d) /\ (\A p \in Procs : JobFits(p, d)) /\ SampledFits(d)

\* An upload on the document is past no removal of it, and what it and the other uploads on the
\* document know stays true.
LEMMA UploadKeepsFit ==
  ASSUME TypeOK, NEW d \in Docs, NEW p \in Procs, job[p].doc = d, UploadEffects(p, d), Calm(d),
         DocFits(d), \A q \in Procs \ {p} : job'[q] = job[q], mirror' = mirror
  PROVE  DocFits(d)'
<1>0. job[p].kind = "upload" /\ d # 0
  <2>1. job[p].kind = "upload"
    BY DEF UploadEffects, At
  <2>2. d # 0
    BY DEF Docs
  <2> QED
    BY <2>1, <2>2
<1>a. \A q \in Procs : job[q].doc = d => job[q].kind \notin {"unmount", "purge"}
  BY <1>0 DEF Calm
<1>b. \A q \in Procs : ~Retired(q, d) /\ \A k \in KBs : ~Unlinked(q, d, k)
  BY <1>a DEF Retired, Unlinked, AtOn
<1>1. HasRow(d) => registered[d] = "live"
  BY <1>b DEF DocFits, RowFits
<1>2. \A k \in KBs : Mounted(d, k) => <<d, k>> \in linked
  BY <1>b DEF DocFits, PairsFit
<1>3. \A q \in Procs \ {p} : job[q].doc = d =>
        job[q].pc \notin {"store", "register", "insert"} \/ job[q].kind # "upload"
  BY DEF DocFits, JobFits, NewFits, AtOn
<1>4. \A q \in Procs \ {p} : job[q].doc = d /\ job[q].kind = "upload"
        /\ job[q].pc \in {"find mount", "link", "insert mount", "parse"} =>
        /\ HasRow(d) /\ registered[d] = "live"
        /\ job[q].pc = "insert mount" => <<d, job[q].kb>> \in linked
  BY DEF DocFits, JobFits, MountingFits, AtOn
<1>5. \A k \in KBs : <<d, k>> \in linked /\ ~Mounted(d, k) => \E q \in Procs : Linked(q, d, k)
  BY DEF DocFits, PairsFit
<1>6. ~HasRow(d) /\ registered[d] = "live" => \E q \in Procs : Registered(q, d)
  BY DEF DocFits, RowFits
\* It is enough that no request needs an excuse but those that are about to mount or to insert.
<1>7. ASSUME HasRow(d)' => registered'[d] = "live",
             ~HasRow(d)' /\ registered'[d] = "live" => Registered(p, d)',
             \A k \in KBs : Mounted(d, k)' => <<d, k>> \in linked',
             \A k \in KBs : <<d, k>> \in linked' /\ ~Mounted(d, k)' =>
                \E q \in Procs : Linked(q, d, k)',
             \A k \in KBs : Mounted(d, k) => Mounted(d, k)',
             NewFits(p, d)', MountingFits(p, d)', job'[p].kind \notin {"unmount", "purge"},
             HasRow(d) => HasRow(d)', \A k \in KBs : <<d, k>> \in linked => <<d, k>> \in linked'
      PROVE  DocFits(d)'
  <2>1. RowFits(d)' /\ PairsFit(d)'
    BY <1>7 DEF RowFits, PairsFit
  <2>2. ASSUME NEW q \in Procs PROVE JobFits(q, d)'
    <3>1. RemovalFits(q, d)'
      <4>1. job'[q].doc = d => job'[q].kind \notin {"unmount", "purge"}
        BY <1>7, <1>a
      <4> QED
        BY <4>1 DEF RemovalFits, Retired, AtOn
    <3>2. CASE q = p
      BY <1>7, <3>1, <3>2 DEF JobFits
    <3>3. CASE q # p
      <4>1. job'[q] = job[q]
        BY <3>3
      <4>2. NewFits(q, d)'
        BY <1>3, <3>3, <4>1 DEF NewFits, AtOn
      <4>3. MountingFits(q, d)'
        <5>0. SUFFICES ASSUME job[q].doc = d, job[q].kind = "upload",
                              job[q].pc \in {"find mount", "link", "insert mount", "parse"}
                       PROVE  /\ HasRow(d)' /\ registered'[d] = "live"
                              /\ job[q].pc = "insert mount" => <<d, job[q].kb>> \in linked'
          BY <4>1 DEF MountingFits, AtOn
        <5>1. /\ HasRow(d)
              /\ job[q].pc = "insert mount" => <<d, job[q].kb>> \in linked
          BY <1>4, <3>3, <5>0
        <5>2. job[q].kb \in KBs
          BY <5>0, Places DEF TypeOK, JobsTyped
        <5> QED
          BY <1>7, <5>1, <5>2
      <4> QED
        BY <3>1, <4>2, <4>3 DEF JobFits
    <3> QED
      BY <3>2, <3>3
  <2>3. SampledFits(d)'
    BY <1>7 DEF SampledFits, DocFits
  <2> QED
    BY <2>1, <2>2, <2>3 DEF DocFits
<1>8. CASE At(p, "upload", "store")
  <2>1. /\ At(p, "upload", "register")' /\ Same(p)
        /\ RowSame(d) /\ PairsSame(d) /\ MountsSame(d) /\ StateSame(d)
    BY <1>8 DEF UploadEffects, At
  <2>2. /\ job'[p].kind = "upload" /\ job'[p].doc = d /\ job'[p].kb = job[p].kb
        /\ job'[p].pc = "register"
    BY <2>1 DEF At, Same
  <2>3. /\ ~HasRow(d) /\ \A k \in KBs : <<d, k>> \notin linked
        /\ registered[d] # "live"
        /\ \A q \in Procs : job[q].doc = d => q = p
    BY <1>8 DEF DocFits, JobFits, NewFits, AtOn, At
  <2>4. /\ HasRow(d)' => registered'[d] = "live"
        /\ ~HasRow(d)' /\ registered'[d] = "live" => Registered(p, d)'
        /\ HasRow(d) => HasRow(d)'
    BY <2>1, <2>2, <2>3, <1>0 DEF RowSame, StateSame, Registered, AtOn
  <2>5. /\ \A k \in KBs : Mounted(d, k)' <=> Mounted(d, k)
    BY <2>1 DEF Mounted, MountsSame
  <2>6. \A k \in KBs : <<d, k>> \in linked' /\ ~Mounted(d, k)' =>
           \E q \in Procs : Linked(q, d, k)'
    <3> SUFFICES ASSUME NEW k \in KBs, <<d, k>> \in linked', ~Mounted(d, k)'
                 PROVE  \E q \in Procs : Linked(q, d, k)'
      OBVIOUS
    <3>1. PICK q \in Procs : Linked(q, d, k)
      BY <1>5, <2>1, <2>5 DEF PairsSame
    <3>2. q # p
      BY <1>8, <2>5, <3>1 DEF Linked, AtOn, At
    <3> QED
      BY <3>1, <3>2 DEF Linked, AtOn
  <2>7. NewFits(p, d)'
    BY <2>1, <2>2, <2>3, <1>0 DEF NewFits, AtOn, RowSame, PairsSame, StateSame
  <2>8. MountingFits(p, d)'
    BY <2>1, <2>2, <2>3, <1>0, <1>8 DEF MountingFits, AtOn, At, RowSame, PairsSame, StateSame
  <2> QED
    BY <1>0, <1>2, <1>7, <2>1, <2>2, <2>3, <2>4, <2>5, <2>6, <2>7, <2>8 DEF PairsSame
<1>9. CASE At(p, "upload", "register")
  <2>1. /\ At(p, "upload", "insert")' /\ Same(p)
        /\ RowSame(d) /\ PairsSame(d) /\ MountsSame(d) /\ registered'[d] = "live"
    BY <1>9 DEF UploadEffects, At
  <2>2. /\ job'[p].kind = "upload" /\ job'[p].doc = d /\ job'[p].kb = job[p].kb
        /\ job'[p].pc = "insert"
    BY <2>1 DEF At, Same
  <2>3. /\ ~HasRow(d) /\ \A k \in KBs : <<d, k>> \notin linked
        /\ registered[d] # "live"
        /\ \A q \in Procs : job[q].doc = d => q = p
    BY <1>9 DEF DocFits, JobFits, NewFits, AtOn, At
  <2>4. /\ HasRow(d)' => registered'[d] = "live"
        /\ ~HasRow(d)' /\ registered'[d] = "live" => Registered(p, d)'
        /\ HasRow(d) => HasRow(d)'
    BY <2>1, <2>2, <2>3, <1>0 DEF RowSame, StateSame, Registered, AtOn
  <2>5. /\ \A k \in KBs : Mounted(d, k)' <=> Mounted(d, k)
    BY <2>1 DEF Mounted, MountsSame
  <2>6. \A k \in KBs : <<d, k>> \in linked' /\ ~Mounted(d, k)' =>
           \E q \in Procs : Linked(q, d, k)'
    <3> SUFFICES ASSUME NEW k \in KBs, <<d, k>> \in linked', ~Mounted(d, k)'
                 PROVE  \E q \in Procs : Linked(q, d, k)'
      OBVIOUS
    <3>1. PICK q \in Procs : Linked(q, d, k)
      BY <1>5, <2>1, <2>5 DEF PairsSame
    <3>2. q # p
      BY <1>9, <2>5, <3>1 DEF Linked, AtOn, At
    <3> QED
      BY <3>1, <3>2 DEF Linked, AtOn
  <2>7. NewFits(p, d)'
    BY <2>1, <2>2, <2>3, <1>0 DEF NewFits, AtOn, RowSame, PairsSame, StateSame
  <2>8. MountingFits(p, d)'
    BY <2>1, <2>2, <2>3, <1>0, <1>9 DEF MountingFits, AtOn, At, RowSame, PairsSame, StateSame
  <2> QED
    BY <1>0, <1>2, <1>7, <2>1, <2>2, <2>3, <2>4, <2>5, <2>6, <2>7, <2>8 DEF PairsSame
<1>10. CASE At(p, "upload", "insert")
  <2>1. /\ At(p, "upload", "find mount")' /\ Same(p)
        /\ HasRow(d)' /\ PairsSame(d) /\ MountsSame(d) /\ StateSame(d)
    BY <1>10 DEF UploadEffects, At
  <2>2. /\ job'[p].kind = "upload" /\ job'[p].doc = d /\ job'[p].kb = job[p].kb
        /\ job'[p].pc = "find mount"
    BY <2>1 DEF At, Same
  <2>3. /\ ~HasRow(d) /\ \A k \in KBs : <<d, k>> \notin linked
        /\ registered[d] = "live"
        /\ \A q \in Procs : job[q].doc = d => q = p
    BY <1>10 DEF DocFits, JobFits, NewFits, AtOn, At
  <2>4. /\ HasRow(d)' => registered'[d] = "live"
        /\ ~HasRow(d)' /\ registered'[d] = "live" => Registered(p, d)'
        /\ HasRow(d) => HasRow(d)'
    BY <2>1, <2>2, <2>3, <1>0 DEF RowSame, StateSame, Registered, AtOn
  <2>5. /\ \A k \in KBs : Mounted(d, k)' <=> Mounted(d, k)
    BY <2>1 DEF Mounted, MountsSame
  <2>6. \A k \in KBs : <<d, k>> \in linked' /\ ~Mounted(d, k)' =>
           \E q \in Procs : Linked(q, d, k)'
    <3> SUFFICES ASSUME NEW k \in KBs, <<d, k>> \in linked', ~Mounted(d, k)'
                 PROVE  \E q \in Procs : Linked(q, d, k)'
      OBVIOUS
    <3>1. PICK q \in Procs : Linked(q, d, k)
      BY <1>5, <2>1, <2>5 DEF PairsSame
    <3>2. q # p
      BY <1>10, <2>5, <3>1 DEF Linked, AtOn, At
    <3> QED
      BY <3>1, <3>2 DEF Linked, AtOn
  <2>7. NewFits(p, d)'
    BY <2>1, <2>2, <2>3, <1>0 DEF NewFits, AtOn, RowSame, PairsSame, StateSame
  <2>8. MountingFits(p, d)'
    BY <2>1, <2>2, <2>3, <1>0, <1>10 DEF MountingFits, AtOn, At, RowSame, PairsSame, StateSame
  <2> QED
    BY <1>0, <1>2, <1>7, <2>1, <2>2, <2>3, <2>4, <2>5, <2>6, <2>7, <2>8 DEF PairsSame
<1>11. CASE At(p, "upload", "find mount")
  <2>1. /\ At(p, "upload", "link")' \/ At(p, "upload", "parse")'
        /\ Same(p)
        /\ RowSame(d) /\ PairsSame(d) /\ MountsSame(d) /\ StateSame(d)
    BY <1>11 DEF UploadEffects, At
  <2>2. /\ job'[p].kind = "upload" /\ job'[p].doc = d /\ job'[p].kb = job[p].kb
        /\ job'[p].pc \in {"link", "parse"}
    BY <2>1 DEF At, Same
  <2>3. /\ HasRow(d) /\ registered[d] = "live"
    BY <1>11 DEF DocFits, JobFits, MountingFits, AtOn, At
  <2>4. /\ HasRow(d)' => registered'[d] = "live"
        /\ ~HasRow(d)' /\ registered'[d] = "live" => Registered(p, d)'
        /\ HasRow(d) => HasRow(d)'
    BY <2>1, <2>2, <2>3, <1>0 DEF RowSame, StateSame, Registered, AtOn
  <2>5. /\ \A k \in KBs : Mounted(d, k)' <=> Mounted(d, k)
    BY <2>1 DEF Mounted, MountsSame
  <2>6. \A k \in KBs : <<d, k>> \in linked' /\ ~Mounted(d, k)' =>
           \E q \in Procs : Linked(q, d, k)'
    <3> SUFFICES ASSUME NEW k \in KBs, <<d, k>> \in linked', ~Mounted(d, k)'
                 PROVE  \E q \in Procs : Linked(q, d, k)'
      OBVIOUS
    <3>1. PICK q \in Procs : Linked(q, d, k)
      BY <1>5, <2>1, <2>5 DEF PairsSame
    <3>2. q # p
      BY <1>11, <2>5, <3>1 DEF Linked, AtOn, At
    <3> QED
      BY <3>1, <3>2 DEF Linked, AtOn
  <2>7. NewFits(p, d)'
    BY <2>1, <2>2, <2>3, <1>0 DEF NewFits, AtOn, RowSame, PairsSame, StateSame
  <2>8. MountingFits(p, d)'
    BY <2>1, <2>2, <2>3, <1>0, <1>11 DEF MountingFits, AtOn, At, RowSame, PairsSame, StateSame
  <2> QED
    BY <1>0, <1>2, <1>7, <2>1, <2>2, <2>3, <2>4, <2>5, <2>6, <2>7, <2>8 DEF PairsSame
<1>12. CASE At(p, "upload", "link")
  <2>1. /\ At(p, "upload", "insert mount")' /\ Same(p)
        /\ RowSame(d) /\ MountsSame(d) /\ (registered[d] = "live" => registered'[d] = "live")
        /\ \A k \in KBs : <<d, k>> \in linked' <=> <<d, k>> \in linked \/ k = job[p].kb
    BY <1>12 DEF UploadEffects, At
  <2>2. /\ job'[p].kind = "upload" /\ job'[p].doc = d /\ job'[p].kb = job[p].kb
        /\ job'[p].pc = "insert mount"
    BY <2>1 DEF At, Same
  <2>3. /\ HasRow(d) /\ registered[d] = "live"
    BY <1>12 DEF DocFits, JobFits, MountingFits, AtOn, At
  <2>4. /\ HasRow(d)' => registered'[d] = "live"
        /\ ~HasRow(d)' /\ registered'[d] = "live" => Registered(p, d)'
        /\ HasRow(d) => HasRow(d)'
    BY <2>1, <2>2, <2>3, <1>0 DEF RowSame, StateSame, Registered, AtOn
  <2>5. /\ \A k \in KBs : Mounted(d, k)' <=> Mounted(d, k)
    BY <2>1 DEF Mounted, MountsSame
  <2>6. \A k \in KBs : <<d, k>> \in linked' /\ ~Mounted(d, k)' =>
           \E q \in Procs : Linked(q, d, k)'
    <3> SUFFICES ASSUME NEW k \in KBs, <<d, k>> \in linked', ~Mounted(d, k)'
                 PROVE  \E q \in Procs : Linked(q, d, k)'
      OBVIOUS
    <3>1. CASE k = job[p].kb
      BY <2>2, <3>1 DEF Linked, AtOn
    <3>2. CASE k # job[p].kb
      <4>1. PICK q \in Procs : Linked(q, d, k)
        BY <1>5, <2>1, <2>5, <3>2
      <4>2. q # p
        BY <1>12, <4>1 DEF Linked, AtOn, At
      <4> QED
        BY <4>1, <4>2 DEF Linked, AtOn
    <3> QED
      BY <3>1, <3>2
  <2>7. NewFits(p, d)'
    BY <2>1, <2>2, <2>3, <1>0 DEF NewFits, AtOn, RowSame, PairsSame, StateSame
  <2>8. MountingFits(p, d)'
    <3>1. job[p].kb \in KBs
      BY <1>12, Places DEF At, TypeOK, JobsTyped
    <3>2. <<d, job[p].kb>> \in linked'
      BY <2>1, <3>1
    <3> QED
      BY <2>1, <2>2, <2>3, <2>4, <3>2, <1>0 DEF MountingFits, AtOn, RowSame
  <2> QED
    BY <1>0, <1>2, <1>7, <2>1, <2>2, <2>3, <2>4, <2>5, <2>6, <2>7, <2>8 DEF PairsSame
<1>13. CASE At(p, "upload", "insert mount")
  <2>1. /\ At(p, "upload", "parse")' /\ Same(p)
        /\ RowSame(d) /\ PairsSame(d) /\ StateSame(d)
        /\ \E new : new.kb = job[p].kb /\ MountsOf(d)' = MountsOf(d) \cup {new}
    BY <1>13 DEF UploadEffects, At
  <2>2. /\ job'[p].kind = "upload" /\ job'[p].doc = d /\ job'[p].kb = job[p].kb
        /\ job'[p].pc = "parse"
    BY <2>1 DEF At, Same
  <2>3. /\ HasRow(d) /\ registered[d] = "live"
        /\ <<d, job[p].kb>> \in linked
    BY <1>13 DEF DocFits, JobFits, MountingFits, AtOn, At
  <2>4. /\ HasRow(d)' => registered'[d] = "live"
        /\ ~HasRow(d)' /\ registered'[d] = "live" => Registered(p, d)'
        /\ HasRow(d) => HasRow(d)'
    BY <2>1, <2>2, <2>3, <1>0 DEF RowSame, StateSame, Registered, AtOn
  <2>5. /\ \A k \in KBs : Mounted(d, k)' <=> Mounted(d, k) \/ k = job[p].kb
    BY <2>1 DEF Mounted
  <2>6. \A k \in KBs : <<d, k>> \in linked' /\ ~Mounted(d, k)' =>
           \E q \in Procs : Linked(q, d, k)'
    <3> SUFFICES ASSUME NEW k \in KBs, <<d, k>> \in linked', ~Mounted(d, k)'
                 PROVE  \E q \in Procs : Linked(q, d, k)'
      OBVIOUS
    <3>1. PICK q \in Procs : Linked(q, d, k)
      BY <1>5, <2>1, <2>5 DEF PairsSame
    <3>2. q # p
      BY <1>13, <2>5, <3>1 DEF Linked, AtOn, At
    <3> QED
      BY <3>1, <3>2 DEF Linked, AtOn
  <2>7. NewFits(p, d)'
    BY <2>1, <2>2, <2>3, <1>0 DEF NewFits, AtOn, RowSame, PairsSame, StateSame
  <2>8. MountingFits(p, d)'
    BY <2>1, <2>2, <2>3, <1>0, <1>13 DEF MountingFits, AtOn, At, RowSame, PairsSame, StateSame
  <2> QED
    BY <1>0, <1>2, <1>7, <2>1, <2>2, <2>3, <2>4, <2>5, <2>6, <2>7, <2>8 DEF PairsSame
<1>14. CASE At(p, "upload", "parse")
  <2>1. /\ Over(p)
        /\ RowSame(d) /\ PairsSame(d) /\ MountsSame(d) /\ StateSame(d)
    BY <1>14 DEF UploadEffects, At
  <2>2. job'[p].kind = "none" /\ job'[p].doc = 0
    BY <2>1, IdleFields DEF Over
  <2>3. /\ HasRow(d) /\ registered[d] = "live"
    BY <1>14 DEF DocFits, JobFits, MountingFits, AtOn, At
  <2>4. /\ HasRow(d)' => registered'[d] = "live"
        /\ ~HasRow(d)' /\ registered'[d] = "live" => Registered(p, d)'
        /\ HasRow(d) => HasRow(d)'
    BY <2>1, <2>2, <2>3, <1>0 DEF RowSame, StateSame, Registered, AtOn
  <2>5. /\ \A k \in KBs : Mounted(d, k)' <=> Mounted(d, k)
    BY <2>1 DEF Mounted, MountsSame
  <2>6. \A k \in KBs : <<d, k>> \in linked' /\ ~Mounted(d, k)' =>
           \E q \in Procs : Linked(q, d, k)'
    <3> SUFFICES ASSUME NEW k \in KBs, <<d, k>> \in linked', ~Mounted(d, k)'
                 PROVE  \E q \in Procs : Linked(q, d, k)'
      OBVIOUS
    <3>1. PICK q \in Procs : Linked(q, d, k)
      BY <1>5, <2>1, <2>5 DEF PairsSame
    <3>2. q # p
      BY <1>14, <2>5, <3>1 DEF Linked, AtOn, At
    <3> QED
      BY <3>1, <3>2 DEF Linked, AtOn
  <2>7. NewFits(p, d)'
    BY <2>1, <2>2, <2>3, <1>0 DEF NewFits, AtOn, RowSame, PairsSame, StateSame
  <2>8. MountingFits(p, d)'
    BY <2>1, <2>2, <2>3, <1>0, <1>14 DEF MountingFits, AtOn, At, RowSame, PairsSame, StateSame
  <2> QED
    BY <1>0, <1>2, <1>7, <2>1, <2>2, <2>3, <2>4, <2>5, <2>6, <2>7, <2>8 DEF PairsSame
<1> QED
  BY <1>8, <1>9, <1>10, <1>11, <1>12, <1>13, <1>14 DEF UploadEffects

\* A removal is alone on its document: what fits for it fits for the document.
LEMMA AloneFits ==
  ASSUME NEW d \in Docs, NEW p \in Procs, TypeOK, mirror' = mirror, ~Sampled(mirror, d),
         \A q \in Procs \ {p} : job'[q] = job[q] /\ job[q].doc # d,
         job'[p].kind # "upload",
         HasRow(d)' /\ registered'[d] # "live" => Retired(p, d)',
         registered'[d] = "live" => HasRow(d)',
         \A k \in KBs : <<d, k>> \in linked' => Mounted(d, k)',
         \A k \in KBs : <<d, k>> \notin linked' /\ Mounted(d, k)' => Unlinked(p, d, k)',
         RemovalFits(p, d)'
  PROVE  DocFits(d)'
<1>1. RowFits(d)' /\ PairsFit(d)'
  BY DEF RowFits, PairsFit
<1>2. ASSUME NEW q \in Procs PROVE JobFits(q, d)'
  <2>1. CASE q = p
    BY <2>1 DEF JobFits, NewFits, MountingFits, AtOn
  <2>2. CASE q # p
    <3>1. job'[q].doc # d
      BY <2>2
    <3> QED
      BY <3>1 DEF JobFits, NewFits, MountingFits, RemovalFits, Retired, AtOn
  <2> QED
    BY <2>1, <2>2
<1>3. SampledFits(d)'
  BY DEF SampledFits, Sampled
<1> QED
  BY <1>1, <1>2, <1>3 DEF DocFits

\* What a removal knows of its document.
LEMMA AloneKnows ==
  ASSUME NEW d \in Docs, NEW p \in Procs, TypeOK, Calm(d), DocFits(d),
         job[p].kind \in {"unmount", "purge"}, job[p].doc = d
  PROVE  /\ ~Sampled(mirror, d) /\ \A q \in Procs \ {p} : job[q].doc # d
         /\ HasRow(d) /\ registered[d] # "live" => Retired(p, d)
         /\ registered[d] = "live" => HasRow(d)
         /\ \A k \in KBs : <<d, k>> \in linked => Mounted(d, k)
         /\ \A k \in KBs : <<d, k>> \notin linked /\ Mounted(d, k) => Unlinked(p, d, k)
         /\ RemovalFits(p, d)
<1>1. ~Sampled(mirror, d) /\ \A q \in Procs \ {p} : job[q].doc # d
  BY DEF Calm
<1>2. \A q \in Procs : ~Registered(q, d) /\ \A k \in KBs : ~Linked(q, d, k)
  BY <1>1 DEF Registered, Linked, AtOn
<1>3. \A q \in Procs \ {p} : ~Retired(q, d) /\ \A k \in KBs : ~Unlinked(q, d, k)
  BY <1>1 DEF Retired, Unlinked, AtOn
<1> QED
  BY <1>1, <1>2, <1>3 DEF DocFits, RowFits, PairsFit, JobFits

LEMMA UnmountKeepsFit ==
  ASSUME TypeOK, NEW d \in Docs, NEW p \in Procs, job[p].doc = d, UnmountEffects(p, d), Calm(d),
         DocFits(d), \A q \in Procs \ {p} : job'[q] = job[q], mirror' = mirror
  PROVE  DocFits(d)'
<1>0. job[p].kind = "unmount" /\ job[p].kb \in KBs
  <2>1. job[p].kind = "unmount"
    BY DEF UnmountEffects, At
  <2> QED
    BY <2>1, Places DEF TypeOK, JobsTyped
<1>1. /\ ~Sampled(mirror, d) /\ \A q \in Procs \ {p} : job[q].doc # d
      /\ HasRow(d) /\ registered[d] # "live" => Retired(p, d)
      /\ registered[d] = "live" => HasRow(d)
      /\ \A k \in KBs : <<d, k>> \in linked => Mounted(d, k)
      /\ \A k \in KBs : <<d, k>> \notin linked /\ Mounted(d, k) => Unlinked(p, d, k)
      /\ RemovalFits(p, d)
  BY <1>0, AloneKnows
\* It is enough to look at the document and at this request.
<1>2. ASSUME HasRow(d)' /\ registered'[d] # "live" => Retired(p, d)',
             registered'[d] = "live" => HasRow(d)',
             \A k \in KBs : <<d, k>> \in linked' => Mounted(d, k)',
             \A k \in KBs : <<d, k>> \notin linked' /\ Mounted(d, k)' => Unlinked(p, d, k)',
             RemovalFits(p, d)', job'[p].kind # "upload"
      PROVE  DocFits(d)'
  BY <1>1, <1>2, AloneFits
<1>3. CASE At(p, "unmount", "unlink")
  <2>1. /\ job'[p].kind = "unmount" /\ job'[p].pc = "select"
        /\ job'[p].doc = d /\ job'[p].kb = job[p].kb
        /\ RowSame(d) /\ MountsSame(d) /\ StateSame(d)
        /\ \A k \in KBs : <<d, k>> \in linked' <=> <<d, k>> \in linked /\ k # job[p].kb
    BY <1>3 DEF UnmountEffects, At, Same
  <2>2. ~Retired(p, d) /\ \A k \in KBs : ~Unlinked(p, d, k)
    BY <1>3 DEF Retired, Unlinked, AtOn, At
  <2>3. RemovalFits(p, d)'
    BY <1>0, <2>1 DEF RemovalFits, Retired, AtOn
  <2>4. /\ \A k \in KBs : <<d, k>> \in linked' => Mounted(d, k)'
        /\ \A k \in KBs : <<d, k>> \notin linked' /\ Mounted(d, k)' => Unlinked(p, d, k)'
    BY <1>1, <2>1, <2>2 DEF Mounted, MountsSame, Unlinked, AtOn
  <2> QED
    BY <1>1, <1>2, <2>1, <2>2, <2>3, <2>4 DEF RowSame, StateSame
<1>4. CASE At(p, "unmount", "select") \/ At(p, "unmount", "delete execution")
  <2>1. /\ job'[p].kind = "unmount" /\ job'[p].pc \in {"delete execution", "delete mount"}
        /\ job'[p].doc = d /\ job'[p].kb = job[p].kb
        /\ RowSame(d) /\ PairsSame(d) /\ MountsSame(d) /\ StateSame(d)
    BY <1>4 DEF UnmountEffects, At, Same
  <2>2. ~Retired(p, d) /\ <<d, job[p].kb>> \notin linked
    BY <1>1, <1>4 DEF Retired, AtOn, At, RemovalFits
  <2>3. RemovalFits(p, d)'
    BY <1>0, <2>1, <2>2 DEF RemovalFits, Retired, AtOn, PairsSame
  <2>4. /\ \A k \in KBs : <<d, k>> \in linked' => Mounted(d, k)'
        /\ \A k \in KBs : <<d, k>> \notin linked' /\ Mounted(d, k)' => Unlinked(p, d, k)'
    BY <1>0, <1>1, <2>1 DEF Mounted, MountsSame, PairsSame, Unlinked, AtOn
  <2> QED
    BY <1>1, <1>2, <2>1, <2>2, <2>3, <2>4 DEF RowSame, StateSame
<1>5. CASE At(p, "unmount", "delete mount")
  <2>1. /\ job'[p].kind = "unmount" /\ job'[p].pc = "count" /\ job'[p].doc = d
        /\ RowSame(d) /\ PairsSame(d) /\ StateSame(d)
        /\ MountsOf(d)' = {m \in MountsOf(d) : m.kb # job[p].kb}
    BY <1>5 DEF UnmountEffects, At, Same
  <2>2. ~Retired(p, d) /\ <<d, job[p].kb>> \notin linked
    BY <1>1, <1>5 DEF Retired, AtOn, At, RemovalFits
  <2>3. RemovalFits(p, d)'
    BY <2>1 DEF RemovalFits, Retired, AtOn
  <2>4. \A k \in KBs : Mounted(d, k)' <=> Mounted(d, k) /\ k # job[p].kb
    BY <2>1 DEF Mounted
  <2>5. \A k \in KBs : Unlinked(p, d, k) => k = job[p].kb
    BY <1>0 DEF Unlinked, AtOn
  <2>6. /\ \A k \in KBs : <<d, k>> \in linked' => Mounted(d, k)'
        /\ \A k \in KBs : <<d, k>> \notin linked' /\ Mounted(d, k)' => Unlinked(p, d, k)'
    BY <1>1, <2>1, <2>2, <2>4, <2>5 DEF PairsSame
  <2> QED
    BY <1>1, <1>2, <2>1, <2>2, <2>3, <2>6 DEF RowSame, StateSame
<1>6. CASE At(p, "unmount", "count")
  <2>1. /\ \/ job'[p].kind = "none"
           \/ /\ MountsOf(d) = {} /\ job'[p].doc = d
              /\ job'[p].kind = "unmount" /\ job'[p].pc = "retire"
        /\ RowSame(d) /\ PairsSame(d) /\ MountsSame(d) /\ StateSame(d)
    BY <1>6, IdleFields DEF UnmountEffects, At, Over
  <2>2. ~Retired(p, d) /\ \A k \in KBs : ~Unlinked(p, d, k)
    BY <1>6 DEF Retired, Unlinked, AtOn, At
  <2>3. RemovalFits(p, d)'
    BY <2>1 DEF RemovalFits, Retired, AtOn, MountsSame
  <2>4. /\ \A k \in KBs : <<d, k>> \in linked' => Mounted(d, k)'
        /\ \A k \in KBs : <<d, k>> \notin linked' /\ Mounted(d, k)' => Unlinked(p, d, k)'
    BY <1>1, <2>1, <2>2 DEF Mounted, MountsSame, PairsSame
  <2> QED
    BY <1>1, <1>2, <2>1, <2>2, <2>3, <2>4 DEF RowSame, StateSame
<1>7. CASE At(p, "unmount", "retire")
  <2>1. /\ job'[p].kind = "unmount" /\ job'[p].pc = "delete row" /\ job'[p].doc = d
        /\ RowSame(d) /\ MountsSame(d) /\ registered'[d] # "live"
        /\ PairsSame(d) \/ \A k \in KBs : <<d, k>> \notin linked'
    BY <1>7 DEF UnmountEffects, At, Same
  <2>2. MountsOf(d) = {}
    BY <1>1, <1>7 DEF AtOn, At, RemovalFits
  <2>3. \A k \in KBs : ~Mounted(d, k) /\ ~Mounted(d, k)'
    BY <2>1, <2>2 DEF Mounted, MountsSame
  <2>4. RemovalFits(p, d)' /\ Retired(p, d)'
    BY <2>1, <2>2 DEF RemovalFits, Retired, AtOn, MountsSame
  <2> QED
    BY <1>1, <1>2, <2>1, <2>3, <2>4 DEF PairsSame
<1> QED
  BY <1>3, <1>4, <1>5, <1>6, <1>7 DEF UnmountEffects

LEMMA PurgeKeepsFit ==
  ASSUME TypeOK, NEW d \in Docs, NEW p \in Procs, job[p].doc = d, PurgeEffects(p, d), Calm(d),
         DocFits(d), \A q \in Procs \ {p} : job'[q] = job[q], mirror' = mirror
  PROVE  DocFits(d)'
<1>0. job[p].kind \in {"unmount", "purge"}
  BY DEF PurgeEffects, At
<1>1. /\ ~Sampled(mirror, d) /\ \A q \in Procs \ {p} : job[q].doc # d
      /\ HasRow(d) /\ registered[d] # "live" => Retired(p, d)
      /\ registered[d] = "live" => HasRow(d)
      /\ \A k \in KBs : <<d, k>> \in linked => Mounted(d, k)
      /\ \A k \in KBs : <<d, k>> \notin linked /\ Mounted(d, k) => Unlinked(p, d, k)
      /\ RemovalFits(p, d)
  BY <1>0, AloneKnows
\* It is enough to look at the document and at this request.
<1>2. ASSUME HasRow(d)' /\ registered'[d] # "live" => Retired(p, d)',
             registered'[d] = "live" => HasRow(d)',
             \A k \in KBs : <<d, k>> \in linked' => Mounted(d, k)',
             \A k \in KBs : <<d, k>> \notin linked' /\ Mounted(d, k)' => Unlinked(p, d, k)',
             RemovalFits(p, d)', job'[p].kind # "upload"
      PROVE  DocFits(d)'
  BY <1>1, <1>2, AloneFits
<1>3. CASE At(p, "purge", "snapshot")
  <2>1. /\ \/ job'[p].kind = "none"
           \/ /\ job'[p].kind = "purge" /\ job'[p].pc = "retire" /\ job'[p].doc = d
              /\ \A m \in MountsOf(d) : m.id \in job'[p].seen
        /\ RowSame(d) /\ PairsSame(d) /\ MountsSame(d) /\ StateSame(d)
    BY <1>3, IdleFields DEF PurgeEffects, At, Over
  <2>2. ~Retired(p, d) /\ \A k \in KBs : ~Unlinked(p, d, k)
    BY <1>3 DEF Retired, Unlinked, AtOn, At
  <2>3. RemovalFits(p, d)'
    BY <2>1 DEF RemovalFits, Retired, AtOn, MountsSame
  <2>4. /\ \A k \in KBs : <<d, k>> \in linked' => Mounted(d, k)'
        /\ \A k \in KBs : <<d, k>> \notin linked' /\ Mounted(d, k)' => Unlinked(p, d, k)'
    BY <1>1, <2>1, <2>2 DEF Mounted, MountsSame, PairsSame
  <2> QED
    BY <1>1, <1>2, <2>1, <2>2, <2>3, <2>4 DEF RowSame, StateSame
<1>4. CASE At(p, "purge", "retire")
  <2>1. /\ job'[p].kind = "purge" /\ job'[p].pc = "delete mounts" /\ job'[p].doc = d
        /\ job'[p].seen = job[p].seen
        /\ RowSame(d) /\ MountsSame(d) /\ registered'[d] # "live"
        /\ \A k \in KBs : <<d, k>> \notin linked'
    BY <1>4 DEF PurgeEffects, At, Same
  <2>2. \A m \in MountsOf(d) : m.id \in job[p].seen
    BY <1>1, <1>4 DEF RemovalFits, AtOn, At
  <2>3. RemovalFits(p, d)' /\ Retired(p, d)' /\ \A k \in KBs : Unlinked(p, d, k)'
    BY <2>1, <2>2 DEF RemovalFits, Retired, Unlinked, AtOn, MountsSame
  <2> QED
    BY <1>2, <2>1, <2>3
<1>5. CASE At(p, "purge", "delete mounts")
  <2>1. /\ \A m \in MountsOf(d) : m.id \in job[p].seen
        /\ registered[d] # "live" /\ \A k \in KBs : <<d, k>> \notin linked
    BY <1>1, <1>5 DEF RemovalFits, Retired, AtOn, At
  <2>2. /\ job'[p].kind = "purge" /\ job'[p].doc = d
        /\ RowSame(d) /\ PairsSame(d) /\ StateSame(d)
        /\ \/ /\ job'[p].pc = "delete mounts"
              /\ \E i : /\ MountsOf(d)' = {m \in MountsOf(d) : m.id # i}
                        /\ job'[p].seen = job[p].seen \ {i}
           \/ job'[p].pc = "delete file" /\ MountsSame(d) /\ job[p].seen = {}
    BY <1>5 DEF PurgeEffects, At, Same
  <2>3. registered'[d] # "live" /\ \A k \in KBs : <<d, k>> \notin linked'
    BY <2>1, <2>2 DEF StateSame, PairsSame
  <2>4. Retired(p, d)'
    BY <2>2 DEF Retired, AtOn
  <2>5. CASE job'[p].pc = "delete mounts" /\ \A m \in MountsOf(d)' : m.id \in job'[p].seen
    <3>1. RemovalFits(p, d)' /\ \A k \in KBs : Unlinked(p, d, k)'
      BY <2>2, <2>3, <2>5 DEF RemovalFits, Retired, Unlinked, AtOn
    <3> QED
      BY <1>2, <2>2, <2>3, <2>4, <3>1
  <2>6. CASE job'[p].pc = "delete file" /\ MountsOf(d)' = {}
    <3>1. RemovalFits(p, d)' /\ \A k \in KBs : ~Mounted(d, k)'
      BY <2>2, <2>3, <2>6 DEF RemovalFits, Retired, Mounted, AtOn
    <3> QED
      BY <1>2, <2>2, <2>3, <2>4, <3>1
  <2>7. CASE MountsSame(d) /\ job[p].seen = {}
    <3>1. MountsOf(d)' = {}
      BY <2>1, <2>7 DEF MountsSame
    <3> QED
      BY <2>2, <2>5, <2>6, <3>1
  <2>8. ASSUME NEW i, MountsOf(d)' = {m \in MountsOf(d) : m.id # i},
               job'[p].seen = job[p].seen \ {i}
        PROVE  \A m \in MountsOf(d)' : m.id \in job'[p].seen
    BY <2>1, <2>8
  <2> QED
    BY <2>2, <2>5, <2>7, <2>8
<1>6. CASE At(p, "purge", "delete file")
  <2>1. /\ job'[p].kind = "purge" /\ job'[p].pc = "delete row" /\ job'[p].doc = d
        /\ RowSame(d) /\ PairsSame(d) /\ MountsSame(d) /\ StateSame(d)
    BY <1>6 DEF PurgeEffects, At, Same
  <2>2. MountsOf(d) = {} /\ registered[d] # "live"
    BY <1>1, <1>6 DEF RemovalFits, Retired, AtOn, At
  <2>3. \A k \in KBs : ~Mounted(d, k) /\ ~Mounted(d, k)'
    BY <2>1, <2>2 DEF Mounted, MountsSame
  <2>4. RemovalFits(p, d)' /\ Retired(p, d)'
    BY <2>1, <2>2 DEF RemovalFits, Retired, AtOn, MountsSame, StateSame
  <2> QED
    BY <1>1, <1>2, <2>1, <2>2, <2>3, <2>4 DEF PairsSame, StateSame
<1>7. CASE At(p, "unmount", "delete row") \/ At(p, "purge", "delete row")
  <2>1. /\ job'[p].kind = "none"
        /\ ~HasRow(d)' /\ PairsSame(d) /\ MountsSame(d) /\ StateSame(d)
    BY <1>7, IdleFields DEF PurgeEffects, At, Over
  <2>2. MountsOf(d) = {} /\ registered[d] # "live"
    BY <1>1, <1>7 DEF RemovalFits, Retired, AtOn, At
  <2>3. \A k \in KBs : ~Mounted(d, k) /\ ~Mounted(d, k)'
    BY <2>1, <2>2 DEF Mounted, MountsSame
  <2>4. RemovalFits(p, d)'
    BY <2>1 DEF RemovalFits, Retired, AtOn
  <2> QED
    BY <1>1, <1>2, <2>1, <2>2, <2>3, <2>4 DEF PairsSame, StateSame
<1> QED
  BY <1>3, <1>4, <1>5, <1>6, <1>7 DEF PurgeEffects

\* The document keeps fitting when it is left alone by every request but those that come to it,
\* and the reconciliation reads no more of it than its mounts.
LEMMA LeftAlone ==
  ASSUME TypeOK, NEW d \in Docs, DocFits(d), ViewSame(d),
         \A k \in KBs : <<d, k>> \in mirror'.todo \cup mirror'.gap =>
            <<d, k>> \in mirror.todo \cup mirror.gap \/ Mounted(d, k),
         \A q \in Procs : job'[q] = job[q] \/ (job[q].doc # d /\ JobFits(q, d)'),
         \/ \A q \in Procs : job'[q].doc = d => job[q].doc = d
         \/ \A q \in Procs : ~AtOn(q, d, "upload", {"store", "register", "insert"})
  PROVE  DocFits(d)'
<1>1. /\ registered'[d] = registered[d]
      /\ HasRow(d)' <=> HasRow(d)
      /\ \A k \in KBs : <<d, k>> \in linked' <=> <<d, k>> \in linked
      /\ MountsOf(d)' = MountsOf(d)
      /\ \A k \in KBs : Mounted(d, k)' <=> Mounted(d, k)
  BY DEF ViewSame, Mounted
<1>2. \A q \in Procs : /\ Retired(q, d) => Retired(q, d)'
                       /\ Registered(q, d) => Registered(q, d)'
                       /\ \A k \in KBs : /\ Linked(q, d, k) => Linked(q, d, k)'
                                         /\ Unlinked(q, d, k) => Unlinked(q, d, k)'
  BY DEF Retired, Registered, Linked, Unlinked, AtOn
<1>3. RowFits(d)' /\ PairsFit(d)'
  <2>1. RowFits(d)'
    BY <1>1, <1>2 DEF DocFits, RowFits
  <2>2. PairsFit(d)'
    <3> SUFFICES ASSUME NEW k \in KBs
                 PROVE  /\ <<d, k>> \in linked' /\ ~Mounted(d, k)' =>
                              \E q \in Procs : Linked(q, d, k)'
                        /\ <<d, k>> \notin linked' /\ Mounted(d, k)' =>
                              \E q \in Procs : Unlinked(q, d, k)'
      BY DEF PairsFit
    <3> QED
      BY <1>1, <1>2 DEF DocFits, PairsFit
  <2> QED
    BY <2>1, <2>2
<1>4. ASSUME NEW q \in Procs, job'[q] = job[q] PROVE JobFits(q, d)'
  <2>0. NewFits(q, d) /\ MountingFits(q, d) /\ RemovalFits(q, d)
    BY DEF DocFits, JobFits
  <2>k. job[q].kind \in {"upload", "unmount"} =>
          (<<d, job[q].kb>> \in linked' <=> <<d, job[q].kb>> \in linked)
    <3>1. job[q].kind \in {"upload", "unmount"} => job[q].kb \in KBs
      BY Places DEF TypeOK, JobsTyped
    <3> QED
      BY <1>1, <3>1
  <2>1. NewFits(q, d)'
    <3>1. CASE ~AtOn(q, d, "upload", {"store", "register", "insert"})
      BY <1>4, <3>1 DEF NewFits, AtOn
    <3>2. CASE \A r \in Procs : job'[r].doc = d => job[r].doc = d
      BY <1>1, <1>4, <2>0, <3>2 DEF NewFits, AtOn
    <3> QED
      BY <3>1, <3>2
  <2>2. MountingFits(q, d)'
    BY <1>1, <1>4, <2>0, <2>k DEF MountingFits, AtOn
  <2>3. RemovalFits(q, d)'
    BY <1>1, <1>4, <2>0, <2>k DEF RemovalFits, Retired, AtOn
  <2> QED
    BY <2>1, <2>2, <2>3 DEF JobFits
<1>5. SampledFits(d)'
  BY <1>1 DEF DocFits, SampledFits
<1> QED
  BY <1>3, <1>4, <1>5 DEF DocFits

DocsFit == \A d \in Docs : d \notin disturbed => DocFits(d)

\* A request that is not on the document, which it may come to in this step
LEMMA OthersKeepFit ==
  ASSUME TypeOK, NumbersFit, Fresh, DropsEmpty, NEW d \in Docs, d \notin disturbed, DocFits(d),
         NEW p \in Procs, Serve(p), job[p].doc # d, Calm(d)'
  PROVE  DocFits(d)'
<1>0. /\ mirror' = mirror /\ \A q \in Procs \ {p} : job'[q] = job[q]
      /\ d \in Nat /\ d # 0 /\ docs \in Nat
  BY OthersStand DEF Docs, TypeOK, CountsTyped
<1>1. ViewSame(d)
  <2>1. ASSUME DeleteBaseMounts(p), mounts' = {m \in mounts : m.kb # job[p].kb}
        PROVE  MountsOf(d)' = MountsOf(d)
    <3>1. At(p, "drop", "delete base mounts")
      BY <2>1, BaseMoves
    <3>2. \A m \in mounts : m.kb = job[p].kb => m.doc # d
      BY <3>1 DEF DropsEmpty, At
    <3> QED
      BY <2>1, <3>2 DEF MountsOf
  <2> QED
    BY <2>1, Elsewhere DEF ViewSame
<1>2. ASSUME \/ job'[p].doc # d
             \/ \A q \in Procs : ~AtOn(q, d, "upload", {"store", "register", "insert"}),
             JobFits(p, d)'
      PROVE  DocFits(d)'
  BY <1>0, <1>1, <1>2, LeftAlone
<1>3. CASE job'[p].doc # d
  <2>1. JobFits(p, d)'
    BY <1>3 DEF JobFits, NewFits, MountingFits, RemovalFits, Retired, AtOn
  <2> QED
    BY <1>2, <1>3, <2>1
<1>4. CASE \/ BeginUnmount(p) /\ job'[p].doc = d
           \/ BeginPurge(p) /\ job'[p].doc = d
  <2>1. /\ At(p, "unmount", "unlink")' \/ At(p, "purge", "snapshot")'
        /\ HasRow(d) \/ <<d, job'[p].kb>> \in linked
    BY <1>4, TakenMoves
  <2>2. JobFits(p, d)'
    BY <2>1 DEF JobFits, NewFits, MountingFits, RemovalFits, Retired, AtOn, At
  <2>3. HasRow(d) \/ \E k \in KBs : <<d, k>> \in linked
    BY <2>1 DEF TypeOK, ServiceTyped, Pairs
  <2>4. \A q \in Procs : ~AtOn(q, d, "upload", {"store", "register", "insert"})
    BY <2>3 DEF DocFits, JobFits, NewFits
  <2> QED
    BY <1>2, <2>2, <2>4
<1>5. CASE FindDocument(p) /\ job'[p].doc = d
  <2>1. CASE At(p, "upload", "find mount")' /\ HasRow(d)
    <3>1. \A q \in Procs : ~Retired(q, d)
      <4> SUFFICES ASSUME NEW q \in Procs, Retired(q, d) PROVE FALSE
        OBVIOUS
      <4>1. job[q].doc = d /\ job[q].kind \in {"unmount", "purge"}
        BY DEF Retired, AtOn
      <4>2. q # p /\ job'[q] = job[q]
        BY <1>0, <4>1
      <4> QED
        BY <1>5, <4>1, <4>2 DEF Calm
    <3>2. registered[d] = "live"
      BY <2>1, <3>1 DEF DocFits, RowFits
    <3>3. JobFits(p, d)'
      BY <1>1, <2>1, <3>2 DEF ViewSame, JobFits, NewFits, MountingFits, RemovalFits, Retired,
         AtOn, At
    <3>4. \A q \in Procs : ~AtOn(q, d, "upload", {"store", "register", "insert"})
      BY <2>1 DEF DocFits, JobFits, NewFits
    <3> QED
      BY <1>2, <3>3, <3>4
  <2>2. CASE At(p, "upload", "store")' /\ d = docs + 1
    <3>1. /\ ~HasRow(d) /\ registered[d] = "unknown" /\ \A k \in KBs : <<d, k>> \notin linked
          /\ \A q \in Procs : job[q].doc # d
      BY <1>0, <2>2 DEF Fresh
    <3>2. JobFits(p, d)'
      BY <1>0, <1>1, <2>2, <3>1 DEF ViewSame, JobFits, NewFits, MountingFits, RemovalFits,
         Retired, AtOn, At
    <3> QED
      BY <1>2, <3>1, <3>2 DEF AtOn
  <2> QED
    BY <1>5, <2>1, <2>2, UploadMoves DEF HasRow
<1> QED
  BY <1>0, <1>3, <1>4, <1>5, DocArrivals

\* The reconciliation links what it read, and on a document that it read there is no removal.
LEMMA MirrorKeepsFit ==
  ASSUME TypeOK, Referred, NEW d \in Docs, DocFits(d), Calm(d),
         Sample \/ FindsGap \/ ClosesGap \/ PassesOver
  PROVE  DocFits(d)'
<1>0. job' = job /\ UNCHANGED rows
  BY DEF Sample, FindsGap, FindGap, ClosesGap, CloseGap, PassesOver, PassOver
<1>1. \A k \in KBs : <<d, k>> \in mirror'.todo \cup mirror'.gap =>
            <<d, k>> \in mirror.todo \cup mirror.gap \/ Mounted(d, k)
  <2> SUFFICES ASSUME NEW k \in KBs, <<d, k>> \in mirror'.todo \cup mirror'.gap
               PROVE  <<d, k>> \in mirror.todo \cup mirror.gap \/ Mounted(d, k)
    OBVIOUS
  <2>1. ASSUME NEW m \in mounts, <<d, k>> = <<m.doc, m.kb>> PROVE Mounted(d, k)
    BY <2>1 DEF Mounted, MountsOf
  <2> QED
    BY <2>1, Samples DEF Next
<1>2. CASE ViewSame(d)
  BY <1>0, <1>1, <1>2, LeftAlone
<1>3. ASSUME NEW e \in Docs, NEW k \in KBs, CloseGap(e, k), e # d PROVE ViewSame(d)
  <2>1. d \in Resources /\ k # d /\ registered \in [Resources -> {"unknown", "live", "retired"}]
    BY MountsAssumption DEF Resources, Docs, TypeOK, ServiceTyped
  <2> QED
    BY <1>0, <1>3, <2>1 DEF CloseGap, Link, rows, ViewSame, HasRow, MountsOf
<1>4. ASSUME NEW k \in KBs, CloseGap(d, k) PROVE DocFits(d)'
  <2>1. <<d, k>> \in mirror.gap /\ Mounted(d, k) /\ HasRow(d) /\ Sampled(mirror, d)
    <3>1. <<d, k>> \in mirror.gap
      BY <1>4 DEF CloseGap
    <3>2. Mounted(d, k)
      BY <3>1 DEF DocFits, SampledFits
    <3>3. HasRow(d)
      BY <3>2 DEF Mounted, MountsOf, Referred
    <3>4. Sampled(mirror, d)
      BY <3>1 DEF Sampled
    <3> QED
      BY <3>1, <3>2, <3>3, <3>4
  <2>2. \A q \in Procs : job[q].doc = d => job[q].kind \notin {"unmount", "purge"}
    BY <2>1 DEF Calm
  <2>3. \A q \in Procs : ~Retired(q, d) /\ RemovalFits(q, d)'
    BY <1>0, <2>2 DEF Retired, RemovalFits, AtOn
  <2>4. registered[d] = "live"
    BY <2>1, <2>3 DEF DocFits, RowFits
  <2>5. /\ registered'[d] = "live" /\ (HasRow(d)' <=> HasRow(d))
        /\ \A j \in KBs : <<d, j>> \in linked' <=> <<d, j>> \in linked \/ j = k
        /\ \A j \in KBs : Mounted(d, j)' <=> Mounted(d, j)
    <3>1. d \in Resources
      BY DEF Resources
    <3>2. registered'[d] = "live"
      BY <1>4, <2>4, <3>1 DEF CloseGap, Link
    <3>3. \A j \in KBs : <<d, j>> \in linked' <=> <<d, j>> \in linked \/ j = k
      BY <1>4 DEF CloseGap, Link
    <3> QED
      BY <1>0, <3>2, <3>3 DEF rows, HasRow, Mounted, MountsOf
  <2>6. RowFits(d)'
    BY <2>1, <2>5 DEF RowFits
  <2>7. \A q \in Procs, j \in KBs : ~Unlinked(q, d, j) /\ (Linked(q, d, j) => Linked(q, d, j)')
    BY <1>0, <2>2 DEF Unlinked, Linked, AtOn
  <2>8. PairsFit(d)'
    <3> SUFFICES ASSUME NEW j \in KBs
                 PROVE  /\ <<d, j>> \in linked' /\ ~Mounted(d, j)' =>
                              \E q \in Procs : Linked(q, d, j)'
                        /\ <<d, j>> \notin linked' /\ Mounted(d, j)' =>
                              \E q \in Procs : Unlinked(q, d, j)'
      BY DEF PairsFit
    <3> QED
      BY <2>1, <2>5, <2>7 DEF DocFits, PairsFit
  <2>9. ASSUME NEW q \in Procs PROVE JobFits(q, d)'
    <3>1. NewFits(q, d)'
      BY <1>0, <2>1 DEF DocFits, JobFits, NewFits, AtOn
    <3>2. AtOn(q, d, "upload", {"insert mount"}) => <<d, job[q].kb>> \in linked
      BY DEF DocFits, JobFits, MountingFits, AtOn
    <3>3. job[q].kind = "upload" => job[q].kb \in KBs
      BY Places DEF TypeOK, JobsTyped
    <3>4. MountingFits(q, d)'
      BY <1>0, <2>1, <2>5, <3>2, <3>3 DEF MountingFits, AtOn
    <3> QED
      BY <2>3, <3>1, <3>4 DEF JobFits
  <2>10. SampledFits(d)'
    BY <1>1, <2>5 DEF DocFits, SampledFits
  <2> QED
    BY <2>6, <2>8, <2>9, <2>10 DEF DocFits
<1>5. CASE Sample \/ FindsGap \/ PassesOver
  BY <1>2, <1>5 DEF Sample, FindsGap, FindGap, PassesOver, PassOver, rows, service, ViewSame,
     HasRow, MountsOf
<1> QED
  BY <1>2, <1>3, <1>4, <1>5 DEF ClosesGap

LEMMA DocsStep ==
  ASSUME TypeOK, NumbersFit, Referred, Fresh, DropsEmpty, AllCalm, AllCalm', DocsFit, [Next]_vars
  PROVE  DocsFit'
<1> SUFFICES ASSUME NEW d \in Docs, d \notin disturbed' PROVE DocFits(d)'
  BY DEF DocsFit
<1>1. d \notin disturbed /\ DocFits(d) /\ Calm(d) /\ Calm(d)'
  BY Tracked DEF DocsFit, AllCalm
<1>2. ASSUME NEW p \in Procs, Serve(p), job[p].doc # d PROVE DocFits(d)'
  BY <1>1, <1>2, OthersKeepFit
<1>3. ASSUME NEW p \in Procs, Serve(p), job[p].doc = d PROVE DocFits(d)'
  <2>0. /\ d \in Resources /\ d # 0
        /\ mirror' = mirror /\ \A q \in Procs \ {p} : job'[q] = job[q]
    BY <1>3, OthersStand DEF Resources, Docs
  <2>1. job[p].kind \notin {"create", "drop"} /\ job[p].pc # "idle"
    BY <1>3, <2>0, Places DEF TypeOK, JobsTyped, Serving
  <2>2. ~Fails(p)
    BY <1>3, <2>0, <2>1, Tracked
  <2>3. CASE Upload(p)
    BY <1>1, <1>3, <2>0, <2>2, <2>3, OfUploads, UploadKeepsFit
  <2>4. CASE Unmount(p)
    BY <1>1, <1>3, <2>0, <2>2, <2>4, OfUnmounts, UnmountKeepsFit
  <2>5. CASE Purge(p) \/ DeleteDocument(p)
    BY <1>1, <1>3, <2>0, <2>2, <2>5, OfPurges, PurgeKeepsFit
  <2>6. CASE \/ BeginUpload(p) \/ BeginUnmount(p) \/ BeginPurge(p) \/ BeginCreate(p)
             \/ BeginDrop(p)
    BY <2>1, <2>6, TakenMoves
  <2>7. CASE Base(p)
    BY <2>1, <2>7, BaseMoves DEF Base, At
  <2>8. CASE Stop(p)
    BY <2>2, <2>8 DEF Stop
  <2> QED
    BY <1>3, <2>3, <2>4, <2>5, <2>6, <2>7, <2>8 DEF Serve
<1>4. CASE Sample \/ FindsGap \/ ClosesGap \/ PassesOver
  BY <1>1, <1>4, MirrorKeepsFit
<1>5. CASE UNCHANGED vars
  <2>1. ViewSame(d) /\ job' = job /\ mirror' = mirror
    BY <1>5 DEF vars, rows, service, ViewSame, HasRow, MountsOf
  <2> QED
    BY <1>1, <2>1, LeftAlone
<1> QED
  BY <1>2, <1>3, <1>4, <1>5 DEF Next

-----------------------------------------------------------------------------
(* Tables and service: knowledge bases *)

OnBase(p, k) == job[p].kind \in {"create", "drop"} /\ job[p].kb = k
Dropping(p, k) ==
    job[p].kind = "drop" /\ job[p].kb = k /\ job[p].pc \in {"delete base mounts", "delete base"}

\* A creation is alone on its knowledge base; row and registration agree, or a request is
\* between the two.
BaseFits(k) ==
    /\ \A p \in Procs : job[p].kind = "create" /\ job[p].kb = k =>
         /\ k \notin kbs
         /\ job[p].pc = "register" => registered[k] # "live"
         /\ job[p].pc = "insert" => registered[k] = "live"
         /\ \A q \in Procs : OnBase(q, k) => q = p
    /\ k \in kbs /\ registered[k] # "live" => \E p \in Procs : Dropping(p, k)
    /\ k \notin kbs /\ registered[k] = "live" =>
         \E p \in Procs : job[p].kind = "create" /\ job[p].kb = k
    /\ \A p \in Procs : Dropping(p, k) => registered[k] # "live"
BasesFit == \A k \in KBs : k \notin disturbed => BaseFits(k)

\* The service changes a knowledge base on its creation and on its deletion only: it has heard
\* of those that uploads and the reconciliation link to.
LEMMA BaseChanges ==
  ASSUME TypeOK, Known, [Next]_vars, NEW k \in KBs
  PROVE  \/ registered'[k] = registered[k]
         \/ \E p \in Procs : /\ RegisterBase(p) /\ At(p, "create", "register")
                             /\ job[p].kb = k /\ registered'[k] = "live"
         \/ \E p \in Procs : /\ RetireBase(p) /\ At(p, "drop", "retire")
                             /\ job[p].kb = k /\ registered'[k] # "live"
<1>0. /\ registered \in [Resources -> {"unknown", "live", "retired"}] /\ k \in Resources
      /\ k \notin Docs /\ Docs \subseteq Resources /\ KBs \subseteq Resources
  BY MountsAssumption DEF TypeOK, ServiceTyped, Resources, Docs
<1>1. ASSUME NEW p \in Procs, Serve(p)
      PROVE  \/ registered'[k] = registered[k]
             \/ /\ RegisterBase(p) /\ At(p, "create", "register")
                /\ job[p].kb = k /\ registered'[k] = "live"
             \/ /\ RetireBase(p) /\ At(p, "drop", "retire")
                /\ job[p].kb = k /\ registered'[k] # "live"
  <2>0. job[p] \in JobSet /\ Serving(job[p])
    BY DEF TypeOK, JobsTyped
  <2>1. CASE RegisterDocument(p)
    <3>1. job[p].doc \in Docs
      BY <2>0, <2>1, Places DEF RegisterDocument
    <3> QED
      BY <1>0, <2>1, <3>1 DEF RegisterDocument, Register
  <2>2. CASE RegisterBase(p)
    <3>1. At(p, "create", "register") /\ job[p].kb \in KBs
      BY <2>0, <2>2, Places, BaseMoves DEF At
    <3> QED
      BY <1>0, <2>2, <3>1 DEF RegisterBase, Register
  <2>3. CASE LinkMount(p)
    <3>1. job[p].kind = "upload" /\ job[p].doc \in Docs
      BY <2>0, <2>3, Places DEF LinkMount
    <3>2. job[p].kb = k => registered[k] # "unknown"
      BY <3>1 DEF Known
    <3> QED
      BY <1>0, <2>3, <3>1, <3>2 DEF LinkMount, Link
  <2>4. CASE UnlinkMount(p)
    BY <2>4 DEF UnlinkMount, Unlink, service
  <2>5. CASE RetireUnmounted(p) \/ RetirePurged(p)
    <3>1. job[p].doc \in Docs
      BY <2>0, <2>5, Places DEF RetireUnmounted, RetirePurged
    <3> QED
      BY <1>0, <2>5, <3>1 DEF RetireUnmounted, RetirePurged, Retire, service
  <2>6. CASE RetireBase(p)
    <3>1. At(p, "drop", "retire") /\ job[p].kb \in KBs
      BY <2>0, <2>6, Places, BaseMoves DEF At
    <3> QED
      BY <1>0, <2>6, <3>1 DEF RetireBase, Retire
  <2>8. CASE BeginUpload(p) \/ BeginUnmount(p) \/ BeginPurge(p) \/ BeginCreate(p) \/ BeginDrop(p)
    BY <2>8 DEF BeginUpload, BeginUnmount, BeginPurge, BeginCreate, BeginDrop, Begin, service
  <2>9. CASE \/ FindDocument(p) \/ PutFile(p) \/ InsertDocument(p) \/ FindMount(p)
             \/ InsertMount(p) \/ RequestParse(p) \/ SelectMount(p) \/ DeleteExecution(p)
             \/ DeleteMount(p) \/ CountMounts(p) \/ SnapshotMounts(p) \/ DeleteSnapshot(p)
             \/ DeleteFile(p) \/ DeleteDocument(p)
    BY <2>9 DEF FindDocument, PutFile, InsertDocument, FindMount, InsertMount, RequestParse,
       SelectMount, DeleteExecution, DeleteMount, CountMounts, SnapshotMounts, DeleteSnapshot,
       DeleteFile, DeleteDocument, service
  <2>10. CASE \/ InsertBase(p) \/ CountBase(p) \/ DeleteBaseMounts(p) \/ DeleteBase(p) \/ Stop(p)
    BY <2>10 DEF InsertBase, CountBase, DeleteBaseMounts, DeleteBase, Stop, service
  <2> QED
    BY <1>1, <2>1, <2>2, <2>3, <2>4, <2>5, <2>6, <2>8, <2>9, <2>10
       DEF Serve, Upload, Unmount, Purge, Base
<1>2. CASE ClosesGap
  <2>1. PICK e \in Docs, j \in KBs : CloseGap(e, j)
    BY <1>2 DEF ClosesGap
  <2>2. registered[j] # "unknown"
    BY <2>1 DEF CloseGap, Known
  <2> QED
    BY <1>0, <2>1, <2>2 DEF CloseGap, Link
<1>3. CASE Sample \/ FindsGap \/ PassesOver
  BY <1>3 DEF Sample, FindsGap, FindGap, PassesOver, PassOver, service
<1>4. CASE UNCHANGED vars
  BY <1>4 DEF vars, service
<1> QED
  BY <1>1, <1>2, <1>3, <1>4 DEF Next

\* A request that takes its leave, or goes on, is the one that took the step.
LEMMA StepOf ==
  ASSUME TypeOK, NEW p \in Procs, Serve(p), NEW q \in Procs, Base(q)
  PROVE  q = p
<1>1. At(q, "create", "register") \/ At(q, "create", "insert") \/ job[q].kind = "drop"
  BY BaseMoves DEF Base, At
<1>2. job'[q] # job[q]
  BY <1>1, BaseMoves, IdleFields DEF Base, At, Over
<1> QED
  BY <1>2, OthersStand

\* A request on the knowledge base that does not fail
LEMMA BaseKeepsFit ==
  ASSUME TypeOK, NEW k \in KBs, BaseFits(k), NEW p \in Procs, Base(p), ~Fails(p), job[p].kb = k,
         \A q \in Procs \ {p} : job'[q] = job[q]
  PROVE  BaseFits(k)'
<1>0. registered \in [Resources -> {"unknown", "live", "retired"}] /\ k \in Resources
  BY DEF TypeOK, ServiceTyped, Resources
<1>1. CASE RegisterBase(p)
  <2>1. /\ At(p, "create", "register")
        /\ At(p, "create", "insert")' /\ job'[p].kb = k
    <3>1. Goto(p, "insert") /\ At(p, "create", "register")
      BY <1>1, BaseMoves DEF RegisterBase, Called
    <3> QED
      BY <3>1, Went DEF At, Same, Pcs
  <2>2. registered'[k] = "live" /\ kbs' = kbs
    BY <1>0, <1>1 DEF RegisterBase, Register, rows
  <2>3. k \notin kbs /\ \A q \in Procs \ {p} : ~OnBase(q, k)
    BY <2>1 DEF BaseFits, At
  <2>4. \A q \in Procs \ {p} : ~OnBase(q, k)'
    BY <2>3 DEF OnBase
  <2> QED
    BY <2>1, <2>2, <2>3, <2>4 DEF BaseFits, OnBase, Dropping, At
<1>2. CASE InsertBase(p)
  <2>1. /\ At(p, "create", "insert") /\ job'[p].kind = "none"
        /\ kbs' = kbs \cup {k} /\ registered' = registered
    BY <1>2, BaseMoves, IdleFields DEF InsertBase, Over, service
  <2>2. registered[k] = "live" /\ \A q \in Procs \ {p} : ~OnBase(q, k)
    BY <2>1 DEF BaseFits, At
  <2>3. \A q \in Procs : ~OnBase(q, k)'
    BY <2>1, <2>2 DEF OnBase
  <2> QED
    BY <2>1, <2>2, <2>3 DEF BaseFits, OnBase, Dropping
<1>3. ASSUME job[p].kind = "drop", job'[p].kind # "create",
             kbs' = kbs \/ kbs' = kbs \ {k}, k \in kbs' \/ registered'[k] # "live",
             k \in kbs' /\ registered'[k] # "live" => \E q \in Procs : Dropping(q, k)',
             \A q \in Procs : Dropping(q, k)' => registered'[k] # "live"
      PROVE  BaseFits(k)'
  <2>1. \A q \in Procs : job[q].kind = "create" => job[q].kb # k
    BY <1>3 DEF BaseFits, OnBase
  <2>2. \A q \in Procs : job'[q].kind = "create" => job'[q].kb # k
    BY <1>3, <2>1
  <2> QED
    BY <1>3, <2>2 DEF BaseFits
<1>4. ASSUME job[p].kind = "drop" PROVE k \in kbs \/ registered[k] # "live"
  BY <1>4 DEF BaseFits, OnBase
<1>5. CASE CountBase(p)
  <2>1. /\ At(p, "drop", "count")
        /\ At(p, "drop", "retire")' \/ job'[p].kind = "none"
        /\ kbs' = kbs /\ registered' = registered
    BY <1>5, BaseMoves, IdleFields DEF CountBase, Over, service, rows
  <2>2. \A q \in Procs : Dropping(q, k)' <=> Dropping(q, k)
    <3>1. ~Dropping(p, k) /\ ~Dropping(p, k)'
      BY <2>1 DEF Dropping, At
    <3> QED
      BY <3>1 DEF Dropping
  <2>3. job[p].kind = "drop" /\ job'[p].kind # "create"
    BY <2>1 DEF At
  <2>4. /\ k \in kbs' /\ registered'[k] # "live" => \E q \in Procs : Dropping(q, k)'
        /\ \A q \in Procs : Dropping(q, k)' => registered'[k] # "live"
    BY <2>1, <2>2 DEF BaseFits
  <2> QED
    BY <1>3, <1>4, <2>1, <2>3, <2>4
<1>6. CASE RetireBase(p)
  <2>1. /\ At(p, "drop", "retire")
        /\ At(p, "drop", "delete base mounts")' /\ job'[p].kb = k
    <3>1. Goto(p, "delete base mounts") /\ At(p, "drop", "retire")
      BY <1>6, BaseMoves DEF RetireBase, Called
    <3> QED
      BY <3>1, Went DEF At, Same, Pcs
  <2>2. registered'[k] # "live" /\ kbs' = kbs
    BY <1>0, <1>6 DEF RetireBase, Retire, rows
  <2> QED
    BY <1>3, <2>1, <2>2 DEF At, Dropping
<1>7. CASE DeleteBaseMounts(p)
  <2>1. /\ At(p, "drop", "delete base mounts")
        /\ At(p, "drop", "delete base")' /\ job'[p].kb = k
    <3>1. Goto(p, "delete base") /\ At(p, "drop", "delete base mounts")
      BY <1>7, BaseMoves DEF DeleteBaseMounts
    <3> QED
      BY <3>1, Went DEF At, Same, Pcs
  <2>2. registered' = registered /\ kbs' = kbs
    BY <1>7 DEF DeleteBaseMounts, service
  <2>3. registered[k] # "live"
    BY <2>1 DEF BaseFits, Dropping, At
  <2> QED
    BY <1>3, <2>1, <2>2, <2>3 DEF At, Dropping
<1>8. CASE DeleteBase(p)
  <2>1. /\ At(p, "drop", "delete base") /\ job'[p].kind = "none"
        /\ kbs' = kbs \ {k} /\ registered' = registered
    BY <1>8, BaseMoves, IdleFields DEF DeleteBase, Over, service
  <2>2. registered[k] # "live"
    BY <2>1 DEF BaseFits, Dropping, At
  <2> QED
    BY <1>3, <2>1, <2>2 DEF At
<1> QED
  BY <1>1, <1>2, <1>5, <1>6, <1>7, <1>8 DEF Base

\* Another request, which may be taken on the knowledge base in this step
LEMMA BaseLeftAlone ==
  ASSUME TypeOK, Known, NEW k \in KBs, BaseFits(k), NEW p \in Procs, Serve(p), ~OnBase(p, k),
         registered'[k] = registered[k], k \in kbs' <=> k \in kbs
  PROVE  BaseFits(k)'
<1>0. \A q \in Procs \ {p} : job'[q] = job[q]
  BY OthersStand
<1>1. \A q \in Procs : Dropping(q, k)' <=> Dropping(q, k)
  <2>1. ~Dropping(p, k)
    BY DEF OnBase, Dropping
  <2>2. ~Dropping(p, k)'
    BY BaseArrivals DEF OnBase, Dropping, At, Same
  <2> QED
    BY <1>0, <2>1, <2>2 DEF Dropping
<1>2. /\ k \in kbs' /\ registered'[k] # "live" => \E q \in Procs : Dropping(q, k)'
      /\ \A q \in Procs : Dropping(q, k)' => registered'[k] # "live"
  BY <1>1 DEF BaseFits
<1>3. CASE ~OnBase(p, k)'
  <2>1. \A q \in Procs : /\ OnBase(q, k)' <=> OnBase(q, k)
                         /\ OnBase(q, k) => job'[q] = job[q]
    BY <1>0, <1>3 DEF OnBase
  <2> QED
    BY <1>2, <2>1 DEF BaseFits, OnBase
<1>4. CASE job'[p].kind = "drop" /\ job'[p].kb = k
  <2>1. k \in kbs
    BY <1>4, BaseArrivals DEF OnBase, At, Same
  <2>2. \A q \in Procs : job'[q].kind = "create" => job'[q].kb # k
    BY <1>0, <1>4, <2>1 DEF BaseFits
  <2> QED
    BY <1>2, <2>1, <2>2 DEF BaseFits
<1>5. CASE job'[p].kind = "create" /\ job'[p].kb = k
  <2>1. /\ At(p, "create", "register")' /\ k \notin kbs /\ registered[k] = "unknown"
        /\ \A q \in Procs : job[q].kind = "create" => job[q].kb # k
    BY <1>5, BaseArrivals DEF OnBase, At, Same
  <2>2. \A q \in Procs \ {p} : ~OnBase(q, k)'
    BY <1>0, <2>1 DEF Known, OnBase
  <2> QED
    BY <1>2, <2>1, <2>2 DEF BaseFits, OnBase, At
<1> QED
  BY <1>3, <1>4, <1>5 DEF OnBase

LEMMA BasesStep == TypeOK /\ Known /\ BasesFit /\ [Next]_vars => BasesFit'
<1> SUFFICES ASSUME TypeOK, Known, BasesFit, [Next]_vars, NEW k \in KBs, k \notin disturbed'
             PROVE  BaseFits(k)'
  BY DEF BasesFit
<1>1. k \notin disturbed /\ BaseFits(k) /\ k \in Resources
  BY Tracked DEF BasesFit, Resources
<1>2. ASSUME NEW p \in Procs, Serve(p) PROVE BaseFits(k)'
  <2>1. CASE OnBase(p, k)
    <3>1. ~Fails(p)
      BY <1>1, <2>1, Tracked DEF OnBase
    <3>2. job[p].pc # "idle"
      BY <2>1, Places DEF OnBase, TypeOK, JobsTyped
    <3>3. ~Upload(p)
      BY <2>1, UploadMoves DEF Upload, OnBase, At
    <3>4. ~Unmount(p)
      BY <2>1, UnmountMoves DEF Unmount, OnBase, At
    <3>5. ~Purge(p) /\ ~DeleteDocument(p)
      BY <2>1, PurgeMoves DEF Purge, OnBase, At
    <3>6. Base(p)
      BY <1>2, <3>1, <3>2, <3>3, <3>4, <3>5, TakenMoves DEF Serve, Stop
    <3> QED
      BY <1>1, <1>2, <2>1, <3>1, <3>6, OthersStand, BaseKeepsFit DEF OnBase
  <2>2. CASE ~OnBase(p, k)
    <3>1. \A q \in Procs : Base(q) => q = p
      BY <1>2, StepOf
    <3>2. registered'[k] = registered[k]
      BY <2>2, <3>1, BaseChanges DEF Base, OnBase, At
    <3>3. k \in kbs' <=> k \in kbs
      BY <2>2, <3>1, BaseRows DEF Base, OnBase, At
    <3> QED
      BY <1>1, <1>2, <2>2, <3>2, <3>3, BaseLeftAlone
  <2> QED
    BY <2>1, <2>2
<1>3. CASE Sample \/ FindsGap \/ ClosesGap \/ PassesOver \/ UNCHANGED vars
  <2>1. job' = job /\ kbs' = kbs
    BY <1>3 DEF Sample, FindsGap, FindGap, ClosesGap, CloseGap, PassesOver, PassOver, rows, vars
  <2>2. \A q \in Procs : ~Base(q)
    <3> SUFFICES ASSUME NEW q \in Procs, Base(q) PROVE FALSE
      OBVIOUS
    <3> QED
      BY <2>1, BaseMoves, IdleFields DEF Base, At, Over
  <2>3. registered'[k] = registered[k]
    BY <2>2, BaseChanges DEF Base
  <2> QED
    BY <1>1, <2>1, <2>3 DEF BaseFits, OnBase, Dropping
<1> QED
  BY <1>2, <1>3 DEF Next

\* Where nothing failed or crossed a removal and no request is left, nothing is between the
\* tables and the service.
LEMMA FittingAgrees == TypeOK /\ DocsFit /\ BasesFit => TablesAgree
<1> SUFFICES ASSUME TypeOK, DocsFit, BasesFit PROVE TablesAgree
  OBVIOUS
<1>0. \A p \in Procs : job[p] \in JobSet /\ Serving(job[p])
  BY DEF TypeOK, JobsTyped
<1>1. ASSUME NEW d \in Docs, AtRest(d)
      PROVE  /\ HasRow(d) <=> registered[d] = "live"
             /\ {k \in KBs : MountsOn(d, k) # {}} = {k \in KBs : <<d, k>> \in linked}
  <2>1. \A p \in Procs : job[p].kind \in {"upload", "unmount", "purge"} => job[p].doc # d
    BY <1>0, <1>1, Places DEF AtRest, Active
  <2>2. \A p \in Procs : /\ ~Retired(p, d) /\ ~Registered(p, d)
                         /\ \A k \in KBs : ~Linked(p, d, k) /\ ~Unlinked(p, d, k)
    BY <2>1 DEF Retired, Registered, Linked, Unlinked, AtOn
  <2>3. RowFits(d) /\ PairsFit(d)
    BY <1>1 DEF AtRest, DocsFit, DocFits
  <2>4. \A k \in KBs : MountsOn(d, k) # {} <=> Mounted(d, k)
    BY DEF MountsOn, Mounted, MountsOf
  <2> QED
    BY <2>2, <2>3, <2>4 DEF RowFits, PairsFit
<1>2. ASSUME NEW k \in KBs, AtRest(k) PROVE k \in kbs <=> registered[k] = "live"
  <2>1. \A p \in Procs : ~OnBase(p, k)
    BY <1>0, <1>2, Places DEF AtRest, Active, OnBase
  <2>2. BaseFits(k)
    BY <1>2 DEF AtRest, BasesFit
  <2> QED
    BY <2>1, <2>2 DEF BaseFits, OnBase, Dropping
<1> QED
  BY <1>1, <1>2 DEF TablesAgree

LEMMA TablesInit ==
  Init =>
    /\ NoConflict /\ Referred /\ NumbersFit /\ Known /\ Fresh /\ DropsEmpty
    /\ DocsFit /\ BasesFit
<1> SUFFICES ASSUME Init
             PROVE  /\ NoConflict /\ Referred /\ NumbersFit /\ Known /\ Fresh /\ DropsEmpty
                    /\ DocsFit /\ BasesFit
  OBVIOUS
<1>1. /\ documents = {} /\ mounts = {} /\ kbs = FirstKBs /\ linked = {}
      /\ mirror.todo = {} /\ mirror.gap = {}
      /\ \A p \in Procs : job[p].pc = "idle" /\ job[p].kind = "none" /\ job[p].doc = 0
  BY IdleFields DEF Init
<1>2. /\ FirstKBs \subseteq KBs /\ KBs \cap Docs = {} /\ \A d \in Docs : d # 0
      /\ \A k \in KBs : registered[k] = IF k \in FirstKBs THEN "live" ELSE "unknown"
      /\ \A d \in Docs : registered[d] = "unknown"
  BY MountsAssumption DEF Init, Docs, Resources
<1>3. \A d \in Docs : /\ ~HasRow(d) /\ MountsOf(d) = {} /\ ~Sampled(mirror, d)
                      /\ ~Conflict(job, mirror, d)
                      /\ \A k \in KBs : ~Mounted(d, k)
  BY <1>1 DEF HasRow, MountsOf, Sampled, Conflict, Removes, Mounted
<1>4. NoConflict /\ Referred /\ NumbersFit /\ Fresh /\ DropsEmpty
  BY <1>1, <1>2, <1>3 DEF NoConflict, Referred, NumbersFit, Fresh, DropsEmpty, At
<1>5. Known
  BY <1>1, <1>2 DEF Known, At
<1>6. DocsFit
  <2> SUFFICES ASSUME NEW d \in Docs PROVE DocFits(d)
    BY DEF DocsFit
  <2>1. RowFits(d) /\ PairsFit(d) /\ SampledFits(d)
    BY <1>1, <1>2, <1>3 DEF RowFits, PairsFit, SampledFits
  <2>2. \A p \in Procs : JobFits(p, d)
    BY <1>1, <1>2 DEF JobFits, NewFits, MountingFits, RemovalFits, Retired, AtOn
  <2> QED
    BY <2>1, <2>2 DEF DocFits
<1>7. BasesFit
  BY <1>1, <1>2 DEF BasesFit, BaseFits, OnBase, Dropping
<1> QED
  BY <1>4, <1>5, <1>6, <1>7

\* Tables and permission service agree on every document and knowledge base that is at rest:
\* no request on it failed or crossed a removal, and none is in progress on it (TablesAgree).
\* The invariant says, for every request in progress, which of the two it has written already.
THEOREM TablesAgreeAtRest == Spec => []TablesAgree
<1>1. TypeOK /\ NoConflict => AllCalm
  BY CalmWithoutConflict
<1>2. TypeOK /\ NoConflict /\ [Next]_vars => NoConflict'
  BY Tracked
<1>3. /\ TypeOK /\ Referred /\ [Next]_vars => Referred'
      /\ TypeOK /\ NumbersFit /\ [Next]_vars => NumbersFit'
      /\ TypeOK /\ Known /\ [Next]_vars => Known'
      /\ TypeOK /\ NumbersFit /\ Fresh /\ [Next]_vars => Fresh'
      /\ TypeOK /\ AllCalm /\ DropsEmpty /\ [Next]_vars => DropsEmpty'
      /\ TypeOK /\ Known /\ BasesFit /\ [Next]_vars => BasesFit'
  BY ReferredStep, NumbersStep, KnownStep, FreshStep, DropsStep, BasesStep
<1>4. TypeOK /\ NumbersFit /\ Referred /\ Fresh /\ DropsEmpty /\ AllCalm /\ AllCalm' /\ DocsFit
        /\ [Next]_vars => DocsFit'
  BY DocsStep
<1> QED
  BY TypeCorrect, TablesInit, FittingAgrees, <1>1, <1>2, <1>3, <1>4, PTL DEF Spec
=============================================================================
