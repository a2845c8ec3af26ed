------------------------------- MODULE Mounts -------------------------------
(***************************************************************************)
(* The life of documents and their mounts: upload, removal from one        *)
(* knowledge base, purge, creation and deletion of knowledge bases, and    *)
(* the reconciliation of the mirror.  Each request calls the permission    *)
(* service first and then writes its tables, one statement at a time; the  *)
(* calls and the statements of several requests interleave, and each       *)
(* request may stop after any of them.                                     *)
(***************************************************************************)
EXTENDS Naturals, FiniteSets

CONSTANTS
    Procs,         \* threads and workers of the API
    Contents,      \* contents of files; equal contents have equal fingerprints
    KBs, FirstKBs, \* knowledge bases, and those there are at first
    MaxDocs,       \* bound: document ids given,
    MaxMounts,     \* mount ids given,
    MaxRequests    \* and requests made

ASSUME MountsAssumption ==
    /\ MaxDocs \in Nat /\ MaxMounts \in Nat /\ MaxRequests \in Nat
    /\ FirstKBs \subseteq KBs
    /\ KBs \cap Nat = {} /\ Procs # {}

VARIABLES
    documents,     \* rows [doc, content]; UNIQUE (tenant_id, content_fingerprint)
    mounts,        \* rows [id, doc, kb]; UNIQUE (document_id, kb_id)
    executions,    \* mount ids with a row in ingest_executions, which refers to the mount
    kbs,           \* rows of knowledge_bases
    objects,       \* documents whose file is in the object store
    registered,    \* the permission service: each resource "unknown", "live" or "retired",
    linked,        \*   and the pairs of its mirror that are not unlinked
    job,           \* the request each thread serves
    mirror,        \* the reconciliation: rows yet to be checked, pair to be linked
    docs, ids, requests,  \* numbers of documents, mounts and requests so far
    asked,         \* history: pairs unlinked because that was asked for,
    mark,          \*   least mount number that an unmount of the last mount did not count,
    fileMark,      \*   least mount number a purge that deleted the file did not see,
    disturbed      \*   documents and knowledge bases with a failed or conflicting request

rows == <<documents, mounts, executions, kbs, objects>>
service == <<registered, linked>>
counts == <<docs, ids, requests>>
history == <<asked, mark, fileMark>>
vars == <<rows, service, job, mirror, counts, history, disturbed>>

Docs == 1 .. MaxDocs
Ids == 1 .. MaxMounts
Pairs == Docs \X KBs
Resources == Docs \cup KBs

Idle == [kind |-> "none", pc |-> "idle", content |-> CHOOSE c \in Contents : TRUE, doc |-> 0,
         kb |-> CHOOSE k \in KBs : TRUE, mount |-> 0, seen |-> {}, mark |-> 0, warned |-> FALSE]

Init ==
    /\ documents = {} /\ mounts = {} /\ executions = {} /\ kbs = FirstKBs /\ objects = {}
    /\ registered = [r \in Resources |-> IF r \in FirstKBs THEN "live" ELSE "unknown"]
    /\ linked = {}
    /\ job = [p \in Procs |-> Idle]
    /\ mirror = [todo |-> {}, gap |-> {}]
    /\ docs = 0 /\ ids = 0 /\ requests = 0
    /\ asked = {}
    /\ mark = [d \in Docs |-> MaxMounts + 1]
    /\ fileMark = [d \in Docs |-> MaxMounts + 1]
    /\ disturbed = {}

Lesser(a, b) == IF a < b THEN a ELSE b

HasRow(d) == \E r \in documents : r.doc = d
MountsOf(d) == {m \in mounts : m.doc = d}
MountsOn(d, k) == {m \in mounts : m.doc = d /\ m.kb = k}
Active(p) == job[p].pc # "idle"

-----------------------------------------------------------------------------
(* History of failures and conflicts *)

Removes(j) == j.pc # "idle" /\ j.kind \in {"unmount", "purge"}

\* The reconciliation holds a row of the document that it read before.
Sampled(m, d) == \E p \in m.todo \cup m.gap : p[1] = d

\* A removal meets another request for the document or the reconciliation, or the deletion of
\* a knowledge base meets an upload to it.
Conflict(jobs, m, d) ==
    \E p \in Procs :
        \/ /\ Removes(jobs[p]) /\ jobs[p].doc = d
           /\ \/ Sampled(m, d)
              \/ \E q \in Procs \ {p} : jobs[q].pc # "idle" /\ jobs[q].doc = d
        \/ /\ jobs[p].pc # "idle" /\ jobs[p].kind = "drop"
           /\ \/ \E q \in Procs :
                    jobs[q].kind = "upload" /\ jobs[q].doc = d /\ jobs[q].kb = jobs[p].kb
              \/ Sampled(m, d)

\* The history after a step: of the resources in "failed" a request failed.
Track(failed) ==
    disturbed' = disturbed \cup (failed \cap Resources)
                           \cup {d \in Docs : Conflict(job', mirror', d)}

\* The thread goes on as "j"; Idle when the request is answered.
Continue(p, j) ==
    /\ job' = [job EXCEPT ![p] = j]
    /\ UNCHANGED mirror
    /\ Track({})

Goto(p, pc) == Continue(p, [job[p] EXCEPT !.pc = pc])

Answer(p) == Continue(p, Idle)

Fails(p) ==
    /\ job' = [job EXCEPT ![p] = Idle]
    /\ UNCHANGED mirror
    /\ Track({IF job[p].kind \in {"create", "drop"} THEN job[p].kb ELSE job[p].doc})

-----------------------------------------------------------------------------
(* The permission service *)

\* register_resource: new, or live again.
Register(r) ==
    registered' = [registered EXCEPT ![r] = "live"] /\ UNCHANGED <<linked, asked>>

\* link_resource: a document that is not known is registered as well; one that is retired
\* remains so.
Link(d, k) ==
    /\ linked' = linked \cup {<<d, k>>}
    /\ registered' = [r \in Resources |->
                        IF r \in {d, k} /\ registered[r] = "unknown" THEN "live" ELSE registered[r]]
    /\ asked' = asked \ {<<d, k>>}

Unlink(d, k) ==
    /\ linked' = linked \ {<<d, k>>}
    /\ asked' = asked \cup {<<d, k>>}
    /\ UNCHANGED registered

\* retire_resource: with a document its pairs are unlinked.
Retire(r) ==
    /\ registered' = [registered EXCEPT ![r] = "retired"]
    /\ linked' = {p \in linked : p[1] # r}

\* The call took effect; its answer arrives, or is lost and the request fails.
Called(p, pc) == Goto(p, pc) \/ Fails(p)

\* The answer 404 to a call about a pair.
NotFound(d, k) == <<d, k>> \notin linked

-----------------------------------------------------------------------------
(* Requests *)

\* A thread takes a request.
Begin(p, request) ==
    /\ ~Active(p) /\ requests < MaxRequests
    /\ Continue(p, request)
    /\ requests' = requests + 1
    /\ UNCHANGED <<rows, service, docs, ids, history>>

\* Upload checks that the knowledge base is there.
BeginUpload(p) ==
    \E c \in Contents, k \in kbs :
        Begin(p, [Idle EXCEPT !.kind = "upload", !.pc = "find", !.content = c, !.kb = k])

BeginUnmount(p) ==
    \E d \in 1 .. docs, k \in KBs :
        /\ HasRow(d) \/ <<d, k>> \in linked
        /\ Begin(p, [Idle EXCEPT !.kind = "unmount", !.pc = "unlink", !.doc = d, !.kb = k])

BeginPurge(p) ==
    \E d \in 1 .. docs :
        /\ HasRow(d)
        /\ Begin(p, [Idle EXCEPT !.kind = "purge", !.pc = "snapshot", !.doc = d])

\* The id of a new knowledge base is new.
BeginCreate(p) ==
    \E k \in KBs \ kbs :
        /\ registered[k] = "unknown"
        /\ \A q \in Procs : job[q].kind = "create" => job[q].kb # k
        /\ Begin(p, [Idle EXCEPT !.kind = "create", !.pc = "register", !.kb = k])

BeginDrop(p) ==
    \E k \in kbs : Begin(p, [Idle EXCEPT !.kind = "drop", !.pc = "count", !.kb = k])

\* The process stops, the database or the store fails, or the service refuses the call.
Stop(p) ==
    /\ Active(p)
    /\ Fails(p)
    /\ UNCHANGED <<rows, service, counts, history>>

-----------------------------------------------------------------------------
(* Upload *)

\* The document with the same fingerprint, or a new id.
FindDocument(p) ==
    /\ job[p].pc = "find"
    /\ \/ \E r \in documents :
            /\ r.content = job[p].content
            /\ Continue(p, [job[p] EXCEPT !.doc = r.doc, !.pc = "find mount"])
            /\ UNCHANGED docs
       \/ /\ \A r \in documents : r.content # job[p].content
          /\ docs < MaxDocs
          /\ docs' = docs + 1
          /\ Continue(p, [job[p] EXCEPT !.doc = docs + 1, !.pc = "store"])
    /\ UNCHANGED <<rows, service, ids, requests, history>>

PutFile(p) ==
    /\ job[p].pc = "store"
    /\ objects' = objects \cup {job[p].doc}
    /\ Goto(p, "register")
    /\ UNCHANGED <<documents, mounts, executions, kbs, service, counts, history>>

RegisterDocument(p) ==
    /\ job[p].pc = "register" /\ job[p].kind = "upload"
    /\ Register(job[p].doc)
    /\ Called(p, "insert")
    /\ UNCHANGED <<rows, counts, mark, fileMark>>

\* A row with that fingerprint may have been inserted meanwhile.
InsertDocument(p) ==
    /\ job[p].pc = "insert" /\ job[p].kind = "upload"
    /\ IF \E r \in documents : r.content = job[p].content
       THEN Fails(p) /\ UNCHANGED documents
       ELSE /\ documents' = documents \cup {[doc |-> job[p].doc, content |-> job[p].content]}
            /\ Goto(p, "find mount")
    /\ UNCHANGED <<mounts, executions, kbs, objects, service, counts, history>>

FindMount(p) ==
    /\ job[p].pc = "find mount"
    /\ \/ \E m \in MountsOn(job[p].doc, job[p].kb) :
            Continue(p, [job[p] EXCEPT !.mount = m.id, !.pc = "parse"])
       \/ MountsOn(job[p].doc, job[p].kb) = {} /\ Goto(p, "link")
    /\ UNCHANGED <<rows, service, counts, history>>

LinkMount(p) ==
    /\ job[p].pc = "link"
    /\ Link(job[p].doc, job[p].kb)
    /\ Called(p, "insert mount")
    /\ UNCHANGED <<rows, counts, mark, fileMark>>

\* The row refers to the document and to the knowledge base.
InsertMount(p) ==
    /\ job[p].pc = "insert mount"
    /\ IF HasRow(job[p].doc) /\ job[p].kb \in kbs /\ MountsOn(job[p].doc, job[p].kb) = {}
       THEN /\ ids < MaxMounts
            /\ ids' = ids + 1
            /\ mounts' = mounts \cup {[id |-> ids + 1, doc |-> job[p].doc, kb |-> job[p].kb]}
            /\ Continue(p, [job[p] EXCEPT !.mount = ids + 1, !.pc = "parse"])
       ELSE Fails(p) /\ UNCHANGED <<mounts, ids>>
    /\ UNCHANGED <<documents, executions, kbs, objects, service, docs, requests, history>>

\* The execution row, with auto_parse; of a mount that was parsed before it is there already.
RequestParse(p) ==
    /\ job[p].pc = "parse"
    /\ \/ /\ \E m \in mounts : m.id = job[p].mount
          /\ executions' = executions \cup {job[p].mount}
          /\ Answer(p)
       \/ /\ \A m \in mounts : m.id # job[p].mount
          /\ Fails(p) /\ UNCHANGED executions
       \/ /\ Answer(p) /\ UNCHANGED executions
    /\ UNCHANGED <<documents, mounts, kbs, objects, service, counts, history>>

-----------------------------------------------------------------------------
(* Removal from one knowledge base *)

\* Mutation: nothing is unlinked.
UnlinkMountNot(p) ==
    /\ job[p].pc = "unlink"
    /\ Goto(p, "select") /\ UNCHANGED <<linked, registered, asked>>
    /\ UNCHANGED <<rows, counts, mark, fileMark>>

\* A pair the service does not have is removed here nevertheless; that is logged by a logger
\* imported on this branch.
UnlinkMount(p) ==
    /\ job[p].pc = "unlink"
    /\ \/ /\ Unlink(job[p].doc, job[p].kb)
          /\ Called(p, "select")
       \/ /\ NotFound(job[p].doc, job[p].kb)
          /\ Continue(p, [job[p] EXCEPT !.warned = TRUE, !.pc = "select"])
          /\ UNCHANGED <<service, asked>>
    /\ UNCHANGED <<rows, counts, mark, fileMark>>

SelectMount(p) ==
    /\ job[p].pc = "select"
    /\ \/ \E m \in MountsOn(job[p].doc, job[p].kb) :
            Continue(p, [job[p] EXCEPT !.mount = m.id, !.pc = "delete execution"])
       \/ MountsOn(job[p].doc, job[p].kb) = {} /\ Goto(p, "delete mount")
    /\ UNCHANGED <<rows, service, counts, history>>

DeleteExecution(p) ==
    /\ job[p].pc = "delete execution"
    /\ executions' = executions \ {job[p].mount}
    /\ Goto(p, "delete mount")
    /\ UNCHANGED <<documents, mounts, kbs, objects, service, counts, history>>

\* The mount of the pair, which may be another than the one selected; an execution that refers
\* to it makes the statement fail.
DeleteMount(p) ==
    /\ job[p].pc = "delete mount"
    /\ LET gone == MountsOn(job[p].doc, job[p].kb)
       IN  IF \E m \in gone : m.id \in executions
           THEN Fails(p) /\ UNCHANGED mounts
           ELSE mounts' = mounts \ gone /\ Goto(p, "count")
    /\ UNCHANGED <<documents, executions, kbs, objects, service, counts, history>>

\* Mutation: the mounts of this knowledge base are counted.
CountMountsOfBase(p) ==
    /\ job[p].pc = "count" /\ job[p].kind = "unmount"
    /\ IF MountsOn(job[p].doc, job[p].kb) = {}
       THEN Continue(p, [job[p] EXCEPT !.mark = ids + 1, !.pc = "retire"]) ELSE Answer(p)
    /\ UNCHANGED <<rows, service, counts, history>>

\* A document without mounts is retired; else the event is stored and the request answered.
CountMounts(p) ==
    /\ job[p].pc = "count" /\ job[p].kind = "unmount"
    /\ IF MountsOf(job[p].doc) = {}
       THEN Continue(p, [job[p] EXCEPT !.mark = ids + 1, !.pc = "retire"]) ELSE Answer(p)
    /\ UNCHANGED <<rows, service, counts, history>>

\* A resource the service does not have is passed over if the logger was imported, and else
\* the name of the logger is not bound.
RetireUnmounted(p) ==
    /\ job[p].pc = "retire" /\ job[p].kind = "unmount"
    /\ \/ /\ Retire(job[p].doc)
          /\ mark' = [mark EXCEPT ![job[p].doc] = Lesser(@, job[p].mark)]
          /\ Called(p, "delete row")
       \/ /\ registered[job[p].doc] # "live" /\ job[p].warned
          /\ Goto(p, "delete row")
          /\ UNCHANGED <<service, mark>>
    /\ UNCHANGED <<rows, counts, asked, fileMark>>

\* The last statement of an unmount and of a purge; a mount that refers to the document makes
\* it fail.
DeleteDocument(p) ==
    /\ job[p].pc = "delete row" /\ job[p].kind \in {"unmount", "purge"}
    /\ IF MountsOf(job[p].doc) # {}
       THEN Fails(p) /\ UNCHANGED documents
       ELSE /\ documents' = {r \in documents : r.doc # job[p].doc}
            /\ Answer(p)
    /\ UNCHANGED <<mounts, executions, kbs, objects, service, counts, history>>

-----------------------------------------------------------------------------
(* Purge *)

SnapshotMounts(p) ==
    /\ job[p].pc = "snapshot"
    /\ IF MountsOf(job[p].doc) = {}
       THEN Answer(p)
       ELSE Continue(p, [job[p] EXCEPT !.seen = {m.id : m \in MountsOf(job[p].doc)},
                               !.mark = ids + 1, !.pc = "retire"])
    /\ UNCHANGED <<rows, service, counts, history>>

RetirePurged(p) ==
    /\ job[p].pc = "retire" /\ job[p].kind = "purge"
    /\ Retire(job[p].doc)
    /\ asked' = asked \cup {pair \in Pairs : pair[1] = job[p].doc}
    /\ Called(p, "delete mounts")
    /\ UNCHANGED <<rows, counts, mark, fileMark>>

\* One mount of the snapshot after the other.  Its execution is not deleted, and makes the
\* statement fail.
DeleteSnapshot(p) ==
    /\ job[p].pc = "delete mounts"
    /\ \/ \E i \in job[p].seen :
            IF i \in executions
            THEN Fails(p) /\ UNCHANGED mounts
            ELSE /\ mounts' = {m \in mounts : m.id # i}
                 /\ Continue(p, [job[p] EXCEPT !.seen = @ \ {i}])
       \/ job[p].seen = {} /\ Goto(p, "delete file") /\ UNCHANGED mounts
    /\ UNCHANGED <<documents, executions, kbs, objects, service, counts, history>>

\* Mutation: the file is deleted before the mounts.
DeleteFileFirst(p) ==
    /\ job[p].pc \in {"delete mounts", "delete file"}
    /\ objects' = objects \ {job[p].doc}
    /\ fileMark' = [fileMark EXCEPT ![job[p].doc] = Lesser(@, job[p].mark)]
    /\ Goto(p, IF job[p].pc = "delete file" THEN "delete row" ELSE "delete mounts")
    /\ UNCHANGED <<documents, mounts, executions, kbs, service, counts, asked, mark>>

\* The path of the file is read from the row; that the store fails is logged.
DeleteFile(p) ==
    /\ job[p].pc = "delete file"
    /\ \/ /\ HasRow(job[p].doc)
          /\ objects' = objects \ {job[p].doc}
          /\ fileMark' = [fileMark EXCEPT ![job[p].doc] = Lesser(@, job[p].mark)]
       \/ UNCHANGED <<objects, fileMark>>
    /\ Goto(p, "delete row")
    /\ UNCHANGED <<documents, mounts, executions, kbs, service, counts, asked, mark>>

-----------------------------------------------------------------------------
(* Knowledge bases *)

RegisterBase(p) ==
    /\ job[p].pc = "register" /\ job[p].kind = "create"
    /\ Register(job[p].kb)
    /\ Called(p, "insert")
    /\ UNCHANGED <<rows, counts, mark, fileMark>>

InsertBase(p) ==
    /\ job[p].pc = "insert" /\ job[p].kind = "create"
    /\ kbs' = kbs \cup {job[p].kb}
    /\ Answer(p)
    /\ UNCHANGED <<documents, mounts, executions, objects, service, counts, history>>

\* With mounts the deletion is refused, and so it is without a row.
CountBase(p) ==
    /\ job[p].pc = "count" /\ job[p].kind = "drop"
    /\ IF job[p].kb \in kbs /\ \A m \in mounts : m.kb # job[p].kb
       THEN Goto(p, "retire") ELSE Answer(p)
    /\ UNCHANGED <<rows, service, counts, history>>

RetireBase(p) ==
    /\ job[p].pc = "retire" /\ job[p].kind = "drop"
    /\ Retire(job[p].kb)
    /\ Called(p, "delete base mounts")
    /\ UNCHANGED <<rows, counts, history>>

\* Mounts inserted since the count go without any call or event, unless one was parsed.
DeleteBaseMounts(p) ==
    /\ job[p].pc = "delete base mounts"
    /\ IF \E m \in mounts : m.kb = job[p].kb /\ m.id \in executions
       THEN Fails(p) /\ UNCHANGED mounts
       ELSE /\ mounts' = {m \in mounts : m.kb # job[p].kb}
            /\ Goto(p, "delete base")
    /\ UNCHANGED <<documents, executions, kbs, objects, service, counts, history>>

DeleteBase(p) ==
    /\ job[p].pc = "delete base"
    /\ IF \E m \in mounts : m.kb = job[p].kb
       THEN Fails(p) /\ UNCHANGED kbs
       ELSE kbs' = kbs \ {job[p].kb} /\ Answer(p)
    /\ UNCHANGED <<documents, mounts, executions, objects, service, counts, history>>

-----------------------------------------------------------------------------
(* The reconciliation of the mirror *)

\* A run gets its credential and reads the mounts, here fewer than it samples.  A run without
\* one, as only a service for development hands it out, returns and changes nothing.
Sample ==
    /\ mirror.todo = {} /\ mirror.gap = {}
    /\ mounts # {}
    /\ mirror' = [mirror EXCEPT !.todo = {<<m.doc, m.kb>> : m \in mounts}]
    /\ UNCHANGED <<rows, service, job, counts, history>>
    /\ Track({})

\* Mutation: a pair that is denied is counted and not linked.
FindGapOnly(d, k) ==
    /\ mirror.gap = {} /\ <<d, k>> \in mirror.todo
    /\ <<d, k>> \notin linked
    /\ mirror' = [todo |-> mirror.todo \ {<<d, k>>}, gap |-> {}]
    /\ UNCHANGED <<rows, service, job, counts, history>>
    /\ Track({})

\* The service denies and gives a reason with the word "unknown".
FindGap(d, k) ==
    /\ mirror.gap = {} /\ <<d, k>> \in mirror.todo
    /\ <<d, k>> \notin linked
    /\ mirror' = [todo |-> mirror.todo \ {<<d, k>>}, gap |-> {<<d, k>>}]
    /\ UNCHANGED <<rows, service, job, counts, history>>
    /\ Track({})

\* The pair is linked, as it was read; whether the answer arrives does not matter.
CloseGap(d, k) ==
    /\ <<d, k>> \in mirror.gap
    /\ Link(d, k)
    /\ mirror' = [mirror EXCEPT !.gap = {}]
    /\ UNCHANGED <<rows, job, counts, mark, fileMark>>
    /\ Track({})

\* The pair is allowed or denied for another reason, or a call fails and is passed over.
PassOver(d, k) ==
    /\ <<d, k>> \in mirror.todo \cup mirror.gap
    /\ mirror' = [todo |-> mirror.todo \ {<<d, k>>}, gap |-> mirror.gap \ {<<d, k>>}]
    /\ UNCHANGED <<rows, service, job, counts, history>>
    /\ Track({})

-----------------------------------------------------------------------------

Upload(p) ==
    \/ FindDocument(p) \/ PutFile(p) \/ RegisterDocument(p) \/ InsertDocument(p)
    \/ FindMount(p) \/ LinkMount(p) \/ InsertMount(p) \/ RequestParse(p)

Unmount(p) ==
    \/ UnlinkMount(p) \/ SelectMount(p) \/ DeleteExecution(p) \/ DeleteMount(p)
    \/ CountMounts(p) \/ RetireUnmounted(p)

Purge(p) == SnapshotMounts(p) \/ RetirePurged(p) \/ DeleteSnapshot(p) \/ DeleteFile(p)

Base(p) ==
    \/ RegisterBase(p) \/ InsertBase(p)
    \/ CountBase(p) \/ RetireBase(p) \/ DeleteBaseMounts(p) \/ DeleteBase(p)

Serve(p) ==
    \/ BeginUpload(p) \/ BeginUnmount(p) \/ BeginPurge(p) \/ BeginCreate(p) \/ BeginDrop(p)
    \/ Upload(p) \/ Unmount(p) \/ Purge(p) \/ Base(p) \/ DeleteDocument(p) \/ Stop(p)

FindsGap == \E d \in Docs, k \in KBs : FindGap(d, k)
ClosesGap == \E d \in Docs, k \in KBs : CloseGap(d, k)
PassesOver == \E d \in Docs, k \in KBs : PassOver(d, k)

Next ==
    (\E p \in Procs : Serve(p)) \/ Sample \/ FindsGap \/ ClosesGap \/ PassesOver

Spec == Init /\ [][Next]_vars

-----------------------------------------------------------------------------
(* Properties *)

\* A mount that the service does not have was unlinked on a request for it, a removal of the
\* pair or a purge of the document, or its document was retired by a removal of what was then
\* the last mount, and the mount has been inserted since.  So no removal from one knowledge
\* base takes the service's mount in another one that stood when the mounts were counted.
UnlinkedOnRequest ==
    \A m \in mounts :
        <<m.doc, m.kb>> \notin linked => <<m.doc, m.kb>> \in asked \/ m.id >= mark[m.doc]

\* A mounted document keeps its file through every removal, failed purge and upload of the
\* same content; only a mount that a purge in progress did not see may lose it.
MountKeepsFile ==
    \A m \in mounts : m.doc \notin objects => m.id >= fileMark[m.doc]

AtRest(r) ==
    /\ r \notin disturbed
    /\ \A p \in Procs : Active(p) =>
         job[p].doc # r /\ ~(job[p].kind \in {"create", "drop"} /\ job[p].kb = r)

\* The tables and the service agree: where no request failed or crossed a removal, a document
\* has a row exactly when it is registered and not retired, its mounts are the service's, and
\* a knowledge base has a row exactly when it is registered; whatever sequence of uploads,
\* removals and new uploads went before, and with uploads at the same time.
TablesAgree ==
    /\ \A d \in Docs : AtRest(d) =>
         /\ HasRow(d) <=> registered[d] = "live"
         /\ {k \in KBs : MountsOn(d, k) # {}} = {k \in KBs : <<d, k>> \in linked}
    /\ \A k \in KBs : AtRest(k) => (k \in kbs <=> registered[k] = "live")

\* A mount that the service lacks, of a document that is not retired
Gap(d, k) ==
    /\ \E m \in mounts : m.doc = d /\ m.kb = k
    /\ <<d, k>> \notin linked
    /\ registered[d] = "live"

\* The reconciliation is started again and again with a credential and goes on, and the service
\* does not for ever fail it or deny for another reason.  No deployment file starts it.
ReconciliationRuns ==
    WF_vars(Sample) /\ WF_vars(PassesOver) /\ SF_vars(FindsGap) /\ SF_vars(ClosesGap)

\* Where the reconciliation runs, such gaps do not last: requests that stop halfway leave
\* some, and it links the pairs again while uploads and removals go on and while it works on
\* what it read before, or they are removed.  Nothing is assumed of the requests.
GapsClose == ReconciliationRuns => []<>(\A d \in Docs, k \in KBs : ~Gap(d, k))
=============================================================================
