-------------------------- MODULE Retrieval_proofs --------------------------
(***************************************************************************)
(* The re-check of a search keeps the promise of Recheck, for any number   *)
(* of documents, any size of batch and any order of the batches; and what  *)
(* a search returns has passed the filter, keeps to its documents, loses   *)
(* no hit by merging and, if it is strict, was granted.  The second part   *)
(* rests on what the folds of Retrieval compute, step by step.             *)
(***************************************************************************)
EXTENDS Retrieval, NaturalLemmas, SequenceTheorems, FiniteSetTheorems, TLAPS

\* Why an answer is right: what is kept was granted since the question, and what every
\* moment granted is kept, by its document, or still to be sent.
PromiseInv ==
    /\ step \in {"idle", "asked", "answered"}
    /\ step = "idle" => question = {} /\ kept = {} /\ ever = {} /\ always = {}
    /\ todo \subseteq question /\ ever \subseteq question /\ always \subseteq ever
    /\ DocsOf(kept) \subseteq DocsOf(ever)
    /\ \A i \in always : i \in todo \/ i[1] \in DocsOf(kept)
    /\ step = "asked" =>
         /\ question \cap granted \subseteq ever
         /\ always \subseteq granted
         /\ ~up => always = {}

\* A step of the filter, or one that leaves it alone.
FilterNext ==
    \/ \E items : Ask(items)
    \/ FilterBatch \/ FilterAnswers \/ Forget
    \/ \E i : ChangeGrant(i)
    \/ ServiceGoes \/ ServiceReturns
    \/ UNCHANGED filterVars

\* More items have more documents.
LEMMA DocsMonotone ==
    ASSUME NEW s, NEW t, s \subseteq t
    PROVE  DocsOf(s) \subseteq DocsOf(t)
  BY DEF DocsOf

\* The documents of two sets of items.
LEMMA DocsUnion ==
    ASSUME NEW s, NEW t
    PROVE  DocsOf(s \cup t) = DocsOf(s) \cup DocsOf(t)
  BY DEF DocsOf

\* No items have no documents.
LEMMA DocsEmpty == DocsOf({}) = {}
  BY DEF DocsOf

\* Each step of a retrieval is a step of the filter for the filter's variables.
LEMMA FilterSteps == [Next]_vars => [FilterNext]_filterVars
<1> SUFFICES ASSUME [Next]_vars PROVE FilterNext
  OBVIOUS
<1>1. CASE Retrieve
  BY <1>1 DEF Retrieve, FilterNext
<1>2. CASE Work
  <2>1. CASE TokenExpired \/ CredentialRefused \/ Suspended \/ Prefilter \/ EmbedQuery
    BY <2>1 DEF TokenExpired, CredentialRefused, Suspended, Prefilter, EmbedQuery, Local, FilterNext
  <2>5. CASE SearchDense \/ SearchSparse \/ SearchHybrid \/ Rank \/ Merge
    BY <2>5 DEF SearchDense, SearchSparse, SearchHybrid, Search, Rank, Merge, Local, FilterNext
  <2>2. CASE FoundNothing \/ SearchAgain \/ Return
    BY <2>2 DEF FoundNothing, SearchAgain, Return, SearchedAll, Local, FilterNext
  <2>3. CASE BeginRecheck
    BY <2>3 DEF BeginRecheck, FilterNext
  <2>4. CASE CheckBatch \/ FinishRecheck
    BY <2>4 DEF CheckBatch, FinishRecheck, FilterNext
  <2> QED BY <1>2, <2>1, <2>2, <2>3, <2>4, <2>5 DEF Work
<1>3. CASE World
  BY <1>3 DEF World, Changes, Restamp, FilterNext
<1>4. CASE UNCHANGED vars
  BY <1>4 DEF vars, FilterNext
<1> QED BY <1>1, <1>2, <1>3, <1>4 DEF Next

\* Before the first question the promise holds.
LEMMA PromiseInvInit == FilterInit => PromiseInv
  BY DEF FilterInit, PromiseInv, DocsOf

\* What a batch adds was granted when it was answered.
LEMMA AllowedAreGranted ==
    ASSUME NEW batch
    PROVE  DocsOf(AllowedItems(batch)) = DocsOf(batch \cap granted)
  BY DEF AllowedItems, Allowed, DocsOf

\* Each step of the filter keeps the promise: batches, answers, grants and the service.
LEMMA PromiseInvNext == PromiseInv /\ [FilterNext]_filterVars => PromiseInv'
<1> SUFFICES ASSUME PromiseInv, FilterNext PROVE PromiseInv'
  BY DEF FilterNext
<1> USE DEF PromiseInv
<1>1. ASSUME NEW items, Ask(items) PROVE PromiseInv'
  <2>1. DocsOf(kept') = {}
    BY <1>1, DocsEmpty DEF Ask
  <2> QED BY <1>1, <2>1 DEF Ask
<1>2. CASE FilterBatch
  <2>1. PICK batch \in Batches :
          /\ todo' = todo \ batch
          /\ kept' = kept \cup (IF up THEN AllowedItems(batch) ELSE {})
    BY <1>2 DEF FilterBatch
  <2>2. batch \subseteq todo
    BY DEF Batches
  <2>3. step = "asked" /\ UNCHANGED <<granted, up, step, question, ever, always>>
    BY <1>2 DEF FilterBatch
  <2>4. CASE up
    <3>1. DocsOf(kept') = DocsOf(kept) \cup DocsOf(batch \cap granted)
      BY <2>1, <2>4, DocsUnion, AllowedAreGranted
    <3>2. DocsOf(batch \cap granted) \subseteq DocsOf(ever)
      BY <2>2, <2>3, DocsMonotone
    <3>3. \A i \in always : i \in batch => i[1] \in DocsOf(batch \cap granted)
      BY <2>3 DEF DocsOf
    <3> QED BY <2>1, <2>2, <2>3, <3>1, <3>2, <3>3
  <2>5. CASE ~up
    BY <2>1, <2>3, <2>5
  <2> QED BY <2>4, <2>5
<1>3. CASE FilterAnswers
  BY <1>3 DEF FilterAnswers
<1>4. CASE Forget
  BY <1>4, DocsEmpty DEF Forget
<1>5. ASSUME NEW i, ChangeGrant(i) PROVE PromiseInv'
  <2>1. UNCHANGED <<up, step, question, todo, kept>>
    BY <1>5 DEF ChangeGrant
  <2>2. CASE step = "asked"
    <3>1. ever' = ever \cup (question \cap granted') /\ always' = always \cap granted'
      BY <1>5, <2>2 DEF ChangeGrant
    <3>2. DocsOf(ever) \subseteq DocsOf(ever')
      BY <3>1, DocsMonotone
    <3> QED BY <2>1, <2>2, <3>1, <3>2
  <2>3. CASE step # "asked"
    <3>1. UNCHANGED <<ever, always>>
      BY <1>5, <2>3 DEF ChangeGrant
    <3> QED BY <2>1, <2>3, <3>1
  <2> QED BY <2>2, <2>3
<1>6. CASE ServiceGoes
  BY <1>6 DEF ServiceGoes
<1>7. CASE ServiceReturns
  BY <1>7 DEF ServiceReturns
<1>8. CASE UNCHANGED filterVars
  BY <1>8 DEF filterVars
<1> QED BY <1>1, <1>2, <1>3, <1>4, <1>5, <1>6, <1>7, <1>8 DEF FilterNext

\* What is kept at any moment was granted since the question, and nothing granted
\* throughout has been dropped.
THEOREM PromiseKept == Spec => []PromiseInv
<1>1. Init => PromiseInv
  BY PromiseInvInit DEF Init
<1>2. PromiseInv /\ [Next]_vars => PromiseInv'
  BY FilterSteps, PromiseInvNext
<1> QED BY <1>1, <1>2, PTL DEF Spec

\* The re-check begins as its promise does.
LEMMA PromiseInit == FilterInit => Promise!Init
  BY DocsEmpty DEF FilterInit, Promise!Init

\* Each step of the re-check is one of its promise or changes nothing there.
LEMMA PromiseNext ==
    PromiseInv /\ PromiseInv' /\ [FilterNext]_filterVars => [Promise!Next]_(Promise!recheckVars)
<1> SUFFICES ASSUME PromiseInv, PromiseInv', FilterNext
             PROVE  [Promise!Next]_(Promise!recheckVars)
  BY DEF FilterNext
<1> USE DEF Promise!Next, Promise!recheckVars
<1>1. ASSUME NEW items, Ask(items) PROVE Promise!Ask
  <2>1. DocsOf(ever') \subseteq DocsOf(question') /\ DocsOf(always') \subseteq DocsOf(ever')
    BY DocsMonotone DEF PromiseInv
  <2> QED BY <1>1, <2>1 DEF Ask, Promise!Ask
<1>2. CASE FilterBatch
  BY <1>2 DEF FilterBatch
<1>3. CASE FilterAnswers
  <2>1. DocsOf(always) \subseteq DocsOf(kept)
    BY <1>3 DEF FilterAnswers, PromiseInv, DocsOf
  <2> QED BY <1>3, <2>1 DEF FilterAnswers, Promise!Answer, PromiseInv
<1>4. CASE Forget
  <2>1. CASE step = "idle"
    BY <1>4, <2>1 DEF Forget, PromiseInv
  <2>2. CASE step = "answered"
    BY <1>4, <2>2, DocsEmpty DEF Forget, Promise!Forget
  <2> QED BY <1>4, <2>1, <2>2 DEF Forget, PromiseInv
<1>5. ASSUME NEW i, ChangeGrant(i) PROVE [Promise!Next]_(Promise!recheckVars)
  <2>1. CASE step = "asked"
    <3>1. /\ DocsOf(ever) \subseteq DocsOf(ever') /\ DocsOf(ever') \subseteq DocsOf(question)
          /\ DocsOf(always') \subseteq DocsOf(always)
      <4>1. ever \subseteq ever' /\ ever' \subseteq question /\ always' \subseteq always
        BY <1>5, <2>1 DEF ChangeGrant, PromiseInv
      <4> QED BY <4>1, DocsMonotone
    <3> QED BY <1>5, <2>1, <3>1 DEF ChangeGrant, Promise!Change
  <2>2. CASE step # "asked"
    BY <1>5, <2>2 DEF ChangeGrant
  <2> QED BY <2>1, <2>2
<1>6. CASE ServiceGoes
  <2>1. CASE step = "asked"
    BY <1>6, <2>1, DocsEmpty, DocsMonotone DEF ServiceGoes, Promise!Change, PromiseInv
  <2>2. CASE step # "asked"
    BY <1>6, <2>2 DEF ServiceGoes
  <2> QED BY <2>1, <2>2
<1>7. CASE ServiceReturns
  BY <1>7 DEF ServiceReturns
<1>8. CASE UNCHANGED filterVars
  BY <1>8 DEF filterVars
<1> QED BY <1>1, <1>2, <1>3, <1>4, <1>5, <1>6, <1>7, <1>8 DEF FilterNext

\* The re-check, request by request and amid changing grants and failures, implements
\* the promise of Recheck.
THEOREM RecheckKeepsPromise == Spec => RecheckPromise
<1>1. Init => Promise!Init
  BY PromiseInit DEF Init
<1>2. PromiseInv /\ PromiseInv' /\ [Next]_vars => [Promise!Next]_(Promise!recheckVars)
  BY FilterSteps, PromiseNext
<1> QED BY <1>1, <1>2, PromiseKept, PTL DEF Spec, RecheckPromise, Promise!Spec

-----------------------------------------------------------------------------
(* Folds over sequences *)

\* The hits of a hit's document.
HitsOf(found, hit) == Those(found, {d \in ToSet(found) : d.row.doc = hit.row.doc})

\* What a repeated search makes of the results.
Added(docs, more) ==
    FoldLeft(LAMBDA all, d : IF d.texts \in Contents(all) THEN all ELSE Append(all, d),
             docs, more)

\* What holds at first and after each step holds throughout.
LEMMA StepByStep ==
    ASSUME NEW n \in Nat, NEW P, 0 \in P,
           \A k \in 1 .. n : k - 1 \in P => k \in P
    PROVE  \A k \in 0 .. n : k \in P
<1> DEFINE Bad == {k \in 0 .. n : k \notin P}
<1>1. ASSUME Bad # {} PROVE FALSE
    <2>1. Bad \in SUBSET Nat
        OBVIOUS
    <2>2. PICK k \in Bad : \A m \in Bad : k <= m
        <3> HIDE DEF Bad
        <3> QED BY <2>1, <1>1, LeastElement
    <2>3. k # 0 /\ k \in 1 .. n /\ k - 1 \in 0 .. n
        BY <2>2
    <2>4. k - 1 \in P
        BY <2>2, <2>3
    <2> QED BY <2>2, <2>3, <2>4
<1> QED BY <1>1

\* The greatest of some numbers up to k, k among them.
LEMMA TopOfInterval ==
    ASSUME NEW k \in Nat, NEW s \in SUBSET (1 .. k), k \in s
    PROVE  Max(s) = k
<1>1. \A y \in s : k >= y
    OBVIOUS
<1>2. \E x \in s : \A y \in s : x >= y
    BY <1>1
<1>3. Max(s) \in s /\ \A y \in s : Max(s) >= y
    BY <1>2 DEF Max
<1>4. Max(s) \in 1 .. k /\ Max(s) >= k
    BY <1>3
<1> QED BY <1>4

\* The numbers up to k, their greatest and the others.
LEMMA Intervals ==
    ASSUME NEW n \in Nat, NEW k \in 1 .. n
    PROVE  /\ Max(1 .. k) = k /\ (1 .. k) \ {k} = 1 .. (k - 1)
           /\ 1 .. k \in SUBSET (1 .. n) /\ 1 .. (k - 1) \in SUBSET (1 .. n)
           /\ 1 .. k # {}
<1>1. k \in Nat /\ k \in 1 .. k
    OBVIOUS
<1>2. Max(1 .. k) = k
    BY <1>1, TopOfInterval
<1> QED BY <1>1, <1>2

\* Some numbers up to n have a greatest one.
LEMMA TopExists ==
    ASSUME NEW n \in Nat, NEW s \in SUBSET (1 .. n), s # {}
    PROVE  Max(s) \in s
<1> DEFINE Above == {m \in 0 .. n : \A y \in s : m >= y}
<1>1. n \in Above /\ Above \in SUBSET Nat
    OBVIOUS
<1>2. PICK m \in Above : \A l \in Above : m <= l
    <2> HIDE DEF Above
    <2> QED BY <1>1, LeastElement
<1>3. m \in s
    <2>1. ASSUME m \notin s PROVE FALSE
        <3>1. m > 0
            <4>1. PICK y \in s : TRUE
                OBVIOUS
            <4>2. y \in 1 .. n /\ m \in 0 .. n /\ m >= y
                BY <1>2
            <4> QED BY <4>2
        <3>2. m - 1 \in 0 .. n /\ m - 1 < m
            BY <3>1, <1>2
        <3>3. ASSUME NEW y \in s PROVE m - 1 >= y
            <4>1. y \in 1 .. n /\ m \in 0 .. n /\ m >= y /\ y # m
                BY <2>1, <1>2
            <4> QED BY <4>1
        <3> QED BY <3>2, <3>3, <1>2
    <2> QED BY <2>1
<1>4. \E x \in s : \A y \in s : x >= y
    BY <1>2, <1>3
<1> QED BY <1>4 DEF Max

\* f takes the steps h from b on.
IsFold(f, n, b, h) ==
    \A s \in SUBSET (1 .. n) : f[s] = IF s = {} THEN b ELSE h[Max(s)][f[s \ {Max(s)}]]

\* A fold exists: there is the function that its definition chooses.
LEMMA FoldRuns ==
    ASSUME NEW n \in Nat, NEW D, NEW b \in D, NEW h \in [1 .. n -> [D -> D]]
    PROVE  \E f \in [SUBSET (1 .. n) -> D] : IsFold(f, n, b, h)
<1> DEFINE Runs(k) ==
        \E f \in [SUBSET (1 .. k) -> D] :
             \A s \in SUBSET (1 .. k) :
                f[s] = IF s = {} THEN b ELSE h[Max(s)][f[s \ {Max(s)}]]
           P == {k \in 0 .. n : Runs(k)}
<1>1. 0 \in P
    <2> DEFINE f == [s \in SUBSET (1 .. 0) |-> b]
    <2>1. \A s \in SUBSET (1 .. 0) : s = {}
        OBVIOUS
    <2>2. f \in [SUBSET (1 .. 0) -> D]
        OBVIOUS
    <2>3. \A s \in SUBSET (1 .. 0) :
                f[s] = IF s = {} THEN b ELSE h[Max(s)][f[s \ {Max(s)}]]
        BY <2>1
    <2>4. Runs(0)
        <3> HIDE DEF f
        <3> QED BY <2>2, <2>3
    <2> QED
        <3> HIDE DEF Runs
        <3> QED BY <2>4
<1>2. ASSUME NEW k \in 1 .. n, k - 1 \in P PROVE k \in P
    <2>1. PICK g \in [SUBSET (1 .. (k - 1)) -> D] :
             \A s \in SUBSET (1 .. (k - 1)) :
                g[s] = IF s = {} THEN b ELSE h[Max(s)][g[s \ {Max(s)}]]
        BY <1>2
    <2> DEFINE f == [s \in SUBSET (1 .. k) |-> IF k \in s THEN h[k][g[s \ {k}]] ELSE g[s]]
               F(s) == IF s = {} THEN b ELSE h[Max(s)][f[s \ {Max(s)}]]
    <2>2. ASSUME NEW s \in SUBSET (1 .. k), k \in s
          PROVE  f[s] \in D /\ f[s] = F(s)
        <3>1. Max(s) = k
            BY <2>2, TopOfInterval
        <3>2. s \ {k} \in SUBSET (1 .. (k - 1)) /\ s \ {k} \in SUBSET (1 .. k)
            OBVIOUS
        <3>3. f[s \ {k}] = g[s \ {k}] /\ g[s \ {k}] \in D
            BY <3>2
        <3>4. f[s] = h[k][g[s \ {k}]]
            BY <2>2
        <3>5. h[k] \in [D -> D]
            OBVIOUS
        <3> QED BY <2>2, <3>1, <3>3, <3>4, <3>5
    <2>3. ASSUME NEW s \in SUBSET (1 .. k), k \notin s
          PROVE  f[s] \in D /\ f[s] = F(s)
        <3> DEFINE rest == s \ {Max(s)}
        <3>0. \A i \in s : i \in 1 .. (k - 1)
            BY <2>3
        <3>1. s \in SUBSET (1 .. (k - 1)) /\ rest \in SUBSET (1 .. (k - 1))
            BY <3>0
        <3>5. k \notin rest /\ rest \in SUBSET (1 .. k)
            BY <2>3
        <3>2. f[s] = g[s] /\ g[s] \in D
            BY <2>3, <3>1
        <3>3. f[rest] = g[rest]
            BY <3>5
        <3>4. g[s] = IF s = {} THEN b ELSE h[Max(s)][g[rest]]
            BY <2>1, <3>1
        <3> QED BY <3>2, <3>3, <3>4
    <2>4. f \in [SUBSET (1 .. k) -> D]
        <3>1. \A s \in SUBSET (1 .. k) : f[s] \in D
            BY <2>2, <2>3
        <3> QED BY <3>1
    <2>5. \A s \in SUBSET (1 .. k) : f[s] = F(s)
        BY <2>2, <2>3
    <2>6. Runs(k)
        <3> HIDE DEF f
        <3> QED BY <2>4, <2>5
    <2> QED
        <3> HIDE DEF Runs
        <3> QED BY <2>6
<1>3. \A k \in 0 .. n : k \in P
    <2> HIDE DEF P
    <2> QED BY <1>1, <1>2, StepByStep
<1>4. n \in 0 .. n
    OBVIOUS
<1>5. Runs(n)
    BY <1>3, <1>4
<1> QED BY <1>5 DEF IsFold

\* Inside D the steps of f are those of h.
IsFoldIn(f, n, D, h) ==
    \A t \in SUBSET (1 .. n) :
        t # {} /\ f[t \ {Max(t)}] \in D => f[t] = h[Max(t)][f[t \ {Max(t)}]]

\* a goes through the steps h.
IsHistory(a, n, h) == \A k \in 1 .. n : a[k] = h[k][a[k - 1]]

\* What a fold goes through.
LEMMA FoldHistory ==
    ASSUME NEW n \in Nat, NEW D, NEW b \in D, NEW h \in [1 .. n -> [D -> D]], NEW f,
           f[{}] = b, IsFoldIn(f, n, D, h)
    PROVE  \E a \in [0 .. n -> D] : a[0] = b /\ IsHistory(a, n, h) /\ f[1 .. n] = a[n]
<1> DEFINE a == [k \in 0 .. n |-> f[1 .. k]]
           P == {k \in 0 .. n : a[k] \in D}
<1>1. a[0] = b /\ a[n] = f[1 .. n]
    OBVIOUS
<1>2. ASSUME NEW k \in 1 .. n, a[k - 1] \in D
      PROVE  a[k] = h[k][a[k - 1]] /\ a[k] \in D
    <2>1. k - 1 \in 0 .. n /\ a[k] = f[1 .. k] /\ a[k - 1] = f[1 .. (k - 1)]
        OBVIOUS
    <2>2. /\ Max(1 .. k) = k /\ (1 .. k) \ {k} = 1 .. (k - 1)
          /\ 1 .. k \in SUBSET (1 .. n) /\ 1 .. k # {}
        BY Intervals
    <2>3. f[1 .. k] = h[Max(1 .. k)][f[(1 .. k) \ {Max(1 .. k)}]]
        BY <1>2, <2>1, <2>2 DEF IsFoldIn
    <2>4. h[k] \in [D -> D]
        OBVIOUS
    <2> HIDE DEF a
    <2> QED BY <1>2, <2>1, <2>2, <2>3, <2>4
<1>3. \A k \in 0 .. n : k \in P
    <2>1. 0 \in P
        BY <1>1
    <2>2. ASSUME NEW k \in 1 .. n, k - 1 \in P PROVE k \in P
        <3>1. k \in 0 .. n
            OBVIOUS
        <3> HIDE DEF a
        <3> QED BY <2>2, <1>2, <3>1
    <2> HIDE DEF P
    <2> QED BY <2>1, <2>2, StepByStep
<1>4. \A k \in 0 .. n : a[k] \in D
    BY <1>3
<1>5. a \in [0 .. n -> D]
    BY <1>4
<1>6. \A k \in 1 .. n : a[k] = h[k][a[k - 1]]
    <2> TAKE k \in 1 .. n
    <2>1. k - 1 \in 0 .. n
        OBVIOUS
    <2> HIDE DEF a
    <2> QED BY <2>1, <1>4, <1>2
<1> HIDE DEF a
<1> QED BY <1>1, <1>5, <1>6 DEF IsHistory

\* What an appended sequence has.
LEMMA ToSetAppend ==
    ASSUME NEW S, NEW s \in Seq(S), NEW e
    PROVE  ToSet(Append(s, e)) = ToSet(s) \cup {e}
<1>1. Len(s) \in Nat /\ DOMAIN s = 1 .. Len(s)
    OBVIOUS
<1>2. /\ DOMAIN Append(s, e) = 1 .. (Len(s) + 1)
      /\ \A i \in 1 .. Len(s) : Append(s, e)[i] = s[i]
      /\ Append(s, e)[Len(s) + 1] = e
    OBVIOUS
<1>3. 1 .. (Len(s) + 1) = (1 .. Len(s)) \cup {Len(s) + 1}
    BY <1>1
<1> HIDE DEF ToSet
<1> QED BY <1>1, <1>2, <1>3 DEF ToSet

\* What two joined sequences have.
LEMMA ToSetConcat ==
    ASSUME NEW S, NEW s \in Seq(S), NEW t \in Seq(S)
    PROVE  ToSet(s \o t) = ToSet(s) \cup ToSet(t) /\ s \o t \in Seq(S)
<1>1. /\ Len(s) \in Nat /\ DOMAIN s = 1 .. Len(s) /\ Len(t) \in Nat /\ DOMAIN t = 1 .. Len(t)
      /\ s \o t \in Seq(S) /\ Len(s \o t) = Len(s) + Len(t)
      /\ DOMAIN (s \o t) = 1 .. (Len(s) + Len(t))
    OBVIOUS
<1>2. ASSUME NEW i \in 1 .. (Len(s) + Len(t)) PROVE (s \o t)[i] \in ToSet(s) \cup ToSet(t)
    <2>1. CASE i <= Len(s)
        BY <1>1, <2>1 DEF ToSet
    <2>2. CASE i > Len(s)
        <3>1. i - Len(s) \in 1 .. Len(t) /\ (s \o t)[i] = t[i - Len(s)]
            BY <1>1, <2>2
        <3> QED BY <3>1, <1>1 DEF ToSet
    <2> QED BY <1>1, <2>1, <2>2
<1>3. ASSUME NEW i \in 1 .. Len(s) PROVE s[i] \in ToSet(s \o t)
    <2>1. i \in 1 .. (Len(s) + Len(t)) /\ (s \o t)[i] = s[i]
        BY <1>1
    <2> QED BY <2>1, <1>1 DEF ToSet
<1>4. ASSUME NEW i \in 1 .. Len(t) PROVE t[i] \in ToSet(s \o t)
    <2>1. Len(s) + i \in 1 .. (Len(s) + Len(t)) /\ (s \o t)[Len(s) + i] = t[i]
        BY <1>1
    <2> QED BY <2>1, <1>1 DEF ToSet
<1> QED BY <1>1, <1>2, <1>3, <1>4 DEF ToSet

\* a goes through a selection.
Selecting(a, s, set) ==
    /\ a[0] = << >>
    /\ \A k \in 1 .. Len(s) :
         a[k] = IF s[k] \in set THEN Append(a[k - 1], s[k]) ELSE a[k - 1]

\* The selection, step by step.
LEMMA ThoseSteps ==
    ASSUME NEW S, NEW s \in Seq(S), NEW set
    PROVE  \E a \in [0 .. Len(s) -> Seq(S)] : Selecting(a, s, set) /\ Those(s, set) = a[Len(s)]
<1> DEFINE n == Len(s)
           D == Seq(S)
           h == [k \in 1 .. n |-> [l \in D |-> IF s[k] \in set THEN Append(l, s[k]) ELSE l]]
           Eq(f) == f = [t \in SUBSET DOMAIN s |->
                           IF t = {} THEN << >>
                           ELSE LET x == Max(t)
                                IN  IF s[x] \in set THEN Append(f[t \ {x}], s[x]) ELSE f[t \ {x}]]
<1>1. n \in Nat /\ << >> \in D /\ DOMAIN s = 1 .. n
    OBVIOUS
<1>2. h \in [1 .. n -> [D -> D]]
    OBVIOUS
<1>3. ASSUME NEW t \in SUBSET (1 .. n), t # {} PROVE Max(t) \in 1 .. n
    BY <1>1, <1>3, TopExists
<1>4. PICK g \in [SUBSET (1 .. n) -> D] : IsFold(g, n, << >>, h)
    <2> HIDE DEF n, D, h
    <2> QED BY <1>1, <1>2, FoldRuns
<1>5. Eq(g)
    <2>1. ASSUME NEW t \in SUBSET (1 .. n), t # {}
          PROVE  LET x == Max(t)
                 IN  g[t] = IF s[x] \in set THEN Append(g[t \ {x}], s[x]) ELSE g[t \ {x}]
        <3>1. Max(t) \in 1 .. n /\ t \ {Max(t)} \in SUBSET (1 .. n)
            BY <2>1, <1>3
        <3>2. g[t \ {Max(t)}] \in D
            BY <3>1
        <3> QED BY <2>1, <3>1, <3>2, <1>4 DEF IsFold
    <2>2. g[{}] = << >>
        BY <1>4 DEF IsFold
    <2> QED BY <2>1, <2>2, <1>1
<1>6. PICK f : Eq(f) /\ Those(s, set) = f[DOMAIN s]
    <2>1. Those(s, set) = (CHOOSE f : Eq(f))[DOMAIN s]
        BY DEF Those, FoldLeft, MapThenFoldSet
    <2> QED BY <2>1, <1>5
<1>7. f[{}] = << >>
    BY <1>6
<1>8. IsFoldIn(f, n, D, h)
    <2> SUFFICES ASSUME NEW t \in SUBSET (1 .. n), t # {}, f[t \ {Max(t)}] \in D
                 PROVE  f[t] = h[Max(t)][f[t \ {Max(t)}]]
        BY DEF IsFoldIn
    <2>1. f[t] = LET x == Max(t) IN IF s[x] \in set THEN Append(f[t \ {x}], s[x]) ELSE f[t \ {x}]
        BY <1>1, <1>6
    <2> QED BY <2>1, <1>3
<1>9. PICK a \in [0 .. n -> D] : a[0] = << >> /\ IsHistory(a, n, h) /\ f[1 .. n] = a[n]
    <2> HIDE DEF n, D, h
    <2> QED BY <1>1, <1>2, <1>7, <1>8, FoldHistory
<1>10. ASSUME NEW k \in 1 .. n
       PROVE  a[k] = IF s[k] \in set THEN Append(a[k - 1], s[k]) ELSE a[k - 1]
    <2>1. k - 1 \in 0 .. n /\ a[k - 1] \in D
        <3> HIDE DEF D, n
        <3> QED BY <1>1
    <2>2. h[k][a[k - 1]] = IF s[k] \in set THEN Append(a[k - 1], s[k]) ELSE a[k - 1]
        BY <2>1
    <2> HIDE DEF h
    <2> QED BY <1>9, <2>2 DEF IsHistory
<1> QED BY <1>1, <1>6, <1>9, <1>10 DEF Selecting

\* a goes through the texts of a window.
Collecting(a, window, seen) ==
    /\ a[0] = << >>
    /\ \A k \in 1 .. Len(window) :
         a[k] = IF window[k].text \in seen \cup ToSet(a[k - 1]) THEN a[k - 1]
                ELSE Append(a[k - 1], window[k].text)

\* The texts of a window, step by step.
LEMMA NewTextsSteps ==
    ASSUME NEW S, NEW window \in Seq(S), NEW seen
    PROVE  \E a \in [0 .. Len(window) -> Seq({r.text : r \in S})] :
             Collecting(a, window, seen) /\ NewTexts(window, seen) = a[Len(window)]
<1> DEFINE n == Len(window)
           D == Seq({r.text : r \in S})
           h == [k \in 1 .. n |-> [l \in D |-> IF window[k].text \in seen \cup ToSet(l) THEN l
                                         ELSE Append(l, window[k].text)]]
           Eq(f) == f = [t \in SUBSET DOMAIN window |->
                           IF t = {} THEN << >>
                           ELSE LET x == Max(t)
                                IN  IF window[x].text \in seen \cup ToSet(f[t \ {x}])
                                    THEN f[t \ {x}]
                                    ELSE Append(f[t \ {x}], window[x].text)]
<1>1. n \in Nat /\ << >> \in D /\ DOMAIN window = 1 .. n
    OBVIOUS
<1>2. h \in [1 .. n -> [D -> D]]
    OBVIOUS
<1>3. ASSUME NEW t \in SUBSET (1 .. n), t # {} PROVE Max(t) \in 1 .. n
    BY <1>1, <1>3, TopExists
<1>4. PICK g \in [SUBSET (1 .. n) -> D] : IsFold(g, n, << >>, h)
    <2> HIDE DEF n, D, h
    <2> QED BY <1>1, <1>2, FoldRuns
<1>5. Eq(g)
    <2>1. ASSUME NEW t \in SUBSET (1 .. n), t # {}
          PROVE  LET x == Max(t)
                 IN  g[t] = IF window[x].text \in seen \cup ToSet(g[t \ {x}]) THEN g[t \ {x}]
                                    ELSE Append(g[t \ {x}], window[x].text)
        <3>1. Max(t) \in 1 .. n /\ t \ {Max(t)} \in SUBSET (1 .. n)
            BY <2>1, <1>3
        <3>2. g[t \ {Max(t)}] \in D
            BY <3>1
        <3> QED BY <2>1, <3>1, <3>2, <1>4 DEF IsFold
    <2>2. g[{}] = << >>
        BY <1>4 DEF IsFold
    <2> QED BY <2>1, <2>2, <1>1
<1>6. PICK f : Eq(f) /\ NewTexts(window, seen) = f[DOMAIN window]
    <2>1. NewTexts(window, seen) = (CHOOSE f : Eq(f))[DOMAIN window]
        BY DEF NewTexts, FoldLeft, MapThenFoldSet
    <2> QED BY <2>1, <1>5
<1>7. f[{}] = << >>
    BY <1>6
<1>8. IsFoldIn(f, n, D, h)
    <2> SUFFICES ASSUME NEW t \in SUBSET (1 .. n), t # {}, f[t \ {Max(t)}] \in D
                 PROVE  f[t] = h[Max(t)][f[t \ {Max(t)}]]
        BY DEF IsFoldIn
    <2>1. f[t] = LET x == Max(t) IN IF window[x].text \in seen \cup ToSet(f[t \ {x}])
                                    THEN f[t \ {x}]
                                    ELSE Append(f[t \ {x}], window[x].text)
        BY <1>1, <1>6
    <2> QED BY <2>1, <1>3
<1>9. PICK a \in [0 .. n -> D] : a[0] = << >> /\ IsHistory(a, n, h) /\ f[1 .. n] = a[n]
    <2> HIDE DEF n, D, h
    <2> QED BY <1>1, <1>2, <1>7, <1>8, FoldHistory
<1>10. ASSUME NEW k \in 1 .. n
       PROVE  a[k] = IF window[k].text \in seen \cup ToSet(a[k - 1]) THEN a[k - 1]
                         ELSE Append(a[k - 1], window[k].text)
    <2>1. k - 1 \in 0 .. n /\ a[k - 1] \in D
        <3> HIDE DEF D, n
        <3> QED BY <1>1
    <2>2. h[k][a[k - 1]] = IF window[k].text \in seen \cup ToSet(a[k - 1]) THEN a[k - 1]
                         ELSE Append(a[k - 1], window[k].text)
        BY <2>1
    <2> HIDE DEF h
    <2> QED BY <1>9, <2>2 DEF IsHistory
<1> QED BY <1>1, <1>6, <1>9, <1>10 DEF Collecting

\* A selection has the elements that are in the set.
LEMMA ThoseIn ==
    ASSUME NEW S, NEW s \in Seq(S), NEW set
    PROVE  Those(s, set) \in Seq(S) /\ ToSet(Those(s, set)) = ToSet(s) \cap set
<1>1. PICK a \in [0 .. Len(s) -> Seq(S)] : Selecting(a, s, set) /\ Those(s, set) = a[Len(s)]
    BY ThoseSteps
<1>2. Len(s) \in Nat /\ DOMAIN s = 1 .. Len(s)
    OBVIOUS
<1> DEFINE First(k) == {s[i] : i \in 1 .. k}
           P == {k \in 0 .. Len(s) : ToSet(a[k]) = First(k) \cap set}
<1>3. 0 \in P
    BY <1>1, <1>2 DEF ToSet, Selecting
<1>4. ASSUME NEW k \in 1 .. Len(s), k - 1 \in P PROVE k \in P
    <2>1. k \in 0 .. Len(s) /\ k - 1 \in 0 .. Len(s) /\ a[k - 1] \in Seq(S) /\ s[k] \in S
        BY <1>2
    <2>2. 1 .. k = (1 .. (k - 1)) \cup {k}
        BY <2>1
    <2>3. First(k) = First(k - 1) \cup {s[k]}
        BY <2>2
    <2>4. ToSet(Append(a[k - 1], s[k])) = ToSet(a[k - 1]) \cup {s[k]}
        BY <2>1, ToSetAppend
    <2>5. ToSet(a[k - 1]) = First(k - 1) \cap set
        BY <1>4
    <2>6. ToSet(a[k]) = First(k) \cap set
        <3> HIDE DEF First
        <3> QED BY <1>1, <2>3, <2>4, <2>5 DEF Selecting
    <2> QED BY <2>1, <2>6
<1>5. \A k \in 0 .. Len(s) : k \in P
    <2> HIDE DEF P
    <2> QED BY <1>2, <1>3, <1>4, StepByStep
<1>6. ToSet(a[Len(s)]) = First(Len(s)) \cap set
    BY <1>2, <1>5
<1>7. First(Len(s)) = ToSet(s)
    BY <1>2 DEF ToSet
<1> QED BY <1>1, <1>2, <1>6, <1>7

\* a goes through the grouping of hits.
Grouping(a, found) ==
    /\ a[0] = << >>
    /\ \A k \in 1 .. Len(found) :
         a[k] = IF found[k] \in ToSet(a[k - 1]) THEN a[k - 1]
                ELSE a[k - 1] \o HitsOf(found, found[k])

\* The grouping by documents, step by step.
LEMMA ByDocumentSteps ==
    ASSUME NEW S, NEW found \in Seq(S)
    PROVE  \E a \in [0 .. Len(found) -> Seq(S)] :
             Grouping(a, found) /\ ByDocument(found) = a[Len(found)]
<1> DEFINE n == Len(found)
           D == Seq(S)
           h == [k \in 1 .. n |-> [l \in D |-> IF found[k] \in ToSet(l) THEN l
                                         ELSE l \o HitsOf(found, found[k])]]
           Eq(f) == f = [t \in SUBSET DOMAIN found |->
                           IF t = {} THEN << >>
                           ELSE LET x == Max(t)
                                IN  IF found[x] \in ToSet(f[t \ {x}]) THEN f[t \ {x}]
                                    ELSE f[t \ {x}] \o HitsOf(found, found[x])]
<1>1. n \in Nat /\ << >> \in D /\ DOMAIN found = 1 .. n
    OBVIOUS
<1>2. h \in [1 .. n -> [D -> D]]
    <2>1. \A k \in 1 .. n : HitsOf(found, found[k]) \in D
        BY ThoseIn DEF HitsOf
    <2>2. \A k \in 1 .. n, l \in D : l \o HitsOf(found, found[k]) \in D
        BY <2>1
    <2> QED BY <2>2
<1>3. ASSUME NEW t \in SUBSET (1 .. n), t # {} PROVE Max(t) \in 1 .. n
    BY <1>1, <1>3, TopExists
<1>4. PICK g \in [SUBSET (1 .. n) -> D] : IsFold(g, n, << >>, h)
    <2> HIDE DEF n, D, h
    <2> QED BY <1>1, <1>2, FoldRuns
<1>5. Eq(g)
    <2>1. ASSUME NEW t \in SUBSET (1 .. n), t # {}
          PROVE  LET x == Max(t)
                 IN  g[t] = IF found[x] \in ToSet(g[t \ {x}]) THEN g[t \ {x}]
                                    ELSE g[t \ {x}] \o HitsOf(found, found[x])
        <3>1. Max(t) \in 1 .. n /\ t \ {Max(t)} \in SUBSET (1 .. n)
            BY <2>1, <1>3
        <3>2. g[t \ {Max(t)}] \in D
            BY <3>1
        <3> QED BY <2>1, <3>1, <3>2, <1>4 DEF IsFold
    <2>2. g[{}] = << >>
        BY <1>4 DEF IsFold
    <2> QED BY <2>1, <2>2, <1>1
<1>6. PICK f : Eq(f) /\ ByDocument(found) = f[DOMAIN found]
    <2>1. ByDocument(found) = (CHOOSE f : Eq(f))[DOMAIN found]
        BY DEF ByDocument, HitsOf, FoldLeft, MapThenFoldSet
    <2> QED BY <2>1, <1>5
<1>7. f[{}] = << >>
    BY <1>6
<1>8. IsFoldIn(f, n, D, h)
    <2> SUFFICES ASSUME NEW t \in SUBSET (1 .. n), t # {}, f[t \ {Max(t)}] \in D
                 PROVE  f[t] = h[Max(t)][f[t \ {Max(t)}]]
        BY DEF IsFoldIn
    <2>1. f[t] = LET x == Max(t) IN IF found[x] \in ToSet(f[t \ {x}]) THEN f[t \ {x}]
                                    ELSE f[t \ {x}] \o HitsOf(found, found[x])
        BY <1>1, <1>6
    <2> QED BY <2>1, <1>3
<1>9. PICK a \in [0 .. n -> D] : a[0] = << >> /\ IsHistory(a, n, h) /\ f[1 .. n] = a[n]
    <2> HIDE DEF n, D, h
    <2> QED BY <1>1, <1>2, <1>7, <1>8, FoldHistory
<1>10. ASSUME NEW k \in 1 .. n PROVE a[k] = IF found[k] \in ToSet(a[k - 1]) THEN a[k - 1]
                         ELSE a[k - 1] \o HitsOf(found, found[k])
    <2>1. k - 1 \in 0 .. n /\ a[k - 1] \in D
        <3> HIDE DEF D, n
        <3> QED BY <1>1
    <2>2. h[k][a[k - 1]] = IF found[k] \in ToSet(a[k - 1]) THEN a[k - 1]
                         ELSE a[k - 1] \o HitsOf(found, found[k])
        BY <2>1
    <2> HIDE DEF h
    <2> QED BY <1>9, <2>2 DEF IsHistory
<1> QED BY <1>1, <1>6, <1>9, <1>10 DEF Grouping

\* a goes through the results of a repeated search.
Adding(a, docs, more) ==
    /\ a[0] = docs
    /\ \A k \in 1 .. Len(more) :
         a[k] = IF more[k].texts \in Contents(a[k - 1]) THEN a[k - 1]
                ELSE Append(a[k - 1], more[k])

\* What a repeated search adds, step by step.
LEMMA AddedSteps ==
    ASSUME NEW S, NEW docs \in Seq(S), NEW more \in Seq(S)
    PROVE  \E a \in [0 .. Len(more) -> Seq(S)] :
             Adding(a, docs, more) /\ Added(docs, more) = a[Len(more)]
<1> DEFINE n == Len(more)
           D == Seq(S)
           h == [k \in 1 .. n |-> [l \in D |-> IF more[k].texts \in Contents(l) THEN l
                                         ELSE Append(l, more[k])]]
           Eq(f) == f = [t \in SUBSET DOMAIN more |->
                           IF t = {} THEN docs
                           ELSE LET x == Max(t)
                                IN  IF more[x].texts \in Contents(f[t \ {x}]) THEN f[t \ {x}]
                                    ELSE Append(f[t \ {x}], more[x])]
<1>1. n \in Nat /\ docs \in D /\ DOMAIN more = 1 .. n
    OBVIOUS
<1>2. h \in [1 .. n -> [D -> D]]
    OBVIOUS
<1>3. ASSUME NEW t \in SUBSET (1 .. n), t # {} PROVE Max(t) \in 1 .. n
    BY <1>1, <1>3, TopExists
<1>4. PICK g \in [SUBSET (1 .. n) -> D] : IsFold(g, n, docs, h)
    <2> HIDE DEF n, D, h
    <2> QED BY <1>1, <1>2, FoldRuns
<1>5. Eq(g)
    <2>1. ASSUME NEW t \in SUBSET (1 .. n), t # {}
          PROVE  LET x == Max(t)
                 IN  g[t] = IF more[x].texts \in Contents(g[t \ {x}]) THEN g[t \ {x}]
                                    ELSE Append(g[t \ {x}], more[x])
        <3>1. Max(t) \in 1 .. n /\ t \ {Max(t)} \in SUBSET (1 .. n)
            BY <2>1, <1>3
        <3>2. g[t \ {Max(t)}] \in D
            BY <3>1
        <3> QED BY <2>1, <3>1, <3>2, <1>4 DEF IsFold
    <2>2. g[{}] = docs
        BY <1>4 DEF IsFold
    <2> QED BY <2>1, <2>2, <1>1
<1>6. PICK f : Eq(f) /\ Added(docs, more) = f[DOMAIN more]
    <2>1. Added(docs, more) = (CHOOSE f : Eq(f))[DOMAIN more]
        BY DEF Added, FoldLeft, MapThenFoldSet
    <2> QED BY <2>1, <1>5
<1>7. f[{}] = docs
    BY <1>6
<1>8. IsFoldIn(f, n, D, h)
    <2> SUFFICES ASSUME NEW t \in SUBSET (1 .. n), t # {}, f[t \ {Max(t)}] \in D
                 PROVE  f[t] = h[Max(t)][f[t \ {Max(t)}]]
        BY DEF IsFoldIn
    <2>1. f[t] = LET x == Max(t) IN IF more[x].texts \in Contents(f[t \ {x}]) THEN f[t \ {x}]
                                    ELSE Append(f[t \ {x}], more[x])
        BY <1>1, <1>6
    <2> QED BY <2>1, <1>3
<1>9. PICK a \in [0 .. n -> D] : a[0] = docs /\ IsHistory(a, n, h) /\ f[1 .. n] = a[n]
    <2> HIDE DEF n, D, h
    <2> QED BY <1>1, <1>2, <1>7, <1>8, FoldHistory
<1>10. ASSUME NEW k \in 1 .. n PROVE a[k] = IF more[k].texts \in Contents(a[k - 1]) THEN a[k - 1]
                         ELSE Append(a[k - 1], more[k])
    <2>1. k - 1 \in 0 .. n /\ a[k - 1] \in D
        <3> HIDE DEF D, n
        <3> QED BY <1>1
    <2>2. h[k][a[k - 1]] = IF more[k].texts \in Contents(a[k - 1]) THEN a[k - 1]
                         ELSE Append(a[k - 1], more[k])
        BY <2>1
    <2> HIDE DEF h
    <2> QED BY <1>9, <2>2 DEF IsHistory
<1> QED BY <1>1, <1>6, <1>9, <1>10 DEF Adding

\* The lesser of two numbers.
LEMMA MinOfTwo ==
    ASSUME NEW a \in Int, NEW b \in Int
    PROVE  Min({a, b}) = IF a <= b THEN a ELSE b
<1>1. \E x \in {a, b} : \A y \in {a, b} : x =< y
    OBVIOUS
<1>2. Min({a, b}) \in {a, b} /\ \A y \in {a, b} : Min({a, b}) =< y
    BY <1>1 DEF Min
<1> QED BY <1>2

\* The greater of two numbers.
LEMMA MaxOfTwo ==
    ASSUME NEW a \in Int, NEW b \in Int
    PROVE  Max({a, b}) = IF a >= b THEN a ELSE b
<1>1. \E x \in {a, b} : \A y \in {a, b} : x >= y
    OBVIOUS
<1>2. Max({a, b}) \in {a, b} /\ \A y \in {a, b} : Max({a, b}) >= y
    BY <1>1 DEF Max
<1> QED BY <1>2

\* Some numbers have a least one.
LEMMA BottomExists ==
    ASSUME NEW s \in SUBSET Nat, s # {}
    PROVE  Min(s) \in s
<1>1. \E x \in s : \A y \in s : x =< y
    BY LeastElement
<1> QED BY <1>1 DEF Min

\* A stretch of a sequence.
LEMMA StretchIn ==
    ASSUME NEW S, NEW s \in Seq(S), NEW i \in Int, NEW j \in Int, i >= 1, j <= Len(s)
    PROVE  /\ SubSeq(s, i, j) \in Seq(S) /\ ToSet(SubSeq(s, i, j)) \subseteq ToSet(s)
           /\ Len(SubSeq(s, i, j)) = IF i <= j THEN j - i + 1 ELSE 0
<1>1. Len(s) \in Nat /\ DOMAIN s = 1 .. Len(s)
    OBVIOUS
<1>2. /\ Len(SubSeq(s, i, j)) = IF i <= j THEN j - i + 1 ELSE 0
      /\ \A k \in 1 .. Len(SubSeq(s, i, j)) : SubSeq(s, i, j)[k] = s[i + k - 1]
      /\ SubSeq(s, i, j) \in Seq(S)
    BY <1>1
<1>3. ASSUME NEW k \in 1 .. Len(SubSeq(s, i, j)) PROVE SubSeq(s, i, j)[k] \in ToSet(s)
    <2>1. i + k - 1 \in 1 .. Len(s)
        BY <1>1, <1>2
    <2> QED BY <1>1, <1>2, <2>1 DEF ToSet
<1>4. DOMAIN SubSeq(s, i, j) = 1 .. Len(SubSeq(s, i, j))
    BY <1>2
<1> QED BY <1>2, <1>3, <1>4 DEF ToSet

\* A cut leaves elements out, if there are too many.
LEMMA CutIn ==
    ASSUME NEW S, NEW s \in Seq(S), NEW n \in Nat
    PROVE  /\ Cut(s, n) \in Seq(S) /\ ToSet(Cut(s, n)) \subseteq ToSet(s)
           /\ Len(s) <= n => ToSet(Cut(s, n)) = ToSet(s)
<1>1. Len(s) \in Nat /\ DOMAIN s = 1 .. Len(s)
    OBVIOUS
<1>2. Min({n, Len(s)}) = IF n <= Len(s) THEN n ELSE Len(s)
    BY <1>1, MinOfTwo
<1>3. Cut(s, n) \in Seq(S) /\ ToSet(Cut(s, n)) \subseteq ToSet(s)
    <2> DEFINE m == Min({n, Len(s)})
    <2>1. m \in Int /\ m <= Len(s) /\ 1 \in Int /\ 1 >= 1
        BY <1>1, <1>2
    <2> HIDE DEF m
    <2>2. SubSeq(s, 1, m) \in Seq(S) /\ ToSet(SubSeq(s, 1, m)) \subseteq ToSet(s)
        BY <2>1, StretchIn
    <2> USE DEF m
    <2> QED BY <2>2 DEF Cut
<1>4. ASSUME Len(s) <= n PROVE Cut(s, n) = s
    <2>1. Min({n, Len(s)}) = Len(s)
        BY <1>1, <1>2, <1>4
    <2>2. SubSeq(s, 1, Len(s)) = s
        BY <1>1
    <2> QED BY <2>1, <2>2 DEF Cut
<1> QED BY <1>3, <1>4

\* The texts that are new in a window are texts of its rows.
LEMMA NewTextsIn ==
    ASSUME NEW S, NEW window \in Seq(S), NEW seen
    PROVE  /\ NewTexts(window, seen) \in Seq({r.text : r \in S})
           /\ Len(NewTexts(window, seen)) <= Len(window)
<1>1. PICK a \in [0 .. Len(window) -> Seq({r.text : r \in S})] :
         Collecting(a, window, seen) /\ NewTexts(window, seen) = a[Len(window)]
    BY NewTextsSteps
<1>2. Len(window) \in Nat
    OBVIOUS
<1> DEFINE P == {k \in 0 .. Len(window) : Len(a[k]) <= k}
<1>3. 0 \in P
    BY <1>1, <1>2 DEF Collecting
<1>4. ASSUME NEW k \in 1 .. Len(window), k - 1 \in P PROVE k \in P
    <2>1. k \in 0 .. Len(window) /\ k - 1 \in 0 .. Len(window) /\ Len(a[k - 1]) <= k - 1
          /\ a[k - 1] \in Seq({r.text : r \in S}) /\ window[k] \in S
        BY <1>2, <1>4
    <2>2. Len(Append(a[k - 1], window[k].text)) = Len(a[k - 1]) + 1 /\ Len(a[k - 1]) \in Nat
        BY <2>1
    <2>3. a[k] = a[k - 1] \/ a[k] = Append(a[k - 1], window[k].text)
        BY <1>1 DEF Collecting
    <2>4. Len(a[k]) <= k
        BY <2>1, <2>2, <2>3
    <2> QED BY <2>1, <2>4
<1>5. \A k \in 0 .. Len(window) : k \in P
    <2> HIDE DEF P
    <2> QED BY <1>2, <1>3, <1>4, StepByStep
<1> QED BY <1>1, <1>2, <1>5

\* Grouping by documents loses no hit and adds none.
LEMMA ByDocumentIn ==
    ASSUME NEW S, NEW found \in Seq(S)
    PROVE  ByDocument(found) \in Seq(S) /\ ToSet(ByDocument(found)) = ToSet(found)
<1>1. PICK a \in [0 .. Len(found) -> Seq(S)] :
         Grouping(a, found) /\ ByDocument(found) = a[Len(found)]
    BY ByDocumentSteps
<1>2. Len(found) \in Nat /\ DOMAIN found = 1 .. Len(found)
    OBVIOUS
<1> DEFINE Some(k) == {found[i] : i \in 1 .. k}
           P == {k \in 0 .. Len(found) :
                    Some(k) \subseteq ToSet(a[k]) /\ ToSet(a[k]) \subseteq ToSet(found)}
<1>3. 0 \in P
    BY <1>1, <1>2 DEF ToSet, Grouping
<1>4. ASSUME NEW k \in 1 .. Len(found), k - 1 \in P PROVE k \in P
    <2>1. k \in 0 .. Len(found) /\ k - 1 \in 0 .. Len(found) /\ a[k - 1] \in Seq(S)
        BY <1>2
    <2>2. 1 .. k = (1 .. (k - 1)) \cup {k}
        BY <2>1
    <2>3. Some(k) = Some(k - 1) \cup {found[k]} /\ found[k] \in ToSet(found)
        BY <2>2, <1>2 DEF ToSet
    <2>4. Some(k - 1) \subseteq ToSet(a[k - 1]) /\ ToSet(a[k - 1]) \subseteq ToSet(found)
        BY <1>4
    <2>5. /\ HitsOf(found, found[k]) \in Seq(S)
          /\ ToSet(HitsOf(found, found[k])) =
                {d \in ToSet(found) : d.row.doc = found[k].row.doc}
        BY ThoseIn DEF HitsOf
    <2>6. ToSet(a[k - 1] \o HitsOf(found, found[k])) =
             ToSet(a[k - 1]) \cup ToSet(HitsOf(found, found[k]))
        BY <2>1, <2>5, ToSetConcat
    <2>7. a[k] = IF found[k] \in ToSet(a[k - 1]) THEN a[k - 1]
                 ELSE a[k - 1] \o HitsOf(found, found[k])
        BY <1>1 DEF Grouping
    <2>8. Some(k) \subseteq ToSet(a[k]) /\ ToSet(a[k]) \subseteq ToSet(found)
        <3> HIDE DEF Some
        <3> QED BY <2>3, <2>4, <2>5, <2>6, <2>7
    <2> QED BY <2>1, <2>8
<1>5. \A k \in 0 .. Len(found) : k \in P
    <2> HIDE DEF P
    <2> QED BY <1>2, <1>3, <1>4, StepByStep
<1>6. Some(Len(found)) \subseteq ToSet(a[Len(found)]) /\ ToSet(a[Len(found)]) \subseteq ToSet(found)
    BY <1>2, <1>5
<1>7. Some(Len(found)) = ToSet(found)
    BY <1>2 DEF ToSet
<1> QED BY <1>1, <1>2, <1>6, <1>7

\* The texts of a sequence of results, by its elements.
LEMMA ContentsOf ==
    ASSUME NEW s
    PROVE  Contents(s) = {d.texts : d \in ToSet(s)}
  BY DEF Contents, ToSet

\* What was collected stays, and what is found again is there by its texts.
LEMMA AddedIn ==
    ASSUME NEW S, NEW docs \in Seq(S), NEW more \in Seq(S)
    PROVE  /\ Added(docs, more) \in Seq(S)
           /\ ToSet(docs) \subseteq ToSet(Added(docs, more))
           /\ \A d \in ToSet(more) : d.texts \in Contents(Added(docs, more))
<1>1. PICK a \in [0 .. Len(more) -> Seq(S)] :
         Adding(a, docs, more) /\ Added(docs, more) = a[Len(more)]
    BY AddedSteps
<1>2. Len(more) \in Nat /\ DOMAIN more = 1 .. Len(more)
    OBVIOUS
<1> DEFINE P == {k \in 0 .. Len(more) :
                    /\ ToSet(docs) \subseteq ToSet(a[k])
                    /\ \A i \in 1 .. k : more[i].texts \in Contents(a[k])}
<1>3. 0 \in P
    <2>1. a[0] = docs
        BY <1>1 DEF Adding
    <2>2. 0 \in 0 .. Len(more) /\ \A i \in 1 .. 0 : FALSE
        BY <1>2
    <2>3. ToSet(docs) \subseteq ToSet(a[0])
        BY <2>1
    <2>4. \A i \in 1 .. 0 : more[i].texts \in Contents(a[0])
        BY <2>2
    <2> QED BY <2>2, <2>3, <2>4
<1>4. ASSUME NEW k \in 1 .. Len(more), k - 1 \in P PROVE k \in P
    <2>0. k \in 0 .. Len(more) /\ k - 1 \in 0 .. Len(more)
        BY <1>2
    <2>1. k \in 0 .. Len(more) /\ k - 1 \in 0 .. Len(more) /\ a[k - 1] \in Seq(S)
        BY <2>0
    <2>2. \A i \in 1 .. k : i \in 1 .. (k - 1) \/ i = k
        BY <2>1
    <2>3. /\ ToSet(docs) \subseteq ToSet(a[k - 1])
          /\ \A i \in 1 .. (k - 1) : more[i].texts \in Contents(a[k - 1])
        BY <1>4
    <2>4. a[k] = IF more[k].texts \in Contents(a[k - 1]) THEN a[k - 1]
                 ELSE Append(a[k - 1], more[k])
        BY <1>1 DEF Adding
    <2>5. ToSet(Append(a[k - 1], more[k])) = ToSet(a[k - 1]) \cup {more[k]}
        BY <2>1, ToSetAppend
    <2>6. ToSet(a[k - 1]) \subseteq ToSet(a[k])
        BY <2>4, <2>5
    <2>7. Contents(a[k - 1]) \subseteq Contents(a[k])
        BY <2>6, ContentsOf
    <2>8. more[k].texts \in Contents(a[k])
        BY <2>4, <2>5, ContentsOf
    <2> QED BY <2>1, <2>2, <2>3, <2>6, <2>7, <2>8
<1>5. \A k \in 0 .. Len(more) : k \in P
    <2> HIDE DEF P
    <2> QED BY <1>2, <1>3, <1>4, StepByStep
<1>6. /\ ToSet(docs) \subseteq ToSet(a[Len(more)])
      /\ \A i \in 1 .. Len(more) : more[i].texts \in Contents(a[Len(more)])
    BY <1>2, <1>5
<1>7. \A d \in ToSet(more) : \E i \in 1 .. Len(more) : d = more[i]
    BY <1>2 DEF ToSet
<1> QED BY <1>1, <1>2, <1>6, <1>7

\* The neighbours of a row are a stretch around it.
LEMMA WindowIn ==
    ASSUME NEW S, NEW rows \in Seq(S), NEW i \in DOMAIN rows
    PROVE  WindowAround(rows, i) \in Seq(S) /\ Len(WindowAround(rows, i)) <= 2 * Window + 1
<1> DEFINE same == {j \in DOMAIN rows : rows[j].index = rows[i].index}
           p == Min(same)
           first == Max({1, p - Window})
           last == Min({Len(rows), p + Window})
<1>1. Len(rows) \in Nat /\ DOMAIN rows = 1 .. Len(rows) /\ Window \in Nat
    BY RetrievalAssumption
<1>2. same \in SUBSET Nat /\ same \subseteq 1 .. Len(rows) /\ same # {}
    BY <1>1
<1>3. p \in 1 .. Len(rows)
    <2> HIDE DEF same
    <2> QED BY <1>2, BottomExists
<1> HIDE DEF p
<1>4. first = IF 1 >= p - Window THEN 1 ELSE p - Window
    BY <1>1, <1>3, MaxOfTwo
<1>5. last = IF Len(rows) <= p + Window THEN Len(rows) ELSE p + Window
    BY <1>1, <1>3, MinOfTwo
<1> HIDE DEF first, last
<1>6. /\ first \in Int /\ last \in Int /\ first >= 1 /\ last <= Len(rows)
      /\ last - first + 1 <= 2 * Window + 1
    BY <1>1, <1>3, <1>4, <1>5
<1>7. /\ SubSeq(rows, first, last) \in Seq(S)
      /\ Len(SubSeq(rows, first, last)) = IF first <= last THEN last - first + 1 ELSE 0
    BY <1>6, StretchIn
<1>8. Len(SubSeq(rows, first, last)) <= 2 * Window + 1
    BY <1>1, <1>6, <1>7
<1>9. WindowAround(rows, i) = SubSeq(rows, first, last)
    BY DEF WindowAround, p, first, last, same
<1> QED BY <1>7, <1>8, <1>9

\* The parts of a merged result are texts of the window and the hit's own, all within the
\* limit.
LEMMA PartsIn ==
    ASSUME NEW S, NEW window \in Seq(S), NEW seen, NEW text, Len(window) <= 2 * Window + 1
    PROVE  /\ Parts(window, seen, text) \in Seq({r.text : r \in S} \cup {text})
           /\ text \in ToSet(Parts(window, seen, text))
           /\ Len(Parts(window, seen, text)) <= MaxTotal
<1> DEFINE texts == NewTexts(window, seen)
           T == {r.text : r \in S} \cup {text}
<1>1. texts \in Seq({r.text : r \in S}) /\ Len(texts) <= Len(window)
    BY NewTextsIn
<1> HIDE DEF texts
<1>2. texts \in Seq(T) /\ Len(texts) \in Nat /\ Len(window) \in Nat
    BY <1>1
<1>3. MaxTotal \in Nat /\ Window \in Nat /\ Len(texts) + 1 <= MaxTotal
    BY <1>1, <1>2, RetrievalAssumption
<1>4. <<text>> \in Seq(T) /\ Len(<<text>>) = 1 /\ text \in ToSet(<<text>>)
    BY DEF ToSet
<1>5. CASE text \in ToSet(texts)
    BY <1>2, <1>3, <1>5 DEF Parts, texts
<1>6. CASE text \notin ToSet(texts)
    <2>1. Parts(window, seen, text) = <<text>> \o texts
        BY <1>6 DEF Parts, texts
    <2>2. /\ <<text>> \o texts \in Seq(T)
          /\ ToSet(<<text>> \o texts) = ToSet(<<text>>) \cup ToSet(texts)
        <3> HIDE DEF T
        <3> QED BY <1>2, <1>4, ToSetConcat
    <2>3. Len(<<text>> \o texts) = 1 + Len(texts)
        BY <1>2, <1>4
    <2> QED BY <1>2, <1>3, <1>4, <2>1, <2>2, <2>3
<1> QED BY <1>5, <1>6

\* The rows of a document and their texts.
RowsOf(doc) == {r \in Rows : r.doc = doc}
TextsOf(doc) == {r.text : r \in RowsOf(doc)}
AllTexts == {r.text : r \in Rows}

\* Results whose row is one of some, with texts of their document, and among them hits.
Good(rows) == {d \in Results : d.row \in rows /\ ToSet(d.texts) \subseteq TextsOf(d.row.doc)}
GoodHits(rows) == {d \in Good(rows) : d.texts = <<d.row.text>>}

\* Results merged so far and the texts in them.
Merges(rows) == [docs : Seq(Good(rows)), seen : SUBSET AllTexts]

\* The texts of some results.
TextsIn(docs) == UNION {ToSet(d.texts) : d \in ToSet(docs)}

\* The rows read for the merging are the documents' own.
Siblings(siblings) == \A d \in Documents : siblings[d] \in Seq(RowsOf(d))

\* Merging a hit keeps the results apart and loses no text.
LEMMA MergeHitIn ==
    ASSUME NEW rows \in SUBSET Rows, NEW siblings, Siblings(siblings),
           NEW m \in Merges(rows), NEW hit \in GoodHits(rows)
    PROVE  /\ MergeHit(siblings, m, hit) \in Merges(rows)
           /\ m.seen \subseteq TextsIn(m.docs) =>
                /\ MergeHit(siblings, m, hit).seen
                      \subseteq TextsIn(MergeHit(siblings, m, hit).docs)
                /\ TextsIn(m.docs) \subseteq TextsIn(MergeHit(siblings, m, hit).docs)
                /\ hit.texts[1] \in TextsIn(MergeHit(siblings, m, hit).docs)
<1> DEFINE doc == hit.row.doc
           own == siblings[hit.row.doc]
           text == hit.texts[1]
           at == Located(own, hit)
           parts == Parts(WindowAround(own, Min(at)), m.seen, text)
           wide == [hit EXCEPT !.texts = Cut(parts, MaxTotal)]
           new == MergeHit(siblings, m, hit)
<1>1. /\ hit.row \in rows /\ hit.row \in Rows /\ hit.texts = <<hit.row.text>> /\ hit \in Good(rows)
      /\ hit \in Results /\ doc \in Documents /\ text = hit.row.text
      /\ text \in TextsOf(doc) /\ text \in AllTexts
    BY RetrievalAssumption DEF GoodHits, Good, TextsOf, RowsOf, AllTexts
<1>2. /\ m.docs \in Seq(Good(rows)) /\ m.seen \subseteq AllTexts
      /\ m = [docs |-> m.docs, seen |-> m.seen]
    BY DEF Merges
<1>3. own \in Seq(RowsOf(doc))
    BY <1>1 DEF Siblings
<1>4. ASSUME at # {}
      PROVE  /\ parts \in Seq(TextsOf(doc)) /\ text \in ToSet(parts) /\ Len(parts) <= MaxTotal
    <2>1. DOMAIN own = 1 .. Len(own) /\ Len(own) \in Nat
        BY <1>3
    <2>2. at \in SUBSET Nat /\ at \subseteq DOMAIN own
        BY <2>1 DEF Located
    <2>3. Min(at) \in DOMAIN own
        <3> HIDE DEF at
        <3> QED BY <1>4, <2>2, BottomExists
    <2> DEFINE window == WindowAround(own, Min(at))
    <2>4. window \in Seq(RowsOf(doc)) /\ Len(window) <= 2 * Window + 1
        <3> HIDE DEF own, at, doc
        <3> QED BY <1>3, <2>3, WindowIn
    <2>5. /\ parts \in Seq({r.text : r \in RowsOf(doc)} \cup {text})
          /\ text \in ToSet(parts) /\ Len(parts) <= MaxTotal
        <3> HIDE DEF window, text, doc
        <3>1. LET ps == Parts(window, m.seen, text)
              IN  /\ ps \in Seq({r.text : r \in RowsOf(doc)} \cup {text})
                  /\ text \in ToSet(ps) /\ Len(ps) <= MaxTotal
            BY <2>4, PartsIn
        <3> QED BY <3>1 DEF window
    <2>6. {r.text : r \in RowsOf(doc)} \cup {text} = TextsOf(doc)
        BY <1>1 DEF TextsOf
    <2> HIDE DEF parts, text, doc
    <2> QED BY <2>5, <2>6
<1>5. ASSUME at # {}
      PROVE  /\ wide \in Good(rows) /\ ToSet(wide.texts) = ToSet(parts)
             /\ ToSet(parts) \subseteq AllTexts
    <2>1. /\ Cut(parts, MaxTotal) \in Seq(TextsOf(doc))
          /\ ToSet(Cut(parts, MaxTotal)) = ToSet(parts)
        <3>1. MaxTotal \in Nat
            BY RetrievalAssumption
        <3> HIDE DEF parts, doc
        <3> QED BY <1>4, <1>5, <3>1, CutIn
    <2>2. ToSet(parts) \subseteq TextsOf(doc)
        <3>0. DOMAIN parts = 1 .. Len(parts) /\ \A i \in 1 .. Len(parts) : parts[i] \in TextsOf(doc)
            <4> HIDE DEF parts, doc
            <4> QED BY <1>4, <1>5
        <3> HIDE DEF parts, doc
        <3> QED BY <3>0 DEF ToSet
    <2>3. TextsOf(doc) \subseteq AllTexts
        BY DEF TextsOf, RowsOf, AllTexts
    <2>4. Cut(parts, MaxTotal) \in Seq(AllTexts)
        <3> HIDE DEF parts, doc
        <3> QED BY <2>1, <2>3
    <2>5. hit \in [row : Rows, texts : Seq(AllTexts), score : Scores]
        BY <1>1 DEF Results, AllTexts
    <2>6. /\ wide.row = hit.row /\ wide.texts = Cut(parts, MaxTotal) /\ wide \in Results
        <3> HIDE DEF parts
        <3>1. wide.row = hit.row /\ wide.texts = Cut(parts, MaxTotal)
            BY <2>5
        <3>2. wide \in [row : Rows, texts : Seq(AllTexts), score : Scores]
            BY <2>4, <2>5
        <3> QED BY <3>1, <3>2 DEF Results, AllTexts
    <2>7. ToSet(wide.texts) = ToSet(parts) /\ wide.row.doc = doc
        BY <2>1, <2>6
    <2>8. wide \in Good(rows)
        <3> HIDE DEF wide, parts
        <3> QED BY <2>2, <2>6, <2>7, <1>1 DEF Good
    <2> QED BY <2>2, <2>3, <2>7, <2>8
<1>6. CASE text \in m.seen
    <2>1. new = m
        BY <1>6 DEF MergeHit
    <2> QED BY <2>1, <1>6
<1>7. CASE text \notin m.seen /\ at = {} /\ hit.texts \in Contents(m.docs)
    <2>1. new = m
        BY <1>7 DEF MergeHit
    <2>2. PICK d \in ToSet(m.docs) : d.texts = hit.texts
        BY <1>7, ContentsOf
    <2>3. text \in ToSet(d.texts)
        BY <1>1, <2>2 DEF ToSet
    <2>4. text \in TextsIn(m.docs)
        BY <2>3 DEF TextsIn
    <2> QED BY <2>1, <2>4
<1>8. CASE text \notin m.seen /\ at = {} /\ hit.texts \notin Contents(m.docs)
    <2>1. new = [m EXCEPT !.docs = Append(@, hit)]
        BY <1>8 DEF MergeHit
    <2>2. new.docs = Append(m.docs, hit) /\ new.seen = m.seen
        BY <1>2, <2>1
    <2>3. /\ Append(m.docs, hit) \in Seq(Good(rows))
          /\ ToSet(Append(m.docs, hit)) = ToSet(m.docs) \cup {hit}
        BY <1>1, <1>2, ToSetAppend
    <2>4. new \in Merges(rows)
        BY <1>2, <2>1, <2>3 DEF Merges
    <2>5. text \in ToSet(hit.texts)
        BY <1>1 DEF ToSet
    <2>6. TextsIn(m.docs) \subseteq TextsIn(new.docs) /\ text \in TextsIn(new.docs)
        <3> HIDE DEF new
        <3> QED BY <2>2, <2>3, <2>5 DEF TextsIn
    <2> QED BY <2>2, <2>4, <2>6
<1>9. CASE text \notin m.seen /\ at # {}
    <2>1. new = [docs |-> Append(m.docs, wide), seen |-> m.seen \cup ToSet(parts)]
        BY <1>9 DEF MergeHit
    <2> HIDE DEF new, wide, parts, text, at
    <2>2. new.docs = Append(m.docs, wide) /\ new.seen = m.seen \cup ToSet(parts)
        BY <2>1
    <2>3. /\ Append(m.docs, wide) \in Seq(Good(rows))
          /\ ToSet(Append(m.docs, wide)) = ToSet(m.docs) \cup {wide}
        BY <1>5, <1>9, <1>2, ToSetAppend
    <2>4. new \in Merges(rows)
        BY <1>2, <1>5, <1>9, <2>1, <2>3 DEF Merges
    <2>5. TextsIn(new.docs) = TextsIn(m.docs) \cup ToSet(parts)
        BY <1>5, <1>9, <2>2, <2>3 DEF TextsIn
    <2>6. text \in ToSet(parts)
        BY <1>4, <1>9
    <2>7. text = hit.texts[1]
        BY DEF text
    <2> QED BY <2>2, <2>4, <2>5, <2>6, <2>7 DEF new
<1> QED BY <1>6, <1>7, <1>8, <1>9

\* The results merged from some hits and the texts in them.
MergeFold(siblings, hits) ==
    FoldLeft(LAMBDA m, hit : MergeHit(siblings, m, hit), [docs |-> << >>, seen |-> {}], hits)

\* a goes through the merging of hits.
Merging(a, siblings, hits) ==
    /\ a[0] = [docs |-> << >>, seen |-> {}]
    /\ \A k \in 1 .. Len(hits) : a[k] = MergeHit(siblings, a[k - 1], hits[k])

\* The merging, step by step.
LEMMA MergeSteps ==
    ASSUME NEW rows \in SUBSET Rows, NEW siblings, Siblings(siblings),
           NEW hits \in Seq(GoodHits(rows))
    PROVE  \E a \in [0 .. Len(hits) -> Merges(rows)] :
             Merging(a, siblings, hits) /\ MergeFold(siblings, hits) = a[Len(hits)]
<1> DEFINE n == Len(hits)
           D == Merges(rows)
           b == [docs |-> << >>, seen |-> {}]
           h == [k \in 1 .. n |-> [l \in D |-> MergeHit(siblings, l, hits[k])]]
           Eq(f) == f = [t \in SUBSET DOMAIN hits |->
                           IF t = {} THEN b
                           ELSE LET x == Max(t)
                                IN  MergeHit(siblings, f[t \ {x}], hits[x])]
<1>0. b \in D
    BY DEF Merges
<1>1. n \in Nat /\ DOMAIN hits = 1 .. n /\ \A k \in 1 .. n : hits[k] \in GoodHits(rows)
    OBVIOUS
<1>2. h \in [1 .. n -> [D -> D]]
    <2>1. \A k \in 1 .. n, l \in D : MergeHit(siblings, l, hits[k]) \in D
        BY <1>1, MergeHitIn
    <2> HIDE DEF D, n
    <2> QED BY <2>1
<1> HIDE DEF D
<1>3. ASSUME NEW t \in SUBSET (1 .. n), t # {} PROVE Max(t) \in 1 .. n
    BY <1>1, <1>3, TopExists
<1>4. PICK g \in [SUBSET (1 .. n) -> D] : IsFold(g, n, b, h)
    <2> HIDE DEF n, h, b
    <2> QED BY <1>0, <1>1, <1>2, FoldRuns
<1>5. Eq(g)
    <2>1. ASSUME NEW t \in SUBSET (1 .. n), t # {}
          PROVE  LET x == Max(t)
                 IN  g[t] = MergeHit(siblings, g[t \ {x}], hits[x])
        <3>1. Max(t) \in 1 .. n /\ t \ {Max(t)} \in SUBSET (1 .. n)
            BY <2>1, <1>3
        <3>2. g[t \ {Max(t)}] \in D
            BY <3>1
        <3> QED BY <2>1, <3>1, <3>2, <1>4 DEF IsFold
    <2>2. g[{}] = b
        <3> HIDE DEF b, h
        <3> QED BY <1>4 DEF IsFold
    <2> QED BY <2>1, <2>2, <1>1
<1>6. PICK f : Eq(f) /\ MergeFold(siblings, hits) = f[DOMAIN hits]
    <2>1. MergeFold(siblings, hits) = (CHOOSE f : Eq(f))[DOMAIN hits]
        BY DEF MergeFold, FoldLeft, MapThenFoldSet
    <2> QED BY <2>1, <1>5
<1>7. f[{}] = b
    BY <1>6
<1>8. IsFoldIn(f, n, D, h)
    <2> SUFFICES ASSUME NEW t \in SUBSET (1 .. n), t # {}, f[t \ {Max(t)}] \in D
                 PROVE  f[t] = h[Max(t)][f[t \ {Max(t)}]]
        BY DEF IsFoldIn
    <2>1. f[t] = LET x == Max(t) IN MergeHit(siblings, f[t \ {x}], hits[x])
        BY <1>1, <1>6
    <2> QED BY <2>1, <1>3
<1>9. PICK a \in [0 .. n -> D] : a[0] = b /\ IsHistory(a, n, h) /\ f[1 .. n] = a[n]
    <2> HIDE DEF n, h, b
    <2>1. /\ n \in Nat /\ b \in D /\ h \in [1 .. n -> [D -> D]]
          /\ f[{}] = b /\ IsFoldIn(f, n, D, h)
        BY <1>0, <1>1, <1>2, <1>7, <1>8
    <2> QED BY <2>1, FoldHistory
<1>10. ASSUME NEW k \in 1 .. n PROVE a[k] = MergeHit(siblings, a[k - 1], hits[k])
    <2>1. k - 1 \in 0 .. n /\ a[k - 1] \in D
        <3> HIDE DEF n
        <3> QED BY <1>1
    <2>2. h[k][a[k - 1]] = MergeHit(siblings, a[k - 1], hits[k])
        BY <2>1
    <2> HIDE DEF h
    <2> QED BY <1>9, <2>2 DEF IsHistory
<1> QED BY <1>1, <1>6, <1>9, <1>10 DEF Merging, D

\* Merging keeps results apart and the text of every hit.
LEMMA MergedIn ==
    ASSUME NEW rows \in SUBSET Rows, NEW siblings, Siblings(siblings),
           NEW found \in Seq(GoodHits(rows))
    PROVE  /\ Merged(siblings, found) \in Seq(Good(rows))
           /\ \A hit \in ToSet(found) : hit.texts[1] \in TextsIn(Merged(siblings, found))
<1> DEFINE hits == ByDocument(found)
           n == Len(hits)
<1>1. hits \in Seq(GoodHits(rows)) /\ ToSet(hits) = ToSet(found)
    BY ByDocumentIn
<1>2. Merged(siblings, found) = MergeFold(siblings, hits).docs
    BY DEF Merged, MergeFold
<1> HIDE DEF hits
<1>3. n \in Nat /\ DOMAIN hits = 1 .. n /\ \A k \in 1 .. n : hits[k] \in GoodHits(rows)
    BY <1>1
<1>4. PICK a \in [0 .. n -> Merges(rows)] :
         Merging(a, siblings, hits) /\ MergeFold(siblings, hits) = a[n]
    BY <1>1, MergeSteps
<1> DEFINE P == {k \in 0 .. n :
                    /\ a[k].seen \subseteq TextsIn(a[k].docs)
                    /\ \A i \in 1 .. k : hits[i].texts[1] \in TextsIn(a[k].docs)}
<1>5. 0 \in P
    <2>1. 0 \in 0 .. n /\ \A i \in 1 .. 0 : FALSE
        BY <1>3
    <2>2. a[0].seen = {}
        BY <1>4 DEF Merging
    <2> HIDE DEF n
    <2> QED BY <2>1, <2>2
<1>6. ASSUME NEW k \in 1 .. n, k - 1 \in P PROVE k \in P
    <2>0. k \in 0 .. n /\ k - 1 \in 0 .. n /\ \A i \in 1 .. k : i \in 1 .. (k - 1) \/ i = k
        BY <1>3
    <2>1. a[k - 1] \in Merges(rows) /\ hits[k] \in GoodHits(rows)
        BY <2>0, <1>3
    <2>2. a[k] = MergeHit(siblings, a[k - 1], hits[k])
        BY <1>4 DEF Merging
    <2>3. /\ a[k - 1].seen \subseteq TextsIn(a[k - 1].docs)
          /\ \A i \in 1 .. (k - 1) : hits[i].texts[1] \in TextsIn(a[k - 1].docs)
        BY <1>6
    <2>4. /\ a[k].seen \subseteq TextsIn(a[k].docs)
          /\ TextsIn(a[k - 1].docs) \subseteq TextsIn(a[k].docs)
          /\ hits[k].texts[1] \in TextsIn(a[k].docs)
        BY <2>1, <2>2, <2>3, MergeHitIn
    <2> HIDE DEF n
    <2> QED BY <2>0, <2>3, <2>4
<1>7. \A k \in 0 .. n : k \in P
    <2> HIDE DEF P, n
    <2> QED BY <1>3, <1>5, <1>6, StepByStep
<1>8. n \in 0 .. n
    BY <1>3
<1>9. \A i \in 1 .. n : hits[i].texts[1] \in TextsIn(a[n].docs)
    <2> HIDE DEF n
    <2> QED BY <1>7, <1>8
<1>10. \A hit \in ToSet(hits) : \E i \in 1 .. n : hit = hits[i]
    BY <1>3 DEF ToSet
<1>11. a[n].docs \in Seq(Good(rows))
    BY <1>8 DEF Merges
<1> HIDE DEF n
<1> QED BY <1>1, <1>2, <1>4, <1>9, <1>10, <1>11

(* The invariant of a call *)

\* The places of a call, and how it can end.
CallStates == {"idle", "prefilter", "embed", "search", "rank", "merge", "recheck", "done"}
Outcomes == {"none", "ok", "error", "suspended", "empty_candidates", "empty_results"}

Calls(rows) ==
    [pc : CallStates, status : Outcomes, set : Settings, kbs : Seq(KBs), todo : Seq(KBs),
     found : Seq(GoodHits(rows)), docs : Seq(Good(rows)), round : 0 .. MaxRounds]

\* A call whose hits and results come from some rows.
CallIn(c, rows) ==
    /\ c \in Calls(rows)
    /\ ToSet(c.todo) \subseteq ToSet(c.kbs)
    /\ c.pc \in {"rank", "merge"} => c.todo # << >>
    /\ c.status = "ok" => c.pc = "done"

\* What passes the filter now has passed it; the results of a strict search stand in what
\* was ever granted.
CallInv ==
    /\ FilterTypeOK
    /\ store \in [Rows -> Stampings \cup {Absent}]
    /\ passed \subseteq Rows
    /\ call.pc # "idle" => {r \in Rows : Passes(r, r.kb)} \subseteq passed
    /\ restamps \in 0 .. MaxRestamps /\ changes \in 0 .. MaxChanges
    /\ CallIn(call, passed)
    /\ step = "asked" => call.pc = "recheck"
    /\ StrictShown

\* More rows make more results good.
LEMMA GoodGrows ==
    ASSUME NEW rows, NEW more, rows \subseteq more
    PROVE  /\ Seq(Good(rows)) \subseteq Seq(Good(more))
           /\ Seq(GoodHits(rows)) \subseteq Seq(GoodHits(more))
<1>1. Good(rows) \subseteq Good(more)
    BY DEF Good
<1>2. GoodHits(rows) \subseteq GoodHits(more)
    BY <1>1 DEF GoodHits
<1> QED BY <1>1, <1>2

\* A call stays in order when more rows have passed.
LEMMA CallGrows ==
    ASSUME NEW rows, NEW more, rows \subseteq more, NEW c, CallIn(c, rows)
    PROVE  CallIn(c, more)
<1>1. c \in Calls(rows)
    BY DEF CallIn
<1>2. c \in Calls(more)
    BY <1>1, GoodGrows DEF Calls
<1> QED BY <1>2 DEF CallIn

\* Hits are results.
LEMMA HitsAreGood ==
    ASSUME NEW rows, NEW s \in Seq(GoodHits(rows))
    PROVE  s \in Seq(Good(rows))
<1>1. GoodHits(rows) \subseteq Good(rows)
    BY DEF GoodHits
<1> QED BY <1>1

\* No results at all are good ones.
LEMMA NothingIsGood ==
    ASSUME NEW rows
    PROVE  << >> \in Seq(Good(rows)) /\ << >> \in Seq(GoodHits(rows))
  OBVIOUS

\* The end of a call.
LEMMA EndsIn ==
    ASSUME NEW rows, CallIn(call, rows), NEW status \in Outcomes, NEW docs \in Seq(Good(rows))
    PROVE  /\ CallIn(Ends(status, docs), rows)
           /\ Ends(status, docs).pc = "done" /\ Ends(status, docs).status = status
           /\ Ends(status, docs).set = call.set /\ Ends(status, docs).docs = docs
<1> DEFINE c == Ends(status, docs)
<1>1. call \in Calls(rows)
    BY DEF CallIn
<1>2. /\ c.pc = "done" /\ c.status = status /\ c.docs = docs
      /\ c.set = call.set /\ c.todo = call.todo /\ c.kbs = call.kbs
    BY <1>1 DEF Ends, Calls
<1>3. c \in Calls(rows)
    BY <1>1 DEF Ends, Calls, CallStates
<1> HIDE DEF c
<1> QED BY <1>2, <1>3 DEF CallIn, c

\* What follows a search: its results are added, and those of a first round are all there.
LEMMA AfterSearchIn ==
    ASSUME NEW rows, CallIn(call, rows), call.todo # << >>, call.pc # "done",
           NEW more \in Seq(Good(rows))
    PROVE  /\ CallIn(AfterSearch(more), rows)
           /\ AfterSearch(more).pc = "search" /\ AfterSearch(more).status = call.status
           /\ AfterSearch(more).set = call.set
           /\ \A d \in ToSet(more) : d.texts \in Contents(AfterSearch(more).docs)
<1> DEFINE docs == Collected(call.docs, more, call.round)
           left == IF call.round > 0 /\ Len(docs) >= MinResults THEN << >> ELSE Tail(call.todo)
           c == AfterSearch(more)
<1>1. call \in Calls(rows) /\ call.docs \in Seq(Good(rows)) /\ call.todo \in Seq(KBs)
    BY DEF CallIn, Calls
<1>2. docs \in Seq(Good(rows)) /\ \A d \in ToSet(more) : d.texts \in Contents(docs)
    <2>1. CASE call.round = 0
        <3>1. docs = call.docs \o more
            BY <2>1 DEF Collected
        <3>2. docs \in Seq(Good(rows)) /\ ToSet(docs) = ToSet(call.docs) \cup ToSet(more)
            <4> HIDE DEF docs
            <4> QED BY <1>1, <3>1, ToSetConcat
        <3> HIDE DEF docs
        <3> QED BY <3>2, ContentsOf
    <2>2. CASE call.round # 0
        <3>1. docs = Added(call.docs, more)
            BY <2>2 DEF Collected, Added
        <3> HIDE DEF docs
        <3> QED BY <1>1, <3>1, AddedIn
    <2> QED BY <2>1, <2>2
<1>3. left \in Seq(KBs) /\ ToSet(left) \subseteq ToSet(call.todo)
    <2>1. Len(call.todo) \in Nat /\ Len(call.todo) # 0 /\ DOMAIN call.todo = 1 .. Len(call.todo)
        BY <1>1
    <2>2. /\ Tail(call.todo) \in Seq(KBs) /\ Len(Tail(call.todo)) = Len(call.todo) - 1
          /\ DOMAIN Tail(call.todo) = 1 .. (Len(call.todo) - 1)
          /\ \A i \in 1 .. (Len(call.todo) - 1) : Tail(call.todo)[i] = call.todo[i + 1]
        BY <1>1, <2>1
    <2>3. \A i \in 1 .. (Len(call.todo) - 1) : i + 1 \in 1 .. Len(call.todo)
        BY <2>1
    <2>4. ToSet(Tail(call.todo)) \subseteq ToSet(call.todo)
        BY <2>1, <2>2, <2>3 DEF ToSet
    <2>5. << >> \in Seq(KBs) /\ ToSet(<< >>) = {}
        BY DEF ToSet
    <2> QED BY <2>2, <2>4, <2>5
<1>4. c = [call EXCEPT !.pc = "search", !.docs = docs, !.found = << >>, !.todo = left]
    BY DEF AfterSearch
<1> HIDE DEF docs, left, c
<1>5. /\ c.pc = "search" /\ c.docs = docs /\ c.todo = left /\ c.kbs = call.kbs
      /\ c.status = call.status /\ c.set = call.set
    BY <1>1, <1>4 DEF Calls
<1>6. c \in Calls(rows)
    <2>1. << >> \in Seq(GoodHits(rows)) /\ "search" \in CallStates
        BY DEF CallStates
    <2> QED BY <1>1, <1>2, <1>3, <1>4, <2>1 DEF Calls
<1>7. call.status # "ok"
    BY DEF CallIn
<1> QED BY <1>2, <1>3, <1>5, <1>6, <1>7 DEF CallIn, c

\* The result is a part of what was found.
LEMMA ResultIn ==
    ASSUME NEW rows, CallIn(call, rows), NEW docs \in Seq(Good(rows))
    PROVE  /\ CallIn(Result(docs), rows) /\ Result(docs).pc = "done"
           /\ Result(docs).set = call.set /\ ToSet(Result(docs).docs) \subseteq ToSet(docs)
<1> DEFINE high == {d \in ToSet(docs) : d.score # "low"}
           filtered == ScoreFilter(docs)
<1>1. filtered \in Seq(Good(rows)) /\ ToSet(filtered) \subseteq ToSet(docs)
    <2>1. Those(docs, high) \in Seq(Good(rows)) /\ ToSet(Those(docs, high)) = ToSet(docs) \cap high
        <3> HIDE DEF high
        <3> QED BY ThoseIn
    <2> QED BY <2>1 DEF ScoreFilter
<1> HIDE DEF filtered
<1>2. /\ Cut(filtered, TopK) \in Seq(Good(rows))
      /\ ToSet(Cut(filtered, TopK)) \subseteq ToSet(filtered)
    BY <1>1, CutIn, RetrievalAssumption
<1>3. Result(docs) = Ends("ok", Cut(filtered, TopK))
    BY DEF Result, filtered
<1> QED BY <1>1, <1>2, <1>3, EndsIn DEF Outcomes

\* A search finds rows that pass.
LEMMA SearchResultsIn ==
    ASSUME NEW kb, NEW found \in SearchResults(kb), {r \in Rows : Passes(r, r.kb)} \subseteq passed
    PROVE  found \in Seq(GoodHits(passed))
<1> DEFINE rows == {r \in Rows : Passes(r, kb)}
<1>1. PICK n \in 0 .. Oversampled :
         found \in {[i \in 1 .. n |-> Hit(s[i])] : s \in Injection(1 .. n, rows)}
    BY DEF SearchResults
<1>2. PICK s \in Injection(1 .. n, rows) : found = [i \in 1 .. n |-> Hit(s[i])]
    BY <1>1
<1>3. n \in Nat
    BY RetrievalAssumption
<1>4. ASSUME NEW i \in 1 .. n PROVE Hit(s[i]) \in GoodHits(passed)
    <2>1. s[i] \in rows
        BY DEF Injection
    <2>2. s[i] \in Rows /\ s[i] \in passed
        BY <2>1 DEF Passes
    <2>3. Hit(s[i]) = [row |-> s[i], texts |-> <<s[i].text>>, score |-> "none"]
        BY DEF Hit
    <2>4. <<s[i].text>> \in Seq({r.text : r \in Rows}) /\ ToSet(<<s[i].text>>) = {s[i].text}
        BY <2>2 DEF ToSet
    <2>5. Hit(s[i]) \in Results
        BY <2>2, <2>3, <2>4 DEF Results, Scores
    <2>6. s[i].text \in TextsOf(s[i].doc)
        BY <2>2 DEF TextsOf, RowsOf
    <2> QED BY <2>2, <2>3, <2>4, <2>5, <2>6 DEF Good, GoodHits
<1> QED BY <1>2, <1>3, <1>4

\* Ranking keeps hits what they are, up to their scores.
LEMMA RankingsIn ==
    ASSUME NEW rows, NEW found \in Seq(GoodHits(rows)), NEW ranked \in Rankings(found)
    PROVE  ranked \in Seq(GoodHits(rows))
<1> DEFINE texts == {found[i].texts : i \in DOMAIN found}
<1>1. DOMAIN found = 1 .. Len(found) /\ Len(found) \in Nat
    OBVIOUS
<1> DEFINE lengths == Min({TopK, Len(found)}) - (Len(found) - Cardinality(texts)) ..
                         Min({TopK, Cardinality(texts)})
           orders == UNION {Injection(1 .. n, texts) : n \in lengths}
           Scored(o, high) ==
             [i \in DOMAIN o |->
                [DocOfText(found, o[i]) EXCEPT !.score = IF i <= high THEN "high" ELSE "low"]]
<1>2. PICK o \in orders, high \in IF call.set.minScore THEN 0 .. Len(found) ELSE {Len(found)} :
         ranked = Scored(o, high)
    <2>1. Rankings(found) = {Scored(o, high) : o \in orders,
                    high \in IF call.set.minScore THEN 0 .. Len(found) ELSE {Len(found)}}
        BY DEF Rankings
    <2> HIDE DEF orders, Scored
    <2> QED BY <2>1
<1>3. PICK n \in lengths : o \in Injection(1 .. n, texts)
    OBVIOUS
<1>4. n \in Int
    OBVIOUS
<1> HIDE DEF lengths, orders
<1>5. ranked = [i \in DOMAIN o |->
                  [DocOfText(found, o[i]) EXCEPT !.score = IF i <= high THEN "high" ELSE "low"]]
    BY <1>2
<1>6. ASSUME NEW i \in 1 .. n
      PROVE  [DocOfText(found, o[i]) EXCEPT !.score = IF i <= high THEN "high" ELSE "low"]
                \in GoodHits(rows)
    <2> DEFINE like == {j \in DOMAIN found : found[j].texts = o[i]}
               d == DocOfText(found, o[i])
               e == [d EXCEPT !.score = IF i <= high THEN "high" ELSE "low"]
    <2>1. o[i] \in texts
        BY <1>3 DEF Injection
    <2>2. like # {} /\ like \in SUBSET (1 .. Len(found))
        BY <1>1, <2>1
    <2>3. Max(like) \in 1 .. Len(found)
        <3> HIDE DEF like
        <3> QED BY <1>1, <2>2, TopExists
    <2>4. d \in GoodHits(rows)
        BY <2>3 DEF DocOfText
    <2> HIDE DEF d
    <2>5. d \in Results /\ d.row \in rows /\ ToSet(d.texts) \subseteq TextsOf(d.row.doc)
          /\ d.texts = <<d.row.text>>
        BY <2>4 DEF Good, GoodHits
    <2>6. e \in Results /\ e.row = d.row /\ e.texts = d.texts
        BY <2>5 DEF Results, Scores
    <2> HIDE DEF e
    <2>7. e \in GoodHits(rows)
        BY <2>5, <2>6 DEF Good, GoodHits
    <2> QED BY <2>7 DEF e, d
<1>7. PICK m \in Nat : 1 .. n = 1 .. m
    <2>1. CASE n >= 0
        BY <1>4, <2>1
    <2>2. CASE n < 0
        <3>1. 1 .. n = 1 .. 0
            BY <1>4, <2>2
        <3> QED BY <3>1
    <2> QED BY <1>4, <2>1, <2>2
<1>8. DOMAIN o = 1 .. m
    BY <1>7, <1>3 DEF Injection
<1>9. ASSUME NEW i \in 1 .. m PROVE ranked[i] \in GoodHits(rows)
    <2>1. i \in 1 .. n /\ i \in DOMAIN o
        BY <1>7, <1>8
    <2> QED BY <1>5, <1>6, <2>1
<1>10. DOMAIN ranked = 1 .. m /\ ranked = [i \in DOMAIN ranked |-> ranked[i]]
    BY <1>5, <1>8
<1> QED BY <1>7, <1>9, <1>10

\* The rows read a second time.
LEMMA SiblingsIn ==
    ASSUME NEW siblings, \A d \in Documents : siblings[d] \in Arrangements(d)
    PROVE  Siblings(siblings)
<1> SUFFICES ASSUME NEW d \in Documents PROVE siblings[d] \in Seq(RowsOf(d))
    BY DEF Siblings
<1> DEFINE rows == {r \in Rows : r.doc = d /\ store[r].here}
<1>1. IsFiniteSet(rows) /\ rows \subseteq RowsOf(d)
    BY RetrievalAssumption, FS_Subset DEF RowsOf
<1>2. Cardinality(rows) \in Nat
    BY <1>1, FS_CardinalityType
<1>3. siblings[d] \in Injection(1 .. Cardinality(rows), rows)
    BY DEF Arrangements
<1>4. siblings[d] \in [1 .. Cardinality(rows) -> rows]
    BY <1>3 DEF Injection
<1> HIDE DEF rows
<1> QED BY <1>1, <1>2, <1>4

\* A worker begins in order.
LEMMA CallInvInit == Init => CallInv
<1> SUFFICES ASSUME Init PROVE CallInv
    OBVIOUS
<1>1. call = Idle /\ passed = {} /\ step = "idle"
    BY DEF Init, FilterInit
<1>2. (CHOOSE set \in Settings : TRUE) \in Settings
    BY RetrievalAssumption
<1>3. Idle \in Calls({}) /\ ToSet(Idle.todo) \subseteq ToSet(Idle.kbs)
    BY <1>2, RetrievalAssumption, NothingIsGood DEF Idle, Calls, CallStates, Outcomes
<1>4. Idle.pc = "idle" /\ Idle.status = "none"
    BY DEF Idle
<1>5. CallIn(call, passed) /\ StrictShown
    BY <1>1, <1>3, <1>4 DEF CallIn, StrictShown, Shown
<1>6. FilterTypeOK
    BY FilterAssumption DEF Init, FilterInit, FilterTypeOK, Items
<1>7. /\ store \in [Rows -> Stampings \cup {Absent}]
      /\ restamps \in 0 .. MaxRestamps /\ changes \in 0 .. MaxChanges
    BY RetrievalAssumption DEF Init
<1> QED BY <1>1, <1>4, <1>5, <1>6, <1>7 DEF CallInv

\* Nothing is shown before a call is done.
LEMMA NothingShown ==
    ASSUME NEW rows, CallIn(call, rows), call.pc # "done"
    PROVE  StrictShown
<1>1. call.status # "ok"
    BY DEF CallIn
<1> QED BY <1>1 DEF StrictShown, Shown

\* A step of the call alone.
LEMMA LocalKeeps ==
    ASSUME CallInv, UNCHANGED <<filterVars, store, passed, restamps, changes>>,
           call.pc \notin {"idle", "recheck"}, CallIn(call', passed'), StrictShown'
    PROVE  CallInv'
<1>1. FilterTypeOK'
    BY DEF CallInv, FilterTypeOK, filterVars, Items
<1>2. {r \in Rows : Passes(r, r.kb)}' = {r \in Rows : Passes(r, r.kb)}
    BY DEF Passes, Expanded
<1>3. step' # "asked"
    BY DEF CallInv, filterVars
<1> QED BY <1>1, <1>2, <1>3 DEF CallInv

\* Each step of the call alone keeps it in order, one case per step.
LEMMA LocalNext ==
    ASSUME CallInv,
           \/ TokenExpired \/ CredentialRefused \/ Suspended \/ Prefilter \/ EmbedQuery
           \/ SearchDense \/ SearchSparse \/ SearchHybrid \/ Rank \/ Merge
           \/ FoundNothing \/ SearchAgain \/ Return
    PROVE  CallInv'
<1>1. /\ UNCHANGED <<filterVars, store, passed, restamps, changes>>
      /\ call.pc \in {"prefilter", "embed", "search", "rank", "merge"}
    BY DEF TokenExpired, CredentialRefused, Suspended, Prefilter, EmbedQuery, SearchDense,
           SearchSparse, SearchHybrid, Search, Rank, Merge, FoundNothing, SearchAgain, Return,
           SearchedAll, Local
<1>2. /\ CallIn(call, passed) /\ call \in Calls(passed)
      /\ {r \in Rows : Passes(r, r.kb)} \subseteq passed
      /\ passed \in SUBSET Rows
    BY <1>1 DEF CallInv, CallIn
<1>3. SUFFICES CallIn(call', passed) /\ (call'.status = "ok" => ~call'.set.strict)
    BY <1>1, LocalKeeps DEF StrictShown, Shown
<1>4. ASSUME NEW status \in Outcomes, status # "ok", call' = Ends(status, << >>)
      PROVE  CallIn(call', passed) /\ call'.status # "ok"
    BY <1>2, <1>4, EndsIn, NothingIsGood
<1>5. ASSUME call.todo # << >>, NEW more \in Seq(Good(passed)), call' = AfterSearch(more)
      PROVE  CallIn(call', passed) /\ call'.status # "ok"
    <2>1. call.status # "ok" /\ call.pc # "done"
        BY <1>1, <1>2 DEF CallIn
    <2> QED BY <1>2, <1>5, <2>1, AfterSearchIn
<1>6. CASE TokenExpired \/ CredentialRefused \/ Suspended
    BY <1>4, <1>6 DEF TokenExpired, CredentialRefused, Suspended, Outcomes
<1>7. CASE Prefilter
    <2>1. PICK allowed \in SUBSET KBs :
             LET kbs == Those(Requested, allowed)
             IN  call' = IF kbs = << >> THEN Ends("empty_candidates", << >>)
                         ELSE [call EXCEPT !.pc = "embed", !.kbs = kbs, !.todo = kbs]
        BY <1>7 DEF Prefilter
    <2> DEFINE kbs == Those(Requested, allowed)
    <2>2. kbs \in Seq(KBs)
        BY RetrievalAssumption, ThoseIn
    <2> HIDE DEF kbs
    <2>3. CASE kbs = << >>
        BY <2>1, <2>3, <1>4 DEF kbs, Outcomes
    <2>4. CASE kbs # << >>
        <3>1. call' = [call EXCEPT !.pc = "embed", !.kbs = kbs, !.todo = kbs]
            BY <2>1, <2>4 DEF kbs
        <3>2. call' \in Calls(passed) /\ call'.todo = call'.kbs /\ call'.pc = "embed"
              /\ call'.status = call.status
            BY <1>2, <2>2, <3>1 DEF Calls, CallStates
        <3> QED BY <1>1, <1>2, <3>2 DEF CallIn
    <2> QED BY <2>3, <2>4
<1>8. CASE EmbedQuery
    <2>1. CASE call' = [call EXCEPT !.pc = "search"]
        <3>1. call' \in Calls(passed) /\ call'.todo = call.todo /\ call'.kbs = call.kbs
              /\ call'.pc = "search" /\ call'.status = call.status
            BY <1>2, <2>1 DEF Calls, CallStates
        <3> QED BY <1>1, <1>2, <3>1 DEF CallIn
    <2> QED BY <1>4, <1>8, <2>1 DEF EmbedQuery, Outcomes
<1>9. CASE SearchDense \/ SearchSparse \/ SearchHybrid
    <2>1. PICK found \in SearchResults(Head(call.todo)) :
             call' = AfterSearch(found) \/ call' = RankUnlessFew(found)
        BY <1>9 DEF SearchDense, SearchSparse, SearchHybrid
    <2>2. call.todo # << >> /\ call.pc = "search"
        BY <1>9 DEF SearchDense, SearchSparse, SearchHybrid, Search, Local
    <2>3. found \in Seq(GoodHits(passed)) /\ found \in Seq(Good(passed))
        BY <1>2, SearchResultsIn, HitsAreGood
    <2>4. CASE call' = AfterSearch(found)
        BY <1>5, <2>2, <2>3, <2>4
    <2>5. CASE call' = [call EXCEPT !.pc = "rank", !.found = found]
        <3>1. call' \in Calls(passed) /\ call'.todo = call.todo /\ call'.kbs = call.kbs
              /\ call'.pc = "rank" /\ call'.status = call.status
            BY <1>2, <2>3, <2>5 DEF Calls, CallStates
        <3> QED BY <1>1, <1>2, <2>2, <3>1 DEF CallIn
    <2> QED BY <2>1, <2>4, <2>5 DEF RankUnlessFew
<1>10. CASE Rank
    <2>1. call.todo # << >> /\ call.pc = "rank" /\ call.found \in Seq(GoodHits(passed))
        BY <1>2, <1>10 DEF Rank, Local, CallIn, Calls
    <2>2. ASSUME NEW ranked \in Rankings(call.found),
                 call' = [call EXCEPT !.pc = "merge", !.found = ranked]
          PROVE  CallIn(call', passed) /\ call'.status # "ok"
        <3>1. ranked \in Seq(GoodHits(passed))
            BY <2>1, RankingsIn
        <3>2. call' \in Calls(passed) /\ call'.todo = call.todo /\ call'.kbs = call.kbs
              /\ call'.pc = "merge" /\ call'.status = call.status
            BY <1>2, <2>2, <3>1 DEF Calls, CallStates
        <3> QED BY <1>1, <1>2, <2>1, <3>2 DEF CallIn
    <2>3. CASE call' = AfterSearch(<< >>)
        BY <1>5, <2>1, <2>3, NothingIsGood
    <2> QED BY <1>10, <2>2, <2>3 DEF Rank
<1>11. CASE Merge
    <2>1. call.todo # << >> /\ call.pc = "merge" /\ call.found \in Seq(GoodHits(passed))
        BY <1>2, <1>11 DEF Merge, Local, CallIn, Calls
    <2>2. PICK more : call' = AfterSearch(more) /\ more \in Seq(Good(passed))
        <3>1. CASE call' = AfterSearch(call.found)
            BY <2>1, <3>1, HitsAreGood
        <3>2. ASSUME NEW siblings, \A d \in Documents : siblings[d] \in Arrangements(d),
                     call' = AfterSearch(Merged(siblings, call.found))
              PROVE  \E more : call' = AfterSearch(more) /\ more \in Seq(Good(passed))
            BY <1>2, <2>1, <3>2, SiblingsIn, MergedIn
        <3> QED BY <1>11, <3>1, <3>2 DEF Merge
    <2> QED BY <1>5, <2>1, <2>2
<1>12. CASE FoundNothing
    BY <1>4, <1>12 DEF FoundNothing, Outcomes
<1>13. CASE SearchAgain
    <2>1. call' = [call EXCEPT !.round = @ + 1, !.todo = call.kbs] /\ call.pc = "search"
          /\ call.round < MaxRounds
        BY <1>13 DEF SearchAgain, SearchedAll, Local, FewFound
    <2>2. call.round + 1 \in 0 .. MaxRounds /\ call.kbs \in Seq(KBs)
        BY <1>2, <2>1, RetrievalAssumption DEF Calls
    <2>3. call' \in Calls(passed) /\ call'.todo = call'.kbs /\ call'.pc = "search"
          /\ call'.status = call.status
        BY <1>2, <2>1, <2>2 DEF Calls
    <2> QED BY <1>1, <1>2, <2>3 DEF CallIn
<1>14. CASE Return
    <2>1. call' = Result(call.docs) /\ ~call.set.strict /\ call.docs \in Seq(Good(passed))
        BY <1>2, <1>14 DEF Return, Calls
    <2> QED BY <1>2, <2>1, ResultIn
<1> QED BY <1>6, <1>7, <1>8, <1>9, <1>10, <1>11, <1>12, <1>13, <1>14

\* Each step keeps the invariant: the call's, the re-check's and the world's.
LEMMA CallInvNext == CallInv /\ PromiseInv /\ [Next]_vars => CallInv'
<1> SUFFICES ASSUME CallInv, PromiseInv, [Next]_vars PROVE CallInv'
    OBVIOUS
<1>0. /\ FilterTypeOK /\ CallIn(call, passed) /\ call \in Calls(passed) /\ passed \in SUBSET Rows
      /\ call.pc # "idle" => {r \in Rows : Passes(r, r.kb)} \subseteq passed
      /\ store \in [Rows -> Stampings \cup {Absent}]
      /\ restamps \in 0 .. MaxRestamps /\ changes \in 0 .. MaxChanges
      /\ step = "asked" => call.pc = "recheck"
    BY DEF CallInv, CallIn
<1>1. ASSUME UNCHANGED store
      PROVE  {r \in Rows : Passes(r, r.kb)}' = {r \in Rows : Passes(r, r.kb)}
    BY <1>1 DEF Passes, Expanded
\* The call stays and what was ever granted grows.
<1>2. ASSUME UNCHANGED call, ever \subseteq ever'
      PROVE  StrictShown'
    <2>1. DocsOf(ever) \subseteq DocsOf(ever')
        BY <1>2, DocsMonotone
    <2> QED BY <1>2, <2>1 DEF CallInv, StrictShown, Shown
<1>3. CASE Retrieve
    <2>1. PICK set \in Settings : call' = [Idle EXCEPT !.pc = "prefilter", !.set = set]
        BY <1>3 DEF Retrieve
    <2>2. UNCHANGED <<store, restamps, changes>> /\ passed' = {r \in Rows : Passes(r, r.kb)}
        BY <1>3 DEF Retrieve
    <2>3. call' = [pc |-> "prefilter", status |-> "none", set |-> set, kbs |-> << >>,
                   todo |-> << >>, found |-> << >>, docs |-> << >>, round |-> 0]
        BY <2>1 DEF Idle
    <2>4. CallIn(call', passed') /\ call'.pc = "prefilter"
        <3>1. call' \in Calls(passed')
            BY <2>3, RetrievalAssumption, NothingIsGood DEF Calls, CallStates, Outcomes
        <3> QED BY <2>3, <3>1 DEF CallIn
    <2>5. FilterTypeOK' /\ step' # "asked"
        BY <1>0, <1>3 DEF Retrieve, Forget, FilterTypeOK, Items
    <2>6. StrictShown'
        BY <2>3 DEF StrictShown, Shown
    <2> QED BY <1>0, <1>1, <2>2, <2>4, <2>5, <2>6 DEF CallInv
<1>4. CASE \/ TokenExpired \/ CredentialRefused \/ Suspended \/ Prefilter \/ EmbedQuery
           \/ SearchDense \/ SearchSparse \/ SearchHybrid \/ Rank \/ Merge
           \/ FoundNothing \/ SearchAgain \/ Return
    BY <1>4, LocalNext
<1>5. CASE BeginRecheck
    <2>1. /\ Ask({<<d.row.doc, d.row.kb>> : d \in ToSet(call.docs)})
          /\ call.pc = "search" /\ call' = [call EXCEPT !.pc = "recheck"]
          /\ UNCHANGED <<store, passed, restamps, changes>>
        BY <1>5 DEF BeginRecheck
    <2>2. \A d \in ToSet(call.docs) : d \in Good(passed)
        <3>1. call.docs \in Seq(Good(passed))
            BY <1>0 DEF Calls
        <3> QED BY <3>1 DEF ToSet
    <2>3. {<<d.row.doc, d.row.kb>> : d \in ToSet(call.docs)} \subseteq Items
        <3>1. \A d \in ToSet(call.docs) : d.row \in Rows
            BY <2>2 DEF Good, Results
        <3>2. \A d \in ToSet(call.docs) : d.row.doc \in Documents /\ d.row.kb \in KBs
            BY <3>1, RetrievalAssumption
        <3> QED BY <3>2 DEF Items
    <2>4. FilterTypeOK'
        <3> DEFINE items == {<<d.row.doc, d.row.kb>> : d \in ToSet(call.docs)}
        <3> HIDE DEF items
        <3>1. Ask(items) /\ items \subseteq Items
            BY <2>1, <2>3 DEF items
        <3> QED BY <1>0, <3>1 DEF Ask, FilterTypeOK, Items
    <2>5. call' \in Calls(passed) /\ call'.todo = call.todo /\ call'.kbs = call.kbs
          /\ call'.pc = "recheck" /\ call'.status = call.status
        BY <1>0, <2>1 DEF Calls, CallStates
    <2>6. CallIn(call', passed) /\ call'.status # "ok"
        BY <1>0, <2>1, <2>5 DEF CallIn
    <2>7. StrictShown'
        BY <2>6 DEF StrictShown, Shown
    <2> QED BY <1>0, <1>1, <2>1, <2>4, <2>5, <2>6, <2>7 DEF CallInv
<1>6. CASE CheckBatch
    <2>1. UNCHANGED <<store, call, passed, restamps, changes, ever, step>>
        BY <1>6 DEF CheckBatch, FilterBatch
    <2>2. FilterTypeOK'
        <3>1. PICK batch \in Batches :
                 /\ todo' = todo \ batch
                 /\ kept' = kept \cup (IF up THEN AllowedItems(batch) ELSE {})
            BY <1>6 DEF CheckBatch, FilterBatch
        <3>2. batch \subseteq todo /\ AllowedItems(batch) \subseteq batch
            BY DEF Batches, AllowedItems
        <3>3. UNCHANGED <<granted, up, step, question, ever, always>>
            BY <1>6 DEF CheckBatch, FilterBatch
        <3> QED BY <1>0, <3>1, <3>2, <3>3 DEF FilterTypeOK, Items
    <2>3. StrictShown'
        BY <1>2, <2>1
    <2> QED BY <1>0, <1>1, <2>1, <2>2, <2>3 DEF CallInv
<1>7. CASE FinishRecheck
    <2>1. /\ step = "asked" /\ step' = "answered"
          /\ UNCHANGED <<granted, up, question, todo, kept, ever, always>>
          /\ UNCHANGED <<store, passed, restamps, changes>>
          /\ call' = Result(Rechecked(call.docs))
        BY <1>7 DEF FinishRecheck, FilterAnswers
    <2>2. FilterTypeOK'
        BY <1>0, <2>1 DEF FilterTypeOK, Items
    <2> DEFINE these == {d \in ToSet(call.docs) : d.row.doc \in DocsOf(kept)}
    <2>3. /\ Rechecked(call.docs) \in Seq(Good(passed))
          /\ ToSet(Rechecked(call.docs)) \subseteq these
        <3>1. call.docs \in Seq(Good(passed))
            BY <1>0 DEF Calls
        <3>2. Rechecked(call.docs) = Those(call.docs, these)
            BY DEF Rechecked
        <3> HIDE DEF these
        <3> QED BY <3>1, <3>2, ThoseIn
    <2>4. /\ CallIn(call', passed) /\ call'.pc = "done"
          /\ ToSet(call'.docs) \subseteq ToSet(Rechecked(call.docs))
        BY <1>0, <2>1, <2>3, ResultIn
    <2>5. DocsOf(kept) \subseteq DocsOf(ever)
        BY DEF PromiseInv
    <2>6. \A d \in ToSet(call'.docs) : d.row.doc \in DocsOf(ever)
        BY <2>3, <2>4, <2>5
    <2>7. StrictShown'
        <3>1. UNCHANGED DocsOf(ever)
            BY <2>1
        <3> QED BY <2>6, <3>1 DEF StrictShown, Shown
    <2> QED BY <1>0, <1>1, <2>1, <2>2, <2>4, <2>7 DEF CallInv
<1>8. ASSUME NEW r \in Rows, NEW s \in Stampings \cup {Absent}, Changes(Restamp(r, s))
      PROVE  CallInv'
    <2>1. /\ changes < MaxChanges /\ changes' = changes + 1
          /\ restamps < MaxRestamps /\ restamps' = restamps + 1
          /\ store' = [store EXCEPT ![r] = s]
          /\ passed' = passed \cup {q \in Rows : Passes(q, q.kb)'}
          /\ UNCHANGED filterVars /\ UNCHANGED call
        BY <1>8 DEF Changes, Restamp
    <2>2. /\ restamps' \in 0 .. MaxRestamps /\ changes' \in 0 .. MaxChanges
          /\ store' \in [Rows -> Stampings \cup {Absent}]
        BY <1>0, <2>1, RetrievalAssumption
    <2>3. /\ passed' \subseteq Rows /\ passed \subseteq passed'
          /\ {q \in Rows : Passes(q, q.kb)}' \subseteq passed'
        BY <1>0, <2>1
    <2>4. CallIn(call', passed')
        BY <1>0, <2>1, <2>3, CallGrows
    <2>5. FilterTypeOK' /\ UNCHANGED <<step, ever>>
        BY <1>0, <2>1 DEF FilterTypeOK, filterVars, Items
    <2>6. StrictShown'
        BY <1>2, <2>1, <2>5
    <2> QED BY <1>0, <2>1, <2>2, <2>3, <2>4, <2>5, <2>6 DEF CallInv
<1>9. ASSUME NEW i \in Items, Changes(ChangeGrant(i) /\ UNCHANGED <<store, passed, restamps>>)
      PROVE  CallInv'
    <2>1. /\ changes < MaxChanges /\ changes' = changes + 1 /\ UNCHANGED call
          /\ UNCHANGED <<store, passed, restamps>> /\ ChangeGrant(i)
        BY <1>9 DEF Changes
    <2>2. changes' \in 0 .. MaxChanges
        BY <1>0, <2>1, RetrievalAssumption
    <2>3. FilterTypeOK' /\ ever \subseteq ever' /\ UNCHANGED step
        BY <1>0, <2>1 DEF FilterTypeOK, ChangeGrant, Items
    <2>4. StrictShown'
        BY <1>2, <2>1, <2>3
    <2> QED BY <1>0, <1>1, <2>1, <2>2, <2>3, <2>4 DEF CallInv
<1>10. CASE Changes(ServiceGoes /\ UNCHANGED <<store, passed, restamps>>)
    <2>1. /\ changes < MaxChanges /\ changes' = changes + 1 /\ UNCHANGED call
          /\ UNCHANGED <<store, passed, restamps>> /\ ServiceGoes
        BY <1>10 DEF Changes
    <2>2. changes' \in 0 .. MaxChanges
        BY <1>0, <2>1, RetrievalAssumption
    <2>3. FilterTypeOK' /\ UNCHANGED <<step, ever>>
        BY <1>0, <2>1 DEF FilterTypeOK, ServiceGoes, Items
    <2>4. StrictShown'
        BY <1>2, <2>1, <2>3
    <2> QED BY <1>0, <1>1, <2>1, <2>2, <2>3, <2>4 DEF CallInv
<1>11. CASE ServiceReturns /\ UNCHANGED <<store, call, passed, restamps, changes>>
    <2>1. FilterTypeOK' /\ UNCHANGED <<step, ever>>
        BY <1>0, <1>11 DEF FilterTypeOK, ServiceReturns, Items
    <2>2. StrictShown'
        BY <1>2, <1>11, <2>1
    <2> QED BY <1>0, <1>1, <1>11, <2>1, <2>2 DEF CallInv
<1>12. CASE UNCHANGED vars
    <2>1. FilterTypeOK' /\ UNCHANGED <<step, ever, store, call, passed, restamps, changes>>
        BY <1>0, <1>12 DEF FilterTypeOK, vars, filterVars, Items
    <2>2. StrictShown'
        BY <1>2, <2>1
    <2> QED BY <1>0, <1>1, <2>1, <2>2 DEF CallInv
<1> QED
    BY <1>3, <1>4, <1>5, <1>6, <1>7, <1>8, <1>9, <1>10, <1>11, <1>12 DEF Next, Work, World

\* Through every round of a search, with rows, grants and the service changing: hits are
\* rows that passed, results keep to their documents, and what a strict search shows was
\* granted.
THEOREM CallInvariant == Spec => []CallInv
<1>1. Init => CallInv
    BY CallInvInit
<1>2. CallInv /\ PromiseInv /\ [Next]_vars => CallInv'
    BY CallInvNext
<1> QED BY <1>1, <1>2, PromiseKept, PTL DEF Spec

\* A result is one of a good kind.
LEMMA ResultsAreGood ==
    ASSUME CallInv
    PROVE  \A d \in ToSet(call.docs) : d \in Good(passed)
<1>1. call.docs \in Seq(Good(passed))
    BY DEF CallInv, CallIn, Calls
<1> QED BY <1>1 DEF ToSet

\* The state of a search has its type: candidates, results and rounds of every size.
THEOREM TypeCorrect == Spec => []TypeOK
<1>1. CallInv => TypeOK
    <2> SUFFICES ASSUME CallInv PROVE TypeOK
        OBVIOUS
    <2>1. call \in Calls(passed) /\ call.found \in Seq(GoodHits(passed))
          /\ ToSet(call.todo) \subseteq ToSet(call.kbs)
        BY DEF CallInv, CallIn, Calls
    <2>2. ToSet(call.docs) \subseteq Results
        BY ResultsAreGood DEF Good
    <2>3. ToSet(call.found) \subseteq Results
        BY <2>1 DEF ToSet, GoodHits, Good
    <2> QED BY <2>1, <2>2, <2>3 DEF TypeOK, CallInv, Calls, CallStates, Outcomes
<1> QED BY <1>1, CallInvariant, PTL

\* What a strict search shows was granted at some moment of its re-check, whatever the
\* stamps say: one batch after the other, with grants and the service changing between.
THEOREM StrictResultsWereGranted == Spec => []StrictShown
<1>1. CallInv => StrictShown
    BY DEF CallInv
<1> QED BY <1>1, CallInvariant, PTL

\* The texts of a result are texts of its document, however many hits, neighbours and
\* knowledge bases were merged.
THEOREM DocumentsStayApart == Spec => []OneDocument
<1>1. CallInv => OneDocument
    <2> SUFFICES ASSUME CallInv, NEW d \in ToSet(call.docs), NEW text \in ToSet(d.texts)
                 PROVE  \E r \in Rows : r.doc = d.row.doc /\ r.text = text
        BY DEF OneDocument
    <2>1. text \in TextsOf(d.row.doc)
        BY ResultsAreGood DEF Good
    <2> QED BY <2>1 DEF TextsOf, RowsOf
<1> QED BY <1>1, CallInvariant, PTL

\* No result is the hit of a row that failed the filter throughout the call, in whichever
\* round it was found.
THEOREM ResultsPassedTheFilter == Spec => []FilterHeld
<1>1. CallInv => FilterHeld
    BY ResultsAreGood DEF FilterHeld, Good
<1> QED BY <1>1, CallInvariant, PTL

\* Merging loses none of the texts that were ranked, whichever rows the store still has.
THEOREM MergingKeepsHits == Spec => MergeKeepsHits
<1> DEFINE Kept == call.pc = "merge" /\ call'.pc # "merge" =>
                      \A hit \in ToSet(call.found) :
                         \E d \in ToSet(call'.docs) : hit.texts[1] \in ToSet(d.texts)
<1>1. CallInv /\ [Next]_vars => [Kept]_vars
    <2> SUFFICES ASSUME CallInv, Next, call.pc = "merge", call'.pc # "merge",
                        NEW hit \in ToSet(call.found)
                 PROVE  \E d \in ToSet(call'.docs) : hit.texts[1] \in ToSet(d.texts)
        OBVIOUS
    <2>1. Merge
        BY DEF CallInv, Next, Work, World, Retrieve, TokenExpired, CredentialRefused, Suspended,
               Prefilter, EmbedQuery, SearchDense, SearchSparse, SearchHybrid, Search, Rank,
               FoundNothing, SearchAgain, Return, SearchedAll, Local, BeginRecheck, CheckBatch,
               FinishRecheck, FilterAnswers, Changes, Restamp
    <2>2. /\ CallIn(call, passed) /\ call.todo # << >> /\ passed \in SUBSET Rows
          /\ call.found \in Seq(GoodHits(passed))
        BY DEF CallInv, CallIn, Calls
    <2>3. hit \in GoodHits(passed)
        BY <2>2 DEF ToSet
    <2>4. hit.texts[1] \in ToSet(hit.texts)
        BY <2>3 DEF GoodHits, ToSet
    <2>5. PICK more : /\ call' = AfterSearch(more) /\ more \in Seq(Good(passed))
                      /\ hit.texts[1] \in TextsIn(more)
        <3>1. CASE call' = AfterSearch(call.found)
            <4>1. hit.texts[1] \in TextsIn(call.found)
                BY <2>4 DEF TextsIn
            <4> QED BY <2>2, <3>1, <4>1, HitsAreGood
        <3>2. ASSUME NEW siblings, \A d \in Documents : siblings[d] \in Arrangements(d),
                     call' = AfterSearch(Merged(siblings, call.found))
              PROVE  \E more : /\ call' = AfterSearch(more) /\ more \in Seq(Good(passed))
                               /\ hit.texts[1] \in TextsIn(more)
            BY <2>2, <3>2, SiblingsIn, MergedIn
        <3> QED BY <2>1, <3>1, <3>2 DEF Merge
    <2>6. PICK d \in ToSet(more) : hit.texts[1] \in ToSet(d.texts)
        BY <2>5 DEF TextsIn
    <2>7. d.texts \in Contents(call'.docs)
        BY <2>2, <2>5, AfterSearchIn
    <2>8. PICK e \in ToSet(call'.docs) : e.texts = d.texts
        BY <2>7, ContentsOf
    <2> QED BY <2>6, <2>8
<1> QED BY <1>1, CallInvariant, PTL DEF Spec, MergeKeepsHits

=============================================================================
