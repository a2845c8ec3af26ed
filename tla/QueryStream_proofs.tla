------------------------ MODULE QueryStream_proofs ------------------------
EXTENDS QueryStream, FiniteSetTheorems, SequenceTheorems, NaturalLemmas, TLAPS

(***************************************************************************)
(* What QueryStream promises for every set of questions, every number of   *)
(* pieces per answer and every read limit.  The invariant TurnInv gathers   *)
(* what has to hold of the call, the saved turn, the task, the reply stream *)
(* and the reader of a question together; the theorems at the end state     *)
(* what it gives the reader of the code.                                   *)
(***************************************************************************)

(* The least and the greatest of a set of turn indexes *)

\* Min, which picks where a reader stops in a batch, is a member and a lower bound.
LEMMA MinOf ==
    ASSUME NEW S \in SUBSET Nat, S # {}
    PROVE  /\ Min(S) \in S
           /\ \A x \in S : Min(S) <= x
<1>1. \E n \in S : \A m \in S : n <= m
    BY LeastElement
<1> QED BY <1>1 DEF Min

\* Max, which numbers the next turn as SELECT MAX(turn_index) does, is a member and an
\* upper bound; the set has to be bounded for one to exist.
LEMMA MaxOf ==
    ASSUME NEW N \in Nat, NEW S \in SUBSET (0 .. N), S # {}
    PROVE  /\ Max(S) \in S
           /\ \A x \in S : x <= Max(S)
<1> DEFINE D == {d \in Nat : \E x \in S : d + x = N}
<1>1. \A y \in S : y \in Nat /\ N - y \in Nat /\ (N - y) + y = N
    OBVIOUS
<1>2. \A y \in S : N - y \in D
    BY <1>1
<1>3. PICK d \in D : \A e \in D : d <= e
    <2>1. D \in SUBSET Nat /\ D # {}
        BY <1>2
    <2> QED BY <2>1, LeastElement
<1>4. PICK x \in S : d \in Nat /\ d + x = N
    BY <1>3
<1>5. \A y \in S : y <= x
    <2> TAKE y \in S
    <2>1. d <= N - y
        BY <1>2, <1>3
    <2> QED BY <2>1, <1>1, <1>4
<1>6. \E m \in S : \A y \in S : m >= y
    BY <1>4, <1>5, <1>1
<1>7. /\ Max(S) \in S
      /\ \A y \in S : Max(S) >= y
    BY <1>6 DEF Max
<1> QED BY <1>1, <1>7
-----------------------------------------------------------------------------
\* A saved turn was asked for, has the index its call was given, and holds pieces of the
\* answer to its own question.
RowsOfCalls ==
    \A r \in turns :
        /\ ask[r.of].pc # "idle" /\ r.index = TurnOf(r.of)
        /\ \A i \in DOMAIN r.answer : r.answer[i].of = r.of

\* A call that was numbered got one of the Turns, and every smaller index had been saved
\* by then: the index was one more than the largest saved.
Numbering ==
    \A q \in Questions :
        IF ask[q].pc = "idle" THEN TurnOf(q) = 0
        ELSE /\ TurnOf(q) \in Turns
             /\ \A i \in 1 .. TurnOf(q) - 1 : SavedAt(i) # {}

\* A task runs only for a call that was made, is at the sink only with something left to
\* publish, and holds its own question's events and pieces.
TasksOfCalls ==
    \A q \in Questions :
        /\ task[q].pc # "none" => ask[q].pc # "idle"
        /\ task[q].pc = "sink" => task[q].todo # <<>>
        /\ \A i \in DOMAIN task[q].todo : IsOf(task[q].todo[i], q)
        /\ \A i \in DOMAIN task[q].answer : task[q].answer[i].of = q

\* What lies in a reply stream was put there by a call that had that stream's turn index:
\* only two calls with one index can meet in a stream.
StreamsOfCalls ==
    \A t \in Turns : \A i \in DOMAIN stream[t] :
        \E q \in Questions : /\ ask[q].pc # "idle" /\ TurnOf(q) = t
                             /\ IsOf(stream[t][i], q)

\* A reader exists only for a call that was made, and has shown an event only if it is
\* reading, cleaning up or done.
ReadersOfCalls ==
    \A q \in Questions :
        /\ reader[q].pc # "none" => ask[q].pc # "idle"
        /\ Seen(q) => reader[q].pc \in {"read", "clean", "closed"}

\* Clients that wait for a saved turn before they ask again never share a turn index.
PatientAlone == patient => \A q \in Questions : ask[q].pc # "idle" => Alone(q)

\* With such clients and a database that refuses nothing, a task past the save has a row.
SavedWhenOver ==
    patient /\ "database" \notin failed =>
        \A q \in Questions : task[q].pc \in {"audit", "over"} =>
            \E r \in turns : r.of = q

\* The inductive invariant.  TypeOK is a part of it that needs the others: that the next
\* index is one of Turns follows from Numbering and RowsOfCalls, by counting.
TurnInv ==
    /\ TypeOK
    /\ RowsOfCalls /\ Numbering /\ TasksOfCalls /\ StreamsOfCalls
    /\ ReadersOfCalls /\ PatientAlone /\ SavedWhenOver /\ OwnAnswer

\* There is a positive number of questions.
LEMMA CardinalityNat == Cardinality(Questions) \in Nat \ {0}
BY QueryAssumption, FS_CardinalityType, FS_EmptySet

\* The indexes of the saved turns are 1 .. LargestIndex, with none missing.
LEMMA SavedIsPrefix ==
    ASSUME TypeOK, RowsOfCalls, Numbering
    PROVE  /\ LargestIndex \in 0 .. Cardinality(Questions)
           /\ \A r \in turns : r.index <= LargestIndex
           /\ \A i \in 1 .. LargestIndex : SavedAt(i) # {}
<1> DEFINE S == {0} \cup {r.index : r \in turns}
<1>1. S \in SUBSET (0 .. Cardinality(Questions)) /\ S # {} /\ 0 \in S
    BY CardinalityNat DEF TypeOK, Turns
<1>2. /\ LargestIndex \in S
      /\ \A x \in S : x <= LargestIndex
    <2> HIDE DEF S
    <2>1. Max(S) \in S /\ \A x \in S : x <= Max(S)
        BY <1>1, CardinalityNat, MaxOf
    <2>2. LargestIndex = Max(S)
        BY DEF LargestIndex, S
    <2> QED BY <2>1, <2>2
<1>3. LargestIndex \in 0 .. Cardinality(Questions)
    BY <1>1, <1>2
<1>4. \A r \in turns : r.index <= LargestIndex
    BY <1>2
<1>5. ASSUME NEW i \in 1 .. LargestIndex
      PROVE  SavedAt(i) # {}
    <2>1. PICK r \in turns : r.index = LargestIndex
        BY <1>2, <1>3
    <2>2. r.of \in Questions /\ TurnOf(r.of) = LargestIndex /\ ask[r.of].pc # "idle"
        BY <2>1 DEF TypeOK, RowsOfCalls
    <2>3. CASE i = LargestIndex
        BY <2>1, <2>3 DEF SavedAt
    <2>4. CASE i # LargestIndex
        <3>1. i \in 1 .. TurnOf(r.of) - 1
            BY <2>2, <2>4, <1>3, CardinalityNat
        <3> QED BY <2>2, <3>1 DEF Numbering
    <2> QED BY <2>3, <2>4
<1> QED BY <1>3, <1>4, <1>5

\* While a question has not been asked the next index is one of Turns: the saved indexes
\* belong to as many different questions, and none of them to this one.
LEMMA RoomForAnother ==
    ASSUME TypeOK, RowsOfCalls, Numbering, NEW q \in Questions, ask[q].pc = "idle"
    PROVE  LargestIndex + 1 \in Turns
<1> DEFINE k == LargestIndex
           Others == Questions \ {q}
           f == [i \in 1 .. k |-> (CHOOSE r \in turns : r.index = i).of]
<1>1. k \in Nat /\ \A i \in 1 .. k : SavedAt(i) # {}
    BY SavedIsPrefix, CardinalityNat
<1>2. \A i \in 1 .. k : /\ f[i] \in Others
                        /\ TurnOf(f[i]) = i
    <2> TAKE i \in 1 .. k
    <2> DEFINE r == CHOOSE r \in turns : r.index = i
    <2>1. r \in turns /\ r.index = i
        BY <1>1 DEF SavedAt
    <2>2. f[i] = r.of
        OBVIOUS
    <2> QED BY <2>1, <2>2 DEF TypeOK, RowsOfCalls
<1>3. f \in Injection(1 .. k, Others)
    <2>1. f \in [1 .. k -> Others]
        BY <1>2
    <2>2. \A i, j \in 1 .. k : f[i] = f[j] => i = j
        BY <1>2
    <2> HIDE DEF f
    <2> QED BY <2>1, <2>2 DEF Injection, IsInjective
<1>4. IsFiniteSet(Others) /\ Cardinality(Others) = Cardinality(Questions) - 1
    BY QueryAssumption, FS_RemoveElement
<1>5. Cardinality(1 .. k) <= Cardinality(Others)
    <2> HIDE DEF f, Others
    <2> QED BY <1>3, <1>4, FS_Injection
<1>6. Cardinality(1 .. k) = k
    BY <1>1, FS_Interval
<1> QED BY <1>1, <1>4, <1>5, <1>6, CardinalityNat DEF Turns

\* The invariant holds before anyone asks.
LEMMA InitTurnInv == Init => TurnInv
<1> SUFFICES ASSUME Init PROVE TurnInv
    OBVIOUS
<1>1. TypeOK
    <2>1. \A q \in Questions : NoTask.todo \in Seq(Events) /\ NoTask.answer \in Seq(Pieces)
                               /\ NoReader.view \in Seq(Events)
        BY DEF NoTask, NoReader
    <2>2. Cardinality({}) = 0
        BY FS_EmptySet
    <2> QED BY <2>1, <2>2, CardinalityNat, QueryAssumption
       DEF Init, TypeOK, CallType, TaskType, ReaderType, NoTask, NoReader
<1>2. RowsOfCalls /\ Numbering /\ TasksOfCalls /\ StreamsOfCalls
    BY DEF Init, RowsOfCalls, Numbering, TasksOfCalls, StreamsOfCalls, NoTask, TurnOf
<1>3. ReadersOfCalls /\ PatientAlone /\ SavedWhenOver /\ OwnAnswer
    BY DEF Init, ReadersOfCalls, PatientAlone, SavedWhenOver, OwnAnswer, NoTask, NoReader, Seen
<1> QED BY <1>1, <1>2, <1>3 DEF TurnInv

\* The call, task or reader of q is replaced, the others stay.
\* The function f changed at q only.
Replaces(f, q, r) == f' = [f EXCEPT ![q] = r]

\* A change of one call to a well-typed call keeps the type; so for tasks and readers below.
LEMMA ReplaceCall ==
    ASSUME TypeOK, NEW q \in Questions, NEW r \in CallType, Replaces(ask, q, r)
    PROVE  /\ ask' \in [Questions -> CallType]
           /\ ask'[q] = r /\ \A p \in Questions \ {q} : ask'[p] = ask[p]
BY DEF TypeOK, Replaces

LEMMA ReplaceTask ==
    ASSUME TypeOK, NEW q \in Questions, NEW r \in TaskType, Replaces(task, q, r)
    PROVE  /\ task' \in [Questions -> TaskType]
           /\ task'[q] = r /\ \A p \in Questions \ {q} : task'[p] = task[p]
BY DEF TypeOK, Replaces

LEMMA ReplaceReader ==
    ASSUME TypeOK, NEW q \in Questions, NEW r \in ReaderType, Replaces(reader, q, r)
    PROVE  /\ reader' \in [Questions -> ReaderType]
           /\ reader'[q] = r /\ \A p \in Questions \ {q} : reader'[p] = reader[p]
BY DEF TypeOK, Replaces

\* Giving a call its index, the largest saved index plus one, keeps the invariant.
LEMMA NumberTurnStep ==
    ASSUME TurnInv, NEW q \in Questions, NumberTurn(q)
    PROVE  TurnInv'
<1> DEFINE index == LargestIndex + 1
<1>0. /\ ask[q].pc = "idle"
      /\ ask' = [ask EXCEPT ![q] = [pc |-> "numbered", turn |-> index]]
      /\ patient' = (patient /\ AsksPatiently)
      /\ UNCHANGED <<turns, stream, renewed, ttl, task, reader, loop, failed>>
    BY DEF NumberTurn, Number, streamVars
<1>1. index \in Turns
    BY RoomForAnother, <1>0 DEF TurnInv
<1>2. /\ \A r \in turns : r.index < index
      /\ \A i \in 1 .. index - 1 : SavedAt(i) # {}
    <2>1. TypeOK /\ RowsOfCalls /\ Numbering
        BY DEF TurnInv
    <2>2. \A r \in turns : r.index \in Nat
        BY <2>1, CardinalityNat DEF TypeOK, Turns
    <2> QED BY <2>1, <2>2, SavedIsPrefix, CardinalityNat
<1> HIDE DEF index
<1>3. /\ ask'[q] = [pc |-> "numbered", turn |-> index]
      /\ \A p \in Questions \ {q} : ask'[p] = ask[p]
      /\ TurnOf(q)' = index
      /\ \A p \in Questions \ {q} : TurnOf(p)' = TurnOf(p)
    BY <1>0 DEF TurnInv, TypeOK, TurnOf
<1>4. TypeOK'
    <2>1. [pc |-> "numbered", turn |-> index] \in CallType
        BY <1>1, CardinalityNat DEF CallType, Turns
    <2>2. ask' \in [Questions -> CallType]
        BY <1>0, <2>1, ReplaceCall DEF TurnInv, Replaces
    <2>3. patient' \in BOOLEAN
        BY <1>0
    <2> QED BY <1>0, <2>2, <2>3 DEF TurnInv, TypeOK, Turns
<1>5. RowsOfCalls'
    BY <1>0, <1>3 DEF TurnInv, TypeOK, RowsOfCalls
<1>6. Numbering'
    <2>1. \A i : SavedAt(i)' = SavedAt(i)
        BY <1>0 DEF SavedAt
    <2> QED BY <1>1, <1>2, <1>3, <2>1 DEF TurnInv, Numbering, Turns
<1>7. TasksOfCalls' /\ StreamsOfCalls'
    BY <1>0, <1>3 DEF TurnInv, TasksOfCalls, StreamsOfCalls, IsOf
<1>8. ReadersOfCalls'
    BY <1>0, <1>3 DEF TurnInv, ReadersOfCalls, Seen
<1>9. PatientAlone'
    <2> SUFFICES ASSUME patient, AsksPatiently, NEW p \in Questions, ask'[p].pc # "idle",
                        NEW o \in Questions \ {p}
                 PROVE  TurnOf(o)' # TurnOf(p)'
        BY <1>0 DEF PatientAlone, Alone
    <2>1. \A x \in Questions : ask[x].pc # "idle" => TurnOf(x) < index
        BY <1>2 DEF AsksPatiently, TurnInv, TypeOK, RowsOfCalls
    <2>2. \A x \in Questions : ask[x].pc = "idle" => TurnOf(x) = 0
        BY DEF TurnInv, Numbering
    <2>3. \A x \in Questions : TurnOf(x) # index
        BY <2>1, <2>2, <1>1, CardinalityNat DEF Turns
    <2> QED BY <2>3, <1>3 DEF TurnInv, PatientAlone, Alone
<1>10. SavedWhenOver' /\ OwnAnswer'
    <2>1. patient' => patient
        BY <1>0
    <2>2. task' = task /\ turns' = turns /\ reader' = reader /\ failed' = failed
        BY <1>0
    <2> QED BY <2>1, <2>2 DEF TurnInv, SavedWhenOver, OwnAnswer, IsOf
<1> QED BY <1>4, <1>5, <1>6, <1>7, <1>8, <1>9, <1>10 DEF TurnInv

\* Every set of fault kinds is finite.
LEMMA KindsAreFew == \A S \in SUBSET FaultKinds : IsFiniteSet(S)
<1> DEFINE A == {"api"}            B == A \cup {"worker"}   C == B \cup {"broker"}
           D == C \cup {"redis"}   E == D \cup {"database"}
<1>1. IsFiniteSet(A)
    BY FS_Singleton
<1>2. IsFiniteSet(B)
    BY <1>1, FS_AddElement
<1>3. IsFiniteSet(C)
    BY <1>2, FS_AddElement
<1>4. IsFiniteSet(D)
    BY <1>3, FS_AddElement
<1>5. IsFiniteSet(E)
    BY <1>4, FS_AddElement
<1>6. FaultKinds \subseteq E
    BY QueryAssumption
<1> HIDE DEF E
<1> QED BY <1>5, <1>6, FS_Subset

\* A fault adds one kind to those that happened.
LEMMA FaultType ==
    ASSUME TypeOK, NoFault \/ \E kind : Fault(kind)
    PROVE  /\ failed' \subseteq FaultKinds /\ Cardinality(failed') <= MaxFaults
           /\ failed \subseteq failed'
<1>1. CASE NoFault
    BY <1>1 DEF NoFault, TypeOK
<1>2. ASSUME NEW kind, Fault(kind)
      PROVE  /\ failed' \subseteq FaultKinds /\ Cardinality(failed') <= MaxFaults
             /\ failed \subseteq failed'
    <2>1. /\ IsFiniteSet(failed) /\ Cardinality(failed) \in Nat
          /\ kind \notin failed
        BY <1>2, KindsAreFew, FS_CardinalityType DEF TypeOK, Fault
    <2>2. Cardinality(failed \cup {kind}) = Cardinality(failed) + 1
        BY <2>1, FS_AddElement
    <2> QED BY <1>2, <2>1, <2>2, QueryAssumption DEF TypeOK, Fault
<1> QED BY <1>1, <1>2

\* A step that numbers no call.
SameCalls ==
    \A p \in Questions : /\ ask'[p].pc = "idle" <=> ask[p].pc = "idle"
                         /\ TurnOf(p)' = TurnOf(p)

\* Such a step keeps the parts of the invariant about what it leaves alone.
LEMMA Unaffected ==
    ASSUME TurnInv, SameCalls, patient' = patient
    PROVE  /\ turns' = turns => RowsOfCalls' /\ Numbering'
           /\ PatientAlone'
           /\ stream' = stream => StreamsOfCalls'
           /\ task' = task => TasksOfCalls'
           /\ reader' = reader => ReadersOfCalls' /\ OwnAnswer'
           /\ task' = task /\ turns' = turns /\ failed \subseteq failed' => SavedWhenOver'
<1>1. ASSUME turns' = turns
      PROVE  RowsOfCalls' /\ Numbering'
    <2>1. \A i : SavedAt(i)' = SavedAt(i)
        BY <1>1 DEF SavedAt
    <2>2. Numbering'
        BY <2>1 DEF TurnInv, SameCalls, Numbering, Turns
    <2>3. RowsOfCalls'
        BY <1>1 DEF TurnInv, TypeOK, SameCalls, RowsOfCalls
    <2> QED BY <2>2, <2>3
<1>2. PatientAlone'
    BY DEF TurnInv, SameCalls, PatientAlone, Alone
<1>3. stream' = stream => StreamsOfCalls'
    BY DEF TurnInv, SameCalls, StreamsOfCalls, IsOf
<1>4. task' = task => TasksOfCalls'
    BY DEF TurnInv, SameCalls, TasksOfCalls, IsOf
<1>5. reader' = reader => ReadersOfCalls' /\ OwnAnswer'
    BY DEF TurnInv, SameCalls, ReadersOfCalls, Seen, OwnAnswer, IsOf
<1>6. task' = task /\ turns' = turns /\ failed \subseteq failed' => SavedWhenOver'
    BY DEF TurnInv, SavedWhenOver
<1> QED BY <1>1, <1>2, <1>3, <1>4, <1>5, <1>6

\* The task of q goes on to pc, with what it has still to do taken from what it had.
\* A task that only moves on keeps the parts about tasks.
LEMMA TaskMoves ==
    ASSUME TurnInv, NEW q \in Questions, ask[q].pc # "idle", SameCalls,
           NEW r \in TaskType, Replaces(task, q, r),
           r.pc = "sink" => r.todo # <<>>,
           \A i \in DOMAIN r.todo : IsOf(r.todo[i], q),
           \A i \in DOMAIN r.answer : r.answer[i].of = q
    PROVE  TasksOfCalls'
<1>1. task'[q] = r /\ \A p \in Questions \ {q} : task'[p] = task[p]
    BY ReplaceTask DEF TurnInv
<1>2. \A p \in Questions : task[p].pc # "none" => ask'[p].pc # "idle"
    BY DEF TurnInv, TasksOfCalls, SameCalls
<1>3. ask'[q].pc # "idle"
    BY DEF SameCalls
<1> SUFFICES ASSUME NEW p \in Questions
             PROVE  /\ task'[p].pc # "none" => ask'[p].pc # "idle"
                    /\ task'[p].pc = "sink" => task'[p].todo # <<>>
                    /\ \A i \in DOMAIN task'[p].todo : IsOf(task'[p].todo[i], p)
                    /\ \A i \in DOMAIN task'[p].answer : task'[p].answer[i].of = p
    BY DEF TasksOfCalls, IsOf
<1>4. CASE p = q
    BY <1>1, <1>3, <1>4
<1>5. CASE p # q
    BY <1>1, <1>2, <1>5 DEF TurnInv, TasksOfCalls
<1> QED BY <1>4, <1>5

LEMMA DispatchQueryStep ==
    ASSUME TurnInv, NEW q \in Questions, DispatchQuery(q)
    PROVE  TurnInv'
<1>0. /\ ask[q].pc = "numbered"
      /\ \E pc \in {"asked", "refused"} : Replaces(ask, q, [ask[q] EXCEPT !.pc = pc])
      /\ Replaces(task, q, [task[q] EXCEPT !.pc = "queued"]) \/ task' = task
      /\ NoFault \/ \E kind : Fault(kind)
      /\ UNCHANGED <<turns, stream, renewed, ttl, patient, reader, loop>>
    BY DEF DispatchQuery, streamVars, Replaces
<1>1. /\ failed' \subseteq FaultKinds /\ Cardinality(failed') <= MaxFaults
      /\ failed \subseteq failed'
    BY <1>0, FaultType DEF TurnInv
<1>2. ask' \in [Questions -> CallType] /\ SameCalls
    <2>1. PICK pc \in {"asked", "refused"} : Replaces(ask, q, [ask[q] EXCEPT !.pc = pc])
        BY <1>0
    <2>2. [ask[q] EXCEPT !.pc = pc] \in CallType
        BY DEF TurnInv, TypeOK, CallType
    <2>3. /\ ask' \in [Questions -> CallType]
          /\ ask'[q] = [ask[q] EXCEPT !.pc = pc]
          /\ \A p \in Questions \ {q} : ask'[p] = ask[p]
        BY <2>1, <2>2, ReplaceCall DEF TurnInv
    <2>4. ask'[q].pc # "idle" /\ ask'[q].turn = ask[q].turn
        BY <2>1, <2>3 DEF TurnInv, TypeOK, CallType
    <2> QED BY <2>3, <2>4, <1>0 DEF SameCalls, TurnOf
<1>3. CASE task' = task
    <2>1. TypeOK'
        BY <1>0, <1>1, <1>2, <1>3 DEF TurnInv, TypeOK, Turns, CallType, TaskType, ReaderType
    <2> QED BY <1>0, <1>1, <1>2, <1>3, <2>1, Unaffected DEF TurnInv
<1>4. CASE Replaces(task, q, [task[q] EXCEPT !.pc = "queued"])
    <2> DEFINE r == [task[q] EXCEPT !.pc = "queued"]
    <2>1. r \in TaskType /\ r.pc = "queued" /\ r.todo = task[q].todo /\ r.answer = task[q].answer
        BY DEF TurnInv, TypeOK, TaskType
    <2> HIDE DEF r
    <2>2. task' \in [Questions -> TaskType] /\ task'[q] = r
          /\ \A p \in Questions \ {q} : task'[p] = task[p]
        BY <1>4, <2>1, ReplaceTask DEF TurnInv, r
    <2>3. TypeOK'
        BY <1>0, <1>1, <1>2, <2>2 DEF TurnInv, TypeOK, Turns
    <2>4. TasksOfCalls'
        BY <1>0, <1>2, <1>4, <2>1, TaskMoves DEF TurnInv, TasksOfCalls, r
    <2>5. SavedWhenOver'
        BY <1>0, <1>1, <2>1, <2>2 DEF TurnInv, SavedWhenOver
    <2> QED BY <1>0, <1>2, <2>3, <2>4, <2>5, Unaffected DEF TurnInv
<1> QED BY <1>0, <1>3, <1>4

-----------------------------------------------------------------------------
\* The pieces of q's answer, and the events made of them.
OwnPieces(q) == {e \in Pieces : e.of = q}
OwnEvents(q) == {e \in Events : IsOf(e, q)}

\* Whatever way the graph ends, its answer and its events are made of q's pieces.
LEMMA OutcomesAreOwn ==
    ASSUME NEW q \in Questions, NEW o \in Outcomes(q)
    PROVE  o.streamed \in Seq(OwnPieces(q)) /\ o.answer \in Seq(OwnPieces(q))
<1>1. \A i \in 1 .. Replaced : Piece(q, i) \in OwnPieces(q)
    BY QueryAssumption DEF Piece, Pieces, OwnPieces, Replaced
<1>2. \A n \in 0 .. MaxTokens : Text(q, n) \in Seq(OwnPieces(q))
    <2> TAKE n \in 0 .. MaxTokens
    <2>1. \A i \in 1 .. n : Piece(q, i) \in OwnPieces(q)
        BY <1>1, QueryAssumption DEF Replaced
    <2>2. n \in Nat
        BY QueryAssumption
    <2> HIDE DEF OwnPieces
    <2>3. Text(q, n) \in [1 .. n -> OwnPieces(q)]
        BY <2>1 DEF Text
    <2> QED BY <2>2, <2>3, SeqDef
<1>3. Instead(q) \in Seq(OwnPieces(q))
    <2>1. Piece(q, Replaced) \in OwnPieces(q)
        BY <1>1, QueryAssumption DEF Replaced
    <2> QED BY <2>1 DEF Instead
<1>4. <<>> \in Seq(OwnPieces(q))
    OBVIOUS
<1>5. MaxTokens \in 0 .. MaxTokens /\ 1 .. MaxTokens \subseteq 0 .. MaxTokens
    BY QueryAssumption
<1>6. CASE o = [streamed |-> <<>>, answer |-> Text(q, MaxTokens)]
    BY <1>2, <1>4, <1>5, <1>6
<1>7. CASE o = [streamed |-> Text(q, MaxTokens), answer |-> Text(q, MaxTokens)]
    BY <1>2, <1>5, <1>7
<1>8. CASE \E n \in 1 .. MaxTokens : o = [streamed |-> Text(q, n), answer |-> Instead(q)]
    <2>1. PICK n \in 1 .. MaxTokens : o = [streamed |-> Text(q, n), answer |-> Instead(q)]
        BY <1>8
    <2>2. o.streamed = Text(q, n) /\ o.answer = Instead(q)
        BY <2>1
    <2> QED BY <1>2, <1>3, <1>5, <2>2
<1>9. CASE o = [streamed |-> <<>>, answer |-> <<>>]
    BY <1>4, <1>9
<1> QED BY <1>6, <1>7, <1>8, <1>9 DEF Outcomes

\* The events the graph streams on the way are made of q's pieces.
LEMMA StreamedIsOwn ==
    ASSUME NEW q \in Questions, NEW s \in Seq(OwnPieces(q))
    PROVE  Streamed(s) \in Seq(OwnEvents(q)) /\ Token(s) \in OwnEvents(q)
<1>1. \A u \in Seq(OwnPieces(q)) : Token(u) \in OwnEvents(q)
    <2> TAKE u \in Seq(OwnPieces(q))
    <2>1. u \in Seq(Pieces) /\ \A i \in DOMAIN u : u[i].of = q
        BY DEF OwnPieces
    <2> QED BY <2>1 DEF Token, Events, OwnEvents, IsOf
<1>2. \A i \in DOMAIN s : Token(<<s[i]>>) \in OwnEvents(q)
    <2> TAKE i \in DOMAIN s
    <2>1. <<s[i]>> \in Seq(OwnPieces(q))
        OBVIOUS
    <2> QED BY <1>1, <2>1
<1>3. Streamed(s) \in [1 .. Len(s) -> OwnEvents(q)]
    BY <1>2 DEF Streamed
<1>4. Streamed(s) \in Seq(OwnEvents(q))
    BY <1>3, SeqDef
<1> QED BY <1>1, <1>4

\* A step of the task of q that leaves the calls and the readers alone.
\* What a step of one task has to show, for the invariant to survive it.
LEMMA TaskStepKeeps ==
    ASSUME TurnInv, NEW q \in Questions, ask[q].pc # "idle",
           NEW r, r \in TaskType, Replaces(task, q, r),
           r.pc = "sink" => r.todo # <<>>,
           r.todo \in Seq(OwnEvents(q)), r.answer \in Seq(OwnPieces(q)),
           UNCHANGED <<ask, patient, reader, loop>>,
           NoFault \/ \E kind : Fault(kind),
           turns' \subseteq [index : Turns, of : Questions, answer : Seq(Pieces)],
           stream' \in [Turns -> Seq(Events)],
           renewed' \in [Turns -> BOOLEAN], ttl' \in [Turns -> BOOLEAN],
           RowsOfCalls', Numbering', StreamsOfCalls', SavedWhenOver'
    PROVE  TurnInv'
<1>1. failed' \subseteq FaultKinds /\ Cardinality(failed') <= MaxFaults
    BY FaultType DEF TurnInv
<1>2. task' \in [Questions -> TaskType]
    BY ReplaceTask DEF TurnInv
<1>3. TypeOK'
    BY <1>1, <1>2 DEF TurnInv, TypeOK, Turns, Events, Pieces, CallType, TaskType, ReaderType
<1>4. SameCalls
    BY DEF SameCalls, TurnOf
<1>5. TasksOfCalls'
    <2>1. \A i \in DOMAIN r.todo : IsOf(r.todo[i], q)
        BY DEF OwnEvents
    <2>2. \A i \in DOMAIN r.answer : r.answer[i].of = q
        BY DEF OwnPieces
    <2> QED BY <1>4, <2>1, <2>2, TaskMoves
<1> QED BY <1>3, <1>4, <1>5, Unaffected DEF TurnInv

\* What a task that has been started is about.
\* A task that exists belongs to a numbered call and holds its own events and pieces.
LEMMA TaskIsOwn ==
    ASSUME TurnInv, NEW q \in Questions, task[q].pc # "none"
    PROVE  /\ ask[q].pc # "idle" /\ TurnOf(q) \in Turns
           /\ task[q] \in TaskType
           /\ task[q].todo \in Seq(OwnEvents(q))
           /\ task[q].answer \in Seq(OwnPieces(q))
<1>1. ask[q].pc # "idle" /\ TurnOf(q) \in Turns
    BY DEF TurnInv, TasksOfCalls, Numbering
<1>2. task[q] \in TaskType
    BY DEF TurnInv, TypeOK
<1>3. task[q].todo \in Seq(Events) /\ task[q].answer \in Seq(Pieces)
    BY <1>2 DEF TaskType
<1>4. task[q].todo \in Seq(OwnEvents(q))
    <2>1. \A i \in DOMAIN task[q].todo : task[q].todo[i] \in OwnEvents(q)
        BY <1>3 DEF TurnInv, TasksOfCalls, OwnEvents
    <2> QED BY <1>3, <2>1
<1>5. task[q].answer \in Seq(OwnPieces(q))
    <2>1. \A i \in DOMAIN task[q].answer : task[q].answer[i] \in OwnPieces(q)
        BY <1>3 DEF TurnInv, TasksOfCalls, OwnPieces
    <2> QED BY <1>3, <2>1
<1> QED BY <1>1, <1>2, <1>4, <1>5

\* A task that starts again or is over holds nothing.
LEMMA EmptyTodo ==
    ASSUME NEW q, NEW pc \in {"queued", "over"}
    PROVE  /\ [NoTask EXCEPT !.pc = pc] \in TaskType
           /\ [NoTask EXCEPT !.pc = pc].pc = pc
           /\ [NoTask EXCEPT !.pc = pc].todo \in Seq(OwnEvents(q))
           /\ [NoTask EXCEPT !.pc = pc].answer \in Seq(OwnPieces(q))
<1> DEFINE r == [pc |-> pc, todo |-> <<>>, answer |-> <<>>]
<1>1. [NoTask EXCEPT !.pc = pc] = r
    BY DEF NoTask
<1>2. r \in TaskType /\ r.pc = pc /\ r.todo = <<>> /\ r.answer = <<>>
    BY DEF TaskType
<1>3. \A S : <<>> \in Seq(S)
    OBVIOUS
<1> QED BY <1>1, <1>2, <1>3

LEMMA RunStep ==
    ASSUME TurnInv, NEW q \in Questions, Run(q)
    PROVE  TurnInv'
<1>0. /\ task[q].pc = "queued"
      /\ UNCHANGED <<turns, stream, renewed, ttl, ask, patient, reader, loop, failed>>
    BY DEF Run, streamVars
<1>1. /\ ask[q].pc # "idle" /\ task[q] \in TaskType
      /\ task[q].todo \in Seq(OwnEvents(q)) /\ task[q].answer \in Seq(OwnPieces(q))
    BY <1>0, TaskIsOwn
<1>2. RowsOfCalls' /\ Numbering' /\ StreamsOfCalls'
    BY <1>0, Unaffected DEF SameCalls, TurnOf
<1>3. ASSUME NEW r \in TaskType, Replaces(task, q, r), r.pc \in {"sink", "raised"},
             r.pc = "sink" => r.todo # <<>>,
             r.todo \in Seq(OwnEvents(q)), r.answer \in Seq(OwnPieces(q))
      PROVE  TurnInv'
    <2>1. SavedWhenOver'
        <3>1. task'[q] = r /\ \A p \in Questions \ {q} : task'[p] = task[p]
            BY <1>3, ReplaceTask DEF TurnInv
        <3> QED BY <1>0, <1>3, <3>1 DEF TurnInv, SavedWhenOver
    <2> QED BY <1>0, <1>1, <1>2, <1>3, <2>1, TaskStepKeeps DEF NoFault, TurnInv, TypeOK
<1>4. CASE TaskGoto(q, "raised")
    <2> DEFINE r == [task[q] EXCEPT !.pc = "raised"]
    <2>1. Replaces(task, q, r)
        BY <1>4 DEF TaskGoto, Replaces
    <2>2. r \in TaskType /\ r.pc = "raised" /\ r.todo = task[q].todo
          /\ r.answer = task[q].answer
        BY <1>1 DEF TaskType
    <2> HIDE DEF r
    <2> QED BY <1>1, <1>3, <2>1, <2>2
<1>5. ASSUME NEW o \in Outcomes(q),
             task' = [task EXCEPT ![q] =
                [pc |-> "sink",
                 todo |-> <<Retrieved>> \o Streamed(o.streamed) \o WholeAnswer(o) \o <<Done>>,
                 answer |-> o.answer]]
      PROVE  TurnInv'
    <2> DEFINE middle == WholeAnswer(o)
               front  == <<Retrieved>> \o Streamed(o.streamed) \o middle
               todo   == front \o <<Done>>
               r      == [pc |-> "sink", todo |-> todo, answer |-> o.answer]
    <2>1. o.streamed \in Seq(OwnPieces(q)) /\ o.answer \in Seq(OwnPieces(q))
        BY OutcomesAreOwn
    <2>2. /\ Streamed(o.streamed) \in Seq(OwnEvents(q))
          /\ middle \in Seq(OwnEvents(q))
        BY <2>1, StreamedIsOwn DEF WholeAnswer
    <2>3. Retrieved \in OwnEvents(q) /\ Done \in OwnEvents(q)
        BY DEF Retrieved, Done, OwnEvents, Events, IsOf
    <2>4. <<Retrieved>> \in Seq(OwnEvents(q)) /\ <<Done>> \in Seq(OwnEvents(q))
        BY <2>3
    <2>5. front \in Seq(OwnEvents(q))
        <3> HIDE DEF middle
        <3>1. <<Retrieved>> \o Streamed(o.streamed) \in Seq(OwnEvents(q))
            BY <2>2, <2>4, ConcatProperties
        <3> QED BY <2>2, <3>1, ConcatProperties
    <2>6. todo \in Seq(OwnEvents(q)) /\ todo # <<>>
        <3> HIDE DEF front
        <3>1. /\ todo \in Seq(OwnEvents(q))
              /\ Len(todo) = Len(front) + Len(<<Done>>)
            BY <2>4, <2>5, ConcatProperties
        <3>2. Len(<<Done>>) = 1 /\ Len(front) \in Nat
            BY <2>5
        <3> QED BY <3>1, <3>2
    <2>7. Replaces(task, q, r)
        BY <1>5 DEF Replaces
    <2> HIDE DEF todo
    <2>8. /\ todo \in Seq(Events) /\ o.answer \in Seq(Pieces)
        BY <2>1, <2>6 DEF OwnEvents, OwnPieces
    <2>9. r \in TaskType /\ r.pc = "sink" /\ r.todo = todo /\ r.answer = o.answer
        BY <2>8 DEF TaskType
    <2> HIDE DEF r
    <2> QED BY <1>3, <2>1, <2>6, <2>7, <2>9
<1> QED BY <1>4, <1>5 DEF Run

\* Entries of a stream stay with the calls when one of the call's own is appended.
\* An event appended to its own question's stream keeps StreamsOfCalls.
LEMMA AppendOwn ==
    ASSUME TurnInv, NEW q \in Questions, ask[q].pc # "idle", TurnOf(q) \in Turns,
           NEW e \in OwnEvents(q), AppendTo(TurnOf(q), e), ask' = ask
    PROVE  stream' \in [Turns -> Seq(Events)] /\ StreamsOfCalls'
<1> DEFINE t == TurnOf(q)
<1>1. /\ stream \in [Turns -> Seq(Events)] /\ e \in Events /\ IsOf(e, q)
      /\ stream' = [stream EXCEPT ![t] = Append(stream[t], e)]
    BY DEF TurnInv, TypeOK, AppendTo, OwnEvents
<1>2. /\ stream'[t] = Append(stream[t], e)
      /\ \A u \in Turns \ {t} : stream'[u] = stream[u]
      /\ stream' \in [Turns -> Seq(Events)]
    <2>1. Append(stream[t], e) \in Seq(Events)
        BY <1>1
    <2> QED BY <1>1, <2>1
<1>3. ASSUME NEW u \in Turns, NEW i \in DOMAIN stream'[u]
      PROVE  \E p \in Questions : /\ ask'[p].pc # "idle" /\ TurnOf(p)' = u
                                  /\ IsOf(stream'[u][i], p)
    <2>1. CASE u # t
        BY <1>2, <2>1 DEF TurnInv, StreamsOfCalls, TurnOf
    <2>2. CASE u = t /\ i \in DOMAIN stream[t]
        <3>1. stream'[u][i] = stream[t][i]
            BY <1>1, <1>2, <2>2
        <3> QED BY <2>2, <3>1 DEF TurnInv, StreamsOfCalls, TurnOf
    <2>3. CASE u = t /\ i \notin DOMAIN stream[t]
        <3>1. stream'[u][i] = e
            BY <1>1, <1>2, <2>3
        <3> QED BY <1>1, <2>3, <3>1 DEF TurnOf
    <2> QED BY <2>1, <2>2, <2>3
<1> QED BY <1>2, <1>3 DEF StreamsOfCalls, IsOf

LEMMA PublishStep ==
    ASSUME TurnInv, NEW q \in Questions, Publish(q)
    PROVE  TurnInv'
<1> DEFINE e == Head(task[q].todo)
           pc == IF Len(task[q].todo) = 1 THEN "save" ELSE "sink"
           r == [task[q] EXCEPT !.todo = Tail(@), !.pc = pc]
<1>0. /\ task[q].pc = "sink" /\ Replaces(task, q, r)
      /\ AppendTo(TurnOf(q), e) \/ stream' = stream
      /\ ttl' = [ttl EXCEPT ![TurnOf(q)] = TRUE] \/ ttl' = ttl
      /\ NoFault \/ \E kind : Fault(kind)
      /\ UNCHANGED <<turns, renewed, ask, patient, reader, loop>>
    BY DEF Publish, NextEvent, Replaces
<1>1. /\ ask[q].pc # "idle" /\ TurnOf(q) \in Turns /\ task[q] \in TaskType
      /\ task[q].todo \in Seq(OwnEvents(q)) /\ task[q].answer \in Seq(OwnPieces(q))
    BY <1>0, TaskIsOwn
<1>2. task[q].todo # <<>>
    BY <1>0 DEF TurnInv, TasksOfCalls
<1>3. /\ e \in OwnEvents(q) /\ Tail(task[q].todo) \in Seq(OwnEvents(q))
      /\ Len(task[q].todo) # 1 => Tail(task[q].todo) # <<>>
    <2>1. ASSUME NEW S, NEW s \in Seq(S), s # <<>>
          PROVE  /\ Head(s) \in S /\ Tail(s) \in Seq(S)
                 /\ Len(s) # 1 => Tail(s) # <<>>
        <3>1. /\ Head(s) \in S /\ Tail(s) \in Seq(S)
              /\ Len(Tail(s)) = Len(s) - 1
            BY <2>1, HeadTailProperties
        <3>2. Len(s) \in Nat /\ Len(<<>>) = 0
            OBVIOUS
        <3>3. Len(s) # 1 => Len(Tail(s)) # Len(<<>>)
            BY <3>1, <3>2
        <3>4. Len(s) # 1 => Tail(s) # <<>>
            BY <3>3
        <3> QED BY <3>1, <3>4
    <2> QED BY <1>1, <1>2, <2>1
<1>4. /\ r \in TaskType /\ r.pc = pc
      /\ r.todo = Tail(task[q].todo) /\ r.answer = task[q].answer
    <2>1. Tail(task[q].todo) \in Seq(Events)
        BY <1>3 DEF OwnEvents
    <2> QED BY <1>1, <2>1 DEF TaskType
<1>5. SameCalls
    BY <1>0 DEF SameCalls, TurnOf
<1>6. stream' \in [Turns -> Seq(Events)] /\ StreamsOfCalls'
    <2>1. CASE AppendTo(TurnOf(q), e)
        BY <1>0, <1>1, <1>3, <2>1, AppendOwn
    <2>2. CASE stream' = stream
        BY <1>0, <1>5, <2>2, Unaffected DEF TurnInv, TypeOK
    <2> QED BY <1>0, <2>1, <2>2
<1>7. ttl' \in [Turns -> BOOLEAN]
    BY <1>0 DEF TurnInv, TypeOK
<1> HIDE DEF r
<1>8. SavedWhenOver'
    <2>1. task'[q] = r /\ \A p \in Questions \ {q} : task'[p] = task[p]
        BY <1>0, <1>4, ReplaceTask DEF TurnInv
    <2>2. failed \subseteq failed'
        BY <1>0, FaultType DEF TurnInv
    <2> QED BY <1>0, <1>4, <2>1, <2>2 DEF TurnInv, SavedWhenOver
<1>9. r.pc = "sink" => r.todo # <<>>
    BY <1>3, <1>4
<1>10. RowsOfCalls' /\ Numbering'
    BY <1>0, <1>5, Unaffected
<1>11. /\ turns' \subseteq [index : Turns, of : Questions, answer : Seq(Pieces)]
       /\ renewed' \in [Turns -> BOOLEAN]
    BY <1>0 DEF TurnInv, TypeOK
<1> QED BY <1>0, <1>1, <1>3, <1>4, <1>6, <1>7, <1>8, <1>9, <1>10, <1>11, TaskStepKeeps

\* While questions are patient, the row with the index of a question is its own.
\* A turn saved under the index of a patient client's question is that question's.
LEMMA OwnRow ==
    ASSUME TurnInv, patient, NEW q \in Questions, ask[q].pc # "idle",
           NEW r \in SavedAt(TurnOf(q))
    PROVE  r.of = q
<1>1. r \in turns /\ r.index = TurnOf(q)
    BY DEF SavedAt
<1>2. r.of \in Questions /\ ask[r.of].pc # "idle" /\ TurnOf(r.of) = TurnOf(q)
    BY <1>1 DEF TurnInv, TypeOK, RowsOfCalls
<1> QED BY <1>2 DEF TurnInv, PatientAlone, Alone

LEMMA SaveTurnStep ==
    ASSUME TurnInv, NEW q \in Questions, SaveTurn(q)
    PROVE  TurnInv'
<1> DEFINE row == [index |-> TurnOf(q), of |-> q, answer |-> task[q].answer]
           r == [task[q] EXCEPT !.pc = "audit"]
<1>0. /\ task[q].pc = "save" /\ Replaces(task, q, r)
      /\ \/ turns' = turns \cup {row}
         \/ turns' = turns
      /\ NoFault \/ \E kind : Fault(kind)
      /\ UNCHANGED <<stream, renewed, ttl, ask, patient, reader, loop>>
    BY DEF SaveTurn, TaskGoto, Replaces, streamVars
<1>1. /\ ask[q].pc # "idle" /\ TurnOf(q) \in Turns /\ task[q] \in TaskType
      /\ task[q].todo \in Seq(OwnEvents(q)) /\ task[q].answer \in Seq(OwnPieces(q))
    BY <1>0, TaskIsOwn
<1>2. /\ r \in TaskType /\ r.pc = "audit"
      /\ r.todo = task[q].todo /\ r.answer = task[q].answer
    BY <1>1 DEF TaskType
<1>3. SameCalls
    BY <1>0 DEF SameCalls, TurnOf
<1>4. /\ task[q].answer \in Seq(Pieces)
      /\ \A i \in DOMAIN task[q].answer : task[q].answer[i].of = q
    BY <1>1 DEF OwnPieces
<1>5. row \in [index : Turns, of : Questions, answer : Seq(Pieces)]
      /\ row.of = q /\ row.index = TurnOf(q) /\ row.answer = task[q].answer
    BY <1>1, <1>4
<1> HIDE DEF r, row
<1>6. /\ turns' \subseteq [index : Turns, of : Questions, answer : Seq(Pieces)]
      /\ turns \subseteq turns'
    BY <1>0, <1>5 DEF TurnInv, TypeOK
<1>7. RowsOfCalls'
    <2> SUFFICES ASSUME NEW x \in turns'
                 PROVE  /\ ask'[x.of].pc # "idle" /\ x.index = TurnOf(x.of)'
                        /\ \A i \in DOMAIN x.answer : x.answer[i].of = x.of
        BY DEF RowsOfCalls
    <2>1. CASE x \in turns
        BY <1>0, <2>1 DEF TurnInv, RowsOfCalls, TurnOf
    <2>2. CASE x = row
        BY <1>0, <1>1, <1>4, <1>5, <2>2 DEF TurnOf
    <2> QED BY <1>0, <2>1, <2>2
<1>8. Numbering'
    <2>1. \A i : SavedAt(i) # {} => SavedAt(i)' # {}
        BY <1>6 DEF SavedAt
    <2> QED BY <1>0, <2>1 DEF TurnInv, Numbering, TurnOf, Turns
<1>9. StreamsOfCalls'
    BY <1>0, <1>3, Unaffected
<1>10. SavedWhenOver'
    <2>1. task'[q] = r /\ \A p \in Questions \ {q} : task'[p] = task[p]
        BY <1>0, <1>2, ReplaceTask DEF TurnInv
    <2>2. failed \subseteq failed'
        BY <1>0, FaultType DEF TurnInv
    <2> SUFFICES ASSUME patient, "database" \notin failed', NEW p \in Questions,
                        task'[p].pc \in {"audit", "over"}
                 PROVE  \E x \in turns' : x.of = p
        BY <1>0 DEF SavedWhenOver
    <2>3. CASE p # q
        BY <1>6, <2>1, <2>2, <2>3 DEF TurnInv, SavedWhenOver
    <2>4. CASE p = q
        <3>1. turns' = IF SavedAt(TurnOf(q)) = {} THEN turns \cup {row} ELSE turns
            BY <2>2 DEF SaveTurn, Fault, row
        <3>2. CASE SavedAt(TurnOf(q)) = {}
            BY <1>5, <2>4, <3>1, <3>2
        <3>3. CASE SavedAt(TurnOf(q)) # {}
            <4>1. PICK x \in SavedAt(TurnOf(q)) : x.of = q
                BY <1>1, <3>3, OwnRow
            <4>2. x \in turns
                BY DEF SavedAt
            <4> QED BY <1>6, <2>4, <4>1, <4>2
        <3> QED BY <3>2, <3>3
    <2> QED BY <2>3, <2>4
<1>11. /\ stream' \in [Turns -> Seq(Events)] /\ renewed' \in [Turns -> BOOLEAN]
       /\ ttl' \in [Turns -> BOOLEAN] /\ r.pc # "sink"
    BY <1>0, <1>2 DEF TurnInv, TypeOK
<1> QED BY <1>0, <1>1, <1>2, <1>6, <1>7, <1>8, <1>9, <1>10, <1>11, TaskStepKeeps

LEMMA FinishTaskStep ==
    ASSUME TurnInv, NEW q \in Questions, FinishTask(q)
    PROVE  TurnInv'
<1> DEFINE r == [NoTask EXCEPT !.pc = "over"]
<1>0. /\ task[q].pc = "audit" /\ Replaces(task, q, r)
      /\ UNCHANGED <<turns, stream, renewed, ttl, ask, patient, reader, loop, failed>>
    BY DEF FinishTask, Replaces, streamVars
<1>1. ask[q].pc # "idle"
    BY <1>0, TaskIsOwn
<1>2. /\ r \in TaskType /\ r.pc = "over"
      /\ r.todo \in Seq(OwnEvents(q)) /\ r.answer \in Seq(OwnPieces(q))
    BY EmptyTodo
<1> HIDE DEF r
<1>3. RowsOfCalls' /\ Numbering' /\ StreamsOfCalls'
    BY <1>0, Unaffected DEF SameCalls, TurnOf
<1>4. SavedWhenOver'
    <2>1. task'[q] = r /\ \A p \in Questions \ {q} : task'[p] = task[p]
        BY <1>0, <1>2, ReplaceTask DEF TurnInv
    <2> QED BY <1>0, <1>2, <2>1 DEF TurnInv, SavedWhenOver
<1> QED BY <1>0, <1>1, <1>2, <1>3, <1>4, TaskStepKeeps DEF NoFault, TurnInv, TypeOK

LEMMA WorkerLostStep ==
    ASSUME TurnInv, NEW q \in Questions, WorkerLost(q)
    PROVE  TurnInv'
<1> DEFINE r == [NoTask EXCEPT !.pc = "queued"]
           e == Head(task[q].todo)
<1>0. /\ task[q].pc \in {"sink", "save", "audit"} /\ Replaces(task, q, r)
      /\ UNCHANGED stream \/ (task[q].pc = "sink" /\ AppendTo(TurnOf(q), e))
      /\ Fault("worker")
      /\ UNCHANGED <<turns, renewed, ttl, ask, patient, reader, loop>>
    BY DEF WorkerLost, Replaces
<1>1. /\ ask[q].pc # "idle" /\ TurnOf(q) \in Turns
      /\ task[q].todo \in Seq(OwnEvents(q))
    BY <1>0, TaskIsOwn
<1>2. /\ r \in TaskType /\ r.pc = "queued"
      /\ r.todo \in Seq(OwnEvents(q)) /\ r.answer \in Seq(OwnPieces(q))
    BY EmptyTodo
<1> HIDE DEF r
<1>3. SameCalls
    BY <1>0 DEF SameCalls, TurnOf
<1>4. stream' \in [Turns -> Seq(Events)] /\ StreamsOfCalls'
    <2>1. CASE task[q].pc = "sink" /\ AppendTo(TurnOf(q), e)
        <3>1. task[q].todo # <<>>
            BY <2>1 DEF TurnInv, TasksOfCalls
        <3>2. e \in OwnEvents(q)
            BY <1>1, <3>1
        <3> QED BY <1>0, <1>1, <2>1, <3>2, AppendOwn
    <2>2. CASE UNCHANGED stream
        BY <1>0, <1>3, <2>2, Unaffected DEF TurnInv, TypeOK
    <2> QED BY <1>0, <2>1, <2>2
<1>5. RowsOfCalls' /\ Numbering'
    BY <1>0, <1>3, Unaffected
<1>6. SavedWhenOver'
    <2>1. task'[q] = r /\ \A p \in Questions \ {q} : task'[p] = task[p]
        BY <1>0, <1>2, ReplaceTask DEF TurnInv
    <2>2. failed \subseteq failed'
        BY <1>0, FaultType DEF TurnInv
    <2> QED BY <1>0, <1>2, <2>1, <2>2 DEF TurnInv, SavedWhenOver
<1>7. /\ turns' \subseteq [index : Turns, of : Questions, answer : Seq(Pieces)]
      /\ renewed' \in [Turns -> BOOLEAN] /\ ttl' \in [Turns -> BOOLEAN]
    BY <1>0 DEF TurnInv, TypeOK
<1> QED BY <1>0, <1>1, <1>2, <1>4, <1>5, <1>6, <1>7, TaskStepKeeps

-----------------------------------------------------------------------------
(* Readers *)

\* A step of the reader of q that leaves everything but the event loop alone.
\* What a step of one reader has to show, for the invariant to survive it.
LEMMA ReaderStepKeeps ==
    ASSUME TurnInv, NEW q \in Questions, ask[q].pc # "idle",
           NEW r, r \in ReaderType, Replaces(reader, q, r),
           r.begin # "none" => r.pc \in {"read", "clean", "closed"},
           patient => \A i \in DOMAIN r.view : IsOf(r.view[i], q),
           UNCHANGED <<turns, stream, renewed, ttl, ask, patient, task>>,
           loop' \subseteq Questions, NoFault \/ \E kind : Fault(kind)
    PROVE  TurnInv'
<1>1. /\ failed' \subseteq FaultKinds /\ Cardinality(failed') <= MaxFaults
      /\ failed \subseteq failed'
    BY FaultType DEF TurnInv
<1>2. /\ reader' \in [Questions -> ReaderType]
      /\ reader'[q] = r /\ \A p \in Questions \ {q} : reader'[p] = reader[p]
    BY ReplaceReader DEF TurnInv
<1>3. TypeOK'
    BY <1>1, <1>2 DEF TurnInv, TypeOK, Turns, Events, Pieces, CallType, TaskType, ReaderType
<1>4. ReadersOfCalls'
    <2> SUFFICES ASSUME NEW p \in Questions
                 PROVE  /\ reader'[p].pc # "none" => ask[p].pc # "idle"
                        /\ reader'[p].begin # "none"
                              => reader'[p].pc \in {"read", "clean", "closed"}
        BY DEF ReadersOfCalls, Seen
    <2>1. CASE p = q
        BY <1>2, <2>1
    <2>2. CASE p # q
        BY <1>2, <2>2 DEF TurnInv, ReadersOfCalls, Seen
    <2> QED BY <2>1, <2>2
<1>5. OwnAnswer'
    <2> SUFFICES ASSUME patient, NEW p \in Questions, NEW i \in DOMAIN reader'[p].view
                 PROVE  IsOf(reader'[p].view[i], p)
        BY DEF OwnAnswer, IsOf
    <2>1. CASE p = q
        BY <1>2, <2>1
    <2>2. CASE p # q
        BY <1>2, <2>2 DEF TurnInv, OwnAnswer
    <2> QED BY <2>1, <2>2
<1>6. SameCalls
    BY DEF SameCalls, TurnOf
<1> QED BY <1>1, <1>3, <1>4, <1>5, <1>6, Unaffected DEF TurnInv

\* A reader that exists belongs to a numbered call.
LEMMA ReaderIsOwn ==
    ASSUME TurnInv, NEW q \in Questions, reader[q].pc # "none"
    PROVE  /\ ask[q].pc # "idle" /\ TurnOf(q) \in Turns
           /\ reader[q] \in ReaderType
           /\ Seen(q) => reader[q].pc \in {"read", "clean", "closed"}
           /\ patient => \A i \in DOMAIN reader[q].view : IsOf(reader[q].view[i], q)
BY DEF TurnInv, TypeOK, ReadersOfCalls, Numbering, OwnAnswer

\* Steps of a reader that change neither what the client has been handed nor what
\* was its first event.
LEMMA ReaderMoves ==
    ASSUME TurnInv, NEW q \in Questions, reader[q].pc # "none",
           NEW r \in ReaderType, Replaces(reader, q, r),
           r.view = reader[q].view, r.begin = reader[q].begin,
           Seen(q) => r.pc \in {"read", "clean", "closed"},
           UNCHANGED <<turns, stream, renewed, ttl, ask, patient, task, failed>>,
           loop' \subseteq Questions
    PROVE  TurnInv'
<1>1. r.begin # "none" => r.pc \in {"read", "clean", "closed"}
    BY DEF Seen
<1>2. /\ ask[q].pc # "idle"
      /\ patient => \A i \in DOMAIN r.view : IsOf(r.view[i], q)
    BY ReaderIsOwn
<1> QED BY <1>1, <1>2, ReaderStepKeeps DEF NoFault

LEMMA LookForStreamStep ==
    ASSUME TurnInv, NEW q \in Questions, LookForStream(q)
    PROVE  TurnInv'
<1> DEFINE pc == IF Exists(TurnOf(q)) THEN "read" ELSE "tail"
           r  == [reader[q] EXCEPT !.pc = pc, !.pos = 0]
<1>0. /\ reader[q].pc = "look" /\ Replaces(reader, q, r)
      /\ UNCHANGED <<turns, stream, renewed, ttl, ask, patient, task, failed>>
      /\ loop' = {q}
    BY DEF LookForStream, Replaces, streamVars
<1>1. reader[q] \in ReaderType /\ ~Seen(q)
    BY <1>0, ReaderIsOwn
<1>2. r \in ReaderType /\ r.view = reader[q].view /\ r.begin = reader[q].begin
    BY <1>1 DEF ReaderType
<1>3. /\ Seen(q) => r.pc \in {"read", "clean", "closed"}
      /\ reader[q].pc # "none" /\ loop' \subseteq Questions
    BY <1>0, <1>1
<1> HIDE DEF r
<1> QED BY <1>0, <1>2, <1>3, ReaderMoves

LEMMA TailStreamStep ==
    ASSUME TurnInv, NEW q \in Questions, TailStream(q)
    PROVE  TurnInv'
<1> DEFINE n == Len(stream[TurnOf(q)])
           r == [reader[q] EXCEPT !.pc = "read", !.pos = n]
<1>0. /\ reader[q].pc = "tail" /\ Replaces(reader, q, r)
      /\ UNCHANGED <<turns, stream, renewed, ttl, ask, patient, task, loop, failed>>
    BY DEF TailStream, Replaces, streamVars
<1>1. reader[q] \in ReaderType /\ TurnOf(q) \in Turns
    BY <1>0, ReaderIsOwn
<1>2. n \in Nat /\ loop' \subseteq Questions
    BY <1>0, <1>1 DEF TurnInv, TypeOK
<1> HIDE DEF n
<1>3. /\ r \in ReaderType /\ r.pc = "read"
      /\ r.view = reader[q].view /\ r.begin = reader[q].begin
    BY <1>1, <1>2 DEF ReaderType
<1> HIDE DEF r
<1> QED BY <1>0, <1>2, <1>3, ReaderMoves

LEMMA ClientGoneStep ==
    ASSUME TurnInv, NEW q \in Questions, ClientGone(q)
    PROVE  TurnInv'
<1> DEFINE r == [reader[q] EXCEPT !.pc = "clean"]
<1>0. /\ reader[q].pc = "read" /\ Replaces(reader, q, r)
      /\ UNCHANGED <<turns, stream, renewed, ttl, ask, patient, task, failed>>
      /\ loop' = {}
    BY DEF ClientGone, HasEvents, ReaderGoto, Replaces, streamVars
<1>1. reader[q] \in ReaderType
    BY <1>0, ReaderIsOwn
<1>2. /\ r \in ReaderType /\ r.pc = "clean"
      /\ r.view = reader[q].view /\ r.begin = reader[q].begin
    BY <1>1 DEF ReaderType
<1> HIDE DEF r
<1> QED BY <1>0, <1>2, ReaderMoves

LEMMA ReadNothingStep ==
    ASSUME TurnInv, NEW q \in Questions, ReadNothing(q)
    PROVE  TurnInv'
<1> DEFINE pc == IF ~Seen(q) THEN "look" ELSE "read"
           r  == [reader[q] EXCEPT !.pc = pc]
<1>0. /\ reader[q].pc = "read" /\ Replaces(reader, q, r)
      /\ UNCHANGED <<turns, stream, renewed, ttl, ask, patient, task, failed>>
      /\ loop' = {q}
    BY DEF ReadNothing, HasNone, ReaderGoto, Replaces, streamVars
<1>1. reader[q] \in ReaderType
    BY <1>0, ReaderIsOwn
<1>2. /\ r \in ReaderType
      /\ Seen(q) => r.pc = "read"
      /\ r.view = reader[q].view /\ r.begin = reader[q].begin
    BY <1>1 DEF ReaderType
<1> HIDE DEF r
<1> QED BY <1>0, <1>2, ReaderMoves

LEMMA TimeOutStep ==
    ASSUME TurnInv, NEW q \in Questions, TimeOut(q)
    PROVE  TurnInv'
<1> DEFINE r == [reader[q] EXCEPT !.pc = "clean", !.end = "error"]
<1>0. /\ reader[q].pc = "read" /\ Replaces(reader, q, r)
      /\ UNCHANGED <<turns, stream, renewed, ttl, ask, patient, task, failed>>
      /\ loop' = {}
    BY DEF TimeOut, HasNone, Replaces, streamVars
<1>1. reader[q] \in ReaderType
    BY <1>0, ReaderIsOwn
<1>2. /\ r \in ReaderType /\ r.pc = "clean"
      /\ r.view = reader[q].view /\ r.begin = reader[q].begin
    BY <1>1 DEF ReaderType
<1> HIDE DEF r
<1> QED BY <1>0, <1>2, ReaderMoves

LEMMA ReaderFailsStep ==
    ASSUME TurnInv, NEW q \in Questions, ReaderFails(q)
    PROVE  TurnInv'
<1> DEFINE r == [reader[q] EXCEPT !.pc = "clean"]
<1>0. /\ reader[q].pc \in {"look", "tail", "read"} /\ Replaces(reader, q, r)
      /\ UNCHANGED <<turns, stream, renewed, ttl, ask, patient, task>>
      /\ loop' = {} /\ Fault("redis")
    BY DEF ReaderFails, ReaderGoto, Replaces, streamVars
<1>1. reader[q] \in ReaderType
    BY <1>0, ReaderIsOwn
<1>2. /\ r \in ReaderType /\ r.pc = "clean"
      /\ r.view = reader[q].view /\ r.begin = reader[q].begin
    BY <1>1 DEF ReaderType
<1>3. /\ ask[q].pc # "idle"
      /\ patient => \A i \in DOMAIN r.view : IsOf(r.view[i], q)
    BY <1>0, <1>2, ReaderIsOwn
<1> HIDE DEF r
<1> QED BY <1>0, <1>2, <1>3, ReaderStepKeeps

\* What a read hands on is the part of the stream right behind the position.
LEMMA HandedIsNext ==
    ASSUME TurnInv, NEW q \in Questions, reader[q].pc = "read", Ahead(q) # <<>>
    PROVE  /\ Handed(q) \in Seq(Events)
           /\ Len(Handed(q)) \in Nat \ {0}
           /\ reader[q].pos + Len(Handed(q)) <= Len(stream[TurnOf(q)])
           /\ Handed(q) = SubSeq(stream[TurnOf(q)], reader[q].pos + 1,
                                 reader[q].pos + Len(Handed(q)))
<1> DEFINE s == stream[TurnOf(q)]
           n == Len(s)
           p == reader[q].pos
           a == Ahead(q)
           D == {i \in DOMAIN a : a[i] = Done} \cup {Len(a)}
           m == Min(D)
<1>1. s \in Seq(Events) /\ n \in Nat /\ p \in Nat
    <2>1. TurnOf(q) \in Turns /\ reader[q] \in ReaderType
        BY ReaderIsOwn
    <2> QED BY <2>1 DEF TurnInv, TypeOK, ReaderType
<1>2. a = SubSeq(s, p + 1, n)
    BY DEF Ahead
<1> HIDE DEF s, p, a
<1>3. p + 1 <= n
    <2> SUFFICES ASSUME n < p + 1 PROVE FALSE
        BY <1>1
    <2> QED BY <1>1, <1>2, SubSeqEmpty DEF a
<1>4. a \in Seq(Events) /\ Len(a) = n - p /\ Len(a) \in Nat \ {0}
    <2>1. \A i \in p + 1 .. n : s[i] \in Events
        BY <1>1
    <2>2. p + 1 \in Int /\ n \in Int
        BY <1>1
    <2> HIDE DEF n
    <2>3. /\ SubSeq(s, p + 1, n) \in Seq(Events)
          /\ Len(SubSeq(s, p + 1, n)) = IF p + 1 <= n THEN n - (p + 1) + 1 ELSE 0
        BY <2>1, <2>2, SubSeqProperties
    <2> QED BY <1>1, <1>2, <1>3, <2>3
<1>5. m \in 1 .. Len(a)
    <2>1. D \in SUBSET Nat /\ D # {} /\ D \subseteq 1 .. Len(a)
        BY <1>4
    <2> HIDE DEF D
    <2> QED BY <2>1, MinOf
<1> HIDE DEF m, n
<1>6. Handed(q) = SubSeq(a, 1, m)
    BY DEF Handed, m, D, a
<1>7. Handed(q) = SubSeq(s, p + 1, p + m)
    <2>1. /\ p + 1 \in 1 .. n /\ n \in 1 .. n
          /\ 1 \in 1 .. n - (p + 1) + 1 /\ m \in 1 .. n - (p + 1) + 1
        BY <1>1, <1>3, <1>4, <1>5
    <2>2. SubSeq(SubSeq(s, p + 1, n), 1, m) = SubSeq(s, (p + 1) + 1 - 1, (p + 1) + m - 1)
        BY <1>1, <2>1, SubSeqOfSubSeq DEF n
    <2>3. (p + 1) + 1 - 1 = p + 1 /\ (p + 1) + m - 1 = p + m
        BY <1>1, <1>5, <1>4
    <2> QED BY <1>2, <1>6, <2>2, <2>3
<1>8. p + m <= n /\ m \in Nat \ {0}
    BY <1>1, <1>4, <1>5
<1>9. Handed(q) \in Seq(Events) /\ Len(Handed(q)) = m
    <2>1. \A i \in p + 1 .. p + m : s[i] \in Events
        BY <1>1, <1>8 DEF n
    <2>2. p + 1 <= p + m /\ (p + m) - (p + 1) + 1 = m /\ p + 1 \in Int /\ p + m \in Int
        BY <1>1, <1>8
    <2> QED BY <1>7, <2>1, <2>2, SubSeqProperties
<1> QED BY <1>7, <1>8, <1>9 DEF s, p, n

LEMMA RelayEventsStep ==
    ASSUME TurnInv, NEW q \in Questions, RelayEvents(q)
    PROVE  TurnInv'
<1> DEFINE h   == Handed(q)
           pc  == IF Ended(q) THEN "clean" ELSE "read"
           beg == IF Seen(q) THEN reader[q].begin ELSE BeginOf(q)
           end == IF Ended(q) THEN "done" ELSE reader[q].end
           r   == [reader[q] EXCEPT !.pc = pc, !.pos = @ + Len(h), !.begin = beg,
                                    !.view = @ \o h, !.end = end]
<1>0. /\ reader[q].pc = "read" /\ Ahead(q) # <<>> /\ loop' = {}
      /\ Replaces(reader, q, r)
      /\ UNCHANGED <<turns, stream, renewed, ttl, ask, patient, task, failed>>
    BY DEF RelayEvents, HasEvents, Relay, Replaces, streamVars
<1>1. /\ ask[q].pc # "idle" /\ TurnOf(q) \in Turns /\ reader[q] \in ReaderType
      /\ patient => \A i \in DOMAIN reader[q].view : IsOf(reader[q].view[i], q)
    BY <1>0, ReaderIsOwn
<1>2. /\ h \in Seq(Events) /\ Len(h) \in Nat
      /\ h = SubSeq(stream[TurnOf(q)], reader[q].pos + 1, reader[q].pos + Len(h))
      /\ reader[q].pos + Len(h) <= Len(stream[TurnOf(q)])
    BY <1>0, HandedIsNext
<1>3. patient => \A i \in DOMAIN h : IsOf(h[i], q)
    <2> SUFFICES ASSUME patient, NEW i \in DOMAIN h PROVE IsOf(h[i], q)
        OBVIOUS
    <2> DEFINE s == stream[TurnOf(q)]
               p0 == reader[q].pos
               l == Len(h)
               j == p0 + i
    <2>1. /\ s \in Seq(Events) /\ Len(s) \in Nat /\ p0 \in Nat /\ l \in Nat
          /\ i \in 1 .. l /\ p0 + l <= Len(s) /\ h = SubSeq(s, p0 + 1, p0 + l)
        BY <1>1, <1>2 DEF TurnInv, TypeOK, ReaderType
    <2> HIDE DEF h, s, p0, l
    <2>2. h[i] = s[j] /\ j \in DOMAIN s
        <3>1. /\ p0 + 1 \in Int /\ p0 + l \in Int
              /\ \A x \in p0 + 1 .. p0 + l : x \in 1 .. Len(s)
              /\ i \in 1 .. (p0 + l) - (p0 + 1) + 1
              /\ (p0 + 1) + i - 1 = j
              /\ j \in 1 .. Len(s)
            BY <2>1
        <3>2. \A x \in p0 + 1 .. p0 + l : s[x] \in Events
            BY <2>1, <3>1
        <3>3. \A x \in 1 .. (p0 + l) - (p0 + 1) + 1 :
                 SubSeq(s, p0 + 1, p0 + l)[x] = s[(p0 + 1) + x - 1]
            <4> DEFINE m0 == p0 + 1
                       n0 == p0 + l
            <4>1. m0 \in Int /\ n0 \in Int /\ \A x \in m0 .. n0 : s[x] \in Events
                BY <3>1, <3>2
            <4> HIDE DEF m0, n0
            <4>2. \A x \in 1 .. n0 - m0 + 1 : SubSeq(s, m0, n0)[x] = s[m0 + x - 1]
                BY <4>1, SubSeqProperties
            <4> QED BY <4>2 DEF m0, n0
        <3>4. h[i] = SubSeq(s, p0 + 1, p0 + l)[i]
            BY <2>1
        <3>5. SubSeq(s, p0 + 1, p0 + l)[i] = s[(p0 + 1) + i - 1]
            BY <3>1, <3>3
        <3>6. DOMAIN s = 1 .. Len(s)
            BY <2>1
        <3> HIDE DEF j
        <3> QED BY <3>1, <3>4, <3>5, <3>6
    <2>3. PICK p \in Questions : /\ ask[p].pc # "idle" /\ TurnOf(p) = TurnOf(q)
                                 /\ IsOf(s[j], p)
        BY <1>1, <2>2 DEF TurnInv, StreamsOfCalls, s
    <2>4. p = q
        BY <1>1, <2>3 DEF TurnInv, PatientAlone, Alone
    <2> QED BY <2>2, <2>3, <2>4
<1> HIDE DEF h
<1>4. /\ reader[q].view \in Seq(Events) /\ reader[q].view \o h \in Seq(Events)
      /\ reader[q].pos + Len(h) \in Nat
    BY <1>1, <1>2 DEF ReaderType
<1>5. patient => \A i \in DOMAIN (reader[q].view \o h) : IsOf((reader[q].view \o h)[i], q)
    <2> DEFINE v == reader[q].view
    <2> SUFFICES ASSUME patient, NEW i \in DOMAIN (v \o h)
                 PROVE  IsOf((v \o h)[i], q)
        OBVIOUS
    <2>1. v \in Seq(Events) /\ h \in Seq(Events)
        BY <1>2, <1>4
    <2>2. \A x \in DOMAIN v : IsOf(v[x], q)
        BY <1>1
    <2> HIDE DEF v
    <2>3. CASE i \in 1 .. Len(v)
        <3>1. (v \o h)[i] = v[i] /\ i \in DOMAIN v
            BY <2>1, <2>3
        <3> QED BY <2>2, <3>1
    <2>4. CASE i \notin 1 .. Len(v)
        <3>1. (v \o h)[i] = h[i - Len(v)] /\ i - Len(v) \in DOMAIN h
            BY <2>1, <2>4
        <3> QED BY <1>3, <3>1
    <2> QED BY <2>3, <2>4
<1>6. beg \in {"none", "first", "later"}
    BY <1>1 DEF BeginOf, ReaderType
<1>7. end \in {"open", "done", "error"}
    BY <1>1 DEF ReaderType
<1> HIDE DEF beg, end
<1>8. /\ r \in ReaderType /\ r.view = reader[q].view \o h
      /\ r.pc \in {"read", "clean", "closed"}
    BY <1>1, <1>4, <1>6, <1>7 DEF ReaderType
<1> HIDE DEF r
<1>9. /\ r.begin # "none" => r.pc \in {"read", "clean", "closed"}
      /\ patient => \A i \in DOMAIN r.view : IsOf(r.view[i], q)
      /\ loop' \subseteq Questions
    BY <1>0, <1>5, <1>8
<1> QED BY <1>0, <1>1, <1>8, <1>9, ReaderStepKeeps DEF NoFault

LEMMA OpenStreamStep ==
    ASSUME TurnInv, NEW q \in Questions, OpenStream(q)
    PROVE  TurnInv'
<1>0. /\ reader[q].pc = "none" /\ ask[q].pc = "asked"
      /\ NoFault \/ \E kind : Fault(kind)
      /\ UNCHANGED <<turns, stream, renewed, ttl, ask, patient, task, loop>>
    BY DEF OpenStream, streamVars
<1>1. /\ reader[q] \in ReaderType /\ ~Seen(q)
      /\ TurnOf(q) \in Turns /\ loop' \subseteq Questions
    BY <1>0 DEF TurnInv, TypeOK, ReadersOfCalls, Numbering
<1>2. CASE ReaderGoto(q, "look")
    <2> DEFINE r == [reader[q] EXCEPT !.pc = "look"]
    <2>1. Replaces(reader, q, r)
        BY <1>2 DEF ReaderGoto, Replaces
    <2>2. /\ r \in ReaderType /\ r.begin = reader[q].begin /\ r.view = reader[q].view
        BY <1>1 DEF ReaderType
    <2> HIDE DEF r
    <2>3. /\ r.begin = "none"
          /\ patient => \A i \in DOMAIN r.view : IsOf(r.view[i], q)
        BY <1>1, <2>2 DEF Seen, TurnInv, OwnAnswer
    <2> QED BY <1>0, <1>1, <2>1, <2>2, <2>3, ReaderStepKeeps
<1>3. ASSUME NEW x \in SavedAt(TurnOf(q)),
             reader' = [reader EXCEPT ![q].pc = "closed", ![q].end = "done",
                                      ![q].view = <<Token(x.answer)>>]
      PROVE  TurnInv'
    <2> DEFINE e == Token(x.answer)
               r == [reader[q] EXCEPT !.pc = "closed", !.end = "done", !.view = <<e>>]
    <2>1. Replaces(reader, q, r)
        BY <1>3 DEF Replaces
    <2>2. /\ x \in turns /\ x.answer \in Seq(Pieces)
          /\ \A i \in DOMAIN x.answer : x.answer[i].of = x.of
        BY DEF SavedAt, TurnInv, TypeOK, RowsOfCalls
    <2>3. e \in Events /\ e.content = x.answer
        BY <2>2 DEF Token, Events
    <2>4. patient => IsOf(e, q)
        BY <1>0, <2>2, <2>3, OwnRow DEF IsOf
    <2> HIDE DEF e
    <2>5. <<e>> \in Seq(Events) /\ DOMAIN <<e>> = {1} /\ <<e>>[1] = e
        BY <2>3
    <2>6. r \in ReaderType /\ r.view = <<e>> /\ r.pc = "closed"
        BY <1>1, <2>5 DEF ReaderType
    <2> HIDE DEF r
    <2>7. patient => \A i \in DOMAIN r.view : IsOf(r.view[i], q)
        BY <2>4, <2>5, <2>6
    <2> QED BY <1>0, <1>1, <2>1, <2>6, <2>7, ReaderStepKeeps
<1> QED BY <1>2, <1>3 DEF OpenStream

\* A reader that is closed has the type, and its client still holds only what it saw.
LEMMA ClosedIsOwn ==
    ASSUME TurnInv, NEW q \in Questions
    PROVE  /\ Closed(q) \in ReaderType /\ Closed(q).pc = "closed"
           /\ patient => \A i \in DOMAIN Closed(q).view : IsOf(Closed(q).view[i], q)
<1>1. reader[q] \in ReaderType
    BY DEF TurnInv, TypeOK
<1>2. CASE reader[q].end = "done"
    <2> DEFINE r == [reader[q] EXCEPT !.pc = "closed", !.pos = 0]
    <2>1. r \in ReaderType /\ r.pc = "closed" /\ r.view = reader[q].view
        BY <1>1 DEF ReaderType
    <2>2. Closed(q) = r
        BY <1>2 DEF Closed
    <2> HIDE DEF r
    <2> QED BY <2>1, <2>2 DEF TurnInv, OwnAnswer
<1>3. CASE reader[q].end # "done"
    <2> DEFINE r == [NoReader EXCEPT !.pc = "closed"]
    <2>1. <<>> \in Seq(Events)
        OBVIOUS
    <2>2. r \in ReaderType /\ r.pc = "closed" /\ r.view = <<>>
        BY <2>1 DEF ReaderType, NoReader
    <2>3. Closed(q) = r
        BY <1>3 DEF Closed
    <2> HIDE DEF r
    <2> QED BY <2>2, <2>3
<1> QED BY <1>2, <1>3

\* A step of several readers at once, and the removal of a key.
\* What a step of the API's readers has to show, for the invariant to survive it.
LEMMA ReadersChange ==
    ASSUME TurnInv, reader' \in [Questions -> ReaderType],
           stream' \in [Turns -> Seq(Events)],
           renewed' \in [Turns -> BOOLEAN], ttl' \in [Turns -> BOOLEAN],
           \A t \in Turns : stream'[t] \in {<<>>, stream[t]},
           ask' \in [Questions -> CallType], SameCalls,
           \A q \in Questions :
              /\ reader'[q].pc # "none" => reader[q].pc # "none"
              /\ reader'[q].begin # "none" => reader'[q].pc \in {"read", "clean", "closed"}
              /\ patient => \A i \in DOMAIN reader'[q].view : IsOf(reader'[q].view[i], q),
           UNCHANGED <<turns, patient, task>>,
           loop' \subseteq Questions, NoFault \/ \E kind : Fault(kind)
    PROVE  TurnInv'
<1>1. /\ failed' \subseteq FaultKinds /\ Cardinality(failed') <= MaxFaults
      /\ failed \subseteq failed'
    BY FaultType DEF TurnInv
<1>2. TypeOK'
    BY <1>1 DEF TurnInv, TypeOK, Turns, Events, Pieces, CallType, TaskType, ReaderType
<1>3. StreamsOfCalls'
    <2> SUFFICES ASSUME NEW t \in Turns, NEW i \in DOMAIN stream'[t]
                 PROVE  \E q \in Questions : /\ ask'[q].pc # "idle" /\ TurnOf(q)' = t
                                             /\ IsOf(stream'[t][i], q)
        BY DEF StreamsOfCalls, IsOf, Turns
    <2>1. stream'[t] # <<>>
        OBVIOUS
    <2>2. stream'[t] = stream[t]
        BY <2>1
    <2> QED BY <2>2 DEF TurnInv, StreamsOfCalls, SameCalls
<1>4. ReadersOfCalls'
    BY DEF TurnInv, ReadersOfCalls, SameCalls, Seen
<1>5. OwnAnswer'
    BY DEF OwnAnswer, IsOf
<1> QED BY <1>1, <1>2, <1>3, <1>4, <1>5, Unaffected DEF TurnInv

\* Removing a key empties one stream at most and keeps the types.
LEMMA KeyRemoved ==
    ASSUME TurnInv, NEW t \in Turns, RemoveKey(t)
    PROVE  /\ stream' \in [Turns -> Seq(Events)]
           /\ renewed' \in [Turns -> BOOLEAN] /\ ttl' \in [Turns -> BOOLEAN]
           /\ \A u \in Turns : stream'[u] \in {<<>>, stream[u]}
<1>1. <<>> \in Seq(Events)
    OBVIOUS
<1> QED BY <1>1 DEF TurnInv, TypeOK, RemoveKey

LEMMA DeleteStreamStep ==
    ASSUME TurnInv, NEW q \in Questions, DeleteStream(q)
    PROVE  TurnInv'
<1> DEFINE t == TurnOf(q)
<1>0. /\ reader[q].pc = "clean"
      /\ NoFault \/ \E kind : Fault(kind)
      /\ UNCHANGED <<turns, ask, patient, task, loop>>
    BY DEF DeleteStream
<1>1. t \in Turns /\ SameCalls /\ loop' \subseteq Questions /\ ask' \in [Questions -> CallType]
    BY <1>0, ReaderIsOwn DEF SameCalls, TurnOf, TurnInv, TypeOK
<1>2. /\ stream' \in [Turns -> Seq(Events)]
      /\ renewed' \in [Turns -> BOOLEAN] /\ ttl' \in [Turns -> BOOLEAN]
      /\ \A u \in Turns : stream'[u] \in {<<>>, stream[u]}
    <2>1. CASE RemoveKey(t)
        BY <1>1, <2>1, KeyRemoved
    <2>2. CASE UNCHANGED streamVars
        BY <2>2 DEF streamVars, TurnInv, TypeOK
    <2> QED BY <2>1, <2>2 DEF DeleteStream
<1>3. \A p \in Questions : LET r == [reader[p] EXCEPT !.pos = 0]
                           IN  /\ r \in ReaderType
                               /\ r.pc = reader[p].pc /\ r.begin = reader[p].begin
                               /\ r.view = reader[p].view
    BY DEF TurnInv, TypeOK, ReaderType
<1>4. /\ reader' \in [Questions -> ReaderType]
      /\ reader'[q] = Closed(q)
      /\ \A p \in Questions \ {q} : reader'[p] \in {reader[p], [reader[p] EXCEPT !.pos = 0]}
    <2>1. \A p \in Questions : Closed(p) \in ReaderType /\ reader[p] \in ReaderType
        BY ClosedIsOwn DEF TurnInv, TypeOK
    <2>2. CASE reader' = [reader EXCEPT ![q] = Closed(q)]
        BY <2>1, <2>2 DEF TurnInv, TypeOK
    <2>3. CASE reader' = [p \in Questions |->
                    IF p = q THEN Closed(p)
                    ELSE IF TurnOf(p) = t THEN [reader[p] EXCEPT !.pos = 0]
                    ELSE reader[p]]
        BY <1>3, <2>1, <2>3
    <2> QED BY <2>2, <2>3 DEF DeleteStream
<1>5. ASSUME NEW p \in Questions
      PROVE  /\ reader'[p].pc # "none" => reader[p].pc # "none"
             /\ reader'[p].begin # "none" => reader'[p].pc \in {"read", "clean", "closed"}
             /\ patient => \A i \in DOMAIN reader'[p].view : IsOf(reader'[p].view[i], p)
    <2>1. CASE p = q
        BY <1>0, <1>4, <2>1, ClosedIsOwn
    <2>2. CASE p # q
        <3>1. /\ reader'[p].pc = reader[p].pc /\ reader'[p].begin = reader[p].begin
              /\ reader'[p].view = reader[p].view
            BY <1>3, <1>4, <2>2
        <3> QED BY <3>1 DEF TurnInv, ReadersOfCalls, OwnAnswer, Seen
    <2> QED BY <2>1, <2>2
<1> QED BY <1>0, <1>1, <1>2, <1>4, <1>5, ReadersChange

LEMMA ApiLostStep ==
    ASSUME TurnInv, ApiLost
    PROVE  TurnInv'
<1>0. /\ ask' = [q \in Questions |->
             IF ask[q].pc = "numbered" THEN [ask[q] EXCEPT !.pc = "refused"] ELSE ask[q]]
      /\ reader' = [q \in Questions |->
             IF reader[q].pc = "none" THEN reader[q] ELSE Closed(q)]
      /\ loop' = {} /\ Fault("api")
      /\ UNCHANGED <<turns, stream, renewed, ttl, patient, task>>
    BY DEF ApiLost, streamVars
<1>1. ask' \in [Questions -> CallType] /\ SameCalls
    <2>1. \A q \in Questions : LET r == [ask[q] EXCEPT !.pc = "refused"]
                               IN  r \in CallType /\ r.pc = "refused" /\ r.turn = ask[q].turn
        BY DEF TurnInv, TypeOK, CallType
    <2>2. \A q \in Questions : ask[q] \in CallType
        BY DEF TurnInv, TypeOK
    <2> QED BY <1>0, <2>1, <2>2 DEF SameCalls, TurnOf
<1>2. \A q \in Questions : reader[q] \in ReaderType /\ Closed(q) \in ReaderType
    BY ClosedIsOwn DEF TurnInv, TypeOK
<1>3. reader' \in [Questions -> ReaderType]
    BY <1>0, <1>2
<1>4. ASSUME NEW p \in Questions
      PROVE  /\ reader'[p].pc # "none" => reader[p].pc # "none"
             /\ reader'[p].begin # "none" => reader'[p].pc \in {"read", "clean", "closed"}
             /\ patient => \A i \in DOMAIN reader'[p].view : IsOf(reader'[p].view[i], p)
    <2>1. CASE reader[p].pc = "none"
        <3>1. reader'[p] = reader[p]
            BY <1>0, <2>1
        <3> QED BY <3>1 DEF TurnInv, ReadersOfCalls, OwnAnswer, Seen
    <2>2. CASE reader[p].pc # "none"
        <3>1. reader'[p] = Closed(p)
            BY <1>0, <2>2
        <3> QED BY <2>2, <3>1, ClosedIsOwn
    <2> QED BY <2>1, <2>2
<1>5. /\ stream' \in [Turns -> Seq(Events)]
      /\ renewed' \in [Turns -> BOOLEAN] /\ ttl' \in [Turns -> BOOLEAN]
      /\ \A t \in Turns : stream'[t] \in {<<>>, stream[t]}
      /\ loop' \subseteq Questions
    BY <1>0 DEF TurnInv, TypeOK
<1> QED BY <1>0, <1>1, <1>3, <1>4, <1>5, ReadersChange

\* What the end of the key of turn t does to the reader of q
Outdated(q, t) ==
    /\ reader'[q].pc = reader[q].pc /\ reader'[q].view = reader[q].view
    /\ reader'[q].end = reader[q].end
    /\ IF TurnOf(q) = t /\ reader[q].pc = "read"
       THEN reader'[q].begin \in {"none", "later"} /\ (reader'[q].begin = "none" <=> ~Seen(q))
       ELSE reader'[q] = reader[q]

LEMMA ExpiredUnder ==
    ASSUME TurnInv, NEW t \in Turns, Expire(t)
    PROVE  reader' \in [Questions -> ReaderType] /\ \A q \in Questions : Outdated(q, t)
<1> DEFINE b(q) == IF Seen(q) THEN "later" ELSE reader[q].begin
           r(q) == [reader[q] EXCEPT !.pos = 0, !.begin = b(q)]
<1>1. reader' = [q \in Questions |->
                    IF TurnOf(q) = t /\ reader[q].pc = "read" THEN r(q) ELSE reader[q]]
    BY DEF Expire, TurnInv, TypeOK, ReaderType
<1>2. ASSUME NEW q \in Questions
      PROVE  /\ reader[q] \in ReaderType /\ r(q) \in ReaderType
             /\ r(q).pc = reader[q].pc /\ r(q).view = reader[q].view
             /\ r(q).end = reader[q].end /\ r(q).begin = b(q)
             /\ b(q) \in {"none", "later"} /\ (b(q) = "none" <=> ~Seen(q))
    <2>1. reader[q] \in ReaderType
        BY DEF TurnInv, TypeOK
    <2>2. b(q) \in {"none", "later"} /\ (b(q) = "none" <=> ~Seen(q))
        BY DEF Seen
    <2> HIDE DEF b
    <2> QED BY <2>1, <2>2 DEF ReaderType
<1> HIDE DEF r, b
<1>3. reader' \in [Questions -> ReaderType]
    BY <1>1, <1>2
<1>4. ASSUME NEW q \in Questions PROVE Outdated(q, t)
    <2>1. CASE TurnOf(q) = t /\ reader[q].pc = "read"
        BY <1>1, <1>2, <2>1 DEF Outdated
    <2>2. CASE ~(TurnOf(q) = t /\ reader[q].pc = "read")
        BY <1>1, <2>2 DEF Outdated
    <2> QED BY <2>1, <2>2
<1> QED BY <1>3, <1>4

LEMMA ExpireStep ==
    ASSUME TurnInv, NEW t \in Turns, Expire(t)
    PROVE  TurnInv'
<1>0. /\ RemoveKey(t)
      /\ UNCHANGED <<turns, ask, patient, task, loop, failed>>
    BY DEF Expire
<1>1. /\ stream' \in [Turns -> Seq(Events)]
      /\ renewed' \in [Turns -> BOOLEAN] /\ ttl' \in [Turns -> BOOLEAN]
      /\ \A u \in Turns : stream'[u] \in {<<>>, stream[u]}
    BY <1>0, KeyRemoved
<1>2. /\ SameCalls /\ loop' \subseteq Questions /\ ask' \in [Questions -> CallType]
      /\ NoFault
    BY <1>0 DEF SameCalls, TurnOf, TurnInv, TypeOK, NoFault
<1>4. reader' \in [Questions -> ReaderType] /\ \A q \in Questions : Outdated(q, t)
    BY ExpiredUnder
<1>3. \A q \in Questions :
          /\ reader'[q].pc # "none" => reader[q].pc # "none"
          /\ reader'[q].begin # "none" => reader'[q].pc \in {"read", "clean", "closed"}
          /\ patient => \A i \in DOMAIN reader'[q].view : IsOf(reader'[q].view[i], q)
    BY <1>4 DEF TurnInv, ReadersOfCalls, OwnAnswer, Seen, Outdated
<1> QED BY <1>0, <1>1, <1>2, <1>3, <1>4, ReadersChange

\* Every step keeps the invariant, one case per action.
LEMMA NextTurnInv == TurnInv /\ [Next]_vars => TurnInv'
<1> SUFFICES ASSUME TurnInv, [Next]_vars PROVE TurnInv'
    OBVIOUS
<1>1. ASSUME NEW q \in Questions, NumberTurn(q) \/ DispatchQuery(q) \/ WorkerLost(q)
      PROVE  TurnInv'
    BY <1>1, NumberTurnStep, DispatchQueryStep, WorkerLostStep
<1>2. ASSUME NEW q \in Questions, TaskStep(q)
      PROVE  TurnInv'
    BY <1>2, RunStep, PublishStep, SaveTurnStep, FinishTaskStep DEF TaskStep
<1>3. ASSUME NEW q \in Questions, OpenStream(q) \/ ClientGone(q) \/ ReaderFails(q)
      PROVE  TurnInv'
    BY <1>3, OpenStreamStep, ClientGoneStep, ReaderFailsStep
<1>4. ASSUME NEW q \in Questions, ReaderStep(q)
      PROVE  TurnInv'
    BY <1>4, LookForStreamStep, TailStreamStep, RelayEventsStep, ReadNothingStep,
       TimeOutStep, DeleteStreamStep DEF ReaderStep
<1>5. CASE ApiLost
    BY <1>5, ApiLostStep
<1>6. ASSUME NEW t \in Turns, Expire(t)
      PROVE  TurnInv'
    BY <1>6, ExpireStep
<1>7. CASE UNCHANGED vars
    <2>1. SameCalls /\ patient' = patient /\ failed \subseteq failed' /\ TypeOK'
        BY <1>7 DEF vars, streamVars, SameCalls, TurnOf, TurnInv, TypeOK, Turns, Events,
                    Pieces, CallType, TaskType, ReaderType
    <2> QED BY <1>7, <2>1, Unaffected DEF TurnInv, vars, streamVars
<1> QED BY <1>1, <1>2, <1>3, <1>4, <1>5, <1>6, <1>7 DEF Next

\* TurnInv holds in every reachable state: the numbering, the tasks, the streams and the
\* readers of handle_query and rag_query_task stay consistent through crashes, faults and
\* expired keys.
THEOREM TurnInvariant == Spec => []TurnInv
<1> QED BY InitTurnInv, NextTurnInv, PTL DEF Spec

\* Every variable keeps its type; with RoomForAnother this says that the turn indexes the
\* API gives out never run past the number of questions.
THEOREM TypeCorrect == Spec => []TypeOK
<1>1. TurnInv => TypeOK
    BY DEF TurnInv
<1> QED BY <1>1, TurnInvariant, PTL

\* The saved history of a session has no missing index below a saved one, although the
\* index is read in the API before the row is inserted by a worker, and either may fail.
THEOREM TurnsHaveNoHoles == Spec => []NoHoles
<1>1. TurnInv => NoHoles
    <2> SUFFICES ASSUME TurnInv, NEW r \in turns, NEW i \in 1 .. r.index
                 PROVE  SavedAt(i) # {}
        BY DEF NoHoles
    <2>1. /\ r.of \in Questions /\ ask[r.of].pc # "idle"
          /\ r.index = TurnOf(r.of) /\ r.index \in Nat
        BY CardinalityNat DEF TurnInv, TypeOK, RowsOfCalls, Turns
    <2>2. CASE i = r.index
        BY <2>2 DEF SavedAt
    <2>3. CASE i # r.index
        <3>1. i \in 1 .. TurnOf(r.of) - 1
            BY <2>1, <2>3
        <3> QED BY <2>1, <3>1 DEF TurnInv, Numbering
    <2> QED BY <2>2, <2>3
<1> QED BY <1>1, TurnInvariant, PTL

\* A client that waits for its turn to be saved before it asks again is shown pieces of
\* the answer to its own question only, although streams are keyed by the turn index and
\* outlive the call that filled them.
THEOREM ClientsSeeTheirOwn == Spec => []OwnAnswer
<1>1. TurnInv => OwnAnswer
    BY DEF TurnInv
<1> QED BY <1>1, TurnInvariant, PTL

\* With such a client and a database that refuses nothing, a task that is over has left a
\* saved turn: the ON CONFLICT of the insert never discards one.
THEOREM FinishedTurnsAreKept == Spec => []EveryTurnKept
<1>1. TurnInv => EveryTurnKept
    BY DEF TurnInv, SavedWhenOver, EveryTurnKept
<1> QED BY <1>1, TurnInvariant, PTL

-----------------------------------------------------------------------------
(* Nothing is skipped *)

\* A reader that did not move handed over nothing.
LEMMA Stays ==
    ASSUME TurnInv, NEW q \in Questions,
           reader'[q].pos = reader[q].pos, reader'[q].view = reader[q].view
    PROVE  HandedBetween(q)
<1> DEFINE p == reader[q].pos
           v == reader[q].view
           s == stream[TurnOf(q)]
<1>1. p \in Nat /\ v \in Seq(Events)
    BY DEF TurnInv, TypeOK, ReaderType
<1> HIDE DEF p, v, s
<1>2. SubSeq(s, p + 1, p) = <<>>
    <2>1. p + 1 \in Int /\ p \in Int /\ p < p + 1
        BY <1>1
    <2> QED BY <2>1, SubSeqEmpty
<1>3. v \o <<>> = v
    BY <1>1, ConcatEmptySeq
<1> QED BY <1>1, <1>2, <1>3 DEF HandedBetween, p, v, s

\* A relaying step moves the position by exactly what it hands over.
LEMMA RelayHandsOn ==
    ASSUME TurnInv, NEW q \in Questions, RelayEvents(q)
    PROVE  HandedBetween(q)
<1>1. /\ reader[q].pc = "read" /\ Ahead(q) # <<>> /\ Relay(q, "read")
      /\ reader[q] \in ReaderType
    BY DEF RelayEvents, HasEvents, TurnInv, TypeOK
<1>2. /\ Len(Handed(q)) \in Nat
      /\ Handed(q) = SubSeq(stream[TurnOf(q)], reader[q].pos + 1,
                            reader[q].pos + Len(Handed(q)))
    BY <1>1, HandedIsNext
<1>3. /\ reader'[q].pos = reader[q].pos + Len(Handed(q))
      /\ reader'[q].view = reader[q].view \o Handed(q)
    BY <1>1 DEF Relay, TurnInv, TypeOK, ReaderType
<1>4. reader[q].pos \in Nat
    BY <1>1 DEF ReaderType
<1> DEFINE p == reader[q].pos
           v == reader[q].view
           h == Handed(q)
           n == Len(h)
           s == stream[TurnOf(q)]
           p2 == reader'[q].pos
           v2 == reader'[q].view
<1>5. p \in Nat /\ n \in Nat /\ h = SubSeq(s, p + 1, p + n) /\ p2 = p + n /\ v2 = v \o h
    BY <1>2, <1>3, <1>4
<1>6. p2 >= p /\ v2 = v \o SubSeq(s, p + 1, p2)
    <2> HIDE DEF p, v, h, n, s, p2, v2
    <2>1. p2 >= p
        BY <1>5
    <2>2. SubSeq(s, p + 1, p2) = h
        BY <1>5
    <2> QED BY <1>5, <2>1, <2>2
<1> QED BY <1>6 DEF HandedBetween

\* No step moves the position of a client alone on its index in another way.
LEMMA NextHandsOn ==
    ASSUME TurnInv, [Next]_vars, NEW q \in Questions,
           Alone(q), Seen(q), reader'[q].pc # "closed", ~Dropped(TurnOf(q))
    PROVE  HandedBetween(q)
<1>0. /\ reader \in [Questions -> ReaderType] /\ reader[q] \in ReaderType
      /\ reader[q].pc \in {"read", "clean", "closed"}
    BY DEF TurnInv, TypeOK, ReadersOfCalls
<1>1. CASE UNCHANGED reader
    BY <1>1, Stays
<1>2. ASSUME NEW p \in Questions,
             \/ NumberTurn(p) \/ DispatchQuery(p) \/ TaskStep(p) \/ WorkerLost(p)
      PROVE  HandedBetween(q)
    <2>1. UNCHANGED reader
        BY <1>2 DEF NumberTurn, Number, DispatchQuery, TaskStep, Run, Publish, SaveTurn,
                    FinishTask, WorkerLost
    <2> QED BY <1>1, <2>1
<1>3. ASSUME NEW p \in Questions,
             \/ OpenStream(p) \/ LookForStream(p) \/ TailStream(p) \/ RelayEvents(p)
             \/ ClientGone(p) \/ ReadNothing(p) \/ TimeOut(p) \/ ReaderFails(p)
      PROVE  HandedBetween(q)
    <2>1. CASE p # q
        <3>1. reader'[q] = reader[q]
            BY <1>0, <1>3, <2>1
               DEF OpenStream, LookForStream, TailStream, RelayEvents, Relay, ClientGone,
                   ReadNothing, TimeOut, ReaderFails, ReaderGoto
        <3> QED BY <3>1, Stays
    <2>2. CASE p = q
        <3>1. ~ OpenStream(q) /\ ~ LookForStream(q) /\ ~ TailStream(q)
            BY <1>0 DEF OpenStream, LookForStream, TailStream
        <3>2. CASE RelayEvents(q)
            BY <3>2, RelayHandsOn
        <3>3. CASE ClientGone(q) \/ ReadNothing(q) \/ TimeOut(q) \/ ReaderFails(q)
            <4>1. reader'[q].pos = reader[q].pos /\ reader'[q].view = reader[q].view
                BY <1>0, <3>3
                   DEF ClientGone, ReadNothing, TimeOut, ReaderFails, ReaderGoto, ReaderType
            <4> QED BY <4>1, Stays
        <3> QED BY <1>3, <2>2, <3>1, <3>2, <3>3
    <2> QED BY <2>1, <2>2
<1>4. ASSUME NEW p \in Questions, DeleteStream(p)
      PROVE  HandedBetween(q)
    <2>1. CASE p = q
        <3>1. reader'[q] = Closed(q)
            BY <1>0, <1>4, <2>1 DEF DeleteStream
        <3> QED BY <3>1, ClosedIsOwn
    <2>2. CASE p # q
        <3>1. TurnOf(q) # TurnOf(p)
            BY <2>2 DEF Alone
        <3>2. reader'[q] = reader[q]
            BY <1>0, <1>4, <2>2, <3>1 DEF DeleteStream
        <3> QED BY <3>2, Stays
    <2> QED BY <2>1, <2>2
<1>5. CASE ApiLost
    <2>1. reader'[q] = Closed(q)
        BY <1>0, <1>5 DEF ApiLost
    <2> QED BY <2>1, ClosedIsOwn
<1>6. ASSUME NEW t \in Turns, Expire(t)
      PROVE  HandedBetween(q)
    <2>1. TurnOf(q) # t
        BY <1>6 DEF Expire, RemoveKey, Dropped, TurnInv, TypeOK
    <2>2. reader'[q] = reader[q]
        BY <1>6, <2>1, ExpiredUnder DEF Outdated
    <2> QED BY <2>2, Stays
<1>7. CASE UNCHANGED vars
    BY <1>1, <1>7 DEF vars
<1> QED BY <1>2, <1>3, <1>4, <1>5, <1>6, <1>7 DEF Next, ReaderStep

\* After its first event, a client alone on its turn index is handed every event of the
\* stream in order, whoever appends or deletes meanwhile, as long as Redis keeps the key: the
\* last id the reader keeps is always the id of the last event it yielded.
THEOREM ReadersSkipNothing == Spec => NothingSkipped
<1>1. TurnInv /\ [Next]_vars =>
         [\A q \in Questions :
             Alone(q) /\ Seen(q) /\ reader'[q].pc # "closed" /\ ~Dropped(TurnOf(q))
             => HandedBetween(q)]_vars
    BY NextHandsOn
<1> QED BY <1>1, TurnInvariant, PTL DEF Spec, NothingSkipped

-----------------------------------------------------------------------------
(* What clients are shown is what is kept *)

\* FlattenSeq, which TextOf joins the contents with, is the function that its recursion
\* describes: a first disagreement would have to be at the first element or come from
\* an earlier one.
LEMMA FlattenIs ==
    ASSUME NEW s, NEW n \in Nat \ {0}, Len(s) = n, NEW g,
           g[1] = s[1], \A i \in 2 .. n : g[i] = g[i - 1] \o s[i]
    PROVE  FlattenSeq(s) = g[n]
<1> DEFINE h == [i \in 1 .. n |-> g[i]]
           Eq(f) == f = [i \in 1 .. n |-> IF i = 1 THEN s[i] ELSE f[i - 1] \o s[i]]
           f == CHOOSE f : Eq(f)
<1>1. Eq(h)
    <2>1. \A i \in 1 .. n : g[i] = IF i = 1 THEN s[i] ELSE h[i - 1] \o s[i]
        <3> TAKE i \in 1 .. n
        <3>1. CASE i = 1
            BY <3>1
        <3>2. CASE i # 1
            <4>1. i \in 2 .. n /\ i - 1 \in 1 .. n
                BY <3>2
            <4>2. h[i - 1] = g[i - 1]
                BY <4>1
            <4> HIDE DEF h
            <4> QED BY <3>2, <4>1, <4>2
        <3> QED BY <3>1, <3>2
    <2> QED BY <2>1
<1>2. Eq(f)
    BY <1>1
<1>3. FlattenSeq(s) = f[n]
    BY DEF FlattenSeq
<1>4. /\ f[1] = s[1] /\ \A i \in 2 .. n : f[i] = f[i - 1] \o s[i]
    <2> HIDE DEF f
    <2>1. \A i \in 1 .. n : f[i] = IF i = 1 THEN s[i] ELSE f[i - 1] \o s[i]
        BY <1>2
    <2>2. 1 \in 1 .. n /\ \A i \in 2 .. n : i \in 1 .. n /\ i # 1
        OBVIOUS
    <2> QED BY <2>1, <2>2
<1> HIDE DEF f, h, Eq
<1> DEFINE Bad == {i \in 1 .. n : f[i] # g[i]}
<1>5. Bad = {}
    <2> SUFFICES ASSUME Bad # {} PROVE FALSE
        OBVIOUS
    <2>1. Bad \in SUBSET Nat
        OBVIOUS
    <2>2. PICK i \in Bad : \A j \in Bad : i <= j
        <3> HIDE DEF Bad
        <3> QED BY <2>1, LeastElement
    <2>3. i \in 1 .. n /\ f[i] # g[i] /\ i # 1
        BY <1>4
    <2>4. i \in 2 .. n /\ i - 1 \in 1 .. n /\ ~(i <= i - 1)
        BY <2>3
    <2>5. f[i - 1] = g[i - 1]
        BY <2>2, <2>4
    <2> QED BY <1>4, <2>3, <2>4, <2>5
<1> QED BY <1>3, <1>5

\* The events of a turn, from 'retrieved' to 'done', when its task ended with this
\* answer: what Run puts together for one of its outcomes.
Script(o) == <<Retrieved>> \o Streamed(o.streamed) \o WholeAnswer(o) \o <<Done>>

Tells(events, answer, q) ==
    \E o \in Outcomes(q) : o.answer = answer /\ events = Script(o)

\* What the client of q was shown agrees with an answer.
Shows(events, answer, q) == TextOf(events) = answer \/ answer = Instead(q)

\* A turn is saved once: the row that is there stops a second one.
OneRowEach == \A r, s \in turns : r.index = s.index => r = s

\* While a reader looks for its first event it has shown nothing.
NothingShown ==
    \A q \in Questions :
        reader[q].pc \in {"none", "look", "tail", "read"} =>
            /\ reader[q].end = "open"
            /\ ~Seen(q) => reader[q].view = <<>>

\* Only a call that was asked has a task.
AskedFirst == \A q \in Questions : ask[q].pc # "asked" => task[q].pc = "none"

\* What the key of a turn holds, as far as it was never removed, what its task has
\* still to publish and what it saves belong to one outcome of the run.
TaskTells(q) ==
    LET t == TurnOf(q)
    IN  /\ task[q].pc \in {"none", "queued", "raised"} => stream[t] = <<>>
        /\ task[q].pc \in {"none", "queued", "raised", "sink", "save"} => SavedAt(t) = {}
        /\ ~renewed[t] =>
              /\ task[q].pc = "sink" => Tells(stream[t] \o task[q].todo, task[q].answer, q)
              /\ task[q].pc = "save" => Tells(stream[t], task[q].answer, q)
              /\ task[q].pc \in {"audit", "over"} =>
                    \A r \in SavedAt(t) : Tells(stream[t], r.answer, q)

\* A reader that was there from the first event on has shown the key up to its
\* position; one that has shown 'done' has shown what is saved or will be.
ReaderTells(q) ==
    LET t == TurnOf(q)
    IN  /\ reader[q].pc = "read" /\ reader[q].begin = "first" =>
              /\ ~renewed[t]
              /\ reader[q].pos <= Len(stream[t])
              /\ reader[q].view = SubSeq(stream[t], 1, reader[q].pos)
        /\ reader[q].end = "done" /\ (Seen(q) => reader[q].begin = "first") =>
              /\ task[q].pc \in {"save", "audit", "over"}
              /\ task[q].pc = "save" => Shows(reader[q].view, task[q].answer, q)
              /\ \A r \in SavedAt(t) : Shows(reader[q].view, r.answer, q)

\* Both hold of a question that has a turn index of its own.
Told(q) == ask[q].pc # "idle" /\ Alone(q) => TaskTells(q) /\ ReaderTells(q)

\* The inductive invariant for ShownIsSaved, on top of TurnInv.
ShownInv ==
    failed = {} =>
        /\ OneRowEach /\ NothingShown /\ AskedFirst
        /\ \A q \in Questions : Told(q)

\* A longer prefix of the generated text is a shorter one and one more piece.
LEMMA TextGrows ==
    ASSUME NEW q \in Questions, NEW n \in Nat, n < MaxTokens
    PROVE  Text(q, n + 1) = Text(q, n) \o <<Piece(q, n + 1)>>
<1> DEFINE a == Text(q, n)
           b == <<Piece(q, n + 1)>>
           c == Text(q, n + 1)
<1>1. \A i \in 1 .. n + 1 : Piece(q, i) \in Pieces
    BY QueryAssumption DEF Piece, Pieces, Replaced
<1>2. a \in Seq(Pieces) /\ Len(a) = n /\ \A i \in 1 .. n : a[i] = Piece(q, i)
    BY <1>1 DEF Text
<1>3. c \in Seq(Pieces) /\ Len(c) = n + 1 /\ \A i \in 1 .. n + 1 : c[i] = Piece(q, i)
    BY <1>1 DEF Text
<1>4. b \in Seq(Pieces) /\ Len(b) = 1 /\ b[1] = Piece(q, n + 1)
    BY <1>1
<1> HIDE DEF a, b, c
<1>5. /\ a \o b \in Seq(Pieces) /\ Len(a \o b) = n + 1
      /\ \A i \in 1 .. n + 1 : (a \o b)[i] = IF i <= n THEN a[i] ELSE b[i - n]
    BY <1>2, <1>4, ConcatProperties
<1>6. \A i \in 1 .. n + 1 : c[i] = (a \o b)[i]
    <2> TAKE i \in 1 .. n + 1
    <2>1. CASE i <= n
        BY <2>1, <1>2, <1>3, <1>5
    <2>2. CASE ~(i <= n)
        <3>1. i = n + 1 /\ i - n = 1
            BY <2>2
        <3> QED BY <3>1, <2>2, <1>3, <1>4, <1>5
    <2> QED BY <2>1, <2>2
<1>7. c = a \o b
    BY <1>3, <1>5, <1>6, SeqEqual
<1> QED BY <1>7 DEF a, b, c

\* A sequence of tokens between 'retrieved' and 'done'.
LEMMA Bracketed ==
    ASSUME NEW body \in Seq(Events), NEW e, e = <<Retrieved>> \o body \o <<Done>>
    PROVE  /\ e \in Seq(Events) /\ Len(body) \in Nat /\ Len(e) = Len(body) + 2
           /\ e[1] = Retrieved /\ e[Len(body) + 2] = Done
           /\ \A i \in 1 .. Len(body) : e[i + 1] = body[i]
<1> DEFINE f == <<Retrieved>>
           g == <<Done>>
           n == Len(body)
<1>1. /\ f \in Seq(Events) /\ Len(f) = 1 /\ f[1] = Retrieved
      /\ g \in Seq(Events) /\ Len(g) = 1 /\ g[1] = Done
      /\ n \in Nat
    BY DEF Retrieved, Done, Events
<1> HIDE DEF f, g, n
<1>2. /\ f \o body \in Seq(Events) /\ Len(f \o body) = 1 + n
      /\ \A i \in 1 .. 1 + n : (f \o body)[i] = IF i <= 1 THEN f[i] ELSE body[i - 1]
    <2>1. /\ f \o body \in Seq(Events) /\ Len(f \o body) = Len(f) + Len(body)
          /\ \A i \in 1 .. Len(f) + Len(body) :
                (f \o body)[i] = IF i <= Len(f) THEN f[i] ELSE body[i - Len(f)]
        BY <1>1, ConcatProperties
    <2> QED BY <1>1, <2>1 DEF n
<1> DEFINE fb == f \o body
<1> HIDE DEF fb
<1>3. /\ fb \in Seq(Events) /\ Len(fb) = 1 + n
      /\ fb[1] = Retrieved /\ \A i \in 1 .. n : fb[i + 1] = body[i]
    <2>0. /\ fb \in Seq(Events) /\ Len(fb) = 1 + n
          /\ \A i \in 1 .. 1 + n : fb[i] = IF i <= 1 THEN f[i] ELSE body[i - 1]
        BY <1>2 DEF fb
    <2>1. fb[1] = Retrieved
        <3>1. 1 \in 1 .. 1 + n
            BY <1>1
        <3> QED BY <1>1, <2>0, <3>1
    <2>2. ASSUME NEW i \in 1 .. n PROVE fb[i + 1] = body[i]
        <3>1. i + 1 \in 1 .. 1 + n /\ ~(i + 1 <= 1) /\ (i + 1) - 1 = i
            BY <1>1
        <3>2. fb[i + 1] = IF i + 1 <= 1 THEN f[i + 1] ELSE body[(i + 1) - 1]
            BY <2>0, <3>1
        <3> QED BY <3>1, <3>2
    <2> QED BY <2>0, <2>1, <2>2
<1>4. /\ e \in Seq(Events) /\ Len(e) = 2 + n
      /\ \A i \in 1 .. 2 + n : e[i] = IF i <= 1 + n THEN fb[i] ELSE g[i - (1 + n)]
    <2>1. e = fb \o g
        BY DEF fb, f, g
    <2>2. /\ fb \o g \in Seq(Events) /\ Len(fb \o g) = (1 + n) + 1
          /\ \A i \in 1 .. (1 + n) + 1 :
                (fb \o g)[i] = IF i <= 1 + n THEN fb[i] ELSE g[i - (1 + n)]
        <3>1. /\ fb \o g \in Seq(Events) /\ Len(fb \o g) = Len(fb) + Len(g)
              /\ \A i \in 1 .. Len(fb) + Len(g) :
                    (fb \o g)[i] = IF i <= Len(fb) THEN fb[i] ELSE g[i - Len(fb)]
            BY <1>1, <1>3, ConcatProperties
        <3> QED BY <1>1, <1>3, <3>1
    <2>3. (1 + n) + 1 = 2 + n
        BY <1>1
    <2> QED BY <2>1, <2>2, <2>3
<1>5. e[1] = Retrieved /\ e[n + 2] = Done
    <2>1. /\ 1 \in 1 .. 2 + n /\ n + 2 \in 1 .. 2 + n /\ 1 <= 1 + n
          /\ ~(n + 2 <= 1 + n) /\ (n + 2) - (1 + n) = 1
        BY <1>1
    <2> QED BY <1>1, <1>3, <1>4, <2>1
<1>6. \A i \in 1 .. n : e[i + 1] = body[i]
    <2>1. \A i \in 1 .. n : i + 1 \in 1 .. 2 + n /\ i + 1 <= 1 + n
        BY <1>1
    <2> QED BY <1>3, <1>4, <2>1
<1>7. Len(e) = n + 2
    BY <1>1, <1>4
<1> QED BY <1>1, <1>4, <1>5, <1>6, <1>7 DEF n

\* A script is a row of tokens between 'retrieved' and 'done'.
Body(o) == IF o.streamed = <<>> /\ o.answer # <<>> THEN <<Token(o.answer)>>
           ELSE Streamed(o.streamed)

LEMMA ScriptShape ==
    ASSUME NEW q \in Questions, NEW o \in Outcomes(q)
    PROVE  /\ Body(o) \in Seq(Events)
           /\ \A i \in DOMAIN Body(o) : Body(o)[i].kind = "token"
           /\ Script(o) = <<Retrieved>> \o Body(o) \o <<Done>>
<1>1. /\ o.streamed \in Seq(OwnPieces(q)) /\ Streamed(o.streamed) \in Seq(OwnEvents(q))
      /\ Token(o.answer) \in OwnEvents(q)
    BY OutcomesAreOwn, StreamedIsOwn
<1>2. /\ Streamed(o.streamed) \in Seq(Events) /\ <<Token(o.answer)>> \in Seq(Events)
      /\ <<Retrieved>> \in Seq(Events)
    <2>1. OwnEvents(q) \subseteq Events
        BY DEF OwnEvents
    <2>2. Streamed(o.streamed) \in Seq(Events)
        BY <1>1, <2>1, SeqMonotonic
    <2>3. Token(o.answer) \in Events /\ Retrieved \in Events
        BY <1>1, <2>1 DEF Retrieved, Events
    <2> QED BY <2>2, <2>3
<1>3. CASE o.streamed = <<>> /\ o.answer # <<>>
    <2>1. Body(o) = <<Token(o.answer)>>
        BY <1>3 DEF Body
    <2>2. Streamed(o.streamed) = <<>>
        BY <1>3 DEF Streamed
    <2>3. <<Retrieved>> \o <<>> = <<Retrieved>>
        BY <1>2, ConcatEmptySeq
    <2>4. Script(o) = <<Retrieved>> \o Body(o) \o <<Done>>
        BY <1>3, <2>1, <2>2, <2>3 DEF Script, WholeAnswer
    <2> QED BY <1>2, <2>1, <2>4 DEF Token
<1>4. CASE ~(o.streamed = <<>> /\ o.answer # <<>>)
    <2>1. Body(o) = Streamed(o.streamed)
        BY <1>4 DEF Body
    <2>2. <<Retrieved>> \o Streamed(o.streamed) \in Seq(Events)
        BY <1>2, ConcatProperties
    <2>3. (<<Retrieved>> \o Streamed(o.streamed)) \o <<>> = <<Retrieved>> \o Streamed(o.streamed)
        BY <2>2, ConcatEmptySeq
    <2>4. Script(o) = <<Retrieved>> \o Body(o) \o <<Done>>
        BY <1>4, <2>1, <2>3 DEF Script, WholeAnswer
    <2>5. \A i \in DOMAIN Streamed(o.streamed) : Streamed(o.streamed)[i].kind = "token"
        BY DEF Streamed, Token
    <2> QED BY <1>2, <2>1, <2>4, <2>5
<1> QED BY <1>3, <1>4

\* 'done' is the last event of a script and no other.
LEMMA ScriptEnds ==
    ASSUME NEW q \in Questions, NEW a, NEW e, Tells(e, a, q)
    PROVE  /\ e \in Seq(Events) /\ Len(e) \in Nat \ {0}
           /\ \A i \in 1 .. Len(e) : e[i] = Done <=> i = Len(e)
<1>1. PICK o \in Outcomes(q) : o.answer = a /\ e = Script(o)
    BY DEF Tells
<1> DEFINE body == Body(o)
           n == Len(body)
<1>2. /\ body \in Seq(Events) /\ \A i \in DOMAIN body : body[i].kind = "token"
      /\ e = <<Retrieved>> \o body \o <<Done>>
    BY <1>1, ScriptShape
<1> HIDE DEF body
<1>3. /\ e \in Seq(Events) /\ n \in Nat /\ Len(e) = n + 2
      /\ e[1] = Retrieved /\ e[n + 2] = Done
      /\ \A i \in 1 .. n : e[i + 1] = body[i]
    BY <1>2, Bracketed
<1>4. \A i \in 1 .. n : e[i + 1].kind = "token"
    BY <1>2, <1>3
<1>5. /\ Done.kind = "done" /\ Retrieved.kind = "retrieved"
    BY DEF Done, Retrieved
<1> HIDE DEF n
<1>6. ASSUME NEW i \in 1 .. Len(e)
      PROVE  e[i] = Done <=> i = Len(e)
    <2>1. CASE i = 1
        BY <1>3, <1>5, <2>1
    <2>2. CASE i # 1 /\ i # n + 2
        <3>1. i - 1 \in 1 .. n /\ (i - 1) + 1 = i
            BY <1>3, <2>2
        <3>2. e[i].kind = "token"
            BY <1>4, <3>1
        <3> QED BY <1>3, <1>5, <2>2, <3>2
    <2>3. CASE i = n + 2
        BY <1>3, <2>3
    <2> QED BY <2>1, <2>2, <2>3
<1> QED BY <1>3, <1>6

\* Reading a whole script gives the answer that its task saves, unless that was replaced.
LEMMA ScriptText ==
    ASSUME NEW q \in Questions, NEW a, NEW e, Tells(e, a, q)
    PROVE  Shows(e, a, q)
<1>1. PICK o \in Outcomes(q) : o.answer = a /\ e = Script(o)
    BY DEF Tells
<1> DEFINE body == Body(o)
           n == Len(body)
           c == [i \in DOMAIN e |-> e[i].content]
<1>2. /\ body \in Seq(Events)
      /\ e = <<Retrieved>> \o body \o <<Done>>
    BY <1>1, ScriptShape
<1>3. /\ e \in Seq(Events) /\ n \in Nat /\ Len(e) = n + 2
      /\ e[1] = Retrieved /\ e[n + 2] = Done
      /\ \A i \in 1 .. n : e[i + 1] = body[i]
    <2> HIDE DEF body
    <2> QED BY <1>2, Bracketed
<1>4. /\ Len(c) = n + 2 /\ c[1] = <<>> /\ c[n + 2] = <<>>
      /\ \A i \in 1 .. n : c[i + 1] = body[i].content
    <2> HIDE DEF body, n
    <2>1. DOMAIN e = 1 .. n + 2
        BY <1>3
    <2>2. Len(c) = n + 2
        BY <1>3, <2>1
    <2>3. 1 \in 1 .. n + 2 /\ n + 2 \in 1 .. n + 2 /\ \A i \in 1 .. n : i + 1 \in 1 .. n + 2
        BY <1>3
    <2> QED BY <1>3, <2>1, <2>2, <2>3 DEF Retrieved, Done
<1>5. TextOf(e) = FlattenSeq(c)
    BY DEF TextOf
<1> HIDE DEF c
<1>6. CASE o.streamed = <<>> /\ o.answer # <<>>
    <2>1. n = 1 /\ body[1] = Token(a)
        BY <1>1, <1>6 DEF Body
    <2>2. c[2] = a /\ c[1] = <<>> /\ c[3] = <<>> /\ Len(c) = 3
        <3> HIDE DEF body, n
        <3>1. 1 \in 1 .. n /\ 1 + 1 = 2 /\ n + 2 = 3
            BY <2>1
        <3> QED BY <1>4, <2>1, <3>1 DEF Token
    <2>3. a \in Seq(OwnPieces(q))
        BY <1>1, OutcomesAreOwn
    <2> DEFINE g == <<c[1], a, a>>
    <2>4. /\ g[1] = c[1] /\ g[2] = a /\ g[3] = a
          /\ <<>> \o a = a /\ a \o <<>> = a
        BY <2>3, ConcatEmptySeq
    <2> HIDE DEF g
    <2>5. ASSUME NEW i \in 2 .. 3
          PROVE  g[i] = g[i - 1] \o c[i]
        <3>1. CASE i = 2
            <4>1. i - 1 = 1
                BY <3>1
            <4> QED BY <2>2, <2>4, <3>1, <4>1
        <3>2. CASE i = 3
            <4>1. i - 1 = 2
                BY <3>2
            <4> QED BY <2>2, <2>4, <3>2, <4>1
        <3>3. i = 2 \/ i = 3
            OBVIOUS
        <3> QED BY <3>1, <3>2, <3>3
    <2>6. FlattenSeq(c) = g[3]
        <3>1. 3 \in Nat \ {0}
            OBVIOUS
        <3> QED BY <2>2, <2>4, <2>5, <3>1, FlattenIs
    <2> QED BY <1>5, <2>4, <2>6 DEF Shows
<1>7. CASE o.answer = Instead(q)
    BY <1>1, <1>7 DEF Shows
<1>8. CASE o = [streamed |-> Text(q, MaxTokens), answer |-> Text(q, MaxTokens)]
    <2> DEFINE m == MaxTokens
    <2>1. /\ o.streamed = Text(q, m) /\ a = Text(q, m) /\ m \in Nat \ {0}
          /\ o.streamed # <<>>
        BY <1>1, <1>8, QueryAssumption DEF Text
    <2>2. body = Streamed(Text(q, m)) /\ Len(Text(q, m)) = m
        BY <2>1 DEF Body, Text
    <2>3. n = m /\ \A i \in 1 .. m : body[i] = Token(<<Piece(q, i)>>)
        BY <2>1, <2>2 DEF Streamed, Text
    <2> HIDE DEF body, n, m
    <2>4. /\ Len(c) = m + 2 /\ c[1] = <<>> /\ c[m + 2] = <<>>
          /\ \A i \in 1 .. m : c[i + 1] = <<Piece(q, i)>>
        <3>1. \A i \in 1 .. m : body[i].content = <<Piece(q, i)>>
            <4>1. \A x : Token(x).content = x
                BY DEF Token
            <4> QED BY <2>3, <4>1
        <3> QED BY <1>4, <2>3, <3>1
    <2> DEFINE g == [i \in 1 .. m + 2 |-> Text(q, IF i = m + 2 THEN m ELSE i - 1)]
    <2>5. /\ g[1] = c[1] /\ g[m + 2] = Text(q, m)
          /\ \A i \in 1 .. m + 2 : i # m + 2 => g[i] = Text(q, i - 1)
        <3>1. 1 # m + 2 /\ 1 \in 1 .. m + 2 /\ m + 2 \in 1 .. m + 2 /\ 1 - 1 = 0
            BY <2>1
        <3>2. Text(q, 0) = <<>>
            BY DEF Text
        <3> QED BY <2>4, <3>1, <3>2
    <2> HIDE DEF g
    <2>6. ASSUME NEW i \in 2 .. m + 2
          PROVE  g[i] = g[i - 1] \o c[i]
        <3>1. g[i - 1] = Text(q, i - 2)
            <4>1. i - 1 \in 1 .. m + 2 /\ i - 1 # m + 2 /\ (i - 1) - 1 = i - 2
                BY <2>1
            <4>2. g[i - 1] = Text(q, (i - 1) - 1)
                BY <2>5, <4>1
            <4> QED BY <4>1, <4>2
        <3>2. CASE i = m + 2
            <4>1. g[i] = Text(q, m) /\ i - 2 = m
                BY <2>1, <2>5, <3>2
            <4>2. Text(q, m) \in Seq(OwnPieces(q))
                BY <2>1, <1>1, OutcomesAreOwn
            <4>3. Text(q, m) \o <<>> = Text(q, m)
                BY <4>2, ConcatEmptySeq
            <4> QED BY <2>4, <3>1, <3>2, <4>1, <4>3
        <3>3. CASE i # m + 2
            <4>1. /\ i - 2 \in Nat /\ i - 2 < MaxTokens /\ (i - 2) + 1 = i - 1
                  /\ i - 1 \in 1 .. m /\ (i - 1) + 1 = i
                BY <2>1, <3>3 DEF m
            <4>2. Text(q, i - 1) = Text(q, i - 2) \o <<Piece(q, i - 1)>>
                <5> DEFINE k == i - 2
                <5>1. k \in Nat /\ k < MaxTokens /\ k + 1 = i - 1
                    BY <4>1
                <5>2. Text(q, k + 1) = Text(q, k) \o <<Piece(q, k + 1)>>
                    <6> HIDE DEF k
                    <6> QED BY <5>1, TextGrows
                <5> QED BY <5>1, <5>2
            <4>3. c[i] = <<Piece(q, i - 1)>>
                BY <2>4, <4>1
            <4>4. g[i] = Text(q, i - 1)
                <5>1. i \in 1 .. m + 2
                    BY <2>1
                <5> QED BY <2>5, <3>3, <5>1
            <4> QED BY <3>1, <4>2, <4>3, <4>4
        <3> QED BY <3>2, <3>3
    <2>7. FlattenSeq(c) = g[m + 2]
        <3>1. m + 2 \in Nat \ {0}
            BY <2>1
        <3> QED BY <2>4, <2>5, <2>6, <3>1, FlattenIs
    <2> QED BY <1>5, <2>1, <2>5, <2>7 DEF Shows
<1>9. CASE o = [streamed |-> <<>>, answer |-> <<>>]
    <2>1. n = 0 /\ a = <<>>
        BY <1>1, <1>9 DEF Body, Streamed
    <2>2. Len(c) = 2 /\ c[1] = <<>> /\ c[2] = <<>>
        BY <1>4, <2>1
    <2> DEFINE g == <<c[1], c[1]>>
    <2>3. g[1] = c[1] /\ g[2] = <<>>
        BY <2>2
    <2>4. \A i \in 2 .. 2 : g[i] = g[i - 1] \o c[i]
        <3>1. <<>> \o <<>> = <<>>
            OBVIOUS
        <3> HIDE DEF g
        <3>2. g[2] = g[1] \o c[2]
            BY <2>2, <2>3, <3>1
        <3>3. \A i \in 2 .. 2 : i = 2 /\ i - 1 = 1
            OBVIOUS
        <3> QED BY <3>2, <3>3, Zenon
    <2> HIDE DEF g
    <2>5. FlattenSeq(c) = g[2]
        <3>1. 2 \in Nat \ {0}
            OBVIOUS
        <3> QED BY <2>2, <2>3, <2>4, <3>1, FlattenIs
    <2> QED BY <1>5, <2>1, <2>3, <2>5 DEF Shows
<1>10. Text(q, MaxTokens) # <<>>
    <2>1. Len(Text(q, MaxTokens)) = MaxTokens
        BY QueryAssumption DEF Text
    <2> QED BY <2>1, QueryAssumption
<1>11. CASE o = [streamed |-> <<>>, answer |-> Text(q, MaxTokens)]
    BY <1>6, <1>10, <1>11
<1> QED BY <1>7, <1>8, <1>9, <1>11 DEF Outcomes

\* A replayed turn shows its answer.
LEMMA ReplayText ==
    ASSUME NEW q, NEW S, NEW a \in Seq(S)
    PROVE  Shows(<<Token(a)>>, a, q)
<1> DEFINE e == <<Token(a)>>
           c == [i \in DOMAIN e |-> e[i].content]
           g == <<a>>
<1>1. DOMAIN e = 1 .. 1 /\ Len(c) = 1 /\ c[1] = a
    BY DEF Token
<1>2. \A i \in 2 .. 1 : g[i] = g[i - 1] \o c[i]
    OBVIOUS
<1> HIDE DEF c
<1>3. FlattenSeq(c) = g[1]
    <2>1. g[1] = c[1] /\ 1 \in Nat \ {0}
        BY <1>1
    <2> HIDE DEF g
    <2> QED BY <1>1, <1>2, <2>1, FlattenIs
<1> QED BY <1>3 DEF Shows, TextOf, c

-----------------------------------------------------------------------------
\* A step of p leaves the other questions as they are, and what is stored for other turn
\* indexes.
OthersKept(p) ==
    /\ \A q \in Questions \ {p} :
          /\ task'[q] = task[q]
          /\ reader'[q].pc = reader[q].pc /\ reader'[q].begin = reader[q].begin
          /\ reader'[q].view = reader[q].view /\ reader'[q].end = reader[q].end
          /\ TurnOf(q) # TurnOf(p) => reader'[q] = reader[q]
    /\ \A t \in Turns \ {TurnOf(p)} : /\ stream'[t] = stream[t] /\ renewed'[t] = renewed[t]
                                      /\ SavedAt(t)' = SavedAt(t)

\* Where nothing of a question changes, its part of the invariant stays.
LEMMA TellsOn ==
    ASSUME NEW q \in Questions, TaskTells(q), ReaderTells(q),
           TurnOf(q)' = TurnOf(q), task'[q] = task[q], reader'[q] = reader[q],
           stream'[TurnOf(q)] = stream[TurnOf(q)], renewed'[TurnOf(q)] = renewed[TurnOf(q)],
           {r \in turns' : r.index = TurnOf(q)} = SavedAt(TurnOf(q))
    PROVE  TaskTells(q)' /\ ReaderTells(q)'
<1>1. SavedAt(TurnOf(q))' = SavedAt(TurnOf(q))
    BY DEF SavedAt
<1>2. TaskTells(q)'
    BY <1>1 DEF TaskTells
<1>3. ReaderTells(q)'
    BY <1>1 DEF ReaderTells, Seen
<1> QED BY <1>2, <1>3

\* A step of p keeps the invariant when it keeps the part of p.
LEMMA StepOf ==
    ASSUME TurnInv, ShownInv, failed = {}, SameCalls, NEW p \in Questions, OthersKept(p),
           \A q \in Questions : ask'[q].pc = "asked" \/ ask'[q] = ask[q],
           ask'[p].pc # "asked" => task'[p].pc = "none",
           ask[p].pc # "idle",
           OneRowEach',
           reader'[p].pc \in {"none", "look", "tail", "read"} =>
               /\ reader'[p].end = "open"
               /\ reader'[p].begin = "none" => reader'[p].view = <<>>,
           Alone(p) /\ TaskTells(p) /\ ReaderTells(p) => TaskTells(p)' /\ ReaderTells(p)'
    PROVE  ShownInv'
<1>1. OneRowEach /\ NothingShown /\ AskedFirst /\ \A q \in Questions : Told(q)
    BY DEF ShownInv
<1>2. NothingShown'
    BY <1>1 DEF NothingShown, OthersKept, Seen
<1>3. \A q \in Questions : Alone(q)' <=> Alone(q)
    BY DEF SameCalls, Alone
<1>4. \A q \in Questions \ {p} : ask'[q].pc # "asked" => task'[q].pc = "none"
    BY <1>1 DEF AskedFirst, OthersKept
<1>5. ASSUME NEW q \in Questions
      PROVE  Told(q)'
    <2> SUFFICES ASSUME ask[q].pc # "idle", Alone(q)
                 PROVE  TaskTells(q)' /\ ReaderTells(q)'
        BY <1>3 DEF Told, SameCalls
    <2>1. TaskTells(q) /\ ReaderTells(q)
        BY <1>1 DEF Told
    <2>2. CASE q = p
        BY <2>1, <2>2
    <2>3. CASE q # p
        <3>1. TurnOf(q) \in Turns /\ TurnOf(q) # TurnOf(p) /\ TurnOf(q)' = TurnOf(q)
            BY <2>3 DEF TurnInv, Numbering, Alone, SameCalls
        <3>2. /\ task'[q] = task[q] /\ reader'[q] = reader[q]
              /\ stream'[TurnOf(q)] = stream[TurnOf(q)]
              /\ renewed'[TurnOf(q)] = renewed[TurnOf(q)]
              /\ \A t \in Turns \ {TurnOf(p)} : {r \in turns' : r.index = t} = SavedAt(t)
            BY <2>3, <3>1 DEF OthersKept, SavedAt
        <3> QED BY <2>1, <3>1, <3>2, TellsOn
    <2> QED BY <2>2, <2>3
<1>6. AskedFirst'
    BY <1>4 DEF AskedFirst
<1> QED BY <1>2, <1>5, <1>6 DEF ShownInv

\* It holds before anyone asks.
LEMMA InitShownInv == Init => ShownInv
<1> SUFFICES ASSUME Init PROVE ShownInv
    OBVIOUS
<1>1. OneRowEach /\ AskedFirst /\ \A q \in Questions : Told(q)
    BY DEF Init, OneRowEach, AskedFirst, Told, NoTask
<1>2. NothingShown
    BY DEF Init, NothingShown, NoReader, Seen
<1> QED BY <1>1, <1>2 DEF ShownInv

\* A question alone on the index it gets finds nothing there: who had put it there would
\* have the index too.
LEMMA NumberTurnTells ==
    ASSUME TurnInv, ShownInv, failed = {}, NEW p \in Questions, NumberTurn(p)
    PROVE  ShownInv'
<1> DEFINE index == LargestIndex + 1
<1>0. /\ ask[p].pc = "idle"
      /\ ask' = [ask EXCEPT ![p] = [pc |-> "numbered", turn |-> index]]
      /\ UNCHANGED <<turns, stream, renewed, task, reader, failed>>
    BY DEF NumberTurn, Number, streamVars
<1>1. index \in Turns
    BY RoomForAnother, <1>0 DEF TurnInv
<1> HIDE DEF index
<1>2. /\ ask'[p] = [pc |-> "numbered", turn |-> index]
      /\ \A q \in Questions \ {p} : ask'[q] = ask[q]
      /\ TurnOf(p)' = index
      /\ \A q \in Questions \ {p} : TurnOf(q)' = TurnOf(q)
    BY <1>0 DEF TurnInv, TypeOK, TurnOf
<1>3. OneRowEach /\ NothingShown /\ AskedFirst /\ \A q \in Questions : Told(q)
    BY DEF ShownInv
<1>4. OneRowEach' /\ NothingShown' /\ AskedFirst'
    BY <1>0, <1>2, <1>3 DEF OneRowEach, NothingShown, AskedFirst, Seen
<1>5. Told(p)'
    <2> SUFFICES ASSUME Alone(p)' PROVE TaskTells(p)' /\ ReaderTells(p)'
        BY DEF Told
    <2>1. \A q \in Questions \ {p} : TurnOf(q) # index
        BY <1>2 DEF Alone
    <2>2. stream[index] = <<>>
        <3>1. \A i \in DOMAIN stream[index] : FALSE
            BY <1>0, <1>1, <2>1 DEF TurnInv, StreamsOfCalls
        <3>2. stream[index] \in Seq(Events)
            BY <1>1 DEF TurnInv, TypeOK
        <3>3. DOMAIN stream[index] = 1 .. Len(stream[index])
            BY <3>2
        <3>4. stream[index] # <<>> => Len(stream[index]) \in Nat \ {0}
            BY <3>2, EmptySeq
        <3> QED BY <3>1, <3>3, <3>4
    <2>3. SavedAt(index) = {}
        BY <1>0, <1>1, <2>1 DEF TurnInv, TypeOK, RowsOfCalls, SavedAt
    <2>4. task[p].pc = "none" /\ reader[p].pc = "none"
        BY <1>0 DEF TurnInv, TasksOfCalls, ReadersOfCalls
    <2>5. reader[p].end = "open"
        BY <1>3, <2>4 DEF NothingShown
    <2>6. stream'[TurnOf(p)'] = <<>> /\ SavedAt(TurnOf(p))' = {}
        BY <1>0, <1>2, <2>2, <2>3 DEF SavedAt
    <2>7. task'[p].pc = "none" /\ reader'[p].pc = "none" /\ reader'[p].end = "open"
        BY <1>0, <2>4, <2>5
    <2> QED BY <2>6, <2>7 DEF TaskTells, ReaderTells
<1>6. ASSUME NEW q \in Questions \ {p}
      PROVE  Told(q)'
    <2> SUFFICES ASSUME ask[q].pc # "idle", Alone(q)'
                 PROVE  TaskTells(q)' /\ ReaderTells(q)'
        BY <1>2 DEF Told
    <2>1. Alone(q)
        <3>1. TurnOf(q) \in Turns /\ TurnOf(p) = 0
            BY <1>0 DEF TurnInv, Numbering
        <3>2. TurnOf(p) # TurnOf(q)
            BY <3>1, CardinalityNat DEF Turns
        <3> QED BY <1>2, <3>2 DEF Alone
    <2>2. TaskTells(q) /\ ReaderTells(q)
        BY <1>3, <2>1 DEF Told
    <2>3. {r \in turns' : r.index = TurnOf(q)} = SavedAt(TurnOf(q))
        BY <1>0 DEF SavedAt
    <2> QED BY <1>0, <1>2, <2>2, <2>3, TellsOn
<1> QED BY <1>4, <1>5, <1>6 DEF ShownInv


\* The task is published: it has yet to run.
LEMMA DispatchQueryTells ==
    ASSUME TurnInv, ShownInv, failed = {}, failed' = {}, NEW p \in Questions, DispatchQuery(p)
    PROVE  ShownInv'
<1>1. /\ ask[p].pc = "numbered" /\ ask' = [ask EXCEPT ![p].pc = "asked"]
      /\ task' = [task EXCEPT ![p].pc = "queued"]
      /\ UNCHANGED <<turns, stream, renewed, reader>>
    BY DEF DispatchQuery, streamVars, Fault
<1>2. /\ ask \in [Questions -> CallType] /\ task \in [Questions -> TaskType]
      /\ task[p].pc = "none" /\ OneRowEach /\ NothingShown
    BY <1>1 DEF ShownInv, AskedFirst, TurnInv, TypeOK
<1>3. /\ ask'[p].pc = "asked" /\ task'[p].pc = "queued" /\ ask'[p].turn = ask[p].turn
      /\ \A q \in Questions \ {p} : ask'[q] = ask[q] /\ task'[q] = task[q]
    BY <1>1, <1>2 DEF CallType, TaskType
<1>4. SameCalls
    BY <1>1, <1>3 DEF SameCalls, TurnOf
<1>5. OthersKept(p)
    BY <1>1, <1>3 DEF OthersKept, SavedAt
<1>6. ASSUME TaskTells(p), ReaderTells(p)
      PROVE  TaskTells(p)' /\ ReaderTells(p)'
    <2>1. TurnOf(p)' = TurnOf(p) /\ SavedAt(TurnOf(p))' = SavedAt(TurnOf(p))
        BY <1>1, <1>3 DEF TurnOf, SavedAt
    <2>2. TaskTells(p)'
        BY <1>1, <1>2, <1>3, <1>6, <2>1 DEF TaskTells
    <2>3. ReaderTells(p)'
        BY <1>1, <1>2, <1>3, <1>6, <2>1 DEF ReaderTells, Seen
    <2> QED BY <2>2, <2>3
<1>7. OneRowEach'
    BY <1>1, <1>2 DEF OneRowEach
<1>8. reader'[p].pc \in {"none", "look", "tail", "read"} =>
               /\ reader'[p].end = "open"
               /\ reader'[p].begin = "none" => reader'[p].view = <<>>
    BY <1>1, <1>2 DEF NothingShown, Seen
<1>9. \A q \in Questions : ask'[q].pc = "asked" \/ ask'[q] = ask[q]
    BY <1>3
<1>10. ask[p].pc # "idle" /\ (ask'[p].pc # "asked" => task'[p].pc = "none")
    BY <1>1, <1>3
<1> QED BY <1>4, <1>5, <1>6, <1>7, <1>8, <1>9, <1>10, StepOf

\* What the steps of a task share: the calls and the readers stay.
LEMMA TaskStepTells ==
    ASSUME TurnInv, ShownInv, failed = {}, NEW p \in Questions, task[p].pc # "none",
           UNCHANGED <<ask, reader, renewed>>,
           NEW r, Replaces(task, p, r),
           \A t \in Turns \ {TurnOf(p)} : stream'[t] = stream[t] /\ SavedAt(t)' = SavedAt(t),
           OneRowEach',
           Alone(p) /\ TaskTells(p) /\ ReaderTells(p) => TaskTells(p)' /\ ReaderTells(p)'
    PROVE  ShownInv'
<1>1. /\ ask[p].pc # "idle" /\ ask[p].pc = "asked" /\ NothingShown
    BY DEF TurnInv, TasksOfCalls, ShownInv, AskedFirst
<1>2. \A q \in Questions \ {p} : task'[q] = task[q]
    BY DEF Replaces, TurnInv, TypeOK
<1>3. SameCalls
    BY DEF SameCalls, TurnOf
<1>4. OthersKept(p)
    BY <1>2 DEF OthersKept
<1>5. reader'[p].pc \in {"none", "look", "tail", "read"} =>
               /\ reader'[p].end = "open"
               /\ reader'[p].begin = "none" => reader'[p].view = <<>>
    BY <1>1 DEF NothingShown, Seen
<1>6. \A q \in Questions : ask'[q].pc = "asked" \/ ask'[q] = ask[q]
    OBVIOUS
<1>7. ask'[p].pc # "asked" => task'[p].pc = "none"
    BY <1>1
<1> QED BY <1>1, <1>3, <1>4, <1>5, <1>6, <1>7, StepOf

\* The key is empty when the task starts: what it goes on to publish is all there will be.
LEMMA RunTells ==
    ASSUME TurnInv, ShownInv, failed = {}, NEW p \in Questions, Run(p)
    PROVE  ShownInv'
<1> DEFINE t == TurnOf(p)
<1>0. /\ task[p].pc = "queued" /\ task \in [Questions -> TaskType]
      /\ UNCHANGED <<turns, stream, renewed, ask, reader, failed>>
    BY DEF Run, streamVars, TurnInv, TypeOK
<1>1. PICK r : /\ task' = [task EXCEPT ![p] = r]
               /\ \/ r.pc = "raised"
                  \/ /\ r.pc = "sink"
                     /\ \E o \in Outcomes(p) : r.todo = Script(o) /\ r.answer = o.answer
    <2>1. CASE TaskGoto(p, "raised")
        <3> DEFINE r == [task[p] EXCEPT !.pc = "raised"]
        <3>1. r.pc = "raised"
            BY <1>0 DEF TaskType
        <3> QED BY <2>1, <3>1 DEF TaskGoto
    <2>2. CASE ~ TaskGoto(p, "raised")
        <3>1. PICK o \in Outcomes(p) :
                task' = [task EXCEPT ![p] =
                   [pc |-> "sink",
                    todo |-> <<Retrieved>> \o Streamed(o.streamed) \o WholeAnswer(o)
                             \o <<Done>>,
                    answer |-> o.answer]]
            BY <2>2 DEF Run
        <3> DEFINE r == [pc |-> "sink", todo |-> Script(o), answer |-> o.answer]
        <3>2. task' = [task EXCEPT ![p] = r]
            BY <3>1 DEF Script
        <3>3. r.pc = "sink" /\ r.todo = Script(o) /\ r.answer = o.answer
            OBVIOUS
        <3> HIDE DEF r
        <3> QED BY <3>2, <3>3
    <2> QED BY <2>1, <2>2
<1>2. task'[p] = r /\ SavedAt(t)' = SavedAt(t) /\ t' = t
    BY <1>0, <1>1 DEF SavedAt, TurnOf
<1>3. ASSUME TaskTells(p), ReaderTells(p)
      PROVE  TaskTells(p)' /\ ReaderTells(p)'
    <2>1. stream[t] = <<>> /\ SavedAt(t) = {}
        BY <1>0, <1>3 DEF TaskTells
    <2>2. r.pc = "sink" => Tells(<<>> \o r.todo, r.answer, p)
        <3> SUFFICES ASSUME r.pc = "sink" PROVE Tells(<<>> \o r.todo, r.answer, p)
            OBVIOUS
        <3>1. Tells(r.todo, r.answer, p)
            BY <1>1 DEF Tells
        <3>2. r.todo \in Seq(Events)
            BY <3>1, ScriptEnds
        <3>3. <<>> \o r.todo = r.todo
            BY <3>2, ConcatEmptySeq
        <3> QED BY <3>1, <3>3
    <2>3. TaskTells(p)'
        BY <1>0, <1>1, <1>2, <2>1, <2>2 DEF TaskTells
    <2>4. ReaderTells(p)'
        BY <1>0, <1>2, <1>3 DEF ReaderTells, Seen
    <2> QED BY <2>3, <2>4
<1>4. OneRowEach'
    BY <1>0 DEF ShownInv, OneRowEach
<1>5. \A u \in Turns \ {t} : stream'[u] = stream[u] /\ SavedAt(u)' = SavedAt(u)
    BY <1>0 DEF SavedAt
<1> QED BY <1>0, <1>1, <1>3, <1>4, <1>5, TaskStepTells DEF Replaces

\* The next event goes to the end of the key.
LEMMA PublishTells ==
    ASSUME TurnInv, ShownInv, failed = {}, failed' = {}, NEW p \in Questions, Publish(p)
    PROVE  ShownInv'
<1> DEFINE t == TurnOf(p)
           s == stream[t]
           x == task[p].todo
           e == Head(x)
           pc == IF Len(x) = 1 THEN "save" ELSE "sink"
           r == [task[p] EXCEPT !.todo = Tail(@), !.pc = pc]
<1>0. /\ task[p].pc = "sink" /\ task \in [Questions -> TaskType] /\ task[p] \in TaskType
      /\ task' = [task EXCEPT ![p] = r] /\ AppendTo(t, e)
      /\ UNCHANGED <<turns, renewed, ask, reader>>
    <2>1. task' = [task EXCEPT ![p] = r]
        BY DEF Publish, NextEvent
    <2>2. AppendTo(t, e)
        BY DEF Publish, Fault
    <2> QED BY <2>1, <2>2 DEF Publish, TurnInv, TypeOK
<1>1. t \in Turns /\ s \in Seq(Events) /\ x \in Seq(Events) /\ x # <<>>
    BY <1>0, TaskIsOwn DEF TurnInv, TypeOK, TasksOfCalls, TaskType
<1>2. /\ task'[p] = r /\ r.todo = Tail(x) /\ r.pc = pc /\ r.answer = task[p].answer
      /\ SavedAt(t)' = SavedAt(t) /\ t' = t
    BY <1>0 DEF SavedAt, TurnOf, TaskType
<1>3. /\ stream'[t] = Append(s, e) /\ \A u \in Turns \ {t} : stream'[u] = stream[u]
    BY <1>0, <1>1 DEF AppendTo, TurnInv, TypeOK
<1> HIDE DEF r, s, x
<1>4. /\ s \o x = Append(s, e) \o Tail(x)
      /\ Len(x) = 1 => s \o x = Append(s, e)
      /\ e \in Events
    <2>1. e \in Events /\ Tail(x) \in Seq(Events) /\ Len(Tail(x)) = Len(x) - 1
        BY <1>1, HeadTailProperties
    <2>2. x = <<e>> \o Tail(x)
        <3>1. Len(x) \in Nat \ {0}
            BY <1>1, EmptySeq
        <3>2. 1 \in 1 .. Len(x) /\ Len(x) \in 1 .. Len(x)
            BY <3>1
        <3>3. SubSeq(x, 1, Len(x)) = <<x[1]>> \o SubSeq(x, 1 + 1, Len(x))
            BY <1>1, <3>2, SubSeqRecursiveFirst
        <3>4. SubSeq(x, 1, Len(x)) = x /\ Tail(x) = SubSeq(x, 2, Len(x)) /\ e = x[1]
            BY <1>1, SubSeqFull, TailIsSubSeq
        <3> QED BY <3>3, <3>4
    <2>3. <<e>> \in Seq(Events)
        BY <2>1
    <2>4. Append(s, e) = s \o <<e>>
        BY <1>1, <2>1, AppendIsConcat
    <2>5. s \o x = Append(s, e) \o Tail(x)
        BY <1>1, <2>1, <2>2, <2>3, <2>4, ConcatAssociative
    <2>6. Append(s, e) \in Seq(Events)
        BY <1>1, <2>1, AppendProperties
    <2>7. ASSUME Len(x) = 1 PROVE s \o x = Append(s, e)
        <3>1. Len(Tail(x)) = 0
            BY <2>1, <2>7
        <3>2. Tail(x) = <<>>
            BY <2>1, <3>1, EmptySeq
        <3> QED BY <2>5, <2>6, <3>2, ConcatEmptySeq
    <2> QED BY <2>1, <2>5, <2>7
<1>5. ASSUME TaskTells(p), ReaderTells(p)
      PROVE  TaskTells(p)' /\ ReaderTells(p)'
    <2>1. SavedAt(t) = {} /\ (~renewed[t] => Tells(s \o x, task[p].answer, p))
        BY <1>0, <1>5 DEF TaskTells, s, x
    <2>2. TaskTells(p)'
        <3>1. task'[p].pc \in {"sink", "save"}
            BY <1>2
        <3>2. SavedAt(t)' = {} /\ renewed'[t'] = renewed[t] /\ stream'[t'] = Append(s, e)
            BY <1>0, <1>2, <1>3, <2>1
        <3>3. task'[p].pc = "sink" /\ ~renewed[t]
              => Tells(Append(s, e) \o task'[p].todo, task'[p].answer, p)
            BY <1>2, <1>4, <2>1
        <3>4. task'[p].pc = "save" /\ ~renewed[t] => Tells(Append(s, e), task'[p].answer, p)
            BY <1>2, <1>4, <2>1
        <3> QED BY <1>2, <3>1, <3>2, <3>3, <3>4 DEF TaskTells
    <2>3. ReaderTells(p)'
        <3>1. reader[p].end # "done" \/ (Seen(p) /\ reader[p].begin # "first")
            BY <1>0, <1>5 DEF ReaderTells
        <3>2. ASSUME reader[p].pc = "read", reader[p].begin = "first"
              PROVE  /\ ~renewed[t] /\ reader[p].pos <= Len(Append(s, e))
                     /\ reader[p].view = SubSeq(Append(s, e), 1, reader[p].pos)
            <4> DEFINE n == reader[p].pos
            <4>1. ~renewed[t] /\ n <= Len(s) /\ reader[p].view = SubSeq(s, 1, n)
                BY <1>5, <3>2 DEF ReaderTells, s
            <4>2. n \in Nat
                BY DEF TurnInv, TypeOK, ReaderType
            <4> HIDE DEF n
            <4>3. Len(Append(s, e)) = Len(s) + 1 /\ Len(s) \in Nat /\ Append(s, e) = s \o <<e>>
                BY <1>1, <1>4, AppendProperties, AppendIsConcat
            <4>4. SubSeq(s \o <<e>>, 1, n) = SubSeq(s, 1, n)
                <5>1. CASE n = 0
                    <6>1. 1 \in Int /\ 0 \in Int /\ 0 < 1
                        OBVIOUS
                    <6> QED BY <5>1, <6>1, SubSeqEmpty
                <5>2. CASE n # 0
                    <6>1. n \in 1 .. Len(s) /\ 1 \in 1 .. Len(s)
                        BY <4>1, <4>2, <4>3, <5>2
                    <6>2. <<e>> \in Seq(Events)
                        BY <1>4
                    <6> QED BY <1>1, <6>1, <6>2, SubSeqOfConcat1
                <5> QED BY <5>1, <5>2
            <4> QED BY <4>1, <4>2, <4>3, <4>4 DEF n
        <3> QED BY <1>0, <1>2, <1>3, <3>1, <3>2 DEF ReaderTells, Seen
    <2> QED BY <2>2, <2>3
<1>6. OneRowEach'
    BY <1>0 DEF ShownInv, OneRowEach
<1>7. \A u \in Turns \ {t} : stream'[u] = stream[u] /\ SavedAt(u)' = SavedAt(u)
    BY <1>0, <1>3 DEF SavedAt
<1>8. Replaces(task, p, r) /\ task[p].pc # "none"
    BY <1>0 DEF Replaces
<1> QED BY <1>0, <1>5, <1>6, <1>7, <1>8, TaskStepTells


\* The turn is saved, or its index was taken and the row there stays.
LEMMA SaveTurnTells ==
    ASSUME TurnInv, ShownInv, failed = {}, failed' = {}, NEW p \in Questions, SaveTurn(p)
    PROVE  ShownInv'
<1> DEFINE t == TurnOf(p)
           row == [index |-> t, of |-> p, answer |-> task[p].answer]
           r == [task[p] EXCEPT !.pc = "audit"]
<1>0. /\ task[p].pc = "save" /\ task[p] \in TaskType /\ task' = [task EXCEPT ![p] = r]
      /\ turns' = IF SavedAt(t) = {} THEN turns \cup {row} ELSE turns
      /\ UNCHANGED <<stream, renewed, ask, reader>>
    BY DEF SaveTurn, TaskGoto, Fault, TurnInv, TypeOK, streamVars
<1>1. task'[p].pc = "audit" /\ t' = t
    BY <1>0 DEF TurnInv, TypeOK, TaskType, TurnOf
<1>2. row.index = t /\ row.answer = task[p].answer
    OBVIOUS
<1> HIDE DEF row
<1>3. \A u \in Turns \ {t} : stream'[u] = stream[u] /\ SavedAt(u)' = SavedAt(u)
    BY <1>0, <1>2 DEF SavedAt
<1>4. OneRowEach'
    <2>1. OneRowEach
        BY DEF ShownInv
    <2> QED BY <1>0, <1>2, <2>1 DEF OneRowEach, SavedAt
<1>5. ASSUME TaskTells(p), ReaderTells(p)
      PROVE  TaskTells(p)' /\ ReaderTells(p)'
    <2>1. SavedAt(t) = {} /\ (~renewed[t] => Tells(stream[t], task[p].answer, p))
        BY <1>0, <1>5 DEF TaskTells
    <2>2. SavedAt(t)' = {row}
        <3>1. turns' = turns \cup {row} /\ \A u \in turns : u.index # t
            BY <1>0, <2>1 DEF SavedAt
        <3>2. {u \in turns' : u.index = t} = {row}
            BY <1>2, <3>1
        <3> QED BY <1>1, <3>2 DEF SavedAt
    <2>3. TaskTells(p)'
        BY <1>0, <1>1, <1>2, <2>1, <2>2 DEF TaskTells
    <2>4. ReaderTells(p)'
        BY <1>0, <1>1, <1>2, <1>5, <2>2 DEF ReaderTells, Seen
    <2> QED BY <2>3, <2>4
<1>6. Replaces(task, p, r) /\ task[p].pc # "none"
    BY <1>0 DEF Replaces
<1> QED BY <1>0, <1>3, <1>4, <1>5, <1>6, TaskStepTells

\* The task ends, and nothing that matters here with it.
LEMMA FinishTaskTells ==
    ASSUME TurnInv, ShownInv, failed = {}, NEW p \in Questions, FinishTask(p)
    PROVE  ShownInv'
<1> DEFINE t == TurnOf(p)
           r == [NoTask EXCEPT !.pc = "over"]
<1>0. /\ task[p].pc = "audit" /\ task' = [task EXCEPT ![p] = r]
      /\ UNCHANGED <<turns, stream, renewed, ask, reader>>
    BY DEF FinishTask, streamVars
<1>1. task'[p].pc = "over" /\ t' = t /\ SavedAt(t)' = SavedAt(t)
    BY <1>0 DEF TurnInv, TypeOK, TurnOf, NoTask, SavedAt
<1>2. ASSUME TaskTells(p), ReaderTells(p)
      PROVE  TaskTells(p)' /\ ReaderTells(p)'
    <2>1. TaskTells(p)'
        BY <1>0, <1>1, <1>2 DEF TaskTells
    <2>2. ReaderTells(p)'
        BY <1>0, <1>1, <1>2 DEF ReaderTells, Seen
    <2> QED BY <2>1, <2>2
<1>3. OneRowEach'
    BY <1>0 DEF ShownInv, OneRowEach
<1>4. \A u \in Turns \ {t} : stream'[u] = stream[u] /\ SavedAt(u)' = SavedAt(u)
    BY <1>0 DEF SavedAt
<1>5. Replaces(task, p, r) /\ task[p].pc # "none"
    BY <1>0 DEF Replaces
<1> QED BY <1>0, <1>2, <1>3, <1>4, <1>5, TaskStepTells

\* What the steps of a reader share: only the reader changes.
LEMMA ReaderStepTells ==
    ASSUME TurnInv, ShownInv, failed = {}, NEW p \in Questions, ask[p].pc # "idle",
           UNCHANGED <<turns, stream, renewed, ask, task>>,
           \A q \in Questions \ {p} : reader'[q] = reader[q],
           reader'[p].pc \in {"none", "look", "tail", "read"} =>
               /\ reader'[p].end = "open"
               /\ reader'[p].begin = "none" => reader'[p].view = <<>>,
           Alone(p) /\ TaskTells(p) /\ ReaderTells(p) => ReaderTells(p)'
    PROVE  ShownInv'
<1>1. \A u : SavedAt(u)' = SavedAt(u)
    BY DEF SavedAt
<1>2. OthersKept(p)
    BY <1>1 DEF OthersKept
<1>3. SameCalls
    BY DEF SameCalls, TurnOf
<1>4. TaskTells(p) => TaskTells(p)'
    BY <1>1 DEF TaskTells, TurnOf
<1>5. OneRowEach'
    BY DEF ShownInv, OneRowEach
<1>6. \A q \in Questions : ask'[q].pc = "asked" \/ ask'[q] = ask[q]
    OBVIOUS
<1>7. ask'[p].pc # "asked" => task'[p].pc = "none"
    BY DEF ShownInv, AskedFirst
<1> QED BY <1>2, <1>3, <1>4, <1>5, <1>6, <1>7, StepOf

\* Steps that hand on nothing.
LEMMA ReaderMovesTells ==
    ASSUME TurnInv, ShownInv, failed = {}, NEW p \in Questions,
           \/ LookForStream(p) \/ TailStream(p) \/ ClientGone(p) \/ ReadNothing(p) \/ TimeOut(p)
    PROVE  ShownInv'
<1>0. /\ reader[p].pc \in {"look", "tail", "read"}
      /\ UNCHANGED <<turns, stream, renewed, ask, task>>
      /\ \A q \in Questions \ {p} : reader'[q] = reader[q]
    BY DEF LookForStream, TailStream, ClientGone, ReadNothing, TimeOut, ReaderGoto, streamVars,
           TurnInv, TypeOK, HasEvents, HasNone
<1>1. /\ reader \in [Questions -> ReaderType] /\ reader[p] \in ReaderType
      /\ reader[p].end = "open" /\ (~Seen(p) => reader[p].view = <<>>)
      /\ Seen(p) => reader[p].pc \in {"read", "clean", "closed"}
    BY <1>0 DEF TurnInv, TypeOK, ShownInv, NothingShown, ReadersOfCalls
<1>2. ask[p].pc # "idle"
    BY <1>0, ReaderIsOwn
<1>3. reader'[p].begin = reader[p].begin /\ reader'[p].view = reader[p].view
    BY <1>1 DEF LookForStream, TailStream, ClientGone, ReadNothing, TimeOut, ReaderGoto, ReaderType
<1>4. /\ reader'[p].end \in {"open", "error"}
      /\ reader'[p].pc # "clean" => reader'[p].end = "open"
    BY <1>1 DEF LookForStream, TailStream, ClientGone, ReadNothing, TimeOut, ReaderGoto, ReaderType
<1>5. /\ reader'[p].pc = "read" /\ reader'[p].begin = "first"
      => reader[p].pc = "read" /\ reader'[p].pos = reader[p].pos
    BY <1>0, <1>1, <1>3
       DEF LookForStream, TailStream, ClientGone, ReadNothing, TimeOut, ReaderGoto, ReaderType,
           Seen
<1>6. ASSUME ReaderTells(p) PROVE ReaderTells(p)'
    <2>1. TurnOf(p)' = TurnOf(p)
        BY <1>0 DEF TurnOf
    <2> QED BY <1>0, <1>3, <1>4, <1>5, <1>6, <2>1 DEF ReaderTells
<1> QED BY <1>0, <1>1, <1>2, <1>3, <1>4, <1>6, ReaderStepTells DEF Seen

\* A client that opens the stream of a saved turn is shown its answer.
LEMMA OpenStreamTells ==
    ASSUME TurnInv, ShownInv, failed = {}, failed' = {}, NEW p \in Questions, OpenStream(p)
    PROVE  ShownInv'
<1> DEFINE t == TurnOf(p)
<1>0. /\ ask[p].pc = "asked" /\ reader[p].pc = "none"
      /\ UNCHANGED <<turns, stream, renewed, ask, task>>
      /\ reader \in [Questions -> ReaderType] /\ reader[p] \in ReaderType
      /\ ~Seen(p) /\ reader[p].end = "open" /\ reader[p].view = <<>>
    BY DEF OpenStream, streamVars, TurnInv, TypeOK, ShownInv, NothingShown, ReadersOfCalls
<1>1. CASE ReaderGoto(p, "look")
    <2>1. /\ \A q \in Questions \ {p} : reader'[q] = reader[q]
          /\ reader'[p].pc = "look" /\ reader'[p].end = "open"
          /\ reader'[p].view = reader[p].view
        BY <1>0, <1>1 DEF ReaderGoto, ReaderType
    <2>2. ReaderTells(p)'
        BY <2>1 DEF ReaderTells
    <2> QED BY <1>0, <2>1, <2>2, ReaderStepTells
<1>2. ASSUME NEW r \in SavedAt(t),
             reader' = [reader EXCEPT ![p].pc = "closed", ![p].end = "done",
                                      ![p].view = <<Token(r.answer)>>]
      PROVE  ShownInv'
    <2>1. /\ \A q \in Questions \ {p} : reader'[q] = reader[q]
          /\ reader'[p].pc = "closed" /\ reader'[p].end = "done"
          /\ reader'[p].view = <<Token(r.answer)>>
        BY <1>0, <1>2 DEF ReaderType
    <2>2. Shows(reader'[p].view, r.answer, p)
        <3>1. r.answer \in Seq(Pieces)
            BY DEF TurnInv, TypeOK, SavedAt
        <3> QED BY <2>1, <3>1, ReplayText
    <2>3. ASSUME TaskTells(p) PROVE ReaderTells(p)'
        <3>1. task[p].pc \in {"audit", "over"}
            <4>1. task[p] \in TaskType /\ SavedAt(t) # {}
                BY DEF TurnInv, TypeOK
            <4> QED BY <2>3, <4>1 DEF TaskTells, TaskType
        <3>2. \A u \in SavedAt(t) : u = r
            BY DEF ShownInv, OneRowEach, SavedAt
        <3>3. SavedAt(t)' = SavedAt(t) /\ t' = t
            BY <1>0 DEF SavedAt, TurnOf
        <3> QED BY <1>0, <2>1, <2>2, <3>1, <3>2, <3>3 DEF ReaderTells
    <2> QED BY <1>0, <2>1, <2>3, ReaderStepTells
<1> QED BY <1>1, <1>2 DEF OpenStream


\* The client is handed the next entries.  If 'done' is among them they are the rest of the
\* script, whose task has then nothing left to publish.
LEMMA RelayEventsTells ==
    ASSUME TurnInv, ShownInv, failed = {}, NEW p \in Questions, RelayEvents(p)
    PROVE  ShownInv'
<1> DEFINE t == TurnOf(p)
           s == stream[t]
           n == reader[p].pos
           h == Handed(p)
           l == Len(h)
           m == n + l
           old == reader[p].view
           new == reader'[p].view
<1>0. /\ reader[p].pc = "read" /\ Ahead(p) # <<>> /\ Relay(p, "read")
      /\ UNCHANGED <<turns, stream, renewed, ask, task>>
      /\ reader \in [Questions -> ReaderType] /\ reader[p] \in ReaderType
      /\ reader[p].end = "open" /\ (~Seen(p) => old = <<>>)
      /\ ask[p].pc # "idle" /\ t \in Turns /\ s \in Seq(Events)
    BY ReaderIsOwn
       DEF RelayEvents, HasEvents, streamVars, TurnInv, TypeOK, ShownInv, NothingShown
<1>1. /\ h \in Seq(Events) /\ l \in Nat \ {0} /\ n \in Nat /\ m <= Len(s)
      /\ h = SubSeq(s, n + 1, m) /\ Len(s) \in Nat
    BY <1>0, HandedIsNext DEF ReaderType
<1>2. /\ reader'[p].pc = IF Ended(p) THEN "clean" ELSE "read"
      /\ reader'[p].pos = m
      /\ reader'[p].begin = IF Seen(p) THEN reader[p].begin ELSE BeginOf(p)
      /\ new = old \o h
      /\ reader'[p].end = IF Ended(p) THEN "done" ELSE "open"
      /\ \A q \in Questions \ {p} : reader'[q] = reader[q]
    BY <1>0 DEF Relay, ReaderType
<1>3. /\ ~Ended(p) => reader'[p].end = "open" /\ reader'[p].pc = "read"
      /\ reader'[p].begin # "none"
      /\ Ended(p) => reader'[p].pc = "clean"
    BY <1>2 DEF Seen, BeginOf
<1>4. Ended(p) => s[m] = Done
    <2>1. Ended(p) => h[l] = Done
        BY DEF Ended, Last
    <2> HIDE DEF h, s
    <2>2. h[l] = s[m]
        <3> HIDE DEF l, n
        <3> DEFINE a == n + 1
        <3>1. a \in Int /\ m \in Int /\ m - a + 1 = l /\ a + l - 1 = m
            BY <1>1
        <3>2. \A i \in a .. m : s[i] \in Events
            <4>1. \A i \in a .. m : i \in 1 .. Len(s)
                BY <1>1
            <4> QED BY <1>0, <4>1, ElementOfSeq
        <3>3. h = SubSeq(s, a, m)
            BY <1>1
        <3> HIDE DEF a, m
        <3>4. \A i \in 1 .. m - a + 1 : SubSeq(s, a, m)[i] = s[a + i - 1]
            BY <3>1, <3>2, SubSeqProperties
        <3>5. l \in 1 .. m - a + 1
            BY <1>1, <3>1
        <3>6. SubSeq(s, a, m)[l] = s[a + l - 1]
            BY <3>4, <3>5
        <3> QED BY <3>1, <3>3, <3>6
    <2> QED BY <2>1, <2>2
<1> HIDE DEF h, s, m, l, n, new, old
<1>5. ASSUME TaskTells(p), ReaderTells(p)
      PROVE  ReaderTells(p)'
    <2>1. TurnOf(p)' = t /\ SavedAt(TurnOf(p))' = SavedAt(t) /\ stream'[t] = s
        BY <1>0 DEF TurnOf, SavedAt, s
    <2>2. ASSUME reader'[p].begin = "first"
          PROVE  ~renewed[t] /\ new = SubSeq(s, 1, m)
        <3>1. CASE Seen(p)
            <4>1. ~renewed[t] /\ n <= Len(s) /\ old = SubSeq(s, 1, n)
                BY <1>0, <1>2, <1>5, <2>2, <3>1 DEF ReaderTells, s, n, old
            <4>2. 1 \in 1 .. Len(s) + 1 /\ n \in 1 - 1 .. Len(s) /\ m \in n .. Len(s)
                BY <1>1 DEF m
            <4>3. SubSeq(s, 1, n) \o SubSeq(s, n + 1, m) = SubSeq(s, 1, m)
                BY <1>0, <4>2, ConcatAdjacentSubSeq DEF s
            <4> QED BY <1>1, <1>2, <4>1, <4>3
        <3>2. CASE ~Seen(p)
            <4>1. n = 0 /\ ~renewed[t] /\ old = <<>>
                BY <1>0, <1>2, <2>2, <3>2 DEF BeginOf, n
            <4>2. <<>> \o h = h /\ h = SubSeq(s, 1, m)
                BY <1>1, <4>1, ConcatEmptySeq
            <4> QED BY <1>2, <4>1, <4>2
        <3> QED BY <3>1, <3>2
    <2>3. m <= Len(s) /\ m \in Nat \ {0}
        BY <1>1 DEF m
    <2>4. ASSUME Ended(p), reader'[p].begin = "first"
          PROVE  /\ task[p].pc \in {"save", "audit", "over"}
                 /\ task[p].pc = "save" => Shows(new, task[p].answer, p)
                 /\ \A r \in SavedAt(t) : Shows(new, r.answer, p)
        <3>1. s[m] = Done /\ ~renewed[t] /\ new = SubSeq(s, 1, m)
            BY <1>4, <2>2, <2>4
        <3>2. \A a : Tells(s, a, p) => Shows(new, a, p)
            <4> SUFFICES ASSUME NEW a, Tells(s, a, p) PROVE Shows(new, a, p)
                OBVIOUS
            <4>1. m = Len(s)
                BY <2>3, <3>1, <1>1, ScriptEnds
            <4>2. new = s
                BY <1>0, <3>1, <4>1, SubSeqFull DEF s
            <4> QED BY <4>2, ScriptText
        <3>3. task[p].pc \notin {"none", "queued", "raised"}
            <4>1. s # <<>>
                <5> SUFFICES ASSUME s = <<>> PROVE FALSE
                    OBVIOUS
                <5> QED BY <2>3, EmptySeq
            <4> QED BY <1>5, <4>1 DEF TaskTells, s
        <3>4. task[p].pc # "sink"
            <4> SUFFICES ASSUME task[p].pc = "sink" PROVE FALSE
                OBVIOUS
            <4> DEFINE x == task[p].todo
                       e == s \o x
            <4>1. Tells(e, task[p].answer, p) /\ x # <<>> /\ x \in Seq(Events)
                BY <1>5, <3>1 DEF TaskTells, s, TurnInv, TypeOK, TaskType, TasksOfCalls
            <4> HIDE DEF x
            <4>2. Len(x) \in Nat \ {0}
                BY <4>1, EmptySeq
            <4>3. /\ Len(e) = Len(s) + Len(x)
                  /\ \A i \in 1 .. Len(s) + Len(x) :
                        e[i] = IF i <= Len(s) THEN s[i] ELSE x[i - Len(s)]
                BY <1>0, <4>1, ConcatProperties DEF s
            <4> HIDE DEF e
            <4>4. m \in 1 .. Len(e) /\ m # Len(e) /\ e[m] = Done
                BY <1>1, <2>3, <3>1, <4>2, <4>3
            <4> QED BY <4>1, <4>4, ScriptEnds
        <3>5. task[p].pc \in {"save", "audit", "over"}
            BY <3>3, <3>4 DEF TurnInv, TypeOK, TaskType
        <3>6. task[p].pc = "save" => Tells(s, task[p].answer, p) /\ SavedAt(t) = {}
            BY <1>5, <3>1 DEF TaskTells, s
        <3>7. task[p].pc \in {"audit", "over"} => \A r \in SavedAt(t) : Tells(s, r.answer, p)
            BY <1>5, <3>1 DEF TaskTells, s
        <3> QED BY <3>2, <3>5, <3>6, <3>7
    <2> QED BY <1>0, <1>2, <1>3, <2>1, <2>2, <2>3, <2>4 DEF ReaderTells, Seen, new
<1> QED BY <1>0, <1>2, <1>3, <1>5, ReaderStepTells

\* What a client keeps when its stream is closed.
LEMMA ClosedKeeps ==
    ASSUME TurnInv, NEW p \in Questions
    PROVE  /\ Closed(p).pc = "closed"
           /\ Closed(p).end = "done" => /\ reader[p].end = "done"
                                        /\ Closed(p).begin = reader[p].begin
                                        /\ Closed(p).view = reader[p].view
<1>1. reader[p] \in ReaderType
    BY DEF TurnInv, TypeOK
<1>2. CASE reader[p].end = "done"
    BY <1>1, <1>2 DEF Closed, ReaderType
<1>3. CASE reader[p].end # "done"
    BY <1>3 DEF Closed, NoReader
<1> QED BY <1>2, <1>3

\* The key of the turn is removed behind the reader.
LEMMA DeleteStreamTells ==
    ASSUME TurnInv, ShownInv, failed = {}, failed' = {}, NEW p \in Questions, DeleteStream(p)
    PROVE  ShownInv'
<1> DEFINE t == TurnOf(p)
<1>0. /\ reader[p].pc = "clean" /\ RemoveKey(t)
      /\ reader' = [q \in Questions |->
                    IF q = p THEN Closed(q)
                    ELSE IF TurnOf(q) = t THEN [reader[q] EXCEPT !.pos = 0]
                    ELSE reader[q]]
      /\ UNCHANGED <<turns, ask, task>>
      /\ ask[p].pc # "idle" /\ t \in Turns
    BY ReaderIsOwn DEF DeleteStream, Fault
<1>1. /\ stream'[t] = <<>> /\ renewed'[t] = TRUE
      /\ \A u \in Turns \ {t} : stream'[u] = stream[u] /\ renewed'[u] = renewed[u]
    BY <1>0 DEF RemoveKey, TurnInv, TypeOK
<1>2. \A u : SavedAt(u)' = SavedAt(u)
    BY <1>0 DEF SavedAt
<1>3. \A q \in Questions : reader[q] \in ReaderType
    BY DEF TurnInv, TypeOK
<1>4. /\ reader'[p] = Closed(p)
      /\ \A q \in Questions \ {p} : reader'[q] \in {reader[q], [reader[q] EXCEPT !.pos = 0]}
      /\ \A q \in Questions \ {p} : TurnOf(q) # t => reader'[q] = reader[q]
    BY <1>0
<1>5. OthersKept(p)
    <2>1. ASSUME NEW q \in Questions \ {p}
          PROVE  /\ reader'[q].pc = reader[q].pc /\ reader'[q].begin = reader[q].begin
                 /\ reader'[q].view = reader[q].view /\ reader'[q].end = reader[q].end
        <3>1. CASE reader'[q] = reader[q]
            BY <3>1
        <3>2. CASE reader'[q] = [reader[q] EXCEPT !.pos = 0]
            BY <1>3, <3>2 DEF ReaderType
        <3> QED BY <1>4, <3>1, <3>2
    <2> QED BY <1>0, <1>1, <1>2, <1>4, <2>1 DEF OthersKept
<1>6. SameCalls
    BY <1>0 DEF SameCalls, TurnOf
<1>7. OneRowEach'
    BY <1>0 DEF ShownInv, OneRowEach
<1>8. ASSUME TaskTells(p), ReaderTells(p)
      PROVE  TaskTells(p)' /\ ReaderTells(p)'
    <2>1. TurnOf(p)' = t /\ SavedAt(TurnOf(p))' = SavedAt(t)
        BY <1>0, <1>2 DEF TurnOf
    <2>2. TaskTells(p)'
        BY <1>0, <1>1, <1>8, <2>1 DEF TaskTells
    <2>3. ReaderTells(p)'
        BY <1>0, <1>4, <1>8, <2>1, ClosedKeeps DEF ReaderTells, Seen
    <2> QED BY <2>2, <2>3
<1>9. reader'[p].pc = "closed"
    BY <1>4, ClosedKeeps
<1>10. \A q \in Questions : ask'[q].pc = "asked" \/ ask'[q] = ask[q]
    BY <1>0
<1>11. ask'[p].pc # "asked" => task'[p].pc = "none"
    BY <1>0 DEF ShownInv, AskedFirst
<1> QED BY <1>0, <1>5, <1>6, <1>7, <1>8, <1>9, <1>10, <1>11, StepOf

\* A reader under which the key expires counts no longer as one that has seen it all.
LEMMA ExpireTells ==
    ASSUME TurnInv, ShownInv, failed = {}, NEW t \in Turns, Expire(t)
    PROVE  ShownInv'
<1>0. /\ RemoveKey(t)
      /\ UNCHANGED <<turns, ask, task>>
      /\ \A q \in Questions : Outdated(q, t)
    BY ExpiredUnder DEF Expire
<1>1. /\ stream'[t] = <<>> /\ renewed'[t] = TRUE
      /\ \A u \in Turns \ {t} : stream'[u] = stream[u] /\ renewed'[u] = renewed[u]
    BY <1>0 DEF RemoveKey, TurnInv, TypeOK
<1>2. OneRowEach' /\ NothingShown' /\ AskedFirst'
    BY <1>0 DEF ShownInv, OneRowEach, NothingShown, AskedFirst, Seen, Outdated
<1>3. ASSUME NEW q \in Questions
      PROVE  Told(q)'
    <2> SUFFICES ASSUME ask[q].pc # "idle", Alone(q)
                 PROVE  TaskTells(q)' /\ ReaderTells(q)'
        BY <1>0 DEF Told, Alone, TurnOf
    <2>1. TaskTells(q) /\ ReaderTells(q)
        BY DEF ShownInv, Told
    <2>2. TurnOf(q)' = TurnOf(q) /\ TurnOf(q) \in Turns
        BY <1>0 DEF TurnOf, TurnInv, Numbering
    <2>3. SavedAt(TurnOf(q))' = SavedAt(TurnOf(q))
        BY <1>0, <2>2 DEF SavedAt
    <2>4. CASE TurnOf(q) = t
        <3>1. TaskTells(q)'
            BY <1>0, <1>1, <2>1, <2>2, <2>3, <2>4 DEF TaskTells
        <3>2. ReaderTells(q)'
            BY <1>0, <2>1, <2>2, <2>3, <2>4 DEF ReaderTells, Seen, Outdated
        <3> QED BY <3>1, <3>2
    <2>5. CASE TurnOf(q) # t
        <3>1. {r \in turns' : r.index = TurnOf(q)} = SavedAt(TurnOf(q))
            BY <1>0 DEF SavedAt
        <3>2. reader'[q] = reader[q] /\ task'[q] = task[q]
            BY <1>0, <2>5 DEF Outdated
        <3> QED BY <1>1, <2>1, <2>2, <2>5, <3>1, <3>2, TellsOn
    <2> QED BY <2>4, <2>5
<1> QED BY <1>2, <1>3 DEF ShownInv

\* Every step keeps the invariant; after a failure it says nothing.
LEMMA NextShownInv == TurnInv /\ ShownInv /\ [Next]_vars => ShownInv'
<1> SUFFICES ASSUME TurnInv, ShownInv, [Next]_vars, failed' = {} PROVE ShownInv'
    BY DEF ShownInv
<1>0. failed = {}
    <2>1. CASE UNCHANGED vars
        BY <2>1 DEF vars
    <2>2. CASE Next
        <3>1. failed' = failed \/ \E kind : Fault(kind)
            BY <2>2
               DEF Next, TaskStep, ReaderStep, NumberTurn, Number, DispatchQuery, Run, Publish,
                   SaveTurn, FinishTask, WorkerLost, OpenStream, LookForStream, TailStream,
                   RelayEvents, ReadNothing, TimeOut, DeleteStream, ClientGone, ReaderFails,
                   ApiLost, Expire, NoFault
        <3> QED BY <3>1 DEF Fault
    <2> QED BY <2>1, <2>2
<1>1. ASSUME NEW q \in Questions, NumberTurn(q) \/ DispatchQuery(q)
      PROVE  ShownInv'
    BY <1>0, <1>1, NumberTurnTells, DispatchQueryTells
<1>2. ASSUME NEW q \in Questions, TaskStep(q)
      PROVE  ShownInv'
    BY <1>0, <1>2, RunTells, PublishTells, SaveTurnTells, FinishTaskTells DEF TaskStep
<1>3. ASSUME NEW q \in Questions, OpenStream(q) \/ ReaderStep(q) \/ ClientGone(q)
      PROVE  ShownInv'
    BY <1>0, <1>3, OpenStreamTells, ReaderMovesTells, RelayEventsTells, DeleteStreamTells
       DEF ReaderStep
<1>4. ASSUME NEW t \in Turns, Expire(t)
      PROVE  ShownInv'
    BY <1>0, <1>4, ExpireTells
<1>5. ASSUME NEW q \in Questions
      PROVE  ~WorkerLost(q) /\ ~ReaderFails(q) /\ ~ApiLost
    BY DEF WorkerLost, ReaderFails, ApiLost, Fault
<1>6. CASE UNCHANGED vars
    <2>1. OneRowEach' /\ NothingShown' /\ AskedFirst'
        BY <1>0, <1>6
           DEF vars, streamVars, ShownInv, OneRowEach, NothingShown, AskedFirst, Seen
    <2>2. ASSUME NEW q \in Questions
          PROVE  Told(q)'
        BY <1>0, <1>6 DEF vars, streamVars, ShownInv, Told, TaskTells, ReaderTells, Alone,
                          TurnOf, SavedAt, Seen
    <2> QED BY <2>1, <2>2 DEF ShownInv
<1>7. CASE Next
    <2>1. ~ApiLost
        BY DEF ApiLost, Fault
    <2> QED BY <1>1, <1>2, <1>3, <1>4, <1>5, <1>7, <2>1 DEF Next
<1> QED BY <1>6, <1>7

\* While nothing fails, what a client alone on its turn index was shown by the time of
\* 'done', from the first event on and without the key's end, or as a replay, is the text
\* that the history keeps, unless the answer was replaced: the reader and _save_turn get
\* the same text by different ways.
THEOREM ClientsSeeWhatIsKept == Spec => []ShownIsSaved
<1>1. TurnInv /\ ShownInv => ShownIsSaved
    <2> SUFFICES ASSUME TurnInv, ShownInv, failed = {}, NEW q \in Questions,
                        Alone(q), reader[q].end = "done",
                        Seen(q) => reader[q].begin = "first",
                        NEW r \in SavedAt(TurnOf(q))
                 PROVE  TextOf(reader[q].view) = r.answer \/ r.answer = Instead(q)
        BY DEF ShownIsSaved
    <2>1. ask[q].pc # "idle"
        BY DEF TurnInv, ReadersOfCalls, ShownInv, NothingShown
    <2>2. ReaderTells(q)
        BY <2>1 DEF ShownInv, Told
    <2>3. Shows(reader[q].view, r.answer, q)
        BY <2>2 DEF ReaderTells
    <2> QED BY <2>3 DEF Shows
<1>2. Spec => []ShownInv
    BY InitShownInv, NextShownInv, TurnInvariant, PTL DEF Spec
<1> QED BY <1>1, <1>2, TurnInvariant, PTL
=============================================================================
