----------------------- MODULE VisibilityEvents_proofs -----------------------
(***************************************************************************)
(* What the way from an event to the stamps keeps, for every number of     *)
(* chunks, workers, changes and failures.  EventInv relates the consumer   *)
(* group's pending entries, the threads and the set of processed events;   *)
(* WriteInv relates what the stamping tasks are about to write to what the *)
(* rows hold; MendInv relates rows that differ to the tasks still to come. *)
(***************************************************************************)
EXTENDS VisibilityEvents, FiniteSetTheorems, NaturalLemmas, TLAPS

(* Types *)

\* The first of some events is one of them.
LEMMA FirstIsMember ==
    ASSUME NEW events \in SUBSET Events, events # {}
    PROVE  First(events) \in events
<1>1. events \in SUBSET Nat
    BY DEF Events
<1>2. \E e \in events : \A f \in events : e <= f
    BY <1>1, LeastElement
<1> QED BY <1>2 DEF First

\* A fault adds one kind to those that happened.
LEMMA FaultType ==
    ASSUME StampingTypeOK, NoFault \/ \E kind : Fault(kind)
    PROVE  /\ failed' \subseteq FaultKinds /\ Cardinality(failed') <= MaxFaults
           /\ failed \subseteq failed'
<1>1. CASE NoFault
    BY <1>1 DEF NoFault, StampingTypeOK
<1>2. ASSUME NEW kind, Fault(kind)
      PROVE  /\ failed' \subseteq FaultKinds /\ Cardinality(failed') <= MaxFaults
             /\ failed \subseteq failed'
    <2>1. /\ IsFiniteSet(failed) /\ Cardinality(failed) \in Nat
          /\ kind \notin failed
        BY <1>2, StampingAssumption, FS_Subset, FS_CardinalityType
           DEF StampingTypeOK, Fault
    <2>2. Cardinality(failed \cup {kind}) = Cardinality(failed) + 1
        BY <2>1, FS_AddElement
    <2> QED BY <1>2, <2>1, <2>2, StampingAssumption DEF StampingTypeOK, Fault
<1> QED BY <1>1, <1>2

\* A step of the stamping workers or of the sweep.
StampNext ==
    \/ \E w \in Workers : StampStep(w) \/ StampFails(w)
    \/ ReconcileStamps

\* The stamping workers and the sweep keep the types of what they share.
LEMMA StampingTypes ==
    ASSUME StampingTypeOK, StampNext
    PROVE  StampingTypeOK' /\ perm' = perm /\ failed \subseteq failed'
<1>1. NoFault \/ \E kind : Fault(kind)
    BY DEF StampNext, StampStep, TakeStamp, CheckVersion, UpsertBatch, StampFails,
           ReconcileStamps
<1>2. /\ failed' \subseteq FaultKinds /\ Cardinality(failed') <= MaxFaults
      /\ failed \subseteq failed'
    BY <1>1, FaultType
<1>3. perm' = perm /\ perm \in Visibility /\ raced \in BOOLEAN
    BY DEF StampNext, StampStep, TakeStamp, CheckVersion, UpsertBatch, StampFails,
           ReconcileStamps, StampingTypeOK
<1> DEFINE Hand == [pc : {"free", "check", "upsert"}, stamp : 0 .. MaxVersion,
                    todo : SUBSET Rows]
<1>4. /\ MaxVersion \in Nat \ {0} /\ MaxQueue \in Nat \ {0}
      /\ StampOf(perm) \in 0 .. MaxVersion /\ Free \in Hand
    BY <1>3, StampingAssumption DEF StampOf, Visibility, Free
<1>5. vis \in [Rows -> 0 .. MaxVersion] /\ queued \in 0 .. MaxQueue
      /\ worker \in [Workers -> Hand]
    BY DEF StampingTypeOK
<1>6. ASSUME RequestStamp
      PROVE  queued' \in 0 .. MaxQueue
    BY <1>4, <1>5, <1>6 DEF RequestStamp
<1>7. ASSUME NEW w \in Workers, WriteAll(w)
      PROVE  worker' \in [Workers -> Hand]
    BY <1>5, <1>7 DEF WriteAll
<1>8. ASSUME NEW w \in Workers, StampStep(w) \/ StampFails(w)
      PROVE  /\ vis' \in [Rows -> 0 .. MaxVersion] /\ queued' \in 0 .. MaxQueue
             /\ worker' \in [Workers -> Hand] /\ raced' \in BOOLEAN
    <2>1. CASE TakeStamp(w)
        <3>1. queued' \in 0 .. MaxQueue
            BY <1>4, <1>5, <2>1 DEF TakeStamp
        <3>2. worker' \in [Workers -> Hand]
            BY <1>4, <1>5, <2>1 DEF TakeStamp
        <3> QED BY <1>3, <1>5, <2>1, <3>1, <3>2 DEF TakeStamp
    <2>2. CASE CheckVersion(w)
        <3>1. worker' \in [Workers -> Hand]
            BY <1>4, <1>5, <1>7, <2>2 DEF CheckVersion
        <3> QED BY <1>3, <1>5, <2>2, <3>1 DEF CheckVersion
    <2>3. CASE UpsertBatch(w)
        <3>1. PICK batch \in SUBSET worker[w].todo :
                  /\ vis' = [r \in Rows |-> IF r \in batch THEN worker[w].stamp ELSE vis[r]]
                  /\ worker' = [worker EXCEPT ![w] =
                       IF worker[w].todo = batch THEN Free
                       ELSE [worker[w] EXCEPT !.todo = worker[w].todo \ batch]]
            BY <2>3 DEF UpsertBatch
        <3>2. worker[w] \in Hand
            BY <1>5
        <3>3. vis' \in [Rows -> 0 .. MaxVersion]
            BY <1>5, <3>1, <3>2
        <3>4. worker' \in [Workers -> Hand]
            <4>1. [worker[w] EXCEPT !.todo = worker[w].todo \ batch] \in Hand
                BY <3>2
            <4> DEFINE new == IF worker[w].todo = batch THEN Free
                              ELSE [worker[w] EXCEPT !.todo = worker[w].todo \ batch]
            <4>2. new \in Hand
                <5> HIDE DEF Hand
                <5> QED BY <1>4, <4>1
            <4>3. worker' = [worker EXCEPT ![w] = new]
                BY <1>5, <3>1
            <4> HIDE DEF Hand, new
            <4> QED BY <1>5, <4>2, <4>3
        <3>5. queued' = queued /\ raced' \in BOOLEAN
            BY <1>3, <2>3 DEF UpsertBatch
        <3> QED BY <1>5, <3>3, <3>4, <3>5
    <2>4. CASE StampFails(w)
        BY <1>3, <1>4, <1>5, <1>6, <2>4 DEF StampFails
    <2> QED BY <1>8, <2>1, <2>2, <2>3, <2>4 DEF StampStep
<1>9. CASE ReconcileStamps
    BY <1>2, <1>3, <1>5, <1>6, <1>9 DEF ReconcileStamps, StampingTypeOK
<1> QED BY <1>2, <1>3, <1>8, <1>9 DEF StampNext, StampingTypeOK

-----------------------------------------------------------------------------
(* Nothing is forgotten *)

\* What counts as processed was requested, so is what either thread is about to mark or
\* to acknowledge, and the Pub/Sub thread requests for an event it holds only.
SeenIsRequested == "request" \notin failed => seen \subseteq requested
Asked(thread) ==
    thread.next \in {"clear", "add", "ack"} =>
        /\ thread.todo # {}
        /\ "request" \notin failed => First(thread.todo) \in requested
BothAsked == Asked(reader) /\ Asked(listener)
HoldsToRequest == listener.next = "request" => listener.todo # {}

\* NothingForgotten is not inductive alone: a message is taken off the pending list for
\* the reason that its event was in the set of processed ones.
EventInv ==
    TypeOK /\ SeenIsRequested /\ BothAsked /\ HoldsToRequest /\ NothingForgotten

\* The invariant holds at the start.
LEMMA InitEventInv == Init => EventInv
<1> SUFFICES ASSUME Init PROVE EventInv
    OBVIOUS
<1>1. StampingTypeOK
    <2>1. /\ MaxVersion \in Nat \ {0} /\ MaxQueue \in Nat \ {0} /\ MaxFaults \in Nat
          /\ 1 \in 1 .. MaxVersion /\ 1 \in 0 .. MaxVersion /\ 0 \in 0 .. MaxVersion
          /\ 0 \in 0 .. MaxQueue
        BY StampingAssumption
    <2>2. failed \subseteq FaultKinds /\ Cardinality(failed) <= MaxFaults
        BY <2>1, FS_EmptySet DEF Init, StampingInit
    <2>3. perm \in Visibility
        BY <2>1 DEF Init, StampingInit, Visibility
    <2>4. worker \in [Workers -> [pc : {"free", "check", "upsert"},
                                  stamp : 0 .. MaxVersion, todo : SUBSET Rows]]
        BY <2>1 DEF Init, StampingInit, Free
    <2>5. vis \in [Rows -> 0 .. MaxVersion] /\ queued \in 0 .. MaxQueue /\ raced \in BOOLEAN
        BY <2>1 DEF Init, StampingInit
    <2> QED BY <2>2, <2>3, <2>4, <2>5 DEF StampingTypeOK
<1>2. TypeOK
    BY <1>1, FS_EmptySet, EventsAssumption
       DEF Init, StampingInit, TypeOK, Started, Listening, Thread, Events
<1> QED BY <1>2 DEF Init, StampingInit, EventInv, SeenIsRequested, BothAsked, Asked,
                    HoldsToRequest, NothingForgotten, Started, Listening

\* Requesting for an event, or being refused, keeps types and SeenIsRequested.
LEMMA RequestKeeps ==
    ASSUME EventInv, NEW event \in Events, RequestFor(event)
    PROVE  /\ StampingTypeOK'
           /\ perm' = perm /\ failed \subseteq failed'
           /\ seen' = seen
           /\ requested' \subseteq Events /\ requested \subseteq requested'
           /\ "request" \notin failed' => event \in requested'
           /\ SeenIsRequested'
<1>1. StampingTypeOK /\ seen \subseteq Events /\ requested \subseteq Events
    BY DEF EventInv, TypeOK
<1>2. /\ failed' \subseteq FaultKinds /\ Cardinality(failed') <= MaxFaults
      /\ failed \subseteq failed'
    <2>1. NoFault \/ \E kind : Fault(kind)
        BY DEF RequestFor
    <2> QED BY <1>1, <2>1, FaultType
<1>3. queued' \in 0 .. MaxQueue
    <2>1. queued \in 0 .. MaxQueue /\ MaxQueue \in Nat
        BY <1>1, StampingAssumption DEF StampingTypeOK
    <2> QED BY <2>1 DEF RequestFor, RequestStamp
<1>4. StampingTypeOK'
    BY <1>1, <1>2, <1>3 DEF RequestFor, StampingTypeOK
<1>5. /\ requested' \subseteq Events /\ requested \subseteq requested'
      /\ "request" \notin failed' => event \in requested'
    BY <1>1 DEF RequestFor, Fault
<1>6. seen' = seen /\ SeenIsRequested'
    BY <1>2, <1>5 DEF EventInv, SeenIsRequested, RequestFor
<1> QED BY <1>2, <1>4, <1>5, <1>6 DEF RequestFor

\* What every step has to show that leaves the stamping alone.
LEMMA EventStepKeeps ==
    ASSUME EventInv, UNCHANGED stampVars, NoFault \/ \E kind : Fault(kind),
           delivered' \in 1 .. perm.version,
           pending' \subseteq Events, stranded' \subseteq Events,
           reader' \in Thread({"recover", "read", "down"}),
           listener' \in Thread({"listen", "deaf"}),
           inbox' \subseteq Events, requested' = requested,
           seen' \subseteq Events, "request" \notin failed => seen' \subseteq requested,
           Asked(reader'), Asked(listener'),
           listener'.next = "request" => listener'.todo # {},
           NothingForgotten'
    PROVE  EventInv'
<1>1. /\ failed' \subseteq FaultKinds /\ Cardinality(failed') <= MaxFaults
      /\ failed \subseteq failed'
    BY FaultType DEF EventInv, TypeOK
<1>2. StampingTypeOK'
    BY <1>1 DEF EventInv, TypeOK, StampingTypeOK, stampVars
<1>4. TypeOK'
    BY <1>2 DEF EventInv, TypeOK, stampVars
<1>5. SeenIsRequested' /\ HoldsToRequest'
    BY <1>1 DEF EventInv, SeenIsRequested, HoldsToRequest
<1>6. BothAsked'
    BY <1>1 DEF BothAsked, Asked, First
<1> QED BY <1>4, <1>5, <1>6 DEF EventInv

\* Every step keeps the invariant, one case per action.
LEMMA NextEventInv == EventInv /\ [Next]_vars => EventInv'
<1> SUFFICES ASSUME EventInv, [Next]_vars PROVE EventInv'
    OBVIOUS
<1> USE DEF Thread
<1>0. /\ StampingTypeOK /\ perm \in Visibility
      /\ delivered \in 1 .. perm.version
      /\ pending \subseteq Events /\ stranded \subseteq Events
      /\ reader \in Thread({"recover", "read", "down"})
      /\ listener \in Thread({"listen", "deaf"})
      /\ inbox \subseteq Events /\ seen \subseteq Events /\ requested \subseteq Events
      /\ perm.version \in 1 .. MaxVersion /\ MaxVersion \in Nat
      /\ BothAsked /\ HoldsToRequest /\ NothingForgotten /\ SeenIsRequested
    BY StampingAssumption DEF EventInv, TypeOK, StampingTypeOK, Visibility
<1>1. CASE ChangeVisibility
    <2>1. /\ perm' \in Visibility /\ perm'.version = perm.version + 1
          /\ perm.version + 1 \in Events
        BY <1>0, <1>1 DEF ChangeVisibility, Visibility, Events
    <2>2. /\ UNCHANGED <<vis, queued, worker, raced, failed, delivered, pending, stranded,
                         reader, listener, seen, requested>>
          /\ inbox' \subseteq Events
        BY <1>0, <1>1, <2>1 DEF ChangeVisibility, NoFault
    <2>3. delivered' \in 1 .. perm'.version
        BY <1>0, <2>1, <2>2
    <2>4. TypeOK'
        BY <2>1, <2>2, <2>3 DEF EventInv, TypeOK, StampingTypeOK
    <2> QED BY <2>2, <2>4 DEF EventInv, SeenIsRequested, BothAsked, Asked, HoldsToRequest,
                              NothingForgotten, First
<1>2. CASE RecoverPending
    <2>1. /\ UNCHANGED <<stampVars, failed, delivered, pending, stranded, listener, inbox,
                         seen, requested>>
          /\ reader' \in Thread({"recover", "read", "down"}) /\ reader'.next = reader.next
          /\ reader.todo = {}
        BY <1>0, <1>2 DEF RecoverPending, NoFault, FirstOf
    <2>2. reader'.next \notin {"clear", "add", "ack"}
        BY <1>0, <2>1 DEF BothAsked, Asked
    <2> QED BY <1>0, <2>1, <2>2, EventStepKeeps
               DEF NoFault, NothingForgotten, HoldsToRequest, BothAsked, Asked, SeenIsRequested
<1>3. CASE ReadStream
    <2>1. /\ LastOfRead \in delivered + 1 .. perm.version
          /\ delivered + 1 .. LastOfRead \subseteq Events
        BY <1>0, <1>3, EventsAssumption DEF ReadStream, LastOfRead, Events
    <2>2. /\ UNCHANGED <<stampVars, stranded, listener, inbox, seen, requested>>
          /\ delivered' = LastOfRead
          /\ pending' = pending \cup (delivered + 1 .. LastOfRead)
          /\ reader.todo = {}
        BY <1>3 DEF ReadStream
    <2>3. /\ reader' \in Thread({"recover", "read", "down"}) /\ reader'.next = reader.next
        BY <1>0, <1>3, <2>1 DEF ReadStream
    <2>4. reader'.next \notin {"clear", "add", "ack"}
        BY <1>0, <2>2, <2>3 DEF BothAsked, Asked
    <2>5. NoFault \/ \E kind : Fault(kind)
        BY <1>3 DEF ReadStream
    <2>6. failed \subseteq failed'
        BY <1>0, <2>5, FaultType
    <2>7. 2 .. LastOfRead \subseteq 2 .. delivered \cup (delivered + 1 .. LastOfRead)
        BY <1>0, <2>1
    <2>8. NothingForgotten'
        BY <1>0, <2>2, <2>6, <2>7 DEF NothingForgotten
    <2>9. delivered' \in 1 .. perm.version
        BY <1>0, <2>1, <2>2
    <2> QED BY <1>0, <2>1, <2>2, <2>3, <2>4, <2>5, <2>8, <2>9, EventStepKeeps
               DEF HoldsToRequest, BothAsked, Asked, SeenIsRequested
<1>4. CASE LookAtMessage
    <2>1. /\ UNCHANGED <<stampVars, failed, delivered, pending, stranded, listener, inbox,
                         seen, requested>>
          /\ reader.todo # {} /\ reader'.todo = reader.todo
          /\ reader' \in Thread({"recover", "read", "down"})
          /\ reader'.next \in {"clear", "add", "ack"} => First(reader.todo) \in seen
        BY <1>0, <1>4 DEF LookAtMessage, NoFault
    <2> QED BY <1>0, <2>1, EventStepKeeps
               DEF NoFault, NothingForgotten, HoldsToRequest, SeenIsRequested, BothAsked, Asked
<1>5. CASE RequestForMessage
    <2>1. First(reader.todo) \in Events
        BY <1>0, <1>5, FirstIsMember DEF RequestForMessage
    <2>2. /\ RequestFor(First(reader.todo)) /\ reader.todo # {}
          /\ UNCHANGED <<delivered, pending, stranded, listener, inbox>>
          /\ reader' = [reader EXCEPT !.next = AfterRequest]
        BY <1>5 DEF RequestForMessage
    <2>3. /\ reader' \in Thread({"recover", "read", "down"})
          /\ reader'.todo = reader.todo
        BY <1>0, <2>2 DEF AfterRequest
    <2>4. /\ StampingTypeOK' /\ perm' = perm /\ failed \subseteq failed'
          /\ seen' = seen
          /\ requested' \subseteq Events /\ requested \subseteq requested'
          /\ "request" \notin failed' => First(reader.todo) \in requested'
          /\ SeenIsRequested'
        BY <2>1, <2>2, RequestKeeps
    <2>5. TypeOK'
        BY <1>0, <2>2, <2>3, <2>4 DEF TypeOK
    <2>6. BothAsked' /\ HoldsToRequest'
        BY <1>0, <2>2, <2>3, <2>4 DEF BothAsked, Asked, HoldsToRequest, First
    <2>7. NothingForgotten'
        BY <1>0, <2>2, <2>4 DEF NothingForgotten
    <2> QED BY <2>4, <2>5, <2>6, <2>7 DEF EventInv
<1>6. CASE AckMessage
    <2>1. /\ UNCHANGED <<stampVars, delivered, stranded, listener, inbox, seen, requested>>
          /\ reader' \in Thread({"recover", "read", "down"}) /\ reader'.next = "look"
          /\ pending' \in {pending, pending \ {First(reader.todo)}}
          /\ NoFault \/ \E kind : Fault(kind)
          /\ reader.next = "ack"
        <3>1. CASE NoFault /\ reader' = [reader EXCEPT !.next = "look", !.todo = Others(@)]
            BY <1>0, <1>6, <3>1 DEF AckMessage, Others
        <3>2. CASE /\ Fault("ack") /\ pending' = pending
                   /\ reader' = [pc |-> "read", next |-> "look",
                        todo |-> IF reader.pc = "read" THEN Others(reader.todo) ELSE {}]
            BY <1>0, <1>6, <3>2 DEF AckMessage, Others
        <3> QED BY <1>6, <3>1, <3>2 DEF AckMessage
    <2>2. failed \subseteq failed'
        BY <1>0, <2>1, FaultType
    <2>3. NothingForgotten'
        BY <1>0, <2>1, <2>2 DEF NothingForgotten, BothAsked, Asked
    <2> QED BY <1>0, <2>1, <2>3, EventStepKeeps
               DEF HoldsToRequest, BothAsked, Asked, SeenIsRequested
<1>7. CASE HearEvent
    <2>1. First(inbox) \in Events
        BY <1>0, <1>7, FirstIsMember DEF HearEvent
    <2>2. /\ UNCHANGED <<stampVars, failed, delivered, pending, stranded, reader, seen,
                         requested>>
          /\ inbox' \subseteq Events
          /\ listener' \in Thread({"listen", "deaf"})
          /\ listener'.next = "request" => listener'.todo # {}
          /\ listener'.next \notin {"clear", "add", "ack"}
        BY <1>0, <1>7, <2>1 DEF HearEvent, NoFault, Listening, Others
    <2> QED BY <1>0, <2>2, EventStepKeeps
               DEF NoFault, NothingForgotten, BothAsked, Asked, SeenIsRequested
<1>8. CASE RequestForEvent
    <2>1. First(listener.todo) \in Events
        BY <1>0, <1>8, FirstIsMember DEF RequestForEvent, HoldsToRequest
    <2>2. /\ RequestFor(First(listener.todo))
          /\ UNCHANGED <<delivered, pending, stranded, reader, inbox>>
          /\ listener' = [listener EXCEPT !.next = AfterRequest]
        BY <1>8 DEF RequestForEvent
    <2>3. /\ StampingTypeOK' /\ perm' = perm /\ failed \subseteq failed'
          /\ seen' = seen
          /\ requested' \subseteq Events /\ requested \subseteq requested'
          /\ "request" \notin failed' => First(listener.todo) \in requested'
          /\ SeenIsRequested'
        BY <2>1, <2>2, RequestKeeps
    <2>7. /\ listener' \in Thread({"listen", "deaf"}) /\ listener'.todo = listener.todo
          /\ listener.todo # {} /\ listener'.next # "request"
        BY <1>0, <1>8, <2>2 DEF AfterRequest, RequestForEvent, HoldsToRequest
    <2>4. TypeOK'
        BY <1>0, <2>2, <2>3, <2>7 DEF TypeOK
    <2>5. BothAsked' /\ HoldsToRequest'
        BY <1>0, <2>2, <2>3, <2>7 DEF BothAsked, Asked, HoldsToRequest, First
    <2>6. NothingForgotten'
        BY <1>0, <2>2, <2>3 DEF NothingForgotten
    <2> QED BY <2>3, <2>4, <2>5, <2>6 DEF EventInv
<1>9. CASE ListenerEnds
    <2>1. /\ UNCHANGED <<stampVars, delivered, pending, stranded, reader, seen, requested>>
          /\ inbox' = {} /\ listener' = Deaf /\ Fault("pubsub")
        BY <1>9 DEF ListenerEnds
    <2>2. failed \subseteq failed'
        BY <1>0, <2>1, FaultType
    <2>3. NothingForgotten'
        BY <1>0, <2>1, <2>2 DEF NothingForgotten
    <2>4. listener' \in Thread({"listen", "deaf"}) /\ listener'.next = "look"
        BY <2>1 DEF Deaf
    <2> QED BY <1>0, <2>1, <2>3, <2>4, EventStepKeeps
               DEF BothAsked, Asked, SeenIsRequested
<1>10. CASE SubscriberLost
    <2>1. /\ UNCHANGED <<stampVars, delivered, requested>>
          /\ inbox' = {} /\ listener' = Deaf /\ reader' = Down /\ seen' = {}
          /\ pending' \subseteq Events /\ stranded' \subseteq Events
          /\ pending' \cup stranded' = pending \cup stranded
          /\ NoFault \/ \E kind : Fault(kind)
        BY <1>0, <1>10 DEF SubscriberLost
    <2>2. failed \subseteq failed'
        BY <1>0, <2>1, FaultType
    <2>3. NothingForgotten'
        BY <1>0, <2>1, <2>2 DEF NothingForgotten
    <2>4. /\ listener' \in Thread({"listen", "deaf"}) /\ listener'.next = "look"
          /\ reader' \in Thread({"recover", "read", "down"}) /\ reader'.next = "look"
        BY <2>1 DEF Deaf, Down
    <2> QED BY <1>0, <2>1, <2>3, <2>4, EventStepKeeps DEF Asked
<1>11. CASE Restart
    <2>1. /\ UNCHANGED <<stampVars, failed, delivered, pending, stranded, inbox, seen,
                         requested>>
          /\ listener' = Listening /\ reader' = Started
        BY <1>11 DEF Restart, NoFault
    <2>2. /\ listener' \in Thread({"listen", "deaf"}) /\ listener'.next = "look"
          /\ reader' \in Thread({"recover", "read", "down"}) /\ reader'.next = "look"
        BY <2>1 DEF Listening, Started
    <2> QED BY <1>0, <2>1, <2>2, EventStepKeeps
               DEF NoFault, NothingForgotten, Asked, SeenIsRequested
<1>12. CASE StampNext /\ UNCHANGED eventVars
    <2>1. StampingTypeOK' /\ perm' = perm /\ failed \subseteq failed'
        BY <1>0, <1>12, StampingTypes
    <2> QED BY <1>12, <2>1 DEF EventInv, TypeOK, SeenIsRequested, BothAsked, Asked,
                               HoldsToRequest, NothingForgotten, First, eventVars
<1>13. CASE UNCHANGED vars
    BY <1>13 DEF vars, stampVars, eventVars, EventInv, TypeOK, StampingTypeOK,
                 SeenIsRequested, BothAsked, Asked, HoldsToRequest, NothingForgotten, First
<1>14. CASE MarkMessage
    <2>1. PICK next \in {"add", "ack"} :
              /\ MarkProcessed(reader, First(reader.todo), next)
              /\ reader' = [reader EXCEPT !.next = next]
        BY <1>14 DEF MarkMessage
    <2>2. /\ UNCHANGED <<stampVars, failed, delivered, pending, stranded, listener, inbox,
                         requested>>
          /\ reader.todo # {} /\ First(reader.todo) \in Events
        BY <1>0, <1>14, FirstIsMember DEF MarkMessage, NoFault
    <2>3. /\ reader' \in Thread({"recover", "read", "down"})
          /\ reader'.todo = reader.todo /\ reader.next \in {"clear", "add"}
        BY <1>0, <2>1 DEF MarkProcessed
    <2>4. seen' \subseteq seen \cup {First(reader.todo)}
        BY <2>1 DEF MarkProcessed
    <2>5. "request" \notin failed => First(reader.todo) \in requested
        BY <1>0, <2>3 DEF BothAsked, Asked
    <2>6. Asked(reader') /\ Asked(listener')
        BY <1>0, <2>2, <2>3, <2>5 DEF BothAsked, Asked
    <2>7. seen' \subseteq Events /\ ("request" \notin failed => seen' \subseteq requested)
        BY <1>0, <2>2, <2>4, <2>5 DEF SeenIsRequested
    <2> QED BY <1>0, <2>2, <2>3, <2>6, <2>7, EventStepKeeps
               DEF NoFault, NothingForgotten, HoldsToRequest
<1>15. CASE MarkEvent
    <2>1. PICK next \in {"add", "ack"} :
              /\ MarkProcessed(listener, First(listener.todo), next)
              /\ listener' = IF next = "ack" THEN Listening ELSE [listener EXCEPT !.next = next]
        BY <1>15 DEF MarkEvent
    <2>2. /\ UNCHANGED <<stampVars, failed, delivered, pending, stranded, reader, inbox,
                         requested>>
          /\ listener.todo # {} /\ First(listener.todo) \in Events
        BY <1>0, <1>15, FirstIsMember DEF MarkEvent, NoFault
    <2>3. /\ listener' \in Thread({"listen", "deaf"}) /\ listener'.next # "request"
          /\ listener'.todo = listener.todo \/ listener'.next = "look"
          /\ listener.next \in {"clear", "add"}
        BY <1>0, <2>1 DEF MarkProcessed, Listening
    <2>4. seen' \subseteq seen \cup {First(listener.todo)}
        BY <2>1 DEF MarkProcessed
    <2>5. "request" \notin failed => First(listener.todo) \in requested
        BY <1>0, <2>3 DEF BothAsked, Asked
    <2>6. Asked(reader') /\ Asked(listener')
        BY <1>0, <2>2, <2>3, <2>5 DEF BothAsked, Asked
    <2>7. seen' \subseteq Events /\ ("request" \notin failed => seen' \subseteq requested)
        BY <1>0, <2>2, <2>4, <2>5 DEF SeenIsRequested
    <2> QED BY <1>0, <2>2, <2>3, <2>6, <2>7, EventStepKeeps
               DEF NoFault, NothingForgotten
<1> QED BY <1>1, <1>2, <1>3, <1>4, <1>5, <1>6, <1>7, <1>8, <1>9, <1>10, <1>11, <1>12, <1>13,
           <1>14, <1>15
           DEF Next, ReaderStep, ListenerStep, StampNext

\* EventInv holds in every reachable state of the subscriber.
THEOREM EventInvariant == Spec => []EventInv
<1> QED BY InitEventInv, NextEventInv, PTL DEF Spec

\* Every variable keeps its type.
THEOREM TypeCorrect == Spec => []TypeOK
<1>1. EventInv => TypeOK
    BY DEF EventInv
<1> QED BY <1>1, EventInvariant, PTL

\* An event that the consumer group handed out is pending until a stamping task was
\* requested for it, through any crashes, lost replies and duplicates: XACK is only
\* sent for events in the set of processed ones, whatever either thread empties or adds.
THEOREM EventsAreNotForgotten == Spec => []NothingForgotten
<1>1. EventInv => NothingForgotten
    BY DEF EventInv
<1> QED BY <1>1, EventInvariant, PTL

-----------------------------------------------------------------------------
(* The set of processed events stays small *)

\* A thread that is about to add tested the size, or emptied the set, before the other one
\* added: each such thread leaves room for itself, up to one event too many.
RoomForBoth ==
    /\ Cardinality(seen) <= MaxSeen + 1
    /\ reader.next = "add" \/ listener.next = "add" => Cardinality(seen) <= MaxSeen
    /\ reader.next = "add" /\ listener.next = "add" => Cardinality(seen) < MaxSeen

SeenStaysSmall == Cardinality(seen) <= MaxSeen + 1

\* The set's size is a number, and an addition makes it one larger at most.
LEMMA SizeOfSeen ==
    ASSUME TypeOK
    PROVE  /\ Cardinality(seen) \in Nat /\ MaxSeen \in Nat \ {0}
           /\ \A event : /\ Cardinality(seen \cup {event}) <= Cardinality(seen) + 1
                         /\ Cardinality(seen \cup {event}) \in Nat
<1>1. IsFiniteSet(seen)
    <2>1. IsFiniteSet(Events)
        BY StampingAssumption, FS_Interval DEF Events
    <2> QED BY <2>1, FS_Subset DEF TypeOK
<1>2. ASSUME NEW event
      PROVE  /\ Cardinality(seen \cup {event}) <= Cardinality(seen) + 1
             /\ Cardinality(seen \cup {event}) \in Nat
    <2>1. Cardinality(seen) \in Nat /\ IsFiniteSet(seen \cup {event})
        BY <1>1, FS_CardinalityType, FS_AddElement
    <2>2. Cardinality(seen \cup {event}) \in {Cardinality(seen), Cardinality(seen) + 1}
        BY <1>1, FS_AddElement
    <2> QED BY <2>1, <2>2
<1> QED BY <1>1, <1>2, FS_CardinalityType, EventsAssumption

\* Only marking an event makes the set larger, and only after a test or an emptying.
LEMMA NextRoom == TypeOK /\ RoomForBoth /\ [Next]_vars => RoomForBoth'
<1> SUFFICES ASSUME TypeOK, RoomForBoth, [Next]_vars PROVE RoomForBoth'
    OBVIOUS
<1>0. /\ Cardinality(seen) \in Nat /\ MaxSeen \in Nat \ {0}
      /\ \A event : /\ Cardinality(seen \cup {event}) <= Cardinality(seen) + 1
                    /\ Cardinality(seen \cup {event}) \in Nat
    BY SizeOfSeen
<1>1. Cardinality({}) = 0
    BY FS_EmptySet
<1>2. CASE RequestForMessage
    <2>1. /\ seen' = seen /\ listener' = listener
          /\ reader'.next = "add" => Cardinality(seen) < MaxSeen
        BY <1>0, <1>2 DEF RequestForMessage, RequestFor, AfterRequest, TypeOK, Thread
    <2> QED BY <1>0, <2>1 DEF RoomForBoth
<1>3. CASE RequestForEvent
    <2>1. /\ seen' = seen /\ reader' = reader
          /\ listener'.next = "add" => Cardinality(seen) < MaxSeen
        BY <1>0, <1>3 DEF RequestForEvent, RequestFor, AfterRequest, TypeOK, Thread
    <2> QED BY <1>0, <2>1 DEF RoomForBoth
<1>4. CASE MarkMessage
    <2>1. PICK next \in {"add", "ack"} :
              /\ MarkProcessed(reader, First(reader.todo), next)
              /\ reader' = [reader EXCEPT !.next = next]
        BY <1>4 DEF MarkMessage
    <2>2. listener' = listener /\ reader'.next = next
        BY <1>4, <2>1 DEF MarkMessage, TypeOK, Thread
    <2>3. \/ reader.next = "clear" /\ seen' = {}
          \/ /\ reader.next = "add" /\ next = "ack"
             /\ seen' = seen \cup {First(reader.todo)}
        BY <2>1 DEF MarkProcessed
    <2>4. CASE seen' = {}
        BY <1>0, <1>1, <2>4 DEF RoomForBoth
    <2>5. CASE ~(seen' = {})
        <3>1. /\ Cardinality(seen') <= Cardinality(seen) + 1
              /\ Cardinality(seen') \in Nat
            BY <1>0, <2>3, <2>5
        <3> QED BY <1>0, <2>2, <2>3, <2>5, <3>1 DEF RoomForBoth
    <2> QED BY <2>4, <2>5
<1>5. CASE MarkEvent
    <2>1. PICK next \in {"add", "ack"} :
              /\ MarkProcessed(listener, First(listener.todo), next)
              /\ listener' = IF next = "ack" THEN Listening ELSE [listener EXCEPT !.next = next]
        BY <1>5 DEF MarkEvent
    <2>2. reader' = reader /\ (next = "ack" => listener'.next = "look")
        BY <1>5, <2>1 DEF MarkEvent, Listening
    <2>3. \/ listener.next = "clear" /\ seen' = {}
          \/ /\ listener.next = "add" /\ next = "ack"
             /\ seen' = seen \cup {First(listener.todo)}
        BY <2>1 DEF MarkProcessed
    <2>4. CASE seen' = {}
        BY <1>0, <1>1, <2>4 DEF RoomForBoth
    <2>5. CASE ~(seen' = {})
        <3>1. /\ Cardinality(seen') <= Cardinality(seen) + 1
              /\ Cardinality(seen') \in Nat
            BY <1>0, <2>3, <2>5
        <3> QED BY <1>0, <2>2, <2>3, <2>5, <3>1 DEF RoomForBoth
    <2> QED BY <2>4, <2>5
<1>6. CASE \/ RecoverPending \/ LookAtMessage \/ HearEvent
           \/ ReadStream \/ AckMessage \/ ListenerEnds
    <2>1. /\ seen' = seen
          /\ reader'.next = "add" => reader.next = "add"
          /\ listener'.next = "add" => listener.next = "add"
        <3>1. CASE RecoverPending \/ LookAtMessage \/ ReadStream \/ AckMessage
            <4>1. seen' = seen /\ listener' = listener
                BY <3>1 DEF RecoverPending, LookAtMessage, ReadStream, AckMessage
            <4>2. reader \in [pc : {"recover", "read", "down"}, todo : SUBSET Events,
                               next : {"look", "request", "clear", "add", "ack"}]
                BY DEF TypeOK, Thread
            <4>3. reader'.next = "add" => reader.next = "add"
                <5>1. CASE RecoverPending \/ ReadStream
                    BY <4>2, <5>1 DEF RecoverPending, ReadStream
                <5>2. CASE LookAtMessage
                    BY <4>2, <5>2 DEF LookAtMessage
                <5>3. CASE AckMessage
                    <6>1. [reader EXCEPT !.next = "look", !.todo = Others(reader.todo)].next
                              = "look"
                        BY <4>2
                    <6>2. CASE reader' = [reader EXCEPT !.next = "look",
                                                        !.todo = Others(reader.todo)]
                        BY <6>1, <6>2
                    <6>3. ASSUME NEW todo,
                                 reader' = [pc |-> "read", next |-> "look", todo |-> todo]
                          PROVE  reader'.next = "look"
                        BY <6>3
                    <6> QED BY <5>3, <6>2, <6>3 DEF AckMessage
                <5> QED BY <3>1, <5>1, <5>2, <5>3
            <4> QED BY <4>1, <4>3
        <3>2. CASE HearEvent \/ ListenerEnds
            <4>1. seen' = seen /\ reader' = reader
                BY <3>2 DEF HearEvent, ListenerEnds
            <4>2. listener'.next = "add" => listener.next = "add"
                <5>1. [Listening EXCEPT !.next = "request", !.todo = {First(inbox)}].next
                          = "request"
                    BY DEF Listening
                <5>2. Listening.next = "look" /\ Deaf.next = "look"
                    BY DEF Listening, Deaf
                <5> QED BY <3>2, <5>1, <5>2 DEF HearEvent, ListenerEnds
            <4> QED BY <4>1, <4>2
        <3> QED BY <1>6, <3>1, <3>2
    <2> QED BY <1>0, <2>1 DEF RoomForBoth
<1>7. CASE SubscriberLost \/ Restart
    <2>1. /\ seen' \in {{}, seen}
          /\ reader'.next = "look" /\ listener'.next = "look"
        BY <1>7 DEF SubscriberLost, Restart, Down, Deaf, Started, Listening
    <2> QED BY <1>0, <1>1, <2>1 DEF RoomForBoth
<1>8. CASE ChangeVisibility \/ (StampNext /\ UNCHANGED eventVars) \/ UNCHANGED vars
    BY <1>8 DEF ChangeVisibility, eventVars, vars, RoomForBoth
<1> QED BY <1>2, <1>3, <1>4, <1>5, <1>6, <1>7, <1>8
           DEF Next, ReaderStep, ListenerStep, StampNext

\* The set of processed events exceeds its maximum by one event at most: the test, the
\* emptying and the addition of _mark_processed have no lock, but there are two threads.
THEOREM SeenIsBounded == Spec => []SeenStaysSmall
<1>1. Init => RoomForBoth
    BY FS_EmptySet, EventsAssumption DEF Init, RoomForBoth, Started, Listening
<1>2. RoomForBoth => SeenStaysSmall
    BY DEF RoomForBoth, SeenStaysSmall
<1> QED BY <1>1, <1>2, NextRoom, TypeCorrect, PTL DEF Spec

-----------------------------------------------------------------------------
(* Stamps do not go back *)

InOrder == ~raced /\ failed \cap {"stamp", "milvus"} = {}
Writing(w) == worker[w].pc = "upsert"
OtherWrites(w) == \E v \in Workers \ {w} : Writing(v)

\* Rows agree while nobody writes.
RowsAgree ==
    (\A w \in Workers : ~Writing(w)) => \A r, s \in Rows : vis[r] = vis[s]

\* What a task writes is not older than what it overwrites, and what it has written is
\* still there, unless another writes too; then the next batch is a race.
WritesNewer(w) ==
    \/ OtherWrites(w)
    \/ /\ \A r \in Rows \ worker[w].todo : vis[r] = worker[w].stamp
       /\ worker[w].stamp # 0 => \A r \in Rows : vis[r] <= worker[w].stamp

\* The comparison looks at one row only: that one row speaks for all is RowsAgree.
WriteInv ==
    InOrder => /\ RowsAgree
               /\ \A w \in Workers : Writing(w) => WritesNewer(w)

\* All rows start with the same stamps.
LEMMA InitWriteInv == Init => WriteInv
BY DEF Init, StampingInit, WriteInv, RowsAgree, Writing, Free

\* Races and faults are not taken back, and only stamping tasks write.
LEMMA OrderOfSteps ==
    ASSUME TypeOK, [Next]_vars
    PROVE  /\ raced => raced'
           /\ failed \subseteq failed'
           /\ StampNext \/ UNCHANGED <<vis, worker, raced>>
<1>1. CASE StampNext /\ UNCHANGED eventVars
    <2>1. failed \subseteq failed'
        BY <1>1, StampingTypes DEF TypeOK
    <2>2. raced => raced'
        BY <1>1 DEF StampNext, StampStep, TakeStamp, CheckVersion, UpsertBatch, StampFails,
                    ReconcileStamps
    <2> QED BY <1>1, <2>1, <2>2
<1>2. CASE \/ ChangeVisibility \/ ReaderStep \/ ListenerStep \/ ListenerEnds
           \/ SubscriberLost \/ Restart \/ UNCHANGED vars
    <2>1. UNCHANGED <<vis, worker, raced>>
        BY <1>2 DEF ChangeVisibility, ReaderStep, RecoverPending, ReadStream, LookAtMessage,
                    RequestForMessage, MarkMessage, AckMessage, ListenerStep, HearEvent,
                    RequestForEvent, MarkEvent, ListenerEnds, SubscriberLost, Restart, RequestFor,
                     stampVars, vars
    <2>2. (NoFault \/ \E kind : Fault(kind)) \/ UNCHANGED failed
        BY <1>2 DEF ChangeVisibility, ReaderStep, RecoverPending, ReadStream, LookAtMessage,
                    RequestForMessage, MarkMessage, AckMessage, ListenerStep, HearEvent,
                    RequestForEvent, MarkEvent, ListenerEnds, SubscriberLost, Restart, RequestFor,
                     vars
    <2>3. failed \subseteq failed'
        BY <2>2, FaultType DEF TypeOK
    <2> QED BY <2>1, <2>3
<1> QED BY <1>1, <1>2 DEF Next, StampNext

\* A batch that is no race leaves the rows it writes with stamps not older.
LEMMA BatchWritesNewer ==
    ASSUME TypeOK, WriteInv, InOrder, NEW w \in Workers, UpsertBatch(w), ~raced'
    PROVE  /\ ~OtherWrites(w)
           /\ \A r \in Rows \ worker[w].todo : vis[r] = worker[w].stamp
           /\ worker[w].stamp # 0 => \A r \in Rows : vis[r] <= worker[w].stamp
<1>1. Writing(w) /\ ~Overtakes(w)
    BY DEF UpsertBatch, Writing
<1>2. ~OtherWrites(w)
    BY <1>1 DEF Overtakes, OtherWrites, Writing
<1> QED BY <1>1, <1>2 DEF WriteInv, WritesNewer

\* Every step of a stamping task keeps the order of writes.
LEMMA StampKeepsOrder ==
    ASSUME TypeOK, WriteInv, InOrder, InOrder', StampNext
    PROVE  RowsAgree' /\ \A w \in Workers : Writing(w)' => WritesNewer(w)'
<1>0. /\ vis \in [Rows -> 0 .. MaxVersion] /\ MaxVersion \in Nat
      /\ worker \in [Workers -> [pc : {"free", "check", "upsert"}, stamp : 0 .. MaxVersion,
                                 todo : SUBSET Rows]]
      /\ RowsAgree /\ \A w \in Workers : Writing(w) => WritesNewer(w)
    BY StampingAssumption DEF TypeOK, StampingTypeOK, WriteInv
<1>1. ASSUME NEW w \in Workers, TakeStamp(w)
      PROVE  RowsAgree' /\ \A v \in Workers : Writing(v)' => WritesNewer(v)'
    <2>1. /\ vis' = vis /\ ~Writing(w)
          /\ \A v \in Workers \ {w} : worker'[v] = worker[v]
          /\ \/ worker'[w].pc = "check"
             \/ worker'[w].pc = "upsert" /\ worker'[w].todo = Rows /\ worker'[w].stamp = 0
        BY <1>0, <1>1 DEF TakeStamp, Writing, StampOf
    <2> QED BY <1>0, <2>1 DEF RowsAgree, Writing, WritesNewer, OtherWrites
<1>2. ASSUME NEW w \in Workers, CheckVersion(w)
      PROVE  RowsAgree' /\ \A v \in Workers : Writing(v)' => WritesNewer(v)'
    <2>1. /\ vis' = vis /\ ~Writing(w)
          /\ \A v \in Workers \ {w} : worker'[v] = worker[v]
        BY <1>0, <1>2 DEF CheckVersion, WriteAll, Writing
    <2>2. CASE worker'[w].pc # "upsert"
        BY <1>0, <2>1, <2>2 DEF RowsAgree, Writing, WritesNewer, OtherWrites
    <2>3. CASE worker'[w].pc = "upsert"
        <3>1. "milvus" \notin failed'
            BY DEF InOrder
        <3>2. /\ WriteAll(w)
              /\ NoStampedRow \/ \E r \in Rows : ~(worker[w].stamp < vis[r])
            BY <1>0, <1>2, <2>3, <3>1 DEF CheckVersion, Fault, Free
        <3>3. worker'[w].todo = Rows /\ worker'[w].stamp = worker[w].stamp
            BY <1>0, <3>2 DEF WriteAll
        <3>4. OtherWrites(w) \/ \A r \in Rows : vis[r] <= worker[w].stamp
            <4>1. CASE OtherWrites(w)
                BY <4>1
            <4>2. CASE ~OtherWrites(w)
                <5>1. \A r, s \in Rows : vis[r] = vis[s]
                    BY <1>0, <2>1, <4>2 DEF OtherWrites, RowsAgree
                <5> QED BY <1>0, <3>2, <5>1 DEF NoStampedRow
            <4> QED BY <4>1, <4>2
        <3>5. OtherWrites(w)' <=> OtherWrites(w)
            BY <2>1 DEF OtherWrites, Writing
        <3>6. WritesNewer(w)'
            BY <2>1, <3>3, <3>4, <3>5 DEF WritesNewer
        <3>7. ASSUME NEW v \in Workers \ {w}, Writing(v)'
              PROVE  WritesNewer(v)'
            BY <2>3, <3>7 DEF WritesNewer, OtherWrites, Writing
        <3>8. RowsAgree'
            BY <2>3 DEF RowsAgree, Writing
        <3> QED BY <3>6, <3>7, <3>8
    <2> QED BY <2>2, <2>3
<1>3. ASSUME NEW w \in Workers, UpsertBatch(w)
      PROVE  RowsAgree' /\ \A v \in Workers : Writing(v)' => WritesNewer(v)'
    <2>1. /\ ~OtherWrites(w)
          /\ \A r \in Rows \ worker[w].todo : vis[r] = worker[w].stamp
          /\ worker[w].stamp # 0 => \A r \in Rows : vis[r] <= worker[w].stamp
        BY <1>3, BatchWritesNewer DEF InOrder
    <2>2. PICK batch \in SUBSET worker[w].todo :
              /\ vis' = [r \in Rows |-> IF r \in batch THEN worker[w].stamp ELSE vis[r]]
              /\ worker' = [worker EXCEPT ![w] =
                   IF worker[w].todo = batch THEN Free
                   ELSE [worker[w] EXCEPT !.todo = worker[w].todo \ batch]]
        BY <1>3 DEF UpsertBatch
    <2>3. \A v \in Workers \ {w} : worker'[v] = worker[v] /\ ~Writing(v)'
        BY <1>0, <2>1, <2>2 DEF OtherWrites, Writing
    <2>4. CASE worker[w].todo = batch
        <3>1. ~Writing(w)'
            BY <1>0, <2>2, <2>4 DEF Writing, Free
        <3>2. \A r \in Rows : vis'[r] = worker[w].stamp
            BY <1>0, <2>1, <2>2, <2>4
        <3>3. RowsAgree'
            BY <3>2 DEF RowsAgree
        <3> QED BY <2>3, <3>1, <3>3
    <2>5. CASE worker[w].todo # batch
        <3>1. /\ worker'[w].todo = worker[w].todo \ batch
              /\ worker'[w].stamp = worker[w].stamp /\ Writing(w)'
            BY <1>0, <1>3, <2>2, <2>5 DEF UpsertBatch, Writing
        <3>2. \A r \in Rows \ worker'[w].todo : vis'[r] = worker'[w].stamp
            BY <2>1, <2>2, <3>1
        <3>3. worker'[w].stamp # 0 => \A r \in Rows : vis'[r] <= worker'[w].stamp
            BY <1>0, <2>1, <2>2, <3>1
        <3>4. WritesNewer(w)' /\ RowsAgree'
            BY <3>1, <3>2, <3>3 DEF WritesNewer, RowsAgree
        <3> QED BY <2>3, <3>4
    <2> QED BY <2>4, <2>5
<1>4. ASSUME NEW w \in Workers, StampFails(w)
      PROVE  FALSE
    BY <1>4 DEF StampFails, Fault, InOrder
<1>5. CASE ReconcileStamps
    BY <1>0, <1>5 DEF ReconcileStamps, RowsAgree, Writing, WritesNewer, OtherWrites
<1> QED BY <1>1, <1>2, <1>3, <1>4, <1>5 DEF StampNext, StampStep

\* Every step keeps WriteInv.
LEMMA NextWriteInv == TypeOK /\ WriteInv /\ [Next]_vars => WriteInv'
<1> SUFFICES ASSUME TypeOK, WriteInv, [Next]_vars, InOrder'
             PROVE  RowsAgree' /\ \A w \in Workers : Writing(w)' => WritesNewer(w)'
    BY DEF WriteInv
<1>1. InOrder /\ (StampNext \/ UNCHANGED <<vis, worker, raced>>)
    BY OrderOfSteps DEF InOrder
<1>2. CASE StampNext
    BY <1>1, <1>2, StampKeepsOrder
<1>3. CASE UNCHANGED <<vis, worker, raced>>
    BY <1>1, <1>3 DEF WriteInv, RowsAgree, Writing, WritesNewer, OtherWrites
<1> QED BY <1>1, <1>2, <1>3

\* The stamps of a row are never replaced by older ones, except by a clearing: the
\* comparison of stamp_channel_task with a single row suffices as long as no batch falls
\* between another task's comparison and its last batch.
THEOREM StampsNeverGoBack == Spec => NeverGoesBack
<1>1. TypeOK /\ WriteInv /\ [Next]_vars =>
         [~raced' /\ failed' \cap {"stamp", "milvus"} = {} =>
             \A r \in Rows : vis'[r] >= vis[r] \/ vis'[r] = 0]_vars
    <2> SUFFICES ASSUME TypeOK, WriteInv, [Next]_vars, InOrder', NEW r \in Rows
                 PROVE  vis'[r] >= vis[r] \/ vis'[r] = 0
        BY DEF InOrder
    <2>1. InOrder /\ (StampNext \/ UNCHANGED <<vis, worker, raced>>)
        BY OrderOfSteps DEF InOrder
    <2>2. /\ vis \in [Rows -> 0 .. MaxVersion] /\ MaxVersion \in Nat
          /\ worker \in [Workers -> [pc : {"free", "check", "upsert"},
                                     stamp : 0 .. MaxVersion, todo : SUBSET Rows]]
        BY StampingAssumption DEF TypeOK, StampingTypeOK
    <2>3. ASSUME NEW w \in Workers, UpsertBatch(w)
          PROVE  vis'[r] >= vis[r] \/ vis'[r] = 0
        <3>1. worker[w].stamp # 0 => vis[r] <= worker[w].stamp
            BY <2>1, <2>3, BatchWritesNewer DEF InOrder
        <3>2. vis'[r] \in {worker[w].stamp, vis[r]}
            BY <2>2, <2>3 DEF UpsertBatch
        <3> QED BY <2>2, <3>1, <3>2
    <2>4. CASE vis' = vis
        BY <2>2, <2>4
    <2> QED BY <2>1, <2>3, <2>4
            DEF StampNext, StampStep, TakeStamp, CheckVersion, StampFails, ReconcileStamps
<1>2. Spec => [](TypeOK /\ WriteInv)
    <2>1. EventInv => TypeOK
        BY DEF EventInv
    <2> QED BY <2>1, EventInvariant, InitWriteInv, NextWriteInv, PTL DEF Spec
<1> QED BY <1>1, <1>2, PTL DEF Spec, NeverGoesBack

-----------------------------------------------------------------------------
(* Torn rows are mended *)

\* Rows with stamps of different versions.
Torn == \E r, s \in Rows : vis[r] # vis[s]

\* No task and no row has a version that the service has not reached.
VersionsKnown ==
    /\ \A r \in Rows : vis[r] <= perm.version
    /\ \A w \in Workers : worker[w].stamp <= perm.version

\* What a task has written is still there.
WrittenStays ==
    ~raced => \A w \in Workers : Writing(w) =>
                 \A r \in Rows \ worker[w].todo : vis[r] = worker[w].stamp

\* A task that will write all rows: it writes, or its comparison can only let it.
Mends(w) ==
    \/ Writing(w)
    \/ worker[w].pc = "check" /\ \A r \in Rows : vis[r] <= worker[w].stamp

\* The inductive invariant for NeverLeftTorn: to be about to be written again is to have
\* a task that is not going to throw its answer away.
MendInv ==
    /\ VersionsKnown /\ WrittenStays
    /\ ~raced /\ Torn => queued > 0 \/ \E w \in Workers : Mends(w)

\* All rows start with the same stamps.
LEMMA InitMendInv == Init => MendInv
BY DEF Init, StampingInit, MendInv, VersionsKnown, WrittenStays, Writing, Torn, Free

\* Every step of a stamping task keeps the invariant.
LEMMA StampKeepsMending ==
    ASSUME TypeOK, MendInv, StampNext
    PROVE  MendInv'
<1>0. /\ vis \in [Rows -> 0 .. MaxVersion] /\ MaxVersion \in Nat \ {0}
      /\ worker \in [Workers -> [pc : {"free", "check", "upsert"}, stamp : 0 .. MaxVersion,
                                 todo : SUBSET Rows]]
      /\ perm \in Visibility /\ perm.version \in 1 .. MaxVersion
      /\ queued \in 0 .. MaxQueue /\ MaxQueue \in Nat \ {0}
      /\ VersionsKnown /\ WrittenStays
      /\ ~raced /\ Torn => queued > 0 \/ \E w \in Workers : Mends(w)
    BY StampingAssumption DEF TypeOK, StampingTypeOK, MendInv, Visibility
<1>1. ASSUME RequestStamp PROVE queued' > 0
    BY <1>0, <1>1 DEF RequestStamp
<1>2. ASSUME NEW w \in Workers, TakeStamp(w)
      PROVE  MendInv'
    <2>1. /\ vis' = vis /\ perm' = perm /\ raced' = raced /\ ~Writing(w)
          /\ \A v \in Workers \ {w} : worker'[v] = worker[v]
          /\ worker'[w].stamp = StampOf(perm)
          /\ \/ worker'[w].pc = "check" /\ StampOf(perm) = perm.version
             \/ worker'[w].pc = "upsert" /\ worker'[w].todo = Rows
        BY <1>0, <1>2 DEF TakeStamp, Writing, StampOf
    <2>2. StampOf(perm) <= perm.version
        BY <1>0 DEF StampOf
    <2>3. VersionsKnown'
        BY <1>0, <2>1, <2>2 DEF VersionsKnown
    <2>4. WrittenStays'
        BY <1>0, <2>1 DEF WrittenStays, Writing
    <2>5. Mends(w)'
        BY <1>0, <2>1 DEF Mends, Writing, VersionsKnown
    <2> QED BY <2>3, <2>4, <2>5 DEF MendInv
<1>3. ASSUME NEW w \in Workers, CheckVersion(w)
      PROVE  MendInv'
    <2>1. /\ vis' = vis /\ perm' = perm /\ raced' = raced /\ queued' = queued
          /\ worker[w].pc = "check"
          /\ \A v \in Workers \ {w} : worker'[v] = worker[v]
          /\ WriteAll(w) \/ (worker' = [worker EXCEPT ![w] = Free]
                             /\ \E r \in Rows : worker[w].stamp < vis[r])
        BY <1>0, <1>3 DEF CheckVersion, WriteAll
    <2>2. CASE WriteAll(w)
        <3>1. /\ worker'[w].pc = "upsert" /\ worker'[w].todo = Rows
              /\ worker'[w].stamp = worker[w].stamp
            BY <1>0, <2>2 DEF WriteAll
        <3>2. VersionsKnown'
            BY <1>0, <2>1, <3>1 DEF VersionsKnown
        <3>3. WrittenStays'
            BY <1>0, <2>1, <3>1 DEF WrittenStays, Writing
        <3>4. Mends(w)'
            BY <3>1 DEF Mends, Writing
        <3> QED BY <3>2, <3>3, <3>4 DEF MendInv
    <2>3. CASE worker' = [worker EXCEPT ![w] = Free] /\ \E r \in Rows : worker[w].stamp < vis[r]
        <3>1. worker'[w].pc = "free" /\ worker'[w].stamp = 0
            BY <1>0, <2>3 DEF Free
        <3>2. VersionsKnown'
            BY <1>0, <2>1, <3>1 DEF VersionsKnown
        <3>3. WrittenStays'
            BY <1>0, <2>1, <3>1 DEF WrittenStays, Writing
        <3>4. ~Mends(w)
            <4>1. PICK r \in Rows : worker[w].stamp < vis[r]
                BY <2>3
            <4>2. worker[w].stamp \in Nat /\ vis[r] \in Nat
                BY <1>0
            <4>3. ~(vis[r] <= worker[w].stamp)
                BY <4>1, <4>2
            <4> QED BY <2>1, <4>3 DEF Mends, Writing
        <3>5. \A v \in Workers \ {w} : Mends(v) => Mends(v)'
            BY <2>1 DEF Mends, Writing
        <3>6. ~raced' /\ Torn' => queued' > 0 \/ \E v \in Workers : Mends(v)'
            BY <1>0, <2>1, <3>4, <3>5 DEF Torn
        <3> QED BY <3>2, <3>3, <3>6 DEF MendInv
    <2> QED BY <2>1, <2>2, <2>3
<1>4. ASSUME NEW w \in Workers, UpsertBatch(w)
      PROVE  MendInv'
    <2>1. PICK batch \in SUBSET worker[w].todo :
              /\ vis' = [r \in Rows |-> IF r \in batch THEN worker[w].stamp ELSE vis[r]]
              /\ worker' = [worker EXCEPT ![w] =
                   IF worker[w].todo = batch THEN Free
                   ELSE [worker[w] EXCEPT !.todo = worker[w].todo \ batch]]
        BY <1>4 DEF UpsertBatch
    <2>2. /\ worker[w].pc = "upsert" /\ perm' = perm
          /\ \A v \in Workers \ {w} : worker'[v] = worker[v]
          /\ raced' = (raced \/ Overtakes(w))
        BY <1>0, <1>4, <2>1 DEF UpsertBatch
    <2>3. \/ worker[w].todo = batch /\ worker'[w].pc = "free" /\ worker'[w].stamp = 0
          \/ /\ worker'[w].pc = "upsert" /\ worker'[w].todo = worker[w].todo \ batch
             /\ worker'[w].stamp = worker[w].stamp
        BY <1>0, <2>1, <2>2 DEF Free
    <2>4. VersionsKnown'
        <3>1. \A r \in Rows : vis'[r] <= perm.version
            BY <1>0, <2>1 DEF VersionsKnown
        <3>2. \A v \in Workers : worker'[v].stamp <= perm.version
            BY <1>0, <2>2, <2>3 DEF VersionsKnown
        <3> QED BY <2>2, <3>1, <3>2 DEF VersionsKnown
    <2>5. ASSUME ~raced'
          PROVE  /\ \A v \in Workers \ {w} : ~Writing(v)'
                 /\ \A r \in Rows \ (worker[w].todo \ batch) : vis'[r] = worker[w].stamp
        <3>1. ~raced /\ ~Overtakes(w)
            BY <2>2, <2>5
        <3>2. \A v \in Workers \ {w} : worker[v].pc # "upsert"
            BY <3>1 DEF Overtakes
        <3>3. \A r \in Rows \ worker[w].todo : vis[r] = worker[w].stamp
            BY <1>0, <2>2, <3>1 DEF WrittenStays, Writing
        <3> QED BY <2>1, <2>2, <3>2, <3>3 DEF Writing
    <2>6. WrittenStays'
        BY <2>3, <2>5 DEF WrittenStays, Writing
    <2>7. ASSUME ~raced', Torn'
          PROVE  \E v \in Workers : Mends(v)'
        <3>1. CASE worker[w].todo = batch
            <4>1. \A r \in Rows : vis'[r] = worker[w].stamp
                BY <2>5, <2>7, <3>1
            <4> QED BY <2>7, <4>1 DEF Torn
        <3>2. CASE worker'[w].pc = "upsert"
            BY <3>2 DEF Mends, Writing
        <3> QED BY <2>3, <3>1, <3>2
    <2> QED BY <2>4, <2>6, <2>7 DEF MendInv
<1>5. ASSUME NEW w \in Workers, StampFails(w)
      PROVE  MendInv'
    <2>1. /\ vis' = vis /\ perm' = perm /\ raced' = raced /\ queued' > 0
          /\ \A v \in Workers \ {w} : worker'[v] = worker[v]
          /\ worker'[w].pc = "free" /\ worker'[w].stamp = 0
        BY <1>0, <1>1, <1>5 DEF StampFails, Free
    <2>2. VersionsKnown'
        BY <1>0, <2>1 DEF VersionsKnown
    <2>3. WrittenStays'
        BY <1>0, <2>1 DEF WrittenStays, Writing
    <2> QED BY <2>1, <2>2, <2>3 DEF MendInv
<1>6. CASE ReconcileStamps
    BY <1>0, <1>1, <1>6
       DEF ReconcileStamps, MendInv, VersionsKnown, WrittenStays, Writing
<1> QED BY <1>2, <1>3, <1>4, <1>5, <1>6 DEF StampNext, StampStep

\* The other steps write no row and take no message; the service only goes on to newer
\* versions.
LEMMA OthersKeepMending ==
    ASSUME TypeOK, MendInv, UNCHANGED <<vis, worker, raced>>, queued' = queued \/ RequestStamp,
           perm' = perm \/ perm'.version = perm.version + 1
    PROVE  MendInv'
<1>0. /\ vis \in [Rows -> 0 .. MaxVersion] /\ MaxVersion \in Nat \ {0}
      /\ \A w \in Workers : worker[w].stamp \in 0 .. MaxVersion
      /\ perm.version \in 1 .. MaxVersion
      /\ queued \in 0 .. MaxQueue /\ MaxQueue \in Nat \ {0}
    BY StampingAssumption DEF TypeOK, StampingTypeOK, Visibility
<1>1. queued > 0 => queued' > 0
    BY <1>0 DEF RequestStamp
<1>2. perm'.version \in Nat /\ perm.version <= perm'.version
    BY <1>0
<1>3. VersionsKnown'
    BY <1>0, <1>2 DEF MendInv, VersionsKnown
<1> QED BY <1>1, <1>3 DEF MendInv, WrittenStays, Writing, Torn, Mends

\* Every step keeps the invariant.
LEMMA NextMendInv == TypeOK /\ MendInv /\ [Next]_vars => MendInv'
<1> SUFFICES ASSUME TypeOK, MendInv, [Next]_vars PROVE MendInv'
    OBVIOUS
<1>1. CASE StampNext
    BY <1>1, StampKeepsMending
<1>2. CASE \/ ChangeVisibility \/ ReaderStep \/ ListenerStep \/ ListenerEnds
           \/ SubscriberLost \/ Restart \/ UNCHANGED vars
    <2>1. /\ UNCHANGED <<vis, worker, raced>>
          /\ queued' = queued \/ RequestStamp
        BY <1>2 DEF ChangeVisibility, ReaderStep, RecoverPending, ReadStream, LookAtMessage,
                    RequestForMessage, MarkMessage, AckMessage, ListenerStep, HearEvent,
                    RequestForEvent, MarkEvent, ListenerEnds, SubscriberLost, Restart, RequestFor,
                     stampVars, vars
    <2>2. perm' = perm \/ perm'.version = perm.version + 1
        BY <1>2 DEF ChangeVisibility, ReaderStep, RecoverPending, ReadStream, LookAtMessage,
                    RequestForMessage, MarkMessage, AckMessage, ListenerStep, HearEvent,
                    RequestForEvent, MarkEvent, ListenerEnds, SubscriberLost, Restart, RequestFor,
                     stampVars, vars
    <2> QED BY <2>1, <2>2, OthersKeepMending
<1> QED BY <1>1, <1>2 DEF Next, StampNext

\* Chunks of one document that were left with stamps of different versions, by a task that
\* failed between two batches, are about to be written again: the message comes back, and
\* no later task finds its answer too old to write.
THEOREM TornRowsAreMended == Spec => []NeverLeftTorn
<1>1. TypeOK /\ MendInv => NeverLeftTorn
    <2> SUFFICES ASSUME TypeOK, MendInv, ~raced, Cardinality({vis[r] : r \in Rows}) > 1
                 PROVE  queued > 0 \/ \E w \in Workers : worker[w].pc # "free"
        BY DEF NeverLeftTorn
    <2>1. Torn
        <3> SUFFICES ASSUME ~Torn PROVE FALSE
            OBVIOUS
        <3>1. PICK r \in Rows : TRUE
            BY StampingAssumption
        <3>2. {vis[s] : s \in Rows} = {vis[r]}
            BY DEF Torn
        <3>3. Cardinality({vis[r]}) = 1
            BY FS_Singleton
        <3> QED BY <3>2, <3>3
    <2>2. queued > 0 \/ \E w \in Workers : Mends(w)
        BY <2>1 DEF MendInv
    <2> QED BY <2>2 DEF Mends, Writing
<1>2. Spec => []MendInv
    BY InitMendInv, NextMendInv, TypeCorrect, PTL DEF Spec
<1> QED BY <1>1, <1>2, TypeCorrect, PTL
=============================================================================
