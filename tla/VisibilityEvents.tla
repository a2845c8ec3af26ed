--------------------------- MODULE VisibilityEvents ---------------------------
(***************************************************************************)
(* From a change of visibility in the permission service to the stamps.    *)
(* The service appends an event to a Redis stream and publishes it to a    *)
(* channel.  The subscriber process reads both, in a thread each, and      *)
(* requests a stamping task for an event it has not processed.  The stream *)
(* is read through a consumer group: a message that was delivered and not  *)
(* acknowledged stays in its pending list and is recovered at the next     *)
(* start.  An event is named by the version it announces.                  *)
(***************************************************************************)
EXTENDS Stamping

CONSTANTS
    ReadCount,   \* _BATCH_SIZE, the messages of one read
    MaxSeen      \* _MAX_PROCESSED_IDS

ASSUME EventsAssumption == {ReadCount, MaxSeen} \subseteq Nat \ {0}

VARIABLES
    delivered,   \* the last event the consumer group handed out
    pending,     \* the consumer's pending entries
    stranded,    \* those of consumers with another name, which nobody recovers
    reader,      \* the stream thread: events in hand, what is to be done with the first
    listener,    \* the Pub/Sub thread, with the event in hand
    inbox,       \* published and not yet heard
    seen,        \* _processed_event_ids, shared by the threads
    requested    \* history: events that a stamping task was requested for

eventVars == <<delivered, pending, stranded, reader, listener, inbox, seen, requested>>
vars == <<stampVars, failed, eventVars>>

Events == 2 .. MaxVersion
\* Events are handed out and published in their order.
First(events) == CHOOSE e \in events : \A f \in events : e <= f
Others(events) == events \ {First(events)}
FirstOf(events) == {e \in events : Cardinality({f \in events : f < e}) < ReadCount}
Up == reader.pc # "down"

Started == [pc |-> "recover", next |-> "look", todo |-> {}]
Down == [pc |-> "down", next |-> "look", todo |-> {}]
Listening == [pc |-> "listen", next |-> "look", todo |-> {}]
Deaf == [pc |-> "deaf", next |-> "look", todo |-> {}]

Init ==
    /\ StampingInit
    /\ delivered = 1 /\ pending = {} /\ stranded = {}
    /\ reader = Started /\ listener = Listening
    /\ inbox = {} /\ seen = {} /\ requested = {}

Thread(pcs) ==
    [pc : pcs, next : {"look", "request", "clear", "add", "ack"}, todo : SUBSET Events]

TypeOK ==
    /\ StampingTypeOK
    /\ delivered \in 1 .. perm.version
    /\ pending \subseteq Events /\ stranded \subseteq Events
    /\ reader \in Thread({"recover", "read", "down"})
    /\ listener \in Thread({"listen", "deaf"})
    /\ inbox \subseteq Events
    /\ seen \subseteq Events
    /\ requested \subseteq Events

-----------------------------------------------------------------------------
\* The permission service changes what is visible and tells; only a listening thread
\* hears what is published.
ChangeVisibility ==
    /\ perm.version < MaxVersion
    /\ \E mounted \in BOOLEAN :
          perm' = [version |-> perm.version + 1, mounted |-> mounted]
    /\ inbox' = IF listener.pc = "listen" THEN inbox \cup {perm.version + 1} ELSE inbox
    /\ NoFault
    /\ UNCHANGED <<vis, queued, worker, raced, delivered, pending, stranded, reader,
                   listener, seen, requested>>

-----------------------------------------------------------------------------
(* _process_visibility_event, in either thread *)

\* on_visibility_changed swallows a refusal of the broker, and the lookup of the knowledge
\* bases a failure of the database, for an event that names none or concerns a whole one;
\* the event goes on to be marked as processed.
RequestFor(event) ==
    /\ \/ NoFault /\ RequestStamp /\ requested' = requested \cup {event}
       \/ Fault("request") /\ UNCHANGED <<queued, requested>>
    /\ UNCHANGED <<perm, vis, worker, raced, seen>>

\* _mark_processed empties the set when it is full: a test, the emptying and the addition,
\* with no lock, so that the other thread may come between.  The test follows the request
\* at once, which the other thread cannot tell.
AfterRequest == IF Cardinality(seen) >= MaxSeen THEN "clear" ELSE "add"

MarkProcessed(thread, event, next) ==
    \/ thread.next = "clear" /\ next = "add" /\ seen' = {}
    \/ thread.next = "add" /\ next = "ack" /\ seen' = seen \cup {event}

-----------------------------------------------------------------------------
(* subscribe_visibility_stream *)

\* _recover_pending: until nothing is pending, in batches.
RecoverPending ==
    /\ reader.pc = "recover" /\ reader.todo = {}
    /\ reader' = IF pending = {} THEN [reader EXCEPT !.pc = "read"]
                                 ELSE [reader EXCEPT !.todo = FirstOf(pending)]
    /\ NoFault
    /\ UNCHANGED <<stampVars, delivered, pending, stranded, listener, inbox, seen, requested>>

\* Mutation: the reply is taken for a full one.
LastOfReadFull == delivered + ReadCount

LastOfRead == IF perm.version - delivered > ReadCount THEN delivered + ReadCount
                                                      ELSE perm.version

\* XREADGROUP '>': new messages only.  The reply may be lost; the messages are then
\* pending, and are not asked for again.
ReadStream ==
    /\ reader.pc = "read" /\ reader.todo = {}
    /\ delivered < perm.version
    /\ delivered' = LastOfRead
    /\ pending' = pending \cup (delivered + 1 .. LastOfRead)
    /\ \/ NoFault /\ reader' = [reader EXCEPT !.todo = delivered + 1 .. LastOfRead]
       \/ Fault("reply") /\ UNCHANGED reader
    /\ UNCHANGED <<stampVars, stranded, listener, inbox, seen, requested>>

\* _is_duplicate decides what is to be done with the message.
LookAtMessage ==
    /\ reader.todo # {} /\ reader.next = "look"
    /\ reader' = [reader EXCEPT
          !.next = IF First(reader.todo) \in seen THEN "ack" ELSE "request"]
    /\ NoFault
    /\ UNCHANGED <<stampVars, delivered, pending, stranded, listener, inbox, seen, requested>>

RequestForMessage ==
    /\ reader.todo # {} /\ reader.next = "request"
    /\ RequestFor(First(reader.todo))
    /\ reader' = [reader EXCEPT !.next = AfterRequest]
    /\ UNCHANGED <<delivered, pending, stranded, listener, inbox>>

MarkMessage ==
    /\ reader.todo # {}
    /\ \E next \in {"add", "ack"} :
          /\ MarkProcessed(reader, First(reader.todo), next)
          /\ reader' = [reader EXCEPT !.next = next]
    /\ NoFault
    /\ UNCHANGED <<stampVars, delivered, pending, stranded, listener, inbox, requested>>

\* A refused XACK leaves the message pending; it ends the recovery, and is ignored when
\* reading.
AckMessage ==
    /\ reader.todo # {} /\ reader.next = "ack"
    /\ \/ /\ NoFault
          /\ pending' = pending \ {First(reader.todo)}
          /\ reader' = [reader EXCEPT !.next = "look", !.todo = Others(@)]
       \/ /\ Fault("ack")
          /\ UNCHANGED pending
          /\ reader' = [pc |-> "read", next |-> "look",
                        todo |-> IF reader.pc = "read" THEN Others(reader.todo) ELSE {}]
    /\ UNCHANGED <<stampVars, delivered, stranded, listener, inbox, seen, requested>>

ReaderStep ==
    \/ RecoverPending \/ ReadStream
    \/ LookAtMessage \/ RequestForMessage \/ MarkMessage \/ AckMessage

-----------------------------------------------------------------------------
(* subscribe_visibility_events *)

\* Mutation: the event counts as processed as soon as it is heard.
HearEventMarks ==
    /\ listener = Listening
    /\ inbox # {}
    /\ inbox' = Others(inbox)
    /\ IF First(inbox) \in seen
       THEN UNCHANGED <<listener, seen>>
       ELSE /\ listener' = [listener EXCEPT !.next = "request", !.todo = {First(inbox)}]
            /\ seen' = seen \cup {First(inbox)}
    /\ NoFault
    /\ UNCHANGED <<stampVars, delivered, pending, stranded, reader, requested>>

\* A message of the channel, unless _is_duplicate.
HearEvent ==
    /\ listener = Listening
    /\ inbox # {}
    /\ inbox' = Others(inbox)
    /\ listener' = IF First(inbox) \in seen THEN Listening
                   ELSE [listener EXCEPT !.next = "request", !.todo = {First(inbox)}]
    /\ NoFault
    /\ UNCHANGED <<stampVars, delivered, pending, stranded, reader, seen, requested>>

RequestForEvent ==
    /\ listener.next = "request"
    /\ RequestFor(First(listener.todo))
    /\ listener' = [listener EXCEPT !.next = AfterRequest]
    /\ UNCHANGED <<delivered, pending, stranded, reader, inbox>>

MarkEvent ==
    /\ listener.todo # {}
    /\ \E next \in {"add", "ack"} :
          /\ MarkProcessed(listener, First(listener.todo), next)
          /\ listener' = IF next = "ack" THEN Listening ELSE [listener EXCEPT !.next = next]
    /\ NoFault
    /\ UNCHANGED <<stampVars, delivered, pending, stranded, reader, inbox, requested>>

\* A broken connection ends the thread for good.
ListenerEnds ==
    /\ listener = Listening
    /\ Fault("pubsub")
    /\ listener' = Deaf /\ inbox' = {}
    /\ UNCHANGED <<stampVars, delivered, pending, stranded, reader, seen, requested>>

ListenerStep == HearEvent \/ RequestForEvent \/ MarkEvent

-----------------------------------------------------------------------------
\* The process is lost, with both threads and what they share.  The consumer's name
\* contains that of the host: a container created anew has another name, and leaves the
\* pending entries behind.
SubscriberLost ==
    /\ Up
    /\ \/ Fault("crash") /\ UNCHANGED <<pending, stranded>>
       \/ Fault("redeploy") /\ pending' = {} /\ stranded' = stranded \cup pending
    /\ reader' = Down /\ listener' = Deaf
    /\ inbox' = {} /\ seen' = {}
    /\ UNCHANGED <<stampVars, delivered, requested>>

\* Mutation: new messages are read without recovering the pending ones.
RestartReading ==
    /\ ~Up
    /\ reader' = [Started EXCEPT !.pc = "read"] /\ listener' = Listening
    /\ NoFault
    /\ UNCHANGED <<stampVars, delivered, pending, stranded, inbox, seen, requested>>

\* It is started again (restart: unless-stopped).
Restart ==
    /\ ~Up
    /\ reader' = Started /\ listener' = Listening
    /\ NoFault
    /\ UNCHANGED <<stampVars, delivered, pending, stranded, inbox, seen, requested>>

Next ==
    \/ ChangeVisibility
    \/ ReaderStep \/ ListenerStep \/ ListenerEnds
    \/ SubscriberLost \/ Restart
    \/ /\ \/ \E w \in Workers : StampStep(w) \/ StampFails(w)
          \/ ReconcileStamps
       /\ UNCHANGED eventVars

\* The threads and the workers run, and what ended is started again.  Changes, sweeps
\* and faults need not happen.
Fairness ==
    /\ WF_vars(ReaderStep \/ Restart) /\ WF_vars(ListenerStep)
    /\ \A w \in Workers : WF_vars(StampStep(w) /\ UNCHANGED eventVars)

Spec == Init /\ [][Next]_vars /\ Fairness

-----------------------------------------------------------------------------
\* No event that was read is forgotten: it is still pending, or a stamping task was
\* requested for it, through crashes, lost replies and duplicates in either thread.
\* Left out is a request that failed, at the broker or for want of the knowledge bases.
NothingForgotten ==
    "request" \notin failed =>
        2 .. delivered \subseteq pending \cup stranded \cup requested

\* Rows with stamps of different versions are about to be written again, unless two
\* tasks mixed their batches.
NeverLeftTorn ==
    ~raced /\ Cardinality({vis[r] : r \in Rows}) > 1 =>
        queued > 0 \/ \E w \in Workers : worker[w].pc # "free"

\* The stamps of a row never go back to an older version, although tasks finish in any
\* order: as long as no write falls between another task's comparison and its end,
\* comparing is enough.  Left out are tasks cut off between two batches, and comparisons
\* that failed and let the task go on.
NeverGoesBack ==
    [][~raced' /\ failed' \cap {"stamp", "milvus"} = {} =>
          \A r \in Rows : vis'[r] >= vis[r] \/ vis'[r] = 0]_vars

\* What the code makes up for: a task that failed, a subscriber that was lost, a refused
\* XACK and a Pub/Sub thread that ended; a lost reply as long as the other thread hears
\* the event.  It does not make up for races, a request that failed, a consumer
\* renamed, and a comparison that failed.
MadeUpFor ==
    /\ ~raced
    /\ \/ failed \subseteq {"stamp", "ack", "pubsub", "crash"}
       \/ failed \subseteq {"stamp", "ack", "reply"}

\* In the end the rows have the stamps of the last change.
RowsCatchUp ==
    <>[](MadeUpFor => \A r \in Rows : vis[r] = StampOf(perm))
=============================================================================
