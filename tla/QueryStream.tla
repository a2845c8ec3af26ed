---------------------------- MODULE QueryStream ----------------------------
(***************************************************************************)
(* Questions asked in one conversation.  The API numbers a question and    *)
(* publishes a task; a retrieval worker retrieves, generates and appends   *)
(* events to the Redis stream of the turn; an SSE reader in the API relays *)
(* them to the client; the worker saves the turn last of all.              *)
(*                                                                         *)
(* stream[t] are the entries of the stream of turn t, of which there are   *)
(* none when the key does not exist.  A reader's position counts the       *)
(* entries of the present key that are behind it; it is 0 in a key made    *)
(* anew, whose entries have larger ids than any before.                    *)
(***************************************************************************)
EXTENDS SequencesExt

CONSTANTS
    Questions,    \* calls of POST /conversations/query
    Watched,      \* the questions whose client also opens the stream of the turn
    Slow,         \* those whose client may hold up its reader for minutes
    Silent,       \* bound: those that the model may answer with nothing
    MaxTokens,    \* pieces of a generated answer
    FaultKinds,   \* what may fail in a run, each kind once
    MaxFaults     \* failures of a run

ASSUME QueryAssumption ==
    /\ IsFiniteSet(Questions) /\ Questions # {}
    /\ Watched \subseteq Questions /\ Slow \subseteq Questions /\ Silent \subseteq Questions
    /\ MaxTokens \in Nat \ {0}
    /\ FaultKinds \subseteq {"api", "worker", "broker", "redis", "database"}
    /\ MaxFaults \in Nat

VARIABLES
    turns,     \* the rows of conversation_turns
    stream,
    renewed,   \* has the key of the turn been removed before
    ttl,       \* has the stream key of the turn a time to live
    ask,       \* the calls: how far each is, and the turn index it got
    patient,   \* history: did every call wait until the ones before were saved
    task,      \* retrieve_and_generate_task, one message per question
    reader,    \* query_stream, one SSE connection per question
    loop,      \* the reader that blocks the API's event loop in XREAD, if any
    failed     \* what has failed

streamVars == <<stream, renewed, ttl>>
vars == <<turns, streamVars, ask, patient, task, reader, loop, failed>>

Turns == 1 .. Cardinality(Questions)

\* Pieces of text: part 1, 2, ... of what the model generates for a question, and
\* the text that takes the place of an answer: the apology when the LLM call fails, or
\* what check_verbatim_ratio makes of it.
Replaced == MaxTokens + 1
Piece(q, part) == [of |-> q, part |-> part]
Text(q, n)  == [i \in 1 .. n |-> Piece(q, i)]
Instead(q)  == <<Piece(q, Replaced)>>

\* The events of a stream.  'thinking' events are left out: they are appended
\* and relayed like tokens, and are no part of the answer.
Retrieved      == [kind |-> "retrieved", content |-> <<>>]
Token(content) == [kind |-> "token", content |-> content]
Done           == [kind |-> "done", content |-> <<>>]

NoTask   == [pc |-> "none", todo |-> <<>>, answer |-> <<>>]
NoReader == [pc |-> "none", pos |-> 0, begin |-> "none", view |-> <<>>,
             end |-> "open"]

TurnOf(q)  == ask[q].turn
Exists(t)  == stream[t] # <<>>
SavedAt(t) == {r \in turns : r.index = t}

Init ==
    /\ turns = {}
    /\ stream = [t \in Turns |-> <<>>] /\ renewed = [t \in Turns |-> FALSE]
    /\ ttl = [t \in Turns |-> FALSE]
    /\ ask = [q \in Questions |-> [pc |-> "idle", turn |-> 0]]
    /\ patient = TRUE
    /\ task = [q \in Questions |-> NoTask]
    /\ reader = [q \in Questions |-> NoReader]
    /\ loop = {}
    /\ failed = {}

\* "api" and "worker" are processes lost; the others are calls refused.
Fault(kind) ==
    /\ kind \in FaultKinds \ failed /\ Cardinality(failed) < MaxFaults
    /\ failed' = failed \cup {kind}
NoFault == UNCHANGED failed

-----------------------------------------------------------------------------
(* POST /conversations/query.  It runs in the event loop of the API, like the
   SSE readers, so it takes no step while one of them blocks the loop.        *)

LargestIndex == Max({0} \cup {r.index : r \in turns})

\* Nothing keeps a client from asking before the questions asked earlier are saved.
AsksPatiently == \A p \in Questions :
                    ask[p].pc # "idle" => \E r \in turns : r.of = p

Number(q, index) ==
    /\ loop = {} /\ ask[q].pc = "idle"
    /\ ask' = [ask EXCEPT ![q] = [pc |-> "numbered", turn |-> index]]
    /\ patient' = (patient /\ AsksPatiently)
    /\ UNCHANGED <<turns, streamVars, task, reader, loop, failed>>

\* Mutation: the index is the largest one, not the next.
NumberTurnSame(q) == Number(q, Max({1, LargestIndex}))

\* Mutation: an index is reserved for every task under way.
NumberTurnReserving(q) ==
    Number(q, LargestIndex + 1
              + Cardinality({p \in Questions : task[p].pc \notin {"none", "over"}}))

\* _next_turn_index: one more than the largest index saved so far.
NumberTurn(q) == Number(q, LargestIndex + 1)

\* The task is published; if the broker refuses it the call fails.
DispatchQuery(q) ==
    /\ loop = {} /\ ask[q].pc = "numbered"
    /\ \/ /\ ask' = [ask EXCEPT ![q].pc = "asked"]
          /\ task' = [task EXCEPT ![q].pc = "queued"]
          /\ NoFault
       \/ /\ ask' = [ask EXCEPT ![q].pc = "refused"]
          /\ UNCHANGED task
          /\ Fault("broker")
    /\ UNCHANGED <<turns, streamVars, patient, reader, loop>>

-----------------------------------------------------------------------------
(* retrieve_and_generate_task                                                *)

TaskGoto(q, pc) == task' = [task EXCEPT ![q].pc = pc]

\* What a run can come to: the pieces streamed while it generates, and the answer it
\* returns.  Nothing is streamed in the modes that do not stream, without documents, or
\* when the call fails before its first piece; and the model may answer nothing at all.
\* A call that fails midway returns the apology, and the guard may replace an answer
\* that has been streamed.
Outcomes(q) ==
    {[streamed |-> <<>>, answer |-> <<>>] : p \in {q} \cap Silent}
    \cup {[streamed |-> <<>>, answer |-> Text(q, MaxTokens)],
          [streamed |-> Text(q, MaxTokens), answer |-> Text(q, MaxTokens)]}
    \cup {[streamed |-> Text(q, n), answer |-> Instead(q)] : n \in 1 .. MaxTokens}

\* An answer of which nothing was streamed is published whole, unless it is empty.
WholeAnswer(o) ==
    IF o.streamed = <<>> /\ o.answer # <<>> THEN <<Token(o.answer)>> ELSE <<>>

Streamed(pieces) == [i \in DOMAIN pieces |-> Token(<<pieces[i]>>)]

\* Mutation: the answer is published whole although it was streamed.
RunTwice(q) ==
    /\ task[q].pc = "queued"
    /\ \/ TaskGoto(q, "raised")
       \/ \E o \in Outcomes(q) :
             task' = [task EXCEPT ![q] =
                [pc |-> "sink",
                 todo |-> <<Retrieved>> \o Streamed(o.streamed) \o <<Token(o.answer), Done>>,
                 answer |-> o.answer]]
    /\ UNCHANGED <<turns, streamVars, ask, patient, reader, loop, failed>>

\* The task starts.  An exception up to the end of the retrieval ends it, and no event
\* tells the client.  Otherwise the events to come are 'retrieved', the streamed pieces
\* one by one or, when there are none, the whole answer, and 'done'; which, turns out
\* while they are published.
Run(q) ==
    /\ task[q].pc = "queued"
    /\ \/ TaskGoto(q, "raised")
       \/ \E o \in Outcomes(q) :
             task' = [task EXCEPT ![q] =
                [pc |-> "sink",
                 todo |-> <<Retrieved>> \o Streamed(o.streamed)
                          \o WholeAnswer(o) \o <<Done>>,
                 answer |-> o.answer]]
    /\ UNCHANGED <<turns, streamVars, ask, patient, reader, loop, failed>>

\* sink goes on to the next event, and to _save_turn after the last.
NextEvent(q) ==
    task' = [task EXCEPT ![q].todo = Tail(@),
                         ![q].pc = IF Len(task[q].todo) = 1 THEN "save" ELSE "sink"]

AppendTo(t, event) == stream' = [stream EXCEPT ![t] = Append(@, event)]
RemoveKey(t) == /\ stream' = [stream EXCEPT ![t] = <<>>]
                /\ renewed' = [renewed EXCEPT ![t] = TRUE]
                /\ ttl' = [ttl EXCEPT ![t] = FALSE]

\* Mutation: no EXPIRE.
PublishForever(q) ==
    LET t == TurnOf(q)
    IN  /\ task[q].pc = "sink"
        /\ NextEvent(q)
        /\ AppendTo(t, Head(task[q].todo))
        /\ NoFault
        /\ UNCHANGED <<turns, renewed, ttl, ask, patient, reader, loop>>

\* sink: XADD and EXPIRE.  A refusal of either is logged; if it was the XADD the event
\* is lost, and counts as published all the same.
Publish(q) ==
    LET t == TurnOf(q)
    IN  /\ task[q].pc = "sink"
        /\ NextEvent(q)
        /\ \/ /\ AppendTo(t, Head(task[q].todo))
              /\ \/ ttl' = [ttl EXCEPT ![t] = TRUE] /\ NoFault
                 \/ UNCHANGED ttl /\ Fault("redis")
           \/ UNCHANGED <<stream, ttl>> /\ Fault("redis")
        /\ UNCHANGED <<turns, renewed, ask, patient, reader, loop>>

\* _save_turn, after 'done' has been published.  The table has at most one row per
\* index; a second one is refused, and so is everything when the database is away:
\* the error is logged and the task goes on.
SaveTurn(q) ==
    /\ task[q].pc = "save"
    /\ TaskGoto(q, "audit")
    /\ \/ /\ turns' = IF SavedAt(TurnOf(q)) = {}
                      THEN turns \cup {[index |-> TurnOf(q), of |-> q,
                                        answer |-> task[q].answer]}
                      ELSE turns
          /\ NoFault
       \/ UNCHANGED turns /\ Fault("database")
    /\ UNCHANGED <<streamVars, ask, patient, reader, loop>>

\* The audit event, whose errors are swallowed; then the message is acknowledged.
FinishTask(q) ==
    /\ task[q].pc = "audit"
    /\ task' = [task EXCEPT ![q] = [NoTask EXCEPT !.pc = "over"]]
    /\ UNCHANGED <<turns, streamVars, ask, patient, reader, loop, failed>>

TaskStep(q) == Run(q) \/ Publish(q) \/ SaveTurn(q) \/ FinishTask(q)

\* Mutation: the message is acknowledged when it is received.
WorkerLostEarlyAck(q) ==
    /\ task[q].pc \in {"sink", "save", "audit"}
    /\ task' = [task EXCEPT ![q] = [NoTask EXCEPT !.pc = "over"]]
    /\ Fault("worker")
    /\ UNCHANGED <<turns, streamVars, ask, patient, reader, loop>>

\* The worker process is lost, between two events or between XADD and EXPIRE; the
\* message is delivered again and the task starts over, whatever it had published.
WorkerLost(q) ==
    /\ task[q].pc \in {"sink", "save", "audit"}
    /\ task' = [task EXCEPT ![q] = [NoTask EXCEPT !.pc = "queued"]]
    /\ \/ UNCHANGED stream
       \/ task[q].pc = "sink" /\ AppendTo(TurnOf(q), Head(task[q].todo))
    /\ Fault("worker")
    /\ UNCHANGED <<turns, renewed, ttl, ask, patient, reader, loop>>

-----------------------------------------------------------------------------
(* query_stream.  Between two events that it hands on, the generator calls a
   synchronous Redis client and never awaits: it keeps the event loop.         *)

ReaderGoto(q, pc) == reader' = [reader EXCEPT ![q].pc = pc]

\* What a client was shown is forgotten when the stream ended without 'done'.
Closed(q) == IF reader[q].end = "done" THEN [reader[q] EXCEPT !.pc = "closed", !.pos = 0]
             ELSE [NoReader EXCEPT !.pc = "closed"]

\* The client opens the stream with the turn index that its call returned.  If the
\* turn is saved with an answer it is replayed; otherwise, and when the database is away,
\* the stream is read.
OpenStream(q) ==
    /\ q \in Watched
    /\ loop = {} /\ ask[q].pc = "asked" /\ reader[q].pc = "none"
    /\ \/ /\ \A r \in SavedAt(TurnOf(q)) : r.answer = <<>>
          /\ ReaderGoto(q, "look")
          /\ NoFault
       \/ \E r \in SavedAt(TurnOf(q)) :
             /\ r.answer # <<>>
             /\ reader' = [reader EXCEPT ![q].pc = "closed", ![q].end = "done",
                                         ![q].view = <<Token(r.answer)>>]
             /\ NoFault
       \/ ReaderGoto(q, "look") /\ Fault("database")
    /\ UNCHANGED <<turns, streamVars, ask, patient, task, loop>>

\* Before the first event: a stream that exists is read from its beginning, for one
\* that does not the reader waits for what comes.
LookForStream(q) ==
    /\ loop \subseteq {q} /\ reader[q].pc = "look"
    /\ reader' = [reader EXCEPT ![q].pc = IF Exists(TurnOf(q)) THEN "read" ELSE "tail",
                                ![q].pos = 0]
    /\ loop' = {q}
    /\ UNCHANGED <<turns, streamVars, ask, patient, task, failed>>

\* XREAD with id $ : only events appended from now on.
TailStream(q) ==
    /\ reader[q].pc = "tail"
    /\ reader' = [reader EXCEPT ![q].pc = "read", ![q].pos = Len(stream[TurnOf(q)])]
    /\ UNCHANGED <<turns, streamVars, ask, patient, task, loop, failed>>

\* XREAD: the entries after pos, handed on up to the first 'done'.
Ahead(q)  == SubSeq(stream[TurnOf(q)], reader[q].pos + 1, Len(stream[TurnOf(q)]))
Handed(q) == SubSeq(Ahead(q), 1, Min({i \in DOMAIN Ahead(q) : Ahead(q)[i] = Done}
                                     \cup {Len(Ahead(q))}))
Ended(q)  == Last(Handed(q)) = Done
Seen(q)   == reader[q].begin # "none"
BeginOf(q) == IF reader[q].pos = 0 /\ ~renewed[TurnOf(q)] THEN "first" ELSE "later"

HasEvents(q) == loop \subseteq {q} /\ reader[q].pc = "read" /\ Ahead(q) # <<>>
HasNone(q)   == loop \subseteq {q} /\ reader[q].pc = "read" /\ Ahead(q) = <<>>

\* What handing on the entries does to the reader, in whatever state it goes on.
Relay(q, next) ==
    reader' = [reader EXCEPT
        ![q].pc = IF Ended(q) THEN "clean" ELSE next,
        ![q].pos = @ + Len(Handed(q)),
        ![q].begin = IF Seen(q) THEN @ ELSE BeginOf(q),
        ![q].view = @ \o Handed(q),
        ![q].end = IF Ended(q) THEN "done" ELSE @]

\* Mutation: the reader goes on at the end of the stream, not where it was.
RelayEventsThenTail(q) ==
    /\ HasEvents(q)
    /\ Relay(q, "tail")
    /\ loop' = {}
    /\ UNCHANGED <<turns, streamVars, ask, patient, task, failed>>

\* The events are handed on in order, each at an await where the others get the event
\* loop.  Reading goes on behind the last one.
RelayEvents(q) ==
    /\ HasEvents(q)
    /\ Relay(q, "read")
    /\ loop' = {}
    /\ UNCHANGED <<turns, streamVars, ask, patient, task, failed>>

\* That is also where it shows that the client has left: the generator is closed.
ClientGone(q) ==
    /\ HasEvents(q)
    /\ ReaderGoto(q, "clean")
    /\ loop' = {}
    /\ UNCHANGED <<turns, streamVars, ask, patient, task, failed>>

\* A second passes without events.
ReadNothing(q) ==
    /\ HasNone(q)
    /\ ReaderGoto(q, IF ~Seen(q) THEN "look" ELSE "read")
    /\ loop' = {q}
    /\ UNCHANGED <<turns, streamVars, ask, patient, task, failed>>

\* Mutation: only a reader that has seen an event can time out.
TimeOutIfSeen(q) ==
    /\ HasNone(q) /\ Seen(q)
    /\ reader' = [reader EXCEPT ![q].pc = "clean", ![q].end = "error"]
    /\ loop' = {}
    /\ UNCHANGED <<turns, streamVars, ask, patient, task, failed>>

\* SSE_IDLE_TIMEOUT seconds have passed without events: an error ends the stream.
TimeOut(q) ==
    /\ HasNone(q)
    /\ reader' = [reader EXCEPT ![q].pc = "clean", ![q].end = "error"]
    /\ loop' = {}
    /\ UNCHANGED <<turns, streamVars, ask, patient, task, failed>>

\* A call of Redis is refused: the generator ends without a word.
ReaderFails(q) ==
    /\ loop \subseteq {q} /\ reader[q].pc \in {"look", "tail", "read"}
    /\ ReaderGoto(q, "clean") /\ loop' = {}
    /\ Fault("redis")
    /\ UNCHANGED <<turns, streamVars, ask, patient, task>>

\* The finally block deletes the key.  The other readers of the turn miss
\* what they have not read, and are at the beginning of the key made next.
DeleteStream(q) ==
    LET t == TurnOf(q)
    IN  /\ loop = {} /\ reader[q].pc = "clean"
        /\ \/ /\ RemoveKey(t)
              /\ reader' = [p \in Questions |->
                    IF p = q THEN Closed(p)
                    ELSE IF TurnOf(p) = t THEN [reader[p] EXCEPT !.pos = 0]
                    ELSE reader[p]]
              /\ NoFault
           \/ /\ reader' = [reader EXCEPT ![q] = Closed(q)]
              /\ UNCHANGED streamVars
              /\ Fault("redis")
        /\ UNCHANGED <<turns, ask, patient, task, loop>>

ReaderStep(q) ==
    \/ LookForStream(q) \/ TailStream(q) \/ RelayEvents(q) \/ ReadNothing(q)
    \/ TimeOut(q) \/ DeleteStream(q)

\* The API process is lost, with its calls and its readers.
ApiLost ==
    /\ \E q \in Questions : ask[q].pc = "numbered" \/ reader[q].pc \notin {"none", "closed"}
    /\ ask' = [q \in Questions |->
          IF ask[q].pc = "numbered" THEN [ask[q] EXCEPT !.pc = "refused"] ELSE ask[q]]
    /\ reader' = [q \in Questions |->
          IF reader[q].pc = "none" THEN reader[q] ELSE Closed(q)]
    /\ loop' = {}
    /\ Fault("api")
    /\ UNCHANGED <<turns, streamVars, patient, task>>

-----------------------------------------------------------------------------
\* Redis drops a key 120 seconds after its last event.  A reader gives up after 60 seconds
\* without events, unless a slow client holds it up in between: one that had begun may then
\* have missed entries, and counts as if it had missed the first.
Expire(t) ==
    /\ Exists(t) /\ ttl[t] /\ RemoveKey(t)
    /\ \A q \in Questions \ Slow :
          TurnOf(q) = t => reader[q].pc \notin {"look", "tail", "read"}
    /\ reader' = [q \in Questions |->
          IF TurnOf(q) = t /\ reader[q].pc = "read"
          THEN [reader[q] EXCEPT !.pos = 0, !.begin = IF Seen(q) THEN "later" ELSE @]
          ELSE reader[q]]
    /\ UNCHANGED <<turns, ask, patient, task, loop, failed>>

Next ==
    \/ \E q \in Questions :
          \/ NumberTurn(q) \/ DispatchQuery(q)
          \/ TaskStep(q) \/ WorkerLost(q)
          \/ OpenStream(q) \/ ReaderStep(q) \/ ClientGone(q) \/ ReaderFails(q)
    \/ ApiLost
    \/ \E t \in Turns : Expire(t)

Spec == Init /\ [][Next]_vars

\* Workers are restarted and work on, the event loop runs, keys expire, and a reader
\* that finds nothing again and again has waited sixty seconds at some time.  Nobody
\* has to ask, to open a stream, to leave or to fail.
Fairness ==
    /\ \A q \in Questions : /\ WF_vars(DispatchQuery(q))
                            /\ WF_vars(TaskStep(q))
                            /\ WF_vars(ReaderStep(q))
                            /\ SF_vars(TimeOut(q))
    /\ \A t \in Turns : WF_vars(Expire(t))

FairSpec == Spec /\ Fairness

-----------------------------------------------------------------------------
Pieces  == [of : Questions, part : 1 .. Replaced]
Events  == [kind : {"retrieved", "token", "done"}, content : Seq(Pieces)]

CallType   == [pc : {"idle", "numbered", "asked", "refused"},
               turn : 0 .. Cardinality(Questions)]
TaskType   == [pc : {"none", "queued", "sink", "save", "audit", "raised", "over"},
               todo : Seq(Events), answer : Seq(Pieces)]
ReaderType == [pc : {"none", "look", "tail", "read", "clean", "closed"},
               pos : Nat, begin : {"none", "first", "later"}, view : Seq(Events),
               end : {"open", "done", "error"}]

TypeOK ==
    /\ turns \subseteq [index : Turns, of : Questions, answer : Seq(Pieces)]
    /\ stream \in [Turns -> Seq(Events)]
    /\ renewed \in [Turns -> BOOLEAN]
    /\ ttl \in [Turns -> BOOLEAN]
    /\ ask \in [Questions -> CallType]
    /\ patient \in BOOLEAN
    /\ task \in [Questions -> TaskType]
    /\ reader \in [Questions -> ReaderType]
    /\ loop \subseteq Questions
    /\ failed \subseteq FaultKinds /\ Cardinality(failed) <= MaxFaults

\* No other question got the turn index of q.
Alone(q) == \A p \in Questions \ {q} : TurnOf(p) # TurnOf(q)

Dropped(t) == Exists(t) /\ stream'[t] = <<>>

\* The client of q is handed the entries between the two positions of its reader.
HandedBetween(q) ==
    /\ reader'[q].pos >= reader[q].pos
    /\ reader'[q].view = reader[q].view \o
          SubSeq(stream[TurnOf(q)], reader[q].pos + 1, reader'[q].pos)

\* A client whose turn index is its own misses nothing after its first event, although
\* the reader pauses at every event while workers append and start over; only Redis may
\* drop what it has not read, when the time of the key is over.
NothingSkipped ==
    [][\A q \in Questions :
          Alone(q) /\ Seen(q) /\ reader'[q].pc # "closed" /\ ~Dropped(TurnOf(q))
          => HandedBetween(q)]_vars

TextOf(events) == FlattenSeq([i \in DOMAIN events |-> events[i].content])
IsOf(event, q) == \A i \in DOMAIN event.content : event.content[i].of = q

\* What a client was shown by the time of 'done' is what the history will show: with
\* no crash and no refusal, and without a gap from the first event on, the same text reaches both,
\* by way of the stream or of the saved turn.  Where an answer had been streamed before
\* it was replaced, the client keeps what was streamed.
ShownIsSaved ==
    failed = {} =>
        \A q \in Questions :
            /\ Alone(q) /\ reader[q].end = "done"
            /\ Seen(q) => reader[q].begin = "first"
            => \A r \in SavedAt(TurnOf(q)) :
                  \/ TextOf(reader[q].view) = r.answer
                  \/ r.answer = Instead(q)

\* If every question waited until the ones before were in the history, no client is
\* ever shown text that belongs to another question, whatever fails.
OwnAnswer ==
    patient => \A q \in Questions : \A i \in DOMAIN reader[q].view :
                   IsOf(reader[q].view[i], q)

\* The history then keeps every question whose task has ended, even if its worker was
\* lost and it started over; only the database may refuse it.
EveryTurnKept ==
    patient /\ "database" \notin failed =>
        \A q \in Questions : task[q].pc = "over" =>
            \E r \in turns : r.of = q

\* The turns of a conversation are numbered without holes, in whatever order
\* concurrent questions get their numbers and save.
NoHoles ==
    \A r \in turns : \A i \in 1 .. r.index : SavedAt(i) # {}

\* Every stream that a reader reads ends, with 'done' or with a timeout, even if the
\* task ended without a word.
StreamEnds ==
    \A q \in Questions : reader[q].pc = "look" ~> reader[q].pc = "closed"

\* No stream key stays for ever, whoever is lost between XADD and EXPIRE: the task
\* starts over and sets the time again.  Left out are a refused EXPIRE, and a task
\* that started over and raised.
StreamsGo ==
    \A t \in Turns : Exists(t) ~>
        \/ ~Exists(t) \/ "redis" \in failed
        \/ \E q \in Questions : TurnOf(q) = t /\ task[q].pc = "raised"
=============================================================================
