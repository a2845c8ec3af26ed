----------------------------- MODULE OutboxRelay ----------------------------
(***************************************************************************)
(* The resident outbox-relay process: it takes pending events in order,    *)
(* acts on each and marks it sent.  It is the only writer of the events'   *)
(* states, so a batch read at once is the pending prefix read one by one.  *)
(* MountEnabledChanged events are left out: they touch neither the         *)
(* execution row nor the existence of a chunk.                             *)
(***************************************************************************)
EXTENDS IngestTables

VARIABLE relay   \* the event being handled and what was read for it

RelayPcs == {"poll", "epoch", "dispatch", "cleanup", "mark"}

RelayInit == relay = [pc |-> "poll", at |-> 0, epoch |-> 0]

RelayTypeOK ==
    /\ relay \in [pc : RelayPcs, at : Nat, epoch : Nat]
    /\ relay.pc # "poll" => relay.at \in DOMAIN outbox

Handled == outbox[relay.at]

RelayGoto(pc) == relay' = [relay EXCEPT !.pc = pc]
RelayPoll     == relay' = [pc |-> "poll", at |-> 0, epoch |-> 0]

FirstPending(i) ==
    /\ i \in DOMAIN outbox
    /\ outbox[i].state = "pending"
    /\ \A k \in DOMAIN outbox : k < i => outbox[k].state # "pending"

-----------------------------------------------------------------------------
\* A DocumentMounted event: it is taken as a duplicate and skipped when the
\* execution is 'processing'; an error of this read does not stop the event.
TakeMounted(i) ==
    /\ relay.pc = "poll"
    /\ FirstPending(i)
    /\ outbox[i].kind = "DocumentMounted"
    /\ \/ /\ relay' = [pc |-> IF status[outbox[i].mount] = "processing"
                              THEN "mark" ELSE "epoch",
                       at |-> i, epoch |-> 0]
          /\ NoFaults
       \/ /\ relay' = [pc |-> "epoch", at |-> i, epoch |-> 0]
          /\ Fault("database")
    /\ UNCHANGED <<mountVars, config, rowVars, outbox, job, chunkVars, stampQueue>>

\* Mutation: the relay counts the epoch itself.
ReadEpochAhead ==
    /\ relay.pc = "epoch"
    /\ relay' = [relay EXCEPT !.pc = "dispatch", !.epoch = epoch[Handled.mount] + 1]
    /\ UNCHANGED <<mountVars, config, rowVars, outbox, job, chunkVars, stampQueue>>
    /\ NoFaults

\* The epoch is read on a connection of its own; no row, or an error, gives 1.
ReadEpoch ==
    /\ relay.pc = "epoch"
    /\ \/ /\ relay' = [relay EXCEPT !.pc = "dispatch",
                         !.epoch = IF RowExists(Handled.mount)
                                   THEN epoch[Handled.mount] ELSE 1]
          /\ NoFaults
       \/ /\ relay' = [relay EXCEPT !.pc = "dispatch", !.epoch = 1]
          /\ Fault("database")
    /\ UNCHANGED <<mountVars, config, rowVars, outbox, job, chunkVars, stampQueue>>

NextJob(j) ==
    /\ job[j].pc = "unused"
    /\ \A i \in Jobs : i < j => job[i].pc # "unused"

\* ingest_document_task.delay(...)
Dispatch ==
    /\ relay.pc = "dispatch"
    /\ \E j \in Jobs :
          /\ NextJob(j)
          /\ job' = [job EXCEPT ![j] = [pc |-> "ready", mount |-> Handled.mount,
                                        epoch |-> relay.epoch, retries |-> 0,
                                        config |-> 1]]
    /\ RelayGoto("mark")
    /\ UNCHANGED <<mountVars, config, rowVars, outbox, chunkVars, stampQueue>>
    /\ NoFaults

\* The broker refuses the message, and refuses it again when
\* _dispatch_with_trace repeats the call: the event is failed for good.
DispatchFails ==
    /\ relay.pc = "dispatch"
    /\ outbox' = [outbox EXCEPT ![relay.at].state = "failed"]
    /\ RelayPoll
    /\ UNCHANGED <<mountVars, config, rowVars, job, chunkVars, stampQueue>>
    /\ Fault("broker")

-----------------------------------------------------------------------------
\* A DocumentUnmounted event: cleanup_mount_chunks inside the relay.  It runs in
\* the relay's event loop, where the asyncio.run of both its status updates
\* raises and is swallowed: only the deletion of the chunks takes effect.
TakeUnmounted(i) ==
    /\ relay.pc = "poll"
    /\ FirstPending(i)
    /\ outbox[i].kind = "DocumentUnmounted"
    /\ relay' = [pc |-> "cleanup", at |-> i, epoch |-> 0]
    /\ UNCHANGED <<mountVars, config, rowVars, outbox, job, chunkVars, stampQueue>>
    /\ NoFaults

RelayDeletes ==
    /\ relay.pc = "cleanup"
    /\ \/ DeleteSlotChunks /\ NoFaults
       \/ UNCHANGED chunkVars /\ Fault("milvus")
    /\ RelayGoto("mark")
    /\ UNCHANGED <<mountVars, config, rowVars, outbox, job, stampQueue>>

-----------------------------------------------------------------------------
MarkSent ==
    /\ relay.pc = "mark"
    /\ outbox' = [outbox EXCEPT ![relay.at].state = "sent"]
    /\ RelayPoll
    /\ UNCHANGED <<mountVars, config, rowVars, job, chunkVars, stampQueue>>
    /\ NoFaults

\* The process dies and is restarted: what is still pending is taken again.
RelayCrash ==
    /\ relay.pc # "poll"
    /\ RelayPoll
    /\ UNCHANGED <<mountVars, config, rowVars, outbox, job, chunkVars, stampQueue>>
    /\ Fault("relay")

RelayWorks ==
    \/ \E i \in DOMAIN outbox : TakeMounted(i) \/ TakeUnmounted(i)
    \/ ReadEpoch \/ Dispatch \/ RelayDeletes \/ MarkSent

RelayFails == DispatchFails \/ RelayCrash
=============================================================================
