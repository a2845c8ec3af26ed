---------------------------- MODULE IngestWorker ----------------------------
(***************************************************************************)
(* The ingestion worker: ingest_document_task, executed by Workers         *)
(* processes with late acknowledgement, so that a message whose process    *)
(* is lost is delivered again.                                             *)
(***************************************************************************)
EXTENDS IngestTables

Running(j) == job[j].pc \notin {"unused", "ready", "countdown", "done"}

JobGoto(j, pc) == job' = [job EXCEPT ![j].pc = pc]
EndJob(j)      == job' = [job EXCEPT ![j] = JobDone]

\* Mutation: the check forgets the epoch.
AbortReasonWithoutEpoch(j) == IF RowExists(job[j].mount) THEN "go" ELSE "removed"

\* _abort_reason: why the execution must stop at a fence, "go" when it need not.
AbortReason(j) ==
    LET m == job[j].mount
    IN  CASE ~RowExists(m)              -> "removed"
          [] RowExists(m) /\ epoch[m] # job[j].epoch -> "epoch"
          [] RowExists(m) /\ epoch[m] = job[j].epoch /\ status[m] = "cancelling"
                                        -> "cancelling"
          [] OTHER                      -> "go"

-----------------------------------------------------------------------------
\* Messages start in the order they were published, except those that wait
\* for the countdown of a retry.  The first thing a task does is to set
\* 'processing', before it looks at its epoch; a failed update goes unnoticed.
StartJob(j) ==
    /\ \/ job[j].pc = "ready" /\ \A i \in Jobs : i < j => job[i].pc # "ready"
       \/ job[j].pc = "countdown"
    /\ Cardinality({i \in Jobs : Running(i)}) < Workers
    /\ JobGoto(j, "fence1")
    /\ \/ SetStatus(job[j].mount, "processing") /\ NoFaults
       \/ UNCHANGED status /\ Fault("database")
    /\ UNCHANGED <<mountVars, config, epoch, outbox, chunkVars, stampQueue>>

\* The fences before the source is read and before the pipeline runs.  A check
\* that fails ('unknown') ends the task as well.
Fence(j) ==
    /\ job[j].pc \in {"fence1", "fence2"}
    /\ \/ /\ IF AbortReason(j) = "go"
             THEN JobGoto(j, IF job[j].pc = "fence1" THEN "fence2" ELSE "clean")
             ELSE EndJob(j)
          /\ NoFaults
       \/ EndJob(j) /\ Fault("database")
    /\ UNCHANGED <<mountVars, config, rowVars, outbox, chunkVars, stampQueue>>

\* Mutation: the old chunks are left where they are.
CleanSlotNothing(j) ==
    /\ job[j].pc = "clean"
    /\ JobGoto(j, "configure")
    /\ UNCHANGED <<mountVars, config, rowVars, outbox, chunkVars, stampQueue>>
    /\ NoFaults

\* Mutation: the fence comes after the deletion instead of before it.
CleanSlotThenFence(j) ==
    /\ job[j].pc = "clean"
    /\ DeleteSlotChunks
    /\ IF AbortReason(j) = "go" THEN JobGoto(j, "configure") ELSE EndJob(j)
    /\ UNCHANGED <<mountVars, config, rowVars, outbox, stampQueue>>
    /\ NoFaults

\* The old chunks of the slot are deleted, an error being swallowed.
CleanSlot(j) ==
    /\ job[j].pc = "clean"
    /\ \/ DeleteSlotChunks /\ NoFaults
       \/ UNCHANGED chunkVars /\ Fault("milvus")
    /\ JobGoto(j, "configure")
    /\ UNCHANGED <<mountVars, config, rowVars, outbox, stampQueue>>

\* Then the chunking configuration is read, the default being taken on an error.
ReadConfiguration(j) ==
    /\ job[j].pc = "configure"
    /\ \E k \in {1, config} :
          /\ job' = [job EXCEPT ![j].pc = "write", ![j].config = k]
          /\ \/ k = config /\ NoFaults
             \/ k # config /\ Fault("database")
    /\ UNCHANGED <<mountVars, config, rowVars, outbox, chunkVars, stampQueue>>

\* The pipeline splits, embeds and inserts; new rows carry empty stamps.  Rows that are
\* there stay beside the new ones of the same ids.
WriteChunks(j) ==
    /\ job[j].pc = "write"
    /\ LET new == [mount |-> job[j].mount, config |-> job[j].config]
       IN  /\ chunks' = chunks \cup {new}
           /\ stamped' = stamped \ {new}
           /\ revived' = revived \ {new}
           /\ twice' = twice \cup ({new} \cap (chunks \ revived))
    /\ JobGoto(j, "fence3")
    /\ UNCHANGED <<mountVars, config, rowVars, outbox, stampQueue>>
    /\ NoFaults

\* Mutation: every reason to abort is handled alike.
WriteFenceAbandons(j) ==
    /\ job[j].pc = "fence3"
    /\ IF AbortReason(j) = "go" THEN JobGoto(j, "submit") ELSE EndJob(j)
    /\ UNCHANGED <<mountVars, config, rowVars, outbox, chunkVars, stampQueue>>
    /\ NoFaults

\* The fence after the write: only a removed mount makes the task clean up.
WriteFence(j) ==
    /\ job[j].pc = "fence3"
    /\ \/ /\ CASE AbortReason(j) = "go"      -> JobGoto(j, "submit")
               [] AbortReason(j) = "removed" -> JobGoto(j, "purge")
               [] OTHER                      -> EndJob(j)
          /\ NoFaults
       \/ EndJob(j) /\ Fault("database")
    /\ UNCHANGED <<mountVars, config, rowVars, outbox, chunkVars, stampQueue>>

PurgeRemoved(j) ==
    /\ job[j].pc = "purge"
    /\ \/ DeleteSlotChunks /\ NoFaults
       \/ UNCHANGED chunkVars /\ Fault("milvus")
    /\ EndJob(j)
    /\ UNCHANGED <<mountVars, config, rowVars, outbox, stampQueue>>

SubmitStamp(j) ==
    /\ job[j].pc = "submit"
    /\ RequestStamp
    /\ JobGoto(j, "complete")
    /\ UNCHANGED <<mountVars, config, rowVars, outbox, chunkVars>>
    /\ NoFaults

\* 'completed' is written whatever the row's epoch has become.
CompleteJob(j) ==
    /\ job[j].pc = "complete"
    /\ \/ SetStatus(job[j].mount, "completed") /\ NoFaults
       \/ UNCHANGED status /\ Fault("database")
    /\ JobGoto(j, "ack")
    /\ UNCHANGED <<mountVars, config, epoch, outbox, chunkVars, stampQueue>>

\* acks_late: the message is acknowledged only after the task has returned.
AckJob(j) ==
    /\ job[j].pc = "ack"
    /\ EndJob(j)
    /\ UNCHANGED <<mountVars, config, rowVars, outbox, chunkVars, stampQueue>>
    /\ NoFaults

-----------------------------------------------------------------------------
\* Mutation: retries <= max_retries instead of retries < max_retries.
TaskRaisesOnceMore(j) ==
    /\ job[j].pc \in {"fence2", "write", "fence3", "submit"}
    /\ Fault("raise")
    /\ IF job[j].retries <= MaxRetries
       THEN /\ job' = [job EXCEPT ![j].pc = "countdown",
                                  ![j].retries = @ + 1, ![j].config = 1]
            /\ UNCHANGED status
       ELSE EndJob(j) /\ SetStatus(job[j].mount, "failed")
    /\ UNCHANGED <<mountVars, config, epoch, outbox, chunkVars, stampQueue>>

\* Reading the source, the pipeline (before its insert or after it, when the
\* collection is loaded) or the submission raises: the task is published again
\* with a countdown, or, its retries used up, sets 'failed'.
TaskRaises(j) ==
    /\ job[j].pc \in {"fence2", "write", "fence3", "submit"}
    /\ Fault("raise")
    /\ IF job[j].retries < MaxRetries
       THEN /\ job' = [job EXCEPT ![j].pc = "countdown",
                                  ![j].retries = @ + 1, ![j].config = 1]
            /\ UNCHANGED status
       ELSE EndJob(j) /\ SetStatus(job[j].mount, "failed")
    /\ UNCHANGED <<mountVars, config, epoch, outbox, chunkVars, stampQueue>>

\* The process is lost: its message is delivered again, or (the hard time
\* limit acknowledges it) is gone.
WorkerLost(j) ==
    /\ Running(j)
    /\ Fault("worker")
    /\ \/ job' = [job EXCEPT ![j].pc = "ready", ![j].config = 1]
       \/ EndJob(j)
    /\ UNCHANGED <<mountVars, config, rowVars, outbox, chunkVars, stampQueue>>

JobWorks(j) ==
    \/ StartJob(j) \/ Fence(j) \/ CleanSlot(j) \/ ReadConfiguration(j) \/ WriteChunks(j)
    \/ WriteFence(j) \/ PurgeRemoved(j) \/ SubmitStamp(j) \/ CompleteJob(j) \/ AckJob(j)

JobFails(j) == TaskRaises(j) \/ WorkerLost(j)

=============================================================================
