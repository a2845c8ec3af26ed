------------------------------ MODULE Stamping ------------------------------
(***************************************************************************)
(* The stamping workers.  The chunks of one document in one knowledge base *)
(* carry the visibility that the permission service grants and its         *)
(* version.  stamp_channel_task asks for the visibility, compares its      *)
(* version with the one in a chunk and overwrites the chunks in batches;   *)
(* several processes do so at a time.  All messages of the queue are       *)
(* alike: they name the document and the knowledge base, not the version.  *)
(***************************************************************************)
EXTENDS Integers, FiniteSets

CONSTANTS
    Rows,         \* the chunks, written by the ingestion before
    BatchSize,    \* rows of one upsert (500)
    Workers,      \* processes of the stamping worker
    MaxVersion,   \* bound on the changes of visibility
    MaxQueue,     \* bound on waiting messages; more would be of no other kind
    FaultKinds,   \* which of them happen: see the uses of Fault
    MaxFaults     \* one kind of fault happens once at most

ASSUME StampingAssumption ==
    /\ IsFiniteSet(Rows) /\ Rows # {}
    /\ IsFiniteSet(Workers)
    /\ {BatchSize, MaxVersion, MaxQueue} \subseteq Nat \ {0}
    /\ IsFiniteSet(FaultKinds)
    /\ MaxFaults \in Nat

VARIABLES
    perm,     \* the permission service's visibility: version, and is it mounted
    vis,      \* vis_version of each row; 0 stands for empty stamps
    queued,   \* messages in stamping_queue
    worker,   \* what each process has in hand
    raced,    \* history: did a write overlap with another task's check and write
    failed    \* the faults so far

stampVars == <<perm, vis, queued, worker, raced>>

Visibility == [version : 1 .. MaxVersion, mounted : BOOLEAN]
Free == [pc |-> "free", stamp |-> 0, todo |-> {}]

\* What an answer of the service leaves in a row: version 0 stands for the empty stamps
\* of a pair that is not mounted.
StampOf(answer) == IF answer.mounted THEN answer.version ELSE 0

StampingInit ==
    /\ perm = [version |-> 1, mounted |-> TRUE]
    /\ vis = [r \in Rows |-> 1]
    /\ queued = 0
    /\ worker = [w \in Workers |-> Free]
    /\ raced = FALSE
    /\ failed = {}

StampingTypeOK ==
    /\ perm \in Visibility
    /\ vis \in [Rows -> 0 .. MaxVersion]
    /\ queued \in 0 .. MaxQueue
    /\ worker \in [Workers -> [pc : {"free", "check", "upsert"},
                               stamp : 0 .. MaxVersion, todo : SUBSET Rows]]
    /\ raced \in BOOLEAN
    /\ failed \subseteq FaultKinds /\ Cardinality(failed) <= MaxFaults

Fault(kind) ==
    /\ kind \in FaultKinds \ failed
    /\ Cardinality(failed) < MaxFaults
    /\ failed' = failed \cup {kind}
NoFault == UNCHANGED failed

\* stamp_channel_task.apply_async.
RequestStamp == queued' = IF queued < MaxQueue THEN queued + 1 ELSE queued

-----------------------------------------------------------------------------
(* stamp_channel_task *)

\* get_visibility.  The answer for a pair that is not mounted is written without a
\* comparison of versions.
TakeStamp(w) ==
    /\ worker[w].pc = "free"
    /\ queued > 0
    /\ queued' = queued - 1
    /\ worker' = [worker EXCEPT ![w] =
          IF perm.mounted
          THEN [pc |-> "check", stamp |-> StampOf(perm), todo |-> {}]
          ELSE [pc |-> "upsert", stamp |-> StampOf(perm), todo |-> Rows]]
    /\ NoFault /\ UNCHANGED <<perm, vis, raced>>

\* _get_current_vis_version: the version in one of the stamped rows, whichever the
\* query returns first, or None: with no such row, or if the query failed.
NoStampedRow == \A r \in Rows : vis[r] = 0

WriteAll(w) ==
    worker' = [worker EXCEPT ![w].pc = "upsert", ![w].todo = Rows]

\* Mutation: an older answer is written all the same.
CheckVersionNever(w) ==
    /\ worker[w].pc = "check"
    /\ NoFault /\ WriteAll(w)
    /\ UNCHANGED <<perm, vis, queued, raced>>

\* An answer older than the stamps is thrown away.
CheckVersion(w) ==
    /\ worker[w].pc = "check"
    /\ \/ NoStampedRow /\ NoFault /\ WriteAll(w)
       \/ ~NoStampedRow /\ Fault("milvus") /\ WriteAll(w)
       \/ /\ NoFault
          /\ \E r \in Rows : /\ vis[r] > 0
                             /\ IF worker[w].stamp < vis[r]
                                THEN worker' = [worker EXCEPT ![w] = Free]
                                ELSE WriteAll(w)
    /\ UNCHANGED <<perm, vis, queued, raced>>

\* Another task's comparison no longer holds when it writes: that task has already
\* compared, or will not find the version it would have to compare with.
Overtakes(w) ==
    \E v \in Workers \ {w} :
        \/ worker[v].pc = "upsert"
        \/ worker[v].pc = "check" /\ worker[w].stamp = 0

\* _upsert_stamps: the next batch of the rows, which come in no order.
UpsertBatch(w) ==
    /\ worker[w].pc = "upsert"
    /\ \E batch \in SUBSET worker[w].todo :
          /\ \/ Cardinality(batch) = BatchSize
             \/ Cardinality(batch) < BatchSize /\ batch = worker[w].todo
          /\ vis' = [r \in Rows |-> IF r \in batch THEN worker[w].stamp ELSE vis[r]]
          /\ worker' = [worker EXCEPT ![w] =
                IF worker[w].todo = batch THEN Free
                ELSE [worker[w] EXCEPT !.todo = worker[w].todo \ batch]]
    /\ raced' = (raced \/ Overtakes(w))
    /\ NoFault /\ UNCHANGED <<perm, queued>>

\* Mutation: the message is acknowledged when it is received.
StampFailsEarlyAck(w) ==
    /\ worker[w].pc # "free"
    /\ Fault("stamp")
    /\ worker' = [worker EXCEPT ![w] = Free]
    /\ UNCHANGED <<perm, vis, queued, raced>>

\* A call fails and the task is retried, or its process is lost and the message
\* delivered again; one kind of fault does not use up the five retries.
StampFails(w) ==
    /\ worker[w].pc # "free"
    /\ Fault("stamp")
    /\ RequestStamp
    /\ worker' = [worker EXCEPT ![w] = Free]
    /\ UNCHANGED <<perm, vis, raced>>

StampStep(w) == TakeStamp(w) \/ CheckVersion(w) \/ UpsertBatch(w)

-----------------------------------------------------------------------------
\* reconcile_stamps: rows that never got a stamp are stamped; of rows that are behind
\* the permission service it only counts some.
ReconcileStamps ==
    /\ \E r \in Rows : vis[r] = 0
    /\ RequestStamp
    /\ NoFault /\ UNCHANGED <<perm, vis, worker, raced>>
=============================================================================
