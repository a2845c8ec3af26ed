---------------------------- MODULE IngestTables ----------------------------
(***************************************************************************)
(* The stores that the ingest processes share, seen by one (document,      *)
(* knowledge base) pair, the "slot": the Postgres rows of the slot, its    *)
(* chunks in Milvus and the Celery messages about it.  Every chunk         *)
(* operation of the code selects by document_id and kb_id, so slots meet   *)
(* only in the relay and the workers, where one delays another.            *)
(*                                                                         *)
(* A mount is one row of document_kb_mounts.  Removing the document from   *)
(* the knowledge base and uploading it again gives the slot a new mount    *)
(* with a new id; ids are numbered in the order they are made.  The        *)
(* document is taken to stay mounted in another knowledge base, which is   *)
(* what makes a later upload reuse its id.                                 *)
(***************************************************************************)
EXTENDS Integers, Sequences, FiniteSets

CONSTANTS
    Requests,     \* API calls that may be made, each at most once
    MaxMounts,    \* bound: mounts the slot may have, one after another
    MaxConfigs,   \* bound: contents the KB's chunking configuration takes
    MaxJobs,      \* bound: ingest messages the relay may publish
    MaxRetries,   \* max_retries of ingest_document_task (3 in the code)
    Workers,      \* processes of the ingestion worker (--concurrency=2)
    FaultKinds,   \* the failures considered, a subset of AllFaults
    MaxFaults     \* bound: failures in one behaviour

AllFaults == {"api", "relay", "worker", "raise", "database", "milvus", "broker", "stamp"}

ASSUME MountsAssumption  == MaxMounts \in Nat \ {0}
ASSUME ConfigsAssumption == MaxConfigs \in Nat \ {0}
ASSUME JobsAssumption    == MaxJobs \in Nat
ASSUME RetriesAssumption == MaxRetries \in Nat
ASSUME WorkersAssumption == Workers \in Nat \ {0}
ASSUME FaultsAssumption  == MaxFaults \in Nat /\ FaultKinds \subseteq AllFaults

Mounts  == 1..MaxMounts
Configs == 1..MaxConfigs
Jobs    == 1..MaxJobs

\* parse_status of ingest_executions; "none" when the mount has no row.
ParseStatus == {"none", "queued", "processing", "completed", "failed",
                "cancelling", "removed"}

\* Chunk ids are hashes of the text and its metadata, mount_id included, or are
\* derived from that hash: writing the same mount with the same configuration
\* gives the same ids, another mount or configuration gives other ids.  Milvus does not
\* compare ids on insertion: what is inserted again is there twice.
Generations == [mount : Mounts, config : Configs]

Events == [kind : {"DocumentMounted", "DocumentUnmounted"}, mount : Mounts,
           state : {"pending", "sent", "failed"}]

VARIABLES
    mount,      \* id of the slot's row in document_kb_mounts, 0 if none
    minted,     \* number of mount ids made so far
    linked,     \* the permission service's mirror: the pair is linked
    config,     \* content of the KB's chunking_configs row
    status,     \* ingest_executions.parse_status of each mount
    epoch,      \* ingest_executions.execution_epoch of each mount, 0 if no row
    outbox,     \* rows of outbox, in the order of created_at
    job,        \* the ingest_document_task messages and their executions
    chunks,     \* generations of the slot's chunks in Milvus
    stamped,    \* those whose rows carry visibility stamps
    revived,    \* history: those a stamping task put back after their deletion
    twice,      \* history: those tasks inserted again while their rows were there
    stampQueue, \* stamp_channel_task messages waiting
    faults      \* failures so far

mountVars == <<mount, minted, linked>>
rowVars   == <<status, epoch>>
chunkVars == <<chunks, stamped, revived, twice>>

JobPcs == {"unused", "ready", "countdown", "fence1", "fence2", "clean", "configure",
           "write", "fence3", "purge", "submit", "complete", "ack", "done"}

JobRecords == [pc : JobPcs, mount : Mounts, epoch : Nat, retries : 0..MaxRetries,
               config : Configs]

NoJob   == [pc |-> "unused", mount |-> 1, epoch |-> 0, retries |-> 0, config |-> 1]
JobDone == [NoJob EXCEPT !.pc = "done"]

TablesInit ==
    /\ mount = 0 /\ minted = 0 /\ linked = FALSE
    /\ config = 1
    /\ status = [m \in Mounts |-> "none"]
    /\ epoch = [m \in Mounts |-> 0]
    /\ outbox = <<>>
    /\ job = [j \in Jobs |-> NoJob]
    /\ chunks = {} /\ stamped = {} /\ revived = {} /\ twice = {}
    /\ stampQueue = 0
    /\ faults = 0

TablesTypeOK ==
    /\ mount \in 0..MaxMounts
    /\ minted \in 0..MaxMounts
    /\ linked \in BOOLEAN
    /\ config \in Configs
    /\ status \in [Mounts -> ParseStatus]
    /\ epoch \in [Mounts -> Nat]
    /\ outbox \in Seq(Events)
    /\ job \in [Jobs -> JobRecords]
    /\ chunks \subseteq Generations
    /\ stamped \subseteq Generations
    /\ revived \subseteq Generations
    /\ twice \subseteq Generations
    /\ stampQueue \in Nat
    /\ faults \in Nat

-----------------------------------------------------------------------------
RowExists(m) == status[m] # "none"

\* UPDATE ingest_executions SET parse_status WHERE mount_id: nothing without a row.
SetStatus(m, s) ==
    status' = IF RowExists(m) THEN [status EXCEPT ![m] = s] ELSE status

\* INSERT ... ON CONFLICT (mount_id) DO UPDATE SET 'queued', execution_epoch + 1.
UpsertQueued(m) ==
    /\ status' = [status EXCEPT ![m] = "queued"]
    /\ epoch' = [epoch EXCEPT ![m] = IF RowExists(m) THEN @ + 1 ELSE 1]

\* DELETE FROM ingest_executions WHERE mount_id.
DeleteRow(m) ==
    /\ status' = [status EXCEPT ![m] = "none"]
    /\ epoch' = [epoch EXCEPT ![m] = 0]

\* on_visibility_changed: a message for the stamping worker.
RequestStamp == stampQueue' = stampQueue + 1

Publish(kind, m) ==
    outbox' = Append(outbox, [kind |-> kind, mount |-> m, state |-> "pending"])

\* Deletes every chunk of the document in the KB, whichever mount wrote it.
DeleteSlotChunks == chunks' = {} /\ stamped' = {} /\ revived' = {} /\ twice' = {}

\* A failure of one kind happens, within the budget of the behaviour.
Fault(kind) ==
    /\ kind \in FaultKinds
    /\ faults < MaxFaults
    /\ faults' = faults + 1

NoFaults == UNCHANGED faults
=============================================================================
