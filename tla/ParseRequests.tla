---------------------------- MODULE ParseRequests ---------------------------
(***************************************************************************)
(* The API process: the calls that register, parse and remove a document.  *)
(* Every statement runs in autocommit mode on its own, so each is a step;  *)
(* the calls of different clients interleave.                              *)
(***************************************************************************)
EXTENDS IngestTables

CONSTANT Ops    \* which calls clients make, a subset of AllOps

AllOps == {"parse", "upload", "unmount", "configure"}

ASSUME OpsAssumption == Ops \subseteq AllOps

VARIABLES
    req,        \* the API calls in progress: where each is, the mount id it holds
    outrun      \* history: a removal was refused because of a newer mount's row

ReqPcs == {"idle", "parseEvent", "parseRow", "link", "insert", "dedupe",
           "uploadRow", "uploadEvent", "unmountRead", "unmountRow", "unmountMount",
           "unmountEvent", "cleanupCancel", "cleanupDelete", "cleanupRemoved",
           "done"}

\* mount_id is None, here 0, in a removal that found no mount.
ReqRecords == [pc : ReqPcs, mount : 0..MaxMounts]

RequestsInit ==
    /\ req = [r \in Requests |-> [pc |-> "idle", mount |-> 0]]
    /\ outrun = FALSE

NoMountPcs == {"idle", "unmountRead", "unmountMount", "done"}

RequestsTypeOK ==
    /\ req \in [Requests -> ReqRecords]
    /\ \A r \in Requests : req[r].pc \notin NoMountPcs => req[r].mount # 0
    /\ outrun \in BOOLEAN

Goto(r, pc)    == req' = [req EXCEPT ![r].pc = pc]
Hold(r, pc, m) == req' = [req EXCEPT ![r] = [pc |-> pc, mount |-> m]]
Return(r)      == Hold(r, "done", 0)

-----------------------------------------------------------------------------
(***************************************************************************)
(* POST /documents/{doc_id}/trigger-parse: the mount is read, the outbox   *)
(* event is inserted, and only then the execution row is queued.           *)
(***************************************************************************)
BeginTriggerParse(r) ==
    /\ "parse" \in Ops
    /\ req[r].pc = "idle"
    /\ mount # 0
    /\ Hold(r, "parseEvent", mount)
    /\ UNCHANGED <<mountVars, config, rowVars, outbox, job, chunkVars, stampQueue, outrun>>
    /\ NoFaults

TriggerParseEvent(r) ==
    /\ req[r].pc = "parseEvent"
    /\ Publish("DocumentMounted", req[r].mount)
    /\ Goto(r, "parseRow")
    /\ UNCHANGED <<mountVars, config, rowVars, job, chunkVars, stampQueue, outrun>>
    /\ NoFaults

\* mount_id REFERENCES document_kb_mounts: without the mount the upsert fails
\* and the call answers 500, its event already published.
TriggerParseRow(r) ==
    /\ req[r].pc = "parseRow"
    /\ IF mount = req[r].mount THEN UpsertQueued(req[r].mount) ELSE UNCHANGED rowVars
    /\ Return(r)
    /\ UNCHANGED <<mountVars, config, outbox, job, chunkVars, stampQueue, outrun>>
    /\ NoFaults

-----------------------------------------------------------------------------
(***************************************************************************)
(* POST /documents/upload with auto_parse: submit_ingest_task, then        *)
(* _trigger_parse_internal.                                                *)
(***************************************************************************)
\* The mount row is looked up; when there is none a new id is drawn.
BeginUpload(r) ==
    /\ "upload" \in Ops
    /\ req[r].pc = "idle"
    /\ \/ /\ mount = 0
          /\ minted < MaxMounts
          /\ minted' = minted + 1
          /\ Hold(r, "link", minted + 1)
       \/ /\ mount # 0
          /\ UNCHANGED minted
          /\ Hold(r, "dedupe", mount)
    /\ UNCHANGED <<mount, linked, config, rowVars, outbox, job, chunkVars, stampQueue,
                   outrun>>
    /\ NoFaults

\* link_resource: the permission service first, which also asks for stamps.
UploadLink(r) ==
    /\ req[r].pc = "link"
    /\ linked' = TRUE
    /\ RequestStamp
    /\ Goto(r, "insert")
    /\ UNCHANGED <<mount, minted, config, rowVars, outbox, job, chunkVars, outrun>>
    /\ NoFaults

\* UNIQUE (document_id, kb_id): the slower of two uploads fails here.
UploadInsert(r) ==
    /\ req[r].pc = "insert"
    /\ IF mount = 0
       THEN mount' = req[r].mount /\ Goto(r, "dedupe")
       ELSE UNCHANGED mount /\ Return(r)
    /\ UNCHANGED <<minted, linked, config, rowVars, outbox, job, chunkVars, stampQueue,
                   outrun>>
    /\ NoFaults

EventKnown(m) ==
    \E i \in DOMAIN outbox : /\ outbox[i].kind = "DocumentMounted"
                             /\ outbox[i].mount = m
                             /\ outbox[i].state \in {"pending", "sent"}

\* "already_queued": an event that is pending or sent is enough not to queue.
UploadDedupe(r) ==
    /\ req[r].pc = "dedupe"
    /\ IF EventKnown(req[r].mount) THEN Return(r) ELSE Goto(r, "uploadRow")
    /\ UNCHANGED <<mountVars, config, rowVars, outbox, job, chunkVars, stampQueue, outrun>>
    /\ NoFaults

UploadRow(r) ==
    /\ req[r].pc = "uploadRow"
    /\ IF mount = req[r].mount
       THEN UpsertQueued(req[r].mount) /\ Goto(r, "uploadEvent")
       ELSE UNCHANGED rowVars /\ Return(r)
    /\ UNCHANGED <<mountVars, config, outbox, job, chunkVars, stampQueue, outrun>>
    /\ NoFaults

UploadEvent(r) ==
    /\ req[r].pc = "uploadEvent"
    /\ Publish("DocumentMounted", req[r].mount)
    /\ Return(r)
    /\ UNCHANGED <<mountVars, config, rowVars, job, chunkVars, stampQueue, outrun>>
    /\ NoFaults

\* POST /documents/batch/parse: for each mount that it finds, the row and the event at
\* once, whatever events there are.
BeginBatchParse(r) ==
    /\ "parse" \in Ops
    /\ req[r].pc = "idle"
    /\ mount # 0
    /\ Hold(r, "uploadRow", mount)
    /\ UNCHANGED <<mountVars, config, rowVars, outbox, job, chunkVars, stampQueue, outrun>>
    /\ NoFaults

-----------------------------------------------------------------------------
(***************************************************************************)
(* DELETE /documents/{doc_id}/kb/{kb_id}: delete_document_from_kb, then    *)
(* cleanup_mount_chunks in a thread.                                       *)
(***************************************************************************)
\* unlink_resource comes first, which also asks for stamps; of a pair that is not linked the
\* service answers 404, and the removal goes on.  Then the mount id is read, and without
\* one no execution row is deleted.
BeginUnmount(r) ==
    /\ "unmount" \in Ops
    /\ req[r].pc = "idle"
    /\ linked' = FALSE
    /\ IF linked THEN RequestStamp ELSE UNCHANGED stampQueue
    /\ Goto(r, "unmountRead")
    /\ UNCHANGED <<mount, minted, config, rowVars, outbox, job, chunkVars, outrun>>
    /\ NoFaults

UnmountRead(r) ==
    /\ req[r].pc = "unmountRead"
    /\ Hold(r, IF mount = 0 THEN "unmountMount" ELSE "unmountRow", mount)
    /\ UNCHANGED <<mountVars, config, rowVars, outbox, job, chunkVars, stampQueue,
                   outrun>>
    /\ NoFaults

UnmountRow(r) ==
    /\ req[r].pc = "unmountRow"
    /\ DeleteRow(req[r].mount)
    /\ Goto(r, "unmountMount")
    /\ UNCHANGED <<mountVars, config, outbox, job, chunkVars, stampQueue, outrun>>
    /\ NoFaults

\* The DELETE selects by document_id and kb_id, so it takes whatever mount the
\* slot has now; an execution row that references it makes the call fail.  A
\* removal without a mount id publishes an event that the relay passes over.
UnmountMount(r) ==
    /\ req[r].pc = "unmountMount"
    /\ IF mount # 0 /\ RowExists(mount)
       THEN /\ Return(r)
            /\ outrun' = (outrun \/ mount # req[r].mount)
            /\ UNCHANGED mount
       ELSE /\ IF req[r].mount = 0 THEN Return(r) ELSE Goto(r, "unmountEvent")
            /\ mount' = 0
            /\ UNCHANGED outrun
    /\ UNCHANGED <<minted, linked, config, rowVars, outbox, job, chunkVars, stampQueue>>
    /\ NoFaults

UnmountEvent(r) ==
    /\ req[r].pc = "unmountEvent"
    /\ Publish("DocumentUnmounted", req[r].mount)
    /\ Goto(r, "cleanupCancel")
    /\ UNCHANGED <<mountVars, config, rowVars, job, chunkVars, stampQueue, outrun>>
    /\ NoFaults

(***************************************************************************)
(* cleanup_mount_chunks.  Between its first two steps it polls the status; *)
(* the poll ends as soon as it reads the 'cancelling' just written or no   *)
(* row, and after five seconds whatever it reads, so it guards nothing.    *)
(***************************************************************************)
CleanupCancel(r) ==
    /\ req[r].pc = "cleanupCancel"
    /\ SetStatus(req[r].mount, "cancelling")
    /\ Goto(r, "cleanupDelete")
    /\ UNCHANGED <<mountVars, config, epoch, outbox, job, chunkVars, stampQueue, outrun>>
    /\ NoFaults

\* An error of the delete is logged and swallowed.
CleanupDelete(r) ==
    /\ req[r].pc = "cleanupDelete"
    /\ \/ DeleteSlotChunks /\ NoFaults
       \/ UNCHANGED chunkVars /\ Fault("milvus")
    /\ Goto(r, "cleanupRemoved")
    /\ UNCHANGED <<mountVars, config, rowVars, outbox, job, stampQueue, outrun>>

CleanupRemoved(r) ==
    /\ req[r].pc = "cleanupRemoved"
    /\ SetStatus(req[r].mount, "removed")
    /\ Return(r)
    /\ UNCHANGED <<mountVars, config, epoch, outbox, job, chunkVars, stampQueue, outrun>>
    /\ NoFaults

-----------------------------------------------------------------------------
\* PATCH /knowledge-bases/{kb_id}/chunking-config updates the row in place.
UpdateChunkingConfig ==
    /\ "configure" \in Ops
    /\ config < MaxConfigs
    /\ config' = config + 1
    /\ UNCHANGED <<mountVars, rowVars, outbox, job, chunkVars, stampQueue, req, outrun>>
    /\ NoFaults

\* The API process restarts: the call, or its cleanup thread, ends where it is.
ApiCrash(r) ==
    /\ req[r].pc \notin {"idle", "done"}
    /\ Fault("api")
    /\ Return(r)
    /\ UNCHANGED <<mountVars, config, rowVars, outbox, job, chunkVars, stampQueue, outrun>>

BeginRequest(r) ==
    BeginTriggerParse(r) \/ BeginUpload(r) \/ BeginBatchParse(r) \/ BeginUnmount(r)

ContinueRequest(r) ==
    \/ TriggerParseEvent(r) \/ TriggerParseRow(r)
    \/ UploadLink(r) \/ UploadInsert(r) \/ UploadDedupe(r) \/ UploadRow(r) \/ UploadEvent(r)
    \/ UnmountRead(r) \/ UnmountRow(r) \/ UnmountMount(r) \/ UnmountEvent(r)
    \/ CleanupCancel(r) \/ CleanupDelete(r) \/ CleanupRemoved(r)
=============================================================================
