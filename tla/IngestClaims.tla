---------------------------- MODULE IngestClaims ----------------------------
(***************************************************************************)
(* What a docstring of src/ingest/service.py says of the ingest path and   *)
(* the code does not do.                                                   *)
(***************************************************************************)
EXTENDS MCIngest

\* cleanup_mount_chunks, "in this order": the execution is set 'cancelling', tasks in
\* flight exit when they find it, and then the chunks are deleted.  So when a removal
\* deletes them, a task of its mount that still runs has been told.  But the calls that
\* start a cleanup have deleted the row first.
TasksAreCancelled ==
    \A r \in Requests : req[r].pc = "cleanupDelete" =>
        \/ status[req[r].mount] = "cancelling"
        \/ \A j \in Jobs : job[j].mount = req[r].mount => ~Running(j)
=============================================================================
