----------------------------- MODULE StaleSweep -----------------------------
(***************************************************************************)
(* reconcile_stale_ingest, the periodic sweep that fails executions left   *)
(* 'processing' for 45 minutes or 'queued' for two hours.  Time is not     *)
(* modelled: a row is selected when no task of its mount runs, since a     *)
(* task that runs set its row at most 35 minutes ago (its hard limit).     *)
(* Celery beat starts it; the resident reconciliation loop does not reach  *)
(* it, and of the repository only 'make dev-beat' starts beat.             *)
(***************************************************************************)
EXTENDS IngestWorker

CONSTANT SweepOn   \* whether Celery beat is running

ASSUME SweepAssumption == SweepOn \in BOOLEAN

VARIABLE sweep     \* the row selected and the status it had

SweepStatus == {"processing", "queued"}

SweepIdle == [pc |-> "idle", mount |-> 1, seen |-> "queued"]

SweepInit == sweep = SweepIdle

SweepTypeOK == sweep \in [pc : {"idle", "mark"}, mount : Mounts, seen : SweepStatus]

\* Mutation: only executions that were started are looked at.
SelectStaleProcessing(m) ==
    /\ SweepOn
    /\ sweep.pc = "idle"
    /\ status[m] = "processing"
    /\ \A j \in Jobs : Running(j) => job[j].mount # m
    /\ sweep' = [pc |-> "mark", mount |-> m, seen |-> status[m]]
    /\ UNCHANGED <<mountVars, config, rowVars, outbox, job, chunkVars, stampQueue>>
    /\ NoFaults

SelectStale(m) ==
    /\ SweepOn
    /\ sweep.pc = "idle"
    /\ status[m] \in SweepStatus
    /\ \A j \in Jobs : Running(j) => job[j].mount # m
    /\ sweep' = [pc |-> "mark", mount |-> m, seen |-> status[m]]
    /\ UNCHANGED <<mountVars, config, rowVars, outbox, job, chunkVars, stampQueue>>
    /\ NoFaults

\* The UPDATE repeats the condition on the status, not the one on its age.
MarkStale ==
    /\ sweep.pc = "mark"
    /\ sweep' = SweepIdle
    /\ status' = IF status[sweep.mount] = sweep.seen
                 THEN [status EXCEPT ![sweep.mount] = "failed"] ELSE status
    /\ UNCHANGED <<mountVars, config, epoch, outbox, job, chunkVars, stampQueue>>
    /\ NoFaults
=============================================================================
