----------------------------- MODULE StampWorker -----------------------------
(***************************************************************************)
(* The stamping worker: stamp_channel_task writes the visibility of the    *)
(* pair into the chunks' rows.  It asks for the visibility, queries whole  *)
(* rows and upserts whole rows, in three steps, and the upsert inserts a   *)
(* row that was deleted in between.  One message of the slot is worked on  *)
(* at a time, so that the version it carries is never older than the rows'.*)
(***************************************************************************)
EXTENDS IngestTables

CONSTANT StampOn   \* whether the stamping worker is running

ASSUME StampAssumption == StampOn \in BOOLEAN

VARIABLE stamper   \* the message in hand: what was answered and queried for it

StamperIdle == [pc |-> "idle", link |-> FALSE, rows |-> {}]

StamperInit == stamper = StamperIdle

StamperTypeOK == stamper \in [pc : {"idle", "query", "upsert"}, link : BOOLEAN,
                              rows : SUBSET Generations]

-----------------------------------------------------------------------------
\* get_visibility: "unmounted" when the pair is not linked.
TakeStamp ==
    /\ StampOn
    /\ stamper.pc = "idle"
    /\ stampQueue > 0
    /\ stampQueue' = stampQueue - 1
    /\ stamper' = [pc |-> "query", link |-> linked, rows |-> {}]
    /\ UNCHANGED <<mountVars, config, rowVars, outbox, job, chunkVars>>
    /\ NoFaults

\* No chunk to stamp is an error, retried while the execution may still write
\* some, and given up when the retries are used up.
MayStillBeWritten == mount # 0 /\ RowExists(mount) /\ status[mount] # "failed"

QueryRows ==
    /\ stamper.pc = "query"
    /\ IF chunks # {}
       THEN /\ stamper' = [stamper EXCEPT !.pc = "upsert", !.rows = chunks]
            /\ UNCHANGED stampQueue
       ELSE /\ stamper' = StamperIdle
            /\ \/ UNCHANGED stampQueue
               \/ stamper.link /\ MayStillBeWritten /\ RequestStamp
    /\ UNCHANGED <<mountVars, config, rowVars, outbox, job, chunkVars>>
    /\ NoFaults

\* A pair that is not linked gets empty stamps.
UpsertRows ==
    /\ stamper.pc = "upsert"
    /\ chunks' = chunks \cup stamper.rows
    /\ stamped' = IF stamper.link THEN stamped \cup stamper.rows
                                  ELSE stamped \ stamper.rows
    /\ revived' = revived \cup (stamper.rows \ chunks)
    /\ stamper' = StamperIdle
    /\ UNCHANGED <<mountVars, config, rowVars, outbox, job, twice, stampQueue>>
    /\ NoFaults

\* A call fails and the task is retried, or its process is lost and the message
\* delivered again; there are fewer failures than retries (max_retries=5).
StampFails ==
    /\ stamper.pc # "idle"
    /\ Fault("stamp")
    /\ stamper' = StamperIdle
    /\ RequestStamp
    /\ UNCHANGED <<mountVars, config, rowVars, outbox, job, chunkVars>>

StampWorks == TakeStamp \/ QueryRows \/ UpsertRows
=============================================================================
