---------------------------- MODULE IngestSystem ----------------------------
(***************************************************************************)
(* The ingest path of one slot: API calls, the outbox relay, the ingestion *)
(* and stamping workers and the stale sweep, interleaved over the shared   *)
(* stores of IngestTables.                                                 *)
(***************************************************************************)
EXTENDS ParseRequests, OutboxRelay, StaleSweep, StampWorker

CONSTANT Overlap  \* may a call be made while an earlier one is being worked on

ASSUME OverlapAssumption == Overlap \in BOOLEAN

vars == <<mount, minted, linked, config, status, epoch, outbox, job, chunks,
          stamped, revived, twice, stampQueue, faults, req, outrun, relay, sweep, stamper>>

apiVars == <<req, outrun>>

\* Nothing is in progress: only a new call can start anything.
Quiet ==
    /\ \A r \in Requests : req[r].pc \in {"idle", "done"}
    /\ relay.pc = "poll"
    /\ \A i \in DOMAIN outbox : outbox[i].state # "pending"
    /\ \A j \in Jobs : job[j].pc \in {"unused", "done"}
    /\ StampOn => stamper.pc = "idle" /\ stampQueue = 0

Init == TablesInit /\ RequestsInit /\ RelayInit /\ SweepInit /\ StamperInit

ApiStep ==
    /\ \/ \E r \in Requests : \/ (Overlap \/ Quiet) /\ BeginRequest(r)
                              \/ ContinueRequest(r)
                              \/ ApiCrash(r)
       \/ UpdateChunkingConfig
    /\ UNCHANGED <<relay, sweep, stamper>>

RelayStep == (RelayWorks \/ RelayFails) /\ UNCHANGED <<apiVars, sweep, stamper>>

WorkerStep ==
    /\ \E j \in Jobs : JobWorks(j) \/ JobFails(j)
    /\ UNCHANGED <<apiVars, relay, sweep, stamper>>

StampStep == (StampWorks \/ StampFails) /\ UNCHANGED <<apiVars, relay, sweep>>

SweepStep ==
    /\ MarkStale \/ \E m \in Mounts : SelectStale(m)
    /\ UNCHANGED <<apiVars, relay, stamper>>

Next == ApiStep \/ RelayStep \/ WorkerStep \/ StampStep \/ SweepStep

Spec == Init /\ [][Next]_vars

\* A call that was begun runs on, and the resident processes are restarted when they
\* stop.  Nobody has to make a call, to fail or to start the sweep.
Fairness ==
    /\ \A r \in Requests :
          WF_vars(ContinueRequest(r) /\ UNCHANGED <<relay, sweep, stamper>>)
    /\ WF_vars(RelayWorks /\ UNCHANGED <<apiVars, sweep, stamper>>)
    /\ \A j \in Jobs :
          WF_vars(JobWorks(j) /\ UNCHANGED <<apiVars, relay, sweep, stamper>>)
    /\ WF_vars(StampWorks /\ UNCHANGED <<apiVars, relay, sweep>>)

FairSpec == Spec /\ Fairness

TypeOK == TablesTypeOK /\ RequestsTypeOK /\ RelayTypeOK /\ SweepTypeOK /\ StamperTypeOK

-----------------------------------------------------------------------------
NoFault == faults = 0

\* A call is still going to delete the chunks of mount m: it has deleted the
\* mount the slot had and not yet the slot's chunks, or it has deleted the row of
\* m and is about to delete the mount.
Removing(m) ==
    \E r \in Requests :
        \/ req[r].pc \in {"unmountEvent", "cleanupCancel", "cleanupDelete"}
        \/ req[r].pc = "unmountMount" /\ req[r].mount = m

\* So is a task of m that has written and has not yet passed its last fence.
WillNotice(m) == \E j \in Jobs : /\ job[j].mount = m
                                 /\ job[j].pc \in {"fence3", "purge"}

\* While nothing has failed, a chunk without an execution row of the mount the
\* slot has is never left behind: the removing call, or the task that wrote it
\* too late, still has its delete before it.  Two ways out are known and left
\* aside: a row that the stamping worker put back, and a removal refused because
\* of a newer mount.
OrphanHasCleaner ==
    NoFault /\ ~outrun =>
        \A c \in chunks \ revived :
            \/ c.mount = mount /\ RowExists(c.mount)
            \/ Removing(c.mount)
            \/ WillNotice(c.mount)

\* And while nothing fails, such a chunk does go.
OrphansGo ==
    (\E c \in chunks \ revived : c.mount # mount) ~>
        (faults > 0 \/ outrun \/ \A c \in chunks \ revived : c.mount = mount)

\* As long as nothing fails and nothing is removed, 'completed' means that the
\* slot is indexed, or that a task which has cleaned it is about to write it:
\* no order of concurrent parses leaves a completed document without chunks.
CompletedIsIndexed ==
    (NoFault /\ "unmount" \notin Ops) =>
        \A m \in Mounts : status[m] = "completed" =>
            \/ \E c \in chunks : c.mount = m
            \/ \E j \in Jobs : job[j].mount = m /\ job[j].pc \in {"configure", "write"}

\* Where nothing is removed, no message carries an epoch that was not installed,
\* however the relay's two reads fall between the API's two writes.
JobEpochIssued ==
    \A j \in Jobs : job[j].epoch <= 1 \/ job[j].epoch <= epoch[job[j].mount]

\* Where nothing is removed, a task that has a later parse queued before it
\* passes its second fence is out: whatever happens next, be it that it raises or
\* that its worker is lost, it is retried, delivered or stopped, and never gets to
\* clean or to write.
Superseded(j) ==
    /\ job[j].pc \in {"ready", "countdown", "fence1", "fence2"}
    /\ epoch[job[j].mount] > job[j].epoch

SupersededStaysOut ==
    [][\A j \in Jobs : "unmount" \notin Ops /\ Superseded(j) =>
           Superseded(j)' \/ job'[j].pc = "done"]_vars

\* One call at a time: a completed document has the chunks of exactly one parse, each
\* once, all of them stamped or about to be, through retries and redeliveries, and
\* whenever the configuration changes; rows that the stamping worker put back
\* come on top.
CompletedHasOneGeneration ==
    \A m \in Mounts : status[m] = "completed" =>
        /\ \E k \in Configs : chunks \ revived = {[mount |-> m, config |-> k]}
        /\ twice = {}
        /\ \/ chunks \ revived \subseteq stamped
           \/ stampQueue > 0 \/ stamper.pc # "idle" \/ ~linked

\* Wherever the sweep is run again and again, which no deployment of the repository sees
\* to, an execution does not stay queued or processing for ever: it completes, fails or is
\* removed, whatever is lost on the way.
SweptParsesSettle ==
    WF_vars(SweepStep) =>
        \A m \in Mounts : status[m] \in {"queued", "processing"}
                              ~> status[m] \notin {"queued", "processing"}
=============================================================================
