------------------------ MODULE IngestSystem_proofs ------------------------
(***************************************************************************)
(* Proofs about IngestSystem, for any number of calls, mounts, messages,   *)
(* workers and failures.                                                   *)
(***************************************************************************)
EXTENDS IngestSystem, TLAPS

USE MountsAssumption, ConfigsAssumption, RetriesAssumption DEF Mounts, Configs, Jobs

-----------------------------------------------------------------------------
(***************************************************************************)
(* What the helpers of the model preserve.                                 *)
(***************************************************************************)
\* SetStatus and UpsertQueued keep the types of the execution rows.
LEMMA SetStatusType ==
    ASSUME status \in [Mounts -> ParseStatus], NEW m \in Mounts,
           NEW s \in ParseStatus, SetStatus(m, s)
    PROVE  status' \in [Mounts -> ParseStatus]
BY DEF SetStatus, RowExists

LEMMA UpsertQueuedType ==
    ASSUME status \in [Mounts -> ParseStatus], epoch \in [Mounts -> Nat],
           NEW m \in Mounts, UpsertQueued(m)
    PROVE  status' \in [Mounts -> ParseStatus] /\ epoch' \in [Mounts -> Nat]
BY DEF UpsertQueued, RowExists, ParseStatus

\* Publishing appends an event; the event in the relay's hands stays where it is.
LEMMA PublishType ==
    ASSUME outbox \in Seq(Events), NEW m \in Mounts,
           NEW kind \in {"DocumentMounted", "DocumentUnmounted"}, Publish(kind, m)
    PROVE  /\ outbox' \in Seq(Events)
           /\ DOMAIN outbox \subseteq DOMAIN outbox'
BY DEF Publish, Events

\* Moving a message or a call to another point keeps the type of the rest.
LEMMA JobGotoType ==
    ASSUME job \in [Jobs -> JobRecords], NEW j \in Jobs, NEW pc \in JobPcs,
           JobGoto(j, pc)
    PROVE  job' \in [Jobs -> JobRecords]
BY DEF JobGoto, JobRecords

LEMMA EndJobType ==
    ASSUME job \in [Jobs -> JobRecords], NEW j \in Jobs, EndJob(j)
    PROVE  job' \in [Jobs -> JobRecords]
BY SMTT(30) DEF EndJob, JobDone, NoJob, JobRecords, JobPcs

LEMMA HoldType ==
    ASSUME RequestsTypeOK, outrun' \in BOOLEAN, NEW r \in Requests, NEW pc \in ReqPcs,
           NEW m \in 0..MaxMounts, Hold(r, pc, m), pc \in NoMountPcs \/ m # 0
    PROVE  /\ RequestsTypeOK'
           /\ req'[r].pc = pc /\ req'[r].mount = m
           /\ \A q \in Requests : q # r => req'[q] = req[q]
BY DEF RequestsTypeOK, Hold, ReqRecords

LEMMA GotoType ==
    ASSUME RequestsTypeOK, outrun' \in BOOLEAN, NEW r \in Requests, NEW pc \in ReqPcs,
           Goto(r, pc),
           pc \in NoMountPcs \/ req[r].pc \notin NoMountPcs \/ req[r].mount # 0
    PROVE  /\ RequestsTypeOK'
           /\ req'[r].pc = pc /\ req'[r].mount = req[r].mount
           /\ \A q \in Requests : q # r => req'[q] = req[q]
BY DEF RequestsTypeOK, Goto, ReqRecords

LEMMA ReturnType ==
    ASSUME RequestsTypeOK, outrun' \in BOOLEAN, NEW r \in Requests, Return(r)
    PROVE  /\ RequestsTypeOK'
           /\ req'[r].pc = "done"
           /\ \A q \in Requests : q # r => req'[q] = req[q]
BY HoldType DEF Return, ReqPcs, NoMountPcs

\* The events of the outbox, and what changing the state of one preserves.
LEMMA EventAt ==
    ASSUME outbox \in Seq(Events), NEW i \in DOMAIN outbox
    PROVE  outbox[i] \in Events /\ outbox[i].mount \in Mounts
<1>1. outbox[i] \in Events
  OBVIOUS
<1> QED
  BY <1>1 DEF Events

LEMMA SetStateType ==
    ASSUME outbox \in Seq(Events), NEW i \in DOMAIN outbox,
           NEW s \in {"failed", "sent"},
           outbox' = [outbox EXCEPT ![i].state = s]
    PROVE  outbox' \in Seq(Events) /\ DOMAIN outbox' = DOMAIN outbox
<1>1. outbox[i] \in Events
  BY EventAt
<1>2. [outbox[i] EXCEPT !.state = s] \in Events
  BY <1>1 DEF Events
<1>3. outbox' = [outbox EXCEPT ![i] = [outbox[i] EXCEPT !.state = s]]
  OBVIOUS
<1> QED
  BY <1>2, <1>3

LEMMA FaultType ==
    ASSUME faults \in Nat, NoFaults \/ \E kind \in AllFaults : Fault(kind)
    PROVE  faults' \in Nat
BY DEF NoFaults, Fault

LEMMA InitType == Init => TypeOK
<1> SUFFICES ASSUME Init PROVE TypeOK
  OBVIOUS
<1>1. linked \in BOOLEAN
  BY DEF Init, TablesInit
<1>2. /\ mount \in 0..MaxMounts /\ minted \in 0..MaxMounts /\ config \in Configs
      /\ stampQueue \in Nat /\ faults \in Nat
      /\ chunks \subseteq Generations /\ stamped \subseteq Generations
      /\ revived \subseteq Generations /\ twice \subseteq Generations
  BY DEF Init, TablesInit
<1>3. status \in [Mounts -> ParseStatus] /\ epoch \in [Mounts -> Nat]
  BY DEF Init, TablesInit, ParseStatus
<1>4. outbox \in Seq(Events) /\ job \in [Jobs -> JobRecords]
  BY DEF Init, TablesInit, NoJob, JobRecords, JobPcs
<1>5. RequestsTypeOK
  <2>1. outrun \in BOOLEAN
    BY Zenon DEF Init, RequestsInit
  <2> QED
    BY <2>1 DEF Init, RequestsInit, RequestsTypeOK, ReqRecords, ReqPcs, NoMountPcs
<1>6. RelayTypeOK /\ SweepTypeOK /\ StamperTypeOK
  BY DEF Init, RelayInit, SweepInit, SweepIdle, RelayTypeOK, SweepTypeOK, RelayPcs,
         SweepStatus, StamperInit, StamperIdle, StamperTypeOK
<1> QED
  BY <1>1, <1>2, <1>3, <1>4, <1>5, <1>6 DEF TypeOK, TablesTypeOK

-----------------------------------------------------------------------------
(***************************************************************************)
(* Type correctness, one lemma per process.                                *)
(***************************************************************************)
LEMMA ApiType ==
    ASSUME TypeOK, ApiStep
    PROVE  TypeOK'
<1> USE DEF TypeOK, TablesTypeOK, mountVars, rowVars, chunkVars, ReqPcs, NoMountPcs,
            NoFaults
<1>1. SweepTypeOK' /\ StamperTypeOK'
  BY DEF ApiStep, SweepTypeOK, StamperTypeOK
<1>2. ASSUME DOMAIN outbox \subseteq DOMAIN outbox' PROVE RelayTypeOK'
  BY <1>2 DEF ApiStep, RelayTypeOK
<1>3. \A r \in Requests : /\ req[r].mount \in 0..MaxMounts
                          /\ req[r].pc \notin NoMountPcs => req[r].mount \in Mounts
  BY DEF RequestsTypeOK, ReqRecords
<1>4. outrun \in BOOLEAN
  BY DEF RequestsTypeOK
<1>5. ASSUME NEW r \in Requests, BeginTriggerParse(r) \/ BeginBatchParse(r) PROVE TypeOK'
  BY <1>1, <1>2, <1>4, <1>5, HoldType DEF BeginTriggerParse, BeginBatchParse
<1>6. ASSUME NEW r \in Requests, BeginUpload(r) PROVE TypeOK'
  <2>1. minted' \in 0..MaxMounts
    BY <1>6 DEF BeginUpload
  <2>2. RequestsTypeOK'
    BY <1>4, <1>6, HoldType DEF BeginUpload
  <2> QED
    BY <1>1, <1>2, <1>6, <2>1, <2>2 DEF BeginUpload
<1>7. ASSUME NEW r \in Requests, UploadLink(r) PROVE TypeOK'
  <2>1. linked' \in BOOLEAN
    BY <1>7, Zenon DEF UploadLink
  <2>2. RequestsTypeOK'
    <3>1. Goto(r, "insert") /\ outrun' = outrun /\ req[r].pc = "link"
      BY <1>7, Zenon DEF UploadLink
    <3>2. "insert" \in ReqPcs /\ req[r].pc \notin NoMountPcs
      BY <3>1
    <3> HIDE DEF ReqPcs, NoMountPcs
    <3> QED BY <1>4, <3>1, <3>2, GotoType
  <2>3. stampQueue' \in Nat
    <3>1. stampQueue' = stampQueue + 1
      BY <1>7 DEF UploadLink, RequestStamp
    <3> QED BY <3>1 DEF TablesTypeOK
  <2> QED
    BY <1>1, <1>2, <1>7, <2>1, <2>2, <2>3 DEF UploadLink
<1>8. ASSUME NEW r \in Requests, UploadInsert(r) PROVE TypeOK'
  <2>1. mount' \in 0..MaxMounts
    BY <1>3, <1>8 DEF UploadInsert
  <2>2. RequestsTypeOK'
    BY <1>4, <1>8, GotoType, ReturnType DEF UploadInsert
  <2> QED
    BY <1>1, <1>2, <1>8, <2>1, <2>2 DEF UploadInsert
<1>9. ASSUME NEW r \in Requests, BeginUnmount(r) PROVE TypeOK'
  <2>1. linked' \in BOOLEAN
    BY <1>9, Zenon DEF BeginUnmount
  <2> QED
    BY <1>1, <1>2, <1>4, <1>9, <2>1, GotoType DEF BeginUnmount, RequestStamp
<1>10. ASSUME NEW r \in Requests, UnmountRead(r) PROVE TypeOK'
  <2>1. RequestsTypeOK'
    BY <1>4, <1>10, HoldType DEF UnmountRead
  <2> QED
    BY <1>1, <1>2, <1>10, <2>1 DEF UnmountRead
<1>11. ASSUME NEW r \in Requests, TriggerParseEvent(r) PROVE TypeOK'
  BY <1>1, <1>2, <1>3, <1>4, GotoType, PublishType, <1>11
     DEF TriggerParseEvent
<1>12. ASSUME NEW r \in Requests, TriggerParseRow(r) PROVE TypeOK'
  BY <1>1, <1>2, <1>3, <1>4, ReturnType, UpsertQueuedType, <1>12
     DEF TriggerParseRow
<1>13. ASSUME NEW r \in Requests, UploadDedupe(r) PROVE TypeOK'
  BY <1>1, <1>2, <1>4, GotoType, ReturnType, <1>13
     DEF UploadDedupe
<1>14. ASSUME NEW r \in Requests, UploadRow(r) PROVE TypeOK'
  BY <1>1, <1>2, <1>3, <1>4, GotoType, ReturnType, UpsertQueuedType, <1>14
     DEF UploadRow
<1>15. ASSUME NEW r \in Requests, UploadEvent(r) PROVE TypeOK'
  BY <1>1, <1>2, <1>3, <1>4, ReturnType, PublishType, <1>15
     DEF UploadEvent
<1>16. ASSUME NEW r \in Requests, UnmountRow(r) PROVE TypeOK'
  BY <1>1, <1>2, <1>3, <1>4, GotoType, <1>16
     DEF UnmountRow, DeleteRow, ParseStatus
<1>17. ASSUME NEW r \in Requests, UnmountMount(r) PROVE TypeOK'
  <2>1. outrun' \in BOOLEAN
    BY <1>4, <1>17, Zenon DEF UnmountMount
  <2>2. RequestsTypeOK'
    BY <1>17, <2>1, GotoType, ReturnType DEF UnmountMount
  <2> QED
    BY <1>1, <1>2, <1>17, <2>2 DEF UnmountMount
<1>18. ASSUME NEW r \in Requests, UnmountEvent(r) PROVE TypeOK'
  BY <1>1, <1>2, <1>3, <1>4, GotoType, PublishType, <1>18
     DEF UnmountEvent
<1>19. ASSUME NEW r \in Requests, CleanupCancel(r) PROVE TypeOK'
  BY <1>1, <1>2, <1>3, <1>4, GotoType, SetStatusType, <1>19
     DEF CleanupCancel, ParseStatus
<1>20. ASSUME NEW r \in Requests, CleanupDelete(r) PROVE TypeOK'
  BY <1>1, <1>2, <1>4, GotoType, FaultType, <1>20
     DEF CleanupDelete, DeleteSlotChunks, AllFaults
<1>21. ASSUME NEW r \in Requests, CleanupRemoved(r) PROVE TypeOK'
  BY <1>1, <1>2, <1>3, <1>4, ReturnType, SetStatusType, <1>21
     DEF CleanupRemoved, ParseStatus
<1>22. ASSUME NEW r \in Requests, ApiCrash(r) PROVE TypeOK'
  BY <1>1, <1>2, <1>4, ReturnType, FaultType, <1>22
     DEF ApiCrash, AllFaults
<1>23. CASE UpdateChunkingConfig
  BY <1>1, <1>2, <1>23 DEF UpdateChunkingConfig, RequestsTypeOK
<1> QED
  BY <1>5, <1>6, <1>7, <1>8, <1>9, <1>10, <1>11, <1>12, <1>13, <1>14, <1>15, <1>16,
     <1>17, <1>18, <1>19, <1>20, <1>21, <1>22, <1>23
     DEF ApiStep, BeginRequest, ContinueRequest

LEMMA RelayType ==
    ASSUME TypeOK, RelayStep
    PROVE  TypeOK'
<1> USE DEF TypeOK, TablesTypeOK, RelayTypeOK, mountVars, rowVars, chunkVars,
            RelayPcs, NoFaults
<1>1. RequestsTypeOK' /\ SweepTypeOK' /\ StamperTypeOK'
  BY DEF RelayStep, apiVars, RequestsTypeOK, SweepTypeOK, StamperTypeOK
<1>2. \A i \in DOMAIN outbox : outbox[i] \in Events /\ outbox[i].mount \in Mounts
  BY EventAt
<1>3. ASSUME NEW i \in DOMAIN outbox, TakeMounted(i) PROVE TypeOK'
  BY <1>1, <1>3, FaultType, SMTT(30) DEF TakeMounted, AllFaults
<1>4. ASSUME NEW i \in DOMAIN outbox, TakeUnmounted(i) PROVE TypeOK'
  BY <1>1, <1>4 DEF TakeUnmounted
<1>5. CASE ReadEpoch
  <2>1. Handled.mount \in Mounts /\ relay.at \in DOMAIN outbox
    BY <1>2, <1>5 DEF ReadEpoch, Handled
  <2>2. PICK e \in Nat : relay' = [relay EXCEPT !.pc = "dispatch", !.epoch = e]
    BY <1>5, <2>1 DEF ReadEpoch
  <2> QED
    BY <1>1, <1>5, <2>1, <2>2, FaultType DEF ReadEpoch, AllFaults
<1>6. CASE Dispatch
  <2>1. Handled.mount \in Mounts
    BY <1>2, <1>6 DEF Dispatch, Handled
  <2> DEFINE message == [pc |-> "ready", mount |-> Handled.mount, epoch |-> relay.epoch,
                         retries |-> 0, config |-> 1]
  <2>2. message \in JobRecords
    BY <2>1 DEF JobRecords, JobPcs
  <2> HIDE DEF message
  <2>3. job' \in [Jobs -> JobRecords]
    BY <1>6, <2>2 DEF Dispatch, message
  <2> QED
    BY <1>1, <1>6, <2>3 DEF Dispatch, RelayGoto
<1>7. CASE DispatchFails \/ MarkSent
  <2>1. relay.at \in DOMAIN outbox
    BY <1>7 DEF DispatchFails, MarkSent
  <2>2. PICK s \in {"failed", "sent"} : outbox' = [outbox EXCEPT ![relay.at].state = s]
    BY <1>7 DEF DispatchFails, MarkSent
  <2>3. outbox' \in Seq(Events) /\ DOMAIN outbox' = DOMAIN outbox
    BY <2>1, <2>2, SetStateType
  <2>4. faults' \in Nat
    BY <1>7, FaultType DEF DispatchFails, MarkSent, AllFaults
  <2> QED
    BY <1>1, <1>7, <2>3, <2>4 DEF DispatchFails, MarkSent, RelayPoll
<1>8. CASE RelayDeletes
  BY <1>1, <1>8, FaultType DEF RelayDeletes, RelayGoto, DeleteSlotChunks, AllFaults
<1>9. CASE RelayCrash
  BY <1>1, <1>9, FaultType DEF RelayCrash, RelayPoll, AllFaults
<1> QED
  BY <1>3, <1>4, <1>5, <1>6, <1>7, <1>8, <1>9
     DEF RelayStep, RelayWorks, RelayFails

LEMMA WorkerType ==
    ASSUME TypeOK, WorkerStep
    PROVE  TypeOK'
<1> USE DEF TypeOK, TablesTypeOK, mountVars, rowVars, chunkVars, JobPcs, NoFaults
<1>1. RequestsTypeOK' /\ SweepTypeOK' /\ StamperTypeOK'
  BY DEF WorkerStep, apiVars, RequestsTypeOK, SweepTypeOK, StamperTypeOK
<1>2. ASSUME outbox' = outbox PROVE RelayTypeOK'
  BY <1>2 DEF WorkerStep, RelayTypeOK
<1>3. \A j \in Jobs : job[j].mount \in Mounts /\ job[j].config \in Configs
  BY DEF JobRecords
<1>4. ASSUME NEW j \in Jobs, StartJob(j) PROVE TypeOK'
  BY <1>1, <1>2, <1>3, <1>4, JobGotoType, SetStatusType, FaultType
     DEF StartJob, ParseStatus, AllFaults
<1>5. ASSUME NEW j \in Jobs, Fence(j) PROVE TypeOK'
  BY <1>1, <1>2, <1>5, JobGotoType, EndJobType, FaultType DEF Fence, AllFaults
<1>6. ASSUME NEW j \in Jobs, CleanSlot(j) PROVE TypeOK'
  BY <1>1, <1>2, <1>6, JobGotoType, FaultType DEF CleanSlot, DeleteSlotChunks, AllFaults
<1>15. ASSUME NEW j \in Jobs, ReadConfiguration(j) PROVE TypeOK'
  <2>1. PICK k \in {1, config} :
            job' = [job EXCEPT ![j].pc = "write", ![j].config = k]
    BY <1>15 DEF ReadConfiguration
  <2>2. job[j] \in JobRecords /\ k \in Configs /\ "write" \in JobPcs
    OBVIOUS
  <2>3. [job[j] EXCEPT !.pc = "write", !.config = k] \in JobRecords
    BY <2>2 DEF JobRecords
  <2>4. job' = [job EXCEPT ![j] = [job[j] EXCEPT !.pc = "write", !.config = k]]
    BY <2>1
  <2>5. job' \in [Jobs -> JobRecords]
    BY <2>3, <2>4
  <2> QED
    BY <1>1, <1>2, <1>15, <2>5, FaultType DEF ReadConfiguration, AllFaults
<1>7. ASSUME NEW j \in Jobs, WriteChunks(j) PROVE TypeOK'
  BY <1>1, <1>2, <1>3, <1>7, JobGotoType, SMTT(30) DEF WriteChunks, Generations
<1>8. ASSUME NEW j \in Jobs, WriteFence(j) PROVE TypeOK'
  <2>1. job' \in [Jobs -> JobRecords]
    BY <1>8, JobGotoType, EndJobType DEF WriteFence
  <2> QED
    BY <1>1, <1>2, <1>8, <2>1, FaultType DEF WriteFence, AllFaults
<1>9. ASSUME NEW j \in Jobs, PurgeRemoved(j) PROVE TypeOK'
  BY <1>1, <1>2, <1>9, EndJobType, FaultType
     DEF PurgeRemoved, DeleteSlotChunks, AllFaults
<1>10. ASSUME NEW j \in Jobs, SubmitStamp(j) PROVE TypeOK'
  BY <1>1, <1>2, <1>10, JobGotoType DEF SubmitStamp, RequestStamp
<1>11. ASSUME NEW j \in Jobs, CompleteJob(j) PROVE TypeOK'
  BY <1>1, <1>2, <1>3, <1>11, JobGotoType, SetStatusType, FaultType
     DEF CompleteJob, ParseStatus, AllFaults
<1>12. ASSUME NEW j \in Jobs, AckJob(j) PROVE TypeOK'
  BY <1>1, <1>2, <1>12, EndJobType DEF AckJob
<1>13. ASSUME NEW j \in Jobs, TaskRaises(j) PROVE TypeOK'
  <2>1. ASSUME job[j].retries < MaxRetries PROVE job' \in [Jobs -> JobRecords]
    <3>1. job[j] \in JobRecords /\ 1 \in Configs /\ "countdown" \in JobPcs
      OBVIOUS
    <3>2. job[j].retries + 1 \in 0..MaxRetries
      BY <2>1, <3>1 DEF JobRecords
    <3>3. [job[j] EXCEPT !.pc = "countdown", !.retries = @ + 1, !.config = 1]
              \in JobRecords
      BY <3>1, <3>2 DEF JobRecords
    <3>4. job' = [job EXCEPT ![j] = [job[j] EXCEPT !.pc = "countdown",
                                                  !.retries = @ + 1, !.config = 1]]
      BY <1>13, <2>1 DEF TaskRaises
    <3> QED
      BY <3>3, <3>4
  <2>2. job' \in [Jobs -> JobRecords]
    BY <1>13, <2>1, EndJobType DEF TaskRaises
  <2>3. status' \in [Mounts -> ParseStatus]
    BY <1>3, <1>13, SetStatusType DEF TaskRaises, ParseStatus
  <2> QED
    BY <1>1, <1>2, <1>13, <2>2, <2>3, FaultType DEF TaskRaises, AllFaults
<1>14. ASSUME NEW j \in Jobs, WorkerLost(j) PROVE TypeOK'
  <2>1. ASSUME job' \in [Jobs -> JobRecords] PROVE TypeOK'
    BY <1>1, <1>2, <1>14, <2>1, FaultType DEF WorkerLost, AllFaults
  <2>2. CASE job' = [job EXCEPT ![j].pc = "ready", ![j].config = 1]
    <3>1. job[j] \in JobRecords /\ 1 \in Configs /\ "ready" \in JobPcs
      OBVIOUS
    <3>2. [job[j] EXCEPT !.pc = "ready", !.config = 1] \in JobRecords
      BY <3>1 DEF JobRecords
    <3>3. job' = [job EXCEPT ![j] = [job[j] EXCEPT !.pc = "ready", !.config = 1]]
      BY <2>2
    <3> QED
      BY <2>1, <3>2, <3>3
  <2>3. CASE EndJob(j)
    BY <2>1, <2>3, EndJobType
  <2> QED
    BY <1>14, <2>2, <2>3 DEF WorkerLost
<1> QED
  BY <1>4, <1>5, <1>6, <1>7, <1>8, <1>9, <1>10, <1>11, <1>12, <1>13, <1>14,
     <1>15 DEF WorkerStep, JobWorks, JobFails

LEMMA StampType ==
    ASSUME TypeOK, StampStep
    PROVE  TypeOK'
<1> USE DEF TypeOK, TablesTypeOK, StamperTypeOK, mountVars, rowVars, chunkVars, NoFaults,
            StamperIdle
<1>1. RequestsTypeOK' /\ SweepTypeOK' /\ RelayTypeOK'
  <2>1. UNCHANGED <<req, outrun, relay, sweep, outbox>>
    BY DEF StampStep, StampWorks, StampFails, TakeStamp, QueryRows, UpsertRows, apiVars
  <2> QED
    BY <2>1 DEF RequestsTypeOK, SweepTypeOK, RelayTypeOK
<1>2. CASE TakeStamp
  <2>1. stampQueue' \in Nat
    BY <1>2 DEF TakeStamp
  <2>2. linked \in BOOLEAN /\ {} \in SUBSET Generations
    BY Zenon
  <2>3. StamperTypeOK'
    BY <1>2, <2>2, Zenon DEF TakeStamp
  <2> QED
    BY <1>1, <1>2, <2>1, <2>3 DEF TakeStamp
<1>3. CASE QueryRows
  <2>1. stampQueue' \in Nat
    BY <1>3 DEF QueryRows, RequestStamp
  <2>2. stamper' = [stamper EXCEPT !.pc = "upsert", !.rows = chunks]
            \/ stamper' = StamperIdle
    BY <1>3 DEF QueryRows
  <2>3. chunks \in SUBSET Generations
    OBVIOUS
  <2>4. ASSUME stamper' = StamperIdle PROVE StamperTypeOK'
    BY <2>4
  <2>5. ASSUME stamper' = [stamper EXCEPT !.pc = "upsert", !.rows = chunks]
        PROVE  StamperTypeOK'
    <3>1. stamper' = [pc |-> "upsert", link |-> stamper.link, rows |-> chunks]
      BY <2>5
    <3>2. stamper.link \in BOOLEAN
      BY Zenon
    <3> QED
      BY <2>3, <3>1, <3>2, Zenon
  <2>6. StamperTypeOK'
    BY <2>2, <2>4, <2>5
  <2> QED
    BY <1>1, <1>3, <2>1, <2>6 DEF QueryRows
<1>4. CASE UpsertRows
  <2>1. stamper.rows \subseteq Generations
    OBVIOUS
  <2>2. /\ chunks' \subseteq Generations
        /\ stamped' \subseteq Generations
        /\ revived' \subseteq Generations
    BY <1>4, <2>1 DEF UpsertRows
  <2>3. StamperTypeOK'
    BY <1>4 DEF UpsertRows
  <2> QED
    BY <1>1, <1>4, <2>2, <2>3 DEF UpsertRows
<1>5. CASE StampFails
  BY <1>1, <1>5, FaultType DEF StampFails, RequestStamp, AllFaults
<1> QED
  BY <1>2, <1>3, <1>4, <1>5 DEF StampStep, StampWorks

LEMMA SweepType ==
    ASSUME TypeOK, SweepStep
    PROVE  TypeOK'
<1> USE DEF TypeOK, TablesTypeOK, mountVars, rowVars, chunkVars, NoFaults
<1>1. RequestsTypeOK' /\ StamperTypeOK'
  BY DEF SweepStep, apiVars, RequestsTypeOK, StamperTypeOK
<1>2. ASSUME outbox' = outbox PROVE RelayTypeOK'
  BY <1>2 DEF SweepStep, RelayTypeOK
<1>3. ASSUME NEW m \in Mounts, SelectStale(m) PROVE TypeOK'
  BY <1>1, <1>2, <1>3 DEF SelectStale, SweepTypeOK, SweepStatus
<1>4. CASE MarkStale
  BY <1>1, <1>2, <1>4 DEF MarkStale, SweepTypeOK, SweepIdle, SweepStatus, ParseStatus
<1> QED
  BY <1>3, <1>4 DEF SweepStep

LEMMA StutterType ==
    ASSUME TypeOK, UNCHANGED vars
    PROVE  TypeOK'
BY DEF TypeOK, TablesTypeOK, RequestsTypeOK, RelayTypeOK, SweepTypeOK, StamperTypeOK,
       vars

\* Every variable keeps its type: no operation of any process leaves a store in
\* a shape another one does not expect.
THEOREM TypeCorrect == Spec => []TypeOK
<1>1. TypeOK /\ [Next]_vars => TypeOK'
  BY ApiType, RelayType, WorkerType, StampType, SweepType, StutterType DEF Next
<1> QED
  BY InitType, <1>1, PTL DEF Spec

-----------------------------------------------------------------------------
(***************************************************************************)
(* A mount that was removed does not come back.  The foreign key refuses a *)
(* row without its mount, and RowHasMount says more: that a row is one of  *)
(* the mount the slot has now, whoever wrote it.  It is not                *)
(* inductive: the last UPDATE of a cleanup could touch the row of a live   *)
(* mount, and the upsert of a call begun long ago the row of a mount made  *)
(* since.  Neither happens because ids are minted in order, a minted id    *)
(* that is not yet in the table is known to one call only, and a call that *)
(* cleans up holds the id of a mount that was deleted.                     *)
(***************************************************************************)
RowHasMount == \A m \in Mounts : RowExists(m) => m = mount

CancellingNeverReached == \A m \in Mounts : status[m] \notin {"cancelling", "removed"}

CleanupPcs == {"unmountEvent", "cleanupCancel", "cleanupDelete", "cleanupRemoved"}

HoldsMount(r) == req[r].pc \notin {"idle", "unmountRead", "done"}

CallsHoldMinted ==
    \A r \in Requests :
        /\ HoldsMount(r) => req[r].mount <= minted
        /\ req[r].pc \in CleanupPcs => req[r].mount # mount

FreshIsPrivate ==
    \A r \in Requests : req[r].pc \in {"link", "insert"} =>
        /\ req[r].mount # mount
        /\ \A q \in Requests : q # r /\ HoldsMount(q) => req[q].mount # req[r].mount

MountInv ==
    /\ TypeOK
    /\ mount <= minted
    /\ CallsHoldMinted
    /\ FreshIsPrivate
    /\ RowHasMount
    /\ CancellingNeverReached

LEMMA InitMount == Init => MountInv
<1> SUFFICES ASSUME Init PROVE MountInv
  OBVIOUS
<1>1. mount = 0 /\ minted = 0 /\ status = [m \in Mounts |-> "none"]
  BY DEF Init, TablesInit
<1>2. req = [r \in Requests |-> [pc |-> "idle", mount |-> 0]]
  BY DEF Init, RequestsInit
<1> QED
  BY InitType, <1>1, <1>2
     DEF MountInv, CallsHoldMinted, FreshIsPrivate, HoldsMount, RowHasMount,
         CancellingNeverReached, RowExists, CleanupPcs

LEMMA ApiMount ==
    ASSUME MountInv, ApiStep
    PROVE  MountInv'
<1> USE DEF MountInv, CallsHoldMinted, FreshIsPrivate, HoldsMount, RowHasMount,
            CancellingNeverReached, RowExists, CleanupPcs, mountVars, rowVars
<1>1. /\ TypeOK' /\ RequestsTypeOK /\ req \in [Requests -> ReqRecords]
      /\ status \in [Mounts -> ParseStatus]
      /\ minted \in Nat /\ mount \in Nat /\ outrun' \in BOOLEAN
  <2>1. TypeOK'
    BY ApiType
  <2>2. status \in [Mounts -> ParseStatus] /\ minted \in Nat /\ mount \in Nat
    BY DEF TypeOK, TablesTypeOK
  <2>3. RequestsTypeOK /\ req \in [Requests -> ReqRecords] /\ outrun' \in BOOLEAN
    BY <2>1 DEF TypeOK, RequestsTypeOK
  <2> QED
    BY <2>1, <2>2, <2>3
<1>2. \A r \in Requests : /\ req[r].mount \in 0..MaxMounts
                          /\ req[r].pc \notin NoMountPcs => req[r].mount \in Mounts
  BY <1>1 DEF RequestsTypeOK, ReqRecords
<1> USE DEF ReqPcs, NoMountPcs
<1>3. ASSUME NEW r \in Requests, BeginTriggerParse(r) \/ BeginBatchParse(r)
      PROVE  MountInv'
  <2>1. /\ req'[r].pc \in {"parseEvent", "uploadRow"} /\ req'[r].mount = mount
        /\ \A q \in Requests : q # r => req'[q] = req[q]
    BY <1>1, <1>3 DEF BeginTriggerParse, BeginBatchParse, Hold
  <2> QED
    BY <1>1, <1>3, <2>1 DEF BeginTriggerParse, BeginBatchParse
<1>4. ASSUME NEW r \in Requests, BeginUpload(r) PROVE MountInv'
  <2>1. CASE mount = 0
    BY <1>1, <1>2, <1>4, <2>1, HoldType DEF BeginUpload
  <2>2. CASE mount # 0
    <3>1. /\ req'[r].pc = "dedupe" /\ req'[r].mount = mount
          /\ \A q \in Requests : q # r => req'[q] = req[q]
      BY <1>1, <1>4, <2>2 DEF BeginUpload, Hold
    <3> QED
      BY <1>1, <1>4, <2>2, <3>1 DEF BeginUpload
  <2> QED
    BY <2>1, <2>2
<1>5. ASSUME NEW r \in Requests, UploadLink(r) PROVE MountInv'
  BY <1>1, <1>2, <1>5, GotoType DEF UploadLink
<1>6. ASSUME NEW r \in Requests, UploadInsert(r) PROVE MountInv'
  <2>1. CASE mount = 0
    <3>1. \A m \in Mounts : status'[m] = status[m] /\ status[m] = "none"
      BY <1>1, <1>6, <2>1 DEF UploadInsert
    <3>2. mount' = req[r].mount /\ Goto(r, "dedupe") /\ minted' = minted
      BY <1>6, <2>1 DEF UploadInsert
    <3>3. /\ req'[r].pc = "dedupe" /\ req'[r].mount = req[r].mount
          /\ \A q \in Requests : q # r => req'[q] = req[q]
      BY <1>1, <1>2, <1>6, <3>2, GotoType DEF UploadInsert
    <3> QED
      BY <1>1, <1>2, <1>6, <3>1, <3>2, <3>3 DEF UploadInsert
  <2>2. CASE mount # 0
    BY <1>1, <1>2, <1>6, <2>2, ReturnType DEF UploadInsert
  <2> QED
    BY <2>1, <2>2
<1>7. ASSUME NEW r \in Requests, BeginUnmount(r) PROVE MountInv'
  BY <1>1, <1>2, <1>7, GotoType DEF BeginUnmount
<1>8. ASSUME NEW r \in Requests, UnmountRead(r) PROVE MountInv'
  <2>1. /\ req'[r].pc \in {"unmountMount", "unmountRow"} /\ req'[r].mount = mount
        /\ \A q \in Requests : q # r => req'[q] = req[q]
    BY <1>1, <1>8 DEF UnmountRead, Hold
  <2> QED
    BY <1>1, <1>8, <2>1 DEF UnmountRead
<1>9. ASSUME NEW r \in Requests, TriggerParseEvent(r) PROVE MountInv'
  BY <1>1, <1>2, <1>9, GotoType DEF TriggerParseEvent
<1>10. ASSUME NEW r \in Requests, TriggerParseRow(r) PROVE MountInv'
  BY <1>1, <1>2, <1>10, ReturnType DEF TriggerParseRow, UpsertQueued
<1>11. ASSUME NEW r \in Requests, UploadDedupe(r) PROVE MountInv'
  BY <1>1, <1>2, <1>11, GotoType, ReturnType DEF UploadDedupe
<1>12. ASSUME NEW r \in Requests, UploadRow(r) PROVE MountInv'
  <2>1. CASE mount = req[r].mount /\ UpsertQueued(req[r].mount) /\ Goto(r, "uploadEvent")
    <3>1. /\ req'[r].pc = "uploadEvent" /\ req'[r].mount = req[r].mount
          /\ \A q \in Requests : q # r => req'[q] = req[q]
      BY <1>1, <1>12, <2>1, GotoType DEF UploadRow
    <3> QED
      BY <1>1, <1>2, <1>12, <2>1, <3>1 DEF UploadRow, UpsertQueued
  <2>2. CASE UNCHANGED rowVars /\ Return(r)
    BY <1>1, <1>2, <1>12, <2>2, ReturnType DEF UploadRow
  <2> QED
    BY <1>12, <2>1, <2>2 DEF UploadRow
<1>13. ASSUME NEW r \in Requests, UploadEvent(r) PROVE MountInv'
  BY <1>1, <1>2, <1>13, ReturnType DEF UploadEvent
<1>14. ASSUME NEW r \in Requests, UnmountRow(r) PROVE MountInv'
  BY <1>1, <1>2, <1>14, GotoType DEF UnmountRow, DeleteRow
<1>15. ASSUME NEW r \in Requests, UnmountMount(r) PROVE MountInv'
  <2>1. CASE mount # 0 /\ RowExists(mount)
    BY <1>1, <1>2, <1>15, <2>1, ReturnType DEF UnmountMount
  <2>2. CASE ~(mount # 0 /\ RowExists(mount))
    <3>1. \A m \in Mounts : status'[m] = status[m] /\ status[m] = "none"
      BY <1>1, <1>15, <2>2 DEF UnmountMount
    <3> QED
      BY <1>1, <1>2, <1>15, <2>2, <3>1, GotoType, ReturnType DEF UnmountMount
  <2> QED
    BY <2>1, <2>2
<1>16. ASSUME NEW r \in Requests, UnmountEvent(r) PROVE MountInv'
  BY <1>1, <1>2, <1>16, GotoType DEF UnmountEvent
<1>17. ASSUME NEW r \in Requests, CleanupCancel(r) PROVE MountInv'
  BY <1>1, <1>2, <1>17, GotoType DEF CleanupCancel, SetStatus
<1>18. ASSUME NEW r \in Requests, CleanupDelete(r) PROVE MountInv'
  BY <1>1, <1>2, <1>18, GotoType DEF CleanupDelete
<1>19. ASSUME NEW r \in Requests, CleanupRemoved(r) PROVE MountInv'
  BY <1>1, <1>2, <1>19, ReturnType DEF CleanupRemoved, SetStatus
<1>20. ASSUME NEW r \in Requests, ApiCrash(r) PROVE MountInv'
  BY <1>1, <1>2, <1>20, ReturnType DEF ApiCrash
<1>21. CASE UpdateChunkingConfig
  BY <1>1, <1>21 DEF UpdateChunkingConfig
<1> QED
  BY <1>3, <1>4, <1>5, <1>6, <1>7, <1>8, <1>9, <1>10, <1>11, <1>12, <1>13,
     <1>14, <1>15, <1>16, <1>17, <1>18, <1>19, <1>20, <1>21
     DEF ApiStep, BeginRequest, ContinueRequest

LEMMA RelayMount ==
    ASSUME MountInv, RelayStep
    PROVE  MountInv'
<1>1. TypeOK' /\ UNCHANGED <<mount, minted, status, req>>
  BY RelayType
     DEF MountInv, RelayStep, RelayWorks, RelayFails, TakeMounted, TakeUnmounted,
         ReadEpoch, Dispatch, DispatchFails, RelayDeletes, MarkSent, RelayCrash,
         mountVars, rowVars, apiVars
<1> QED
  BY <1>1 DEF MountInv, CallsHoldMinted, FreshIsPrivate, HoldsMount, RowHasMount,
              CancellingNeverReached, RowExists

LEMMA WorkerMount ==
    ASSUME MountInv, WorkerStep
    PROVE  MountInv'
<1> USE DEF MountInv, CallsHoldMinted, FreshIsPrivate, HoldsMount, RowHasMount,
            CancellingNeverReached, RowExists, CleanupPcs
<1>1. TypeOK' /\ req' = req /\ UNCHANGED mountVars
  BY WorkerType
     DEF WorkerStep, JobWorks, JobFails, StartJob, Fence, CleanSlot, ReadConfiguration,
         WriteChunks, WriteFence, PurgeRemoved, SubmitStamp, CompleteJob, AckJob, TaskRaises,
         WorkerLost, apiVars
<1>2. status \in [Mounts -> ParseStatus] /\ job \in [Jobs -> JobRecords]
  BY DEF TypeOK, TablesTypeOK
<1>3. \A j \in Jobs : job[j].mount \in Mounts
  BY <1>2 DEF JobRecords
<1>4. CASE status' = status
  BY <1>1, <1>4 DEF mountVars
<1>5. ASSUME NEW j \in Jobs, NEW s \in {"processing", "completed", "failed"},
             SetStatus(job[j].mount, s)
      PROVE  MountInv'
  BY <1>1, <1>2, <1>3, <1>5 DEF SetStatus, mountVars
<1>6. ASSUME NEW j \in Jobs, StartJob(j) \/ CompleteJob(j) \/ TaskRaises(j)
      PROVE  MountInv'
  BY <1>4, <1>5, <1>6 DEF StartJob, CompleteJob, TaskRaises
<1>7. ASSUME NEW j \in Jobs,
             \/ Fence(j) \/ CleanSlot(j) \/ ReadConfiguration(j) \/ WriteChunks(j)
             \/ WriteFence(j) \/ PurgeRemoved(j) \/ SubmitStamp(j) \/ AckJob(j) \/ WorkerLost(j)
      PROVE  status' = status
  BY <1>7 DEF Fence, CleanSlot, ReadConfiguration, WriteChunks, WriteFence, PurgeRemoved,
              SubmitStamp, AckJob, WorkerLost, rowVars
<1> QED
  BY <1>4, <1>6, <1>7 DEF WorkerStep, JobWorks, JobFails

LEMMA StampSweepMount ==
    ASSUME MountInv, StampStep \/ SweepStep
    PROVE  MountInv'
<1> USE DEF MountInv, CallsHoldMinted, FreshIsPrivate, HoldsMount, RowHasMount,
            CancellingNeverReached, RowExists, CleanupPcs
<1>1. TypeOK' /\ req' = req /\ UNCHANGED mountVars
  BY StampType, SweepType
     DEF StampStep, StampWorks, StampFails, TakeStamp, QueryRows, UpsertRows,
         SweepStep, SelectStale, MarkStale, apiVars
<1>2. status \in [Mounts -> ParseStatus] /\ sweep.mount \in Mounts /\ sweep.seen # "none"
  BY DEF TypeOK, TablesTypeOK, SweepTypeOK, SweepStatus
<1>3. CASE status' = status
  BY <1>1, <1>3 DEF mountVars
<1>4. CASE MarkStale
  BY <1>1, <1>2, <1>4 DEF MarkStale, mountVars
<1> QED
  BY <1>3, <1>4
     DEF StampStep, StampWorks, StampFails, TakeStamp, QueryRows, UpsertRows,
         SweepStep, SelectStale, rowVars

LEMMA StutterMount ==
    ASSUME MountInv, UNCHANGED vars
    PROVE  MountInv'
BY StutterType
   DEF MountInv, CallsHoldMinted, FreshIsPrivate, HoldsMount, RowHasMount,
       CancellingNeverReached, RowExists, vars

\* MountInv, the inductive invariant behind the two theorems that follow, holds
\* in every reachable state of the ingest path.
THEOREM MountInvariant == Spec => []MountInv
<1>1. MountInv /\ [Next]_vars => MountInv'
  BY ApiMount, RelayMount, WorkerMount, StampSweepMount, StutterMount DEF Next
<1> QED
  BY InitMount, <1>1, PTL DEF Spec

\* The statuses with which a removal would stop the tasks in flight are never
\* installed: only the absence of the row stops them.
THEOREM NeverCancelling == Spec => []CancellingNeverReached
BY MountInvariant, PTL DEF MountInv

-----------------------------------------------------------------------------
(***************************************************************************)
(* No orphan without a cleaner.  With MountInv, OrphanHasCleaner is        *)
(* inductive: a fence that finds a row found the row of the mount the slot *)
(* has, and a mount whose row is gone has a call about to delete it.       *)
(***************************************************************************)
OrphanInv == MountInv /\ OrphanHasCleaner

\* Mount m is the one the slot has and has a row, or its chunks have a cleaner.
Covered(m) == (m = mount /\ RowExists(m)) \/ Removing(m) \/ WillNotice(m)

\* Changing the status of a row that exists creates no row and removes none.
LEMMA SetStatusRows ==
    ASSUME status \in [Mounts -> ParseStatus], NEW m \in Mounts, NEW s \in ParseStatus,
           s # "none", SetStatus(m, s)
    PROVE  \A k \in Mounts : RowExists(k)' <=> RowExists(k)
BY DEF SetStatus, RowExists

\* Queueing an execution creates its row and removes none.
LEMMA UpsertQueuedRows ==
    ASSUME status \in [Mounts -> ParseStatus], NEW m \in Mounts, UpsertQueued(m)
    PROVE  \A k \in Mounts : RowExists(k) => RowExists(k)'
BY DEF UpsertQueued, RowExists

\* A step that adds no chunk and leaves every mount that was covered covered.
LEMMA OrphanFrame ==
    ASSUME OrphanHasCleaner, chunks \subseteq Generations,
           chunks' \ revived' \subseteq chunks \ revived,
           faults' = faults, outrun => outrun',
           \A m \in Mounts : Covered(m) => Covered(m)'
    PROVE  OrphanHasCleaner'
<1> SUFFICES ASSUME NoFault', ~outrun', NEW c \in chunks' \ revived'
             PROVE  Covered(c.mount)'
  BY DEF OrphanHasCleaner, Covered
<1>1. c \in chunks \ revived /\ c.mount \in Mounts
  BY DEF Generations
<1>2. Covered(c.mount)
  BY <1>1 DEF OrphanHasCleaner, NoFault, Covered
<1> QED
  BY <1>1, <1>2

\* After a failure nothing is promised.
LEMMA OrphanFault ==
    ASSUME faults \in Nat, NEW kind, Fault(kind)
    PROVE  OrphanHasCleaner'
BY DEF OrphanHasCleaner, NoFault, Fault

LEMMA OrphanNone ==
    ASSUME DeleteSlotChunks
    PROVE  OrphanHasCleaner'
BY DEF OrphanHasCleaner, DeleteSlotChunks

LEMMA InitOrphan == Init => OrphanInv
BY InitMount DEF OrphanInv, OrphanHasCleaner, Init, TablesInit

LEMMA ApiOrphan ==
    ASSUME OrphanInv, ApiStep
    PROVE  OrphanInv'
<1> USE DEF mountVars, chunkVars, rowVars, ReqPcs, NoMountPcs, ParseStatus
<1> DEFINE Deleting == {"unmountEvent", "cleanupCancel", "cleanupDelete"}
<1>1. /\ MountInv' /\ OrphanHasCleaner /\ RowHasMount /\ faults \in Nat
      /\ RequestsTypeOK /\ chunks \subseteq Generations /\ outrun' \in BOOLEAN
      /\ mount \in 0..MaxMounts /\ status \in [Mounts -> ParseStatus]
      /\ req \in [Requests -> ReqRecords]
  <2>1. MountInv'
    BY ApiMount DEF OrphanInv
  <2>2. TypeOK /\ RequestsTypeOK /\ OrphanHasCleaner /\ RowHasMount
    BY DEF OrphanInv, MountInv, TypeOK
  <2>3. RequestsTypeOK'
    BY <2>1 DEF MountInv, TypeOK
  <2> QED
    BY <2>1, <2>2, <2>3 DEF TypeOK, TablesTypeOK, RequestsTypeOK
<1>2. \A r \in Requests : req[r].pc \notin NoMountPcs => req[r].mount \in Mounts
  BY <1>1 DEF RequestsTypeOK, ReqRecords
<1> SUFFICES OrphanHasCleaner'
  BY <1>1 DEF OrphanInv
\* The call does not end a removal, and no row goes.
<1>3. ASSUME NEW r \in Requests,
             UNCHANGED <<job, chunks, revived, mount, outrun>>, NoFaults,
             \A m \in Mounts : RowExists(m) => RowExists(m)',
             \A q \in Requests : q # r => req'[q] = req[q],
             req[r].pc \notin Deleting \cup {"unmountMount"} \/ req'[r].pc \in Deleting
      PROVE  OrphanHasCleaner'
  <2>1. \A m \in Mounts : Removing(m) => Removing(m)'
    BY <1>3 DEF Removing
  <2>2. \A m \in Mounts : Covered(m) => Covered(m)'
    BY <1>3, <2>1 DEF Covered, WillNotice
  <2> QED
    BY <1>1, <1>3, <2>2, OrphanFrame DEF NoFaults
<1>4. ASSUME NEW r \in Requests, BeginTriggerParse(r) \/ BeginBatchParse(r)
      PROVE  OrphanHasCleaner'
  BY <1>1, <1>3, <1>4, HoldType DEF BeginTriggerParse, BeginBatchParse, RowExists
<1>5. ASSUME NEW r \in Requests, BeginUpload(r) PROVE OrphanHasCleaner'
  <2>1. \A q \in Requests : q # r => req'[q] = req[q]
    BY <1>1, <1>5 DEF BeginUpload, Hold
  <2> QED
    BY <1>3, <1>5, <2>1 DEF BeginUpload, RowExists
<1>6. ASSUME NEW r \in Requests, BeginUnmount(r) \/ UploadLink(r) PROVE OrphanHasCleaner'
  BY <1>1, <1>3, <1>6, GotoType DEF BeginUnmount, UploadLink, RowExists
<1>7. ASSUME NEW r \in Requests, UnmountRead(r) PROVE OrphanHasCleaner'
  BY <1>1, <1>3, <1>7, HoldType DEF UnmountRead, RowExists
<1>8. ASSUME NEW r \in Requests,
             TriggerParseEvent(r) \/ UploadDedupe(r) \/ UploadEvent(r)
      PROVE  OrphanHasCleaner'
  BY <1>1, <1>3, <1>8, GotoType, ReturnType
     DEF TriggerParseEvent, UploadDedupe, UploadEvent, RowExists
<1>9. ASSUME NEW r \in Requests, TriggerParseRow(r) \/ UploadRow(r)
      PROVE  OrphanHasCleaner'
  <2>1. \A m \in Mounts : RowExists(m) => RowExists(m)'
    BY <1>1, <1>2, <1>9, UpsertQueuedRows DEF TriggerParseRow, UploadRow, RowExists
  <2> QED
    BY <1>1, <1>3, <1>9, <2>1, GotoType, ReturnType DEF TriggerParseRow, UploadRow
<1>10. ASSUME NEW r \in Requests, UploadInsert(r) PROVE OrphanHasCleaner'
  <2>1. CASE mount # 0
    BY <1>1, <1>3, <1>10, <2>1, ReturnType DEF UploadInsert, RowExists
  <2>2. CASE mount = 0
    <3>1. \A q \in Requests : q # r => req'[q] = req[q]
      BY <1>1, <1>10, <2>2 DEF UploadInsert, Goto
    <3>2. \A m \in Mounts : Removing(m) => Removing(m)'
      BY <1>10, <3>1 DEF Removing, UploadInsert
    <3>3. \A m \in Mounts : Covered(m) => Covered(m)'
      BY <1>10, <2>2, <3>2 DEF Covered, WillNotice, UploadInsert
    <3> QED
      BY <1>1, <1>10, <3>3, OrphanFrame DEF UploadInsert, NoFaults
  <2> QED
    BY <2>1, <2>2
<1>11. ASSUME NEW r \in Requests, UnmountRow(r) PROVE OrphanHasCleaner'
  <2>1. /\ req'[r].pc = "unmountMount" /\ req'[r].mount = req[r].mount
        /\ \A q \in Requests : q # r => req'[q] = req[q]
    BY <1>1, <1>11 DEF UnmountRow, Goto, ReqRecords
  <2>2. \A m \in Mounts : Removing(m) => Removing(m)'
    BY <1>11, <2>1 DEF Removing, UnmountRow
  <2>3. \A m \in Mounts : m = req[r].mount => Removing(m)'
    BY <2>1 DEF Removing
  <2>4. \A m \in Mounts : m # req[r].mount /\ RowExists(m) => RowExists(m)'
    BY <1>1, <1>11 DEF UnmountRow, DeleteRow, RowExists
  <2>5. \A m \in Mounts : Covered(m) => Covered(m)'
    BY <1>11, <2>2, <2>3, <2>4 DEF Covered, WillNotice, UnmountRow
  <2> QED
    BY <1>1, <1>11, <2>5, OrphanFrame DEF UnmountRow, NoFaults
\* Refused, the call leaves the row of its own mount or of a newer one; otherwise
\* it has the slot's chunks to delete, or it held no mount and covered none.
<1>12. ASSUME NEW r \in Requests, UnmountMount(r) PROVE OrphanHasCleaner'
  <2>1. UNCHANGED <<job, chunks, revived, faults, status>>
    BY <1>12 DEF UnmountMount, NoFaults
  <2>2. CASE mount # 0 /\ RowExists(mount)
    <3>1. CASE mount # req[r].mount
      BY <1>12, <2>2, <3>1 DEF UnmountMount, OrphanHasCleaner
    <3>2. CASE mount = req[r].mount
      <4>1. \A q \in Requests : q # r => req'[q] = req[q]
        BY <1>1, <1>12, <2>2, ReturnType DEF UnmountMount
      <4>2. \A m \in Mounts : Removing(m) => Removing(m)' \/ m = mount
        BY <1>12, <3>2, <4>1 DEF Removing, UnmountMount
      <4>3. mount' = mount /\ (outrun => outrun')
        BY <1>12, <2>2 DEF UnmountMount
      <4>4. \A m \in Mounts : Covered(m) => Covered(m)'
        BY <2>1, <2>2, <4>2, <4>3 DEF Covered, WillNotice, RowExists
      <4> QED
        BY <1>1, <2>1, <4>3, <4>4, OrphanFrame
    <3> QED
      BY <3>1, <3>2
  <2>3. CASE ~(mount # 0 /\ RowExists(mount)) /\ req[r].mount # 0
    <3>1. req'[r].pc = "unmountEvent"
      BY <1>1, <1>12, <2>3, GotoType DEF UnmountMount
    <3> QED
      BY <3>1 DEF OrphanHasCleaner, Removing
  <2>4. CASE ~(mount # 0 /\ RowExists(mount)) /\ req[r].mount = 0
    <3>1. (\A q \in Requests : q # r => req'[q] = req[q]) /\ outrun' = outrun
      BY <1>1, <1>12, <2>4, ReturnType DEF UnmountMount
    <3>2. \A m \in Mounts : Removing(m) => Removing(m)'
      BY <1>12, <2>4, <3>1 DEF Removing, UnmountMount
    <3>3. \A m \in Mounts : Covered(m) => Covered(m)'
      BY <2>1, <2>4, <3>2 DEF Covered, WillNotice
    <3> QED
      BY <1>1, <2>1, <3>1, <3>3, OrphanFrame
  <2> QED
    BY <2>2, <2>3, <2>4
<1>13. ASSUME NEW r \in Requests, UnmountEvent(r) PROVE OrphanHasCleaner'
  BY <1>1, <1>3, <1>13, GotoType DEF UnmountEvent, RowExists
<1>14. ASSUME NEW r \in Requests, CleanupCancel(r) \/ CleanupRemoved(r)
       PROVE  OrphanHasCleaner'
  <2>1. \A m \in Mounts : RowExists(m) => RowExists(m)'
    BY <1>1, <1>2, <1>14, SetStatusRows DEF CleanupCancel, CleanupRemoved
  <2> QED
    BY <1>1, <1>3, <1>14, <2>1, GotoType, ReturnType DEF CleanupCancel, CleanupRemoved
<1>15. ASSUME NEW r \in Requests, CleanupDelete(r) PROVE OrphanHasCleaner'
  BY <1>1, <1>15, OrphanNone, OrphanFault DEF CleanupDelete
<1>16. ASSUME NEW r \in Requests, ApiCrash(r) PROVE OrphanHasCleaner'
  BY <1>1, <1>16, OrphanFault DEF ApiCrash
<1>17. CASE UpdateChunkingConfig
  <2>1. \A m \in Mounts : Covered(m) => Covered(m)'
    BY <1>17 DEF Covered, Removing, WillNotice, RowExists, UpdateChunkingConfig
  <2> QED
    BY <1>1, <1>17, <2>1, OrphanFrame DEF UpdateChunkingConfig, NoFaults
<1> QED
  BY <1>4, <1>5, <1>6, <1>7, <1>8, <1>9, <1>10, <1>11, <1>12, <1>13, <1>14, <1>15,
     <1>16, <1>17
     DEF ApiStep, BeginRequest, ContinueRequest

LEMMA RelayOrphan ==
    ASSUME OrphanInv, RelayStep
    PROVE  OrphanInv'
<1>1. /\ MountInv' /\ OrphanHasCleaner /\ faults \in Nat
      /\ chunks \subseteq Generations /\ job \in [Jobs -> JobRecords]
  BY RelayMount DEF OrphanInv, MountInv, TypeOK, TablesTypeOK
<1> SUFFICES OrphanHasCleaner'
  BY <1>1 DEF OrphanInv
<1>2. UNCHANGED <<req, outrun, mount, status>>
  BY DEF RelayStep, RelayWorks, RelayFails, TakeMounted, TakeUnmounted, ReadEpoch,
         Dispatch, DispatchFails, RelayDeletes, MarkSent, RelayCrash, mountVars,
         rowVars, apiVars
<1>3. ASSUME UNCHANGED <<chunks, revived, faults>>,
             \A m \in Mounts : WillNotice(m) => WillNotice(m)'
      PROVE  OrphanHasCleaner'
  <2>1. \A m \in Mounts : Covered(m) => Covered(m)'
    BY <1>2, <1>3 DEF Covered, Removing, RowExists
  <2> QED
    BY <1>1, <1>2, <1>3, <2>1, OrphanFrame
<1>4. ASSUME UNCHANGED <<job, chunks, revived, faults>> PROVE OrphanHasCleaner'
  BY <1>3, <1>4 DEF WillNotice
<1>5. ASSUME NEW i \in DOMAIN outbox, TakeMounted(i) \/ TakeUnmounted(i)
      PROVE  OrphanHasCleaner'
  BY <1>1, <1>4, <1>5, OrphanFault DEF TakeMounted, TakeUnmounted, NoFaults, chunkVars
<1>6. CASE ReadEpoch
  BY <1>1, <1>4, <1>6, OrphanFault DEF ReadEpoch, NoFaults, chunkVars
<1>7. CASE Dispatch
  <2>1. \A m \in Mounts : WillNotice(m) => WillNotice(m)'
    BY <1>1, <1>7 DEF Dispatch, NextJob, WillNotice
  <2> QED
    BY <1>3, <1>7, <2>1 DEF Dispatch, NoFaults, chunkVars
<1>8. CASE DispatchFails \/ RelayCrash
  BY <1>1, <1>8, OrphanFault DEF DispatchFails, RelayCrash
<1>9. CASE RelayDeletes
  BY <1>1, <1>9, OrphanNone, OrphanFault DEF RelayDeletes
<1>10. CASE MarkSent
  BY <1>4, <1>10 DEF MarkSent, NoFaults, chunkVars
<1> QED
  BY <1>5, <1>6, <1>7, <1>8, <1>9, <1>10 DEF RelayStep, RelayWorks, RelayFails

LEMMA WorkerOrphan ==
    ASSUME OrphanInv, WorkerStep
    PROVE  OrphanInv'
<1> USE DEF mountVars, chunkVars, rowVars, NoFaults
<1>1. /\ MountInv' /\ OrphanHasCleaner /\ RowHasMount
      /\ faults \in Nat /\ chunks \subseteq Generations
      /\ job \in [Jobs -> JobRecords] /\ status \in [Mounts -> ParseStatus]
  BY WorkerMount DEF OrphanInv, MountInv, TypeOK, TablesTypeOK
<1> SUFFICES OrphanHasCleaner'
  BY <1>1 DEF OrphanInv
<1>2. UNCHANGED <<req, outrun, mount>>
  BY DEF WorkerStep, JobWorks, JobFails, StartJob, Fence, CleanSlot, ReadConfiguration,
         WriteChunks, WriteFence, PurgeRemoved, SubmitStamp, CompleteJob, AckJob, TaskRaises,
         WorkerLost, apiVars
<1>3. \A j \in Jobs : job[j].mount \in Mounts
  BY <1>1 DEF JobRecords
<1>4. \A m \in Mounts : Removing(m) => Removing(m)'
  BY <1>2 DEF Removing
\* A message that is not between its write and its last fence notices nothing.
<1>5. ASSUME NEW j \in Jobs, job[j].pc \notin {"fence3", "purge"},
             \A i \in Jobs : i # j => job'[i] = job[i],
             \A m \in Mounts : RowExists(m) => RowExists(m)',
             UNCHANGED <<chunks, revived, faults>>
      PROVE  OrphanHasCleaner'
  <2>1. \A m \in Mounts : Covered(m) => Covered(m)'
    BY <1>2, <1>4, <1>5 DEF Covered, WillNotice
  <2> QED
    BY <1>1, <1>2, <1>5, <2>1, OrphanFrame
<1>6. ASSUME NEW j \in Jobs, StartJob(j) PROVE OrphanHasCleaner'
  <2>1. \A m \in Mounts : RowExists(m) => RowExists(m)'
    BY <1>1, <1>3, <1>6, SetStatusRows DEF StartJob, ParseStatus, RowExists
  <2> QED
    BY <1>1, <1>5, <1>6, <2>1, OrphanFault DEF StartJob, JobGoto
<1>7. ASSUME NEW j \in Jobs, Fence(j) \/ ReadConfiguration(j) PROVE OrphanHasCleaner'
  BY <1>1, <1>5, <1>7, OrphanFault DEF Fence, ReadConfiguration, JobGoto, EndJob, RowExists
<1>8. ASSUME NEW j \in Jobs, CleanSlot(j) PROVE OrphanHasCleaner'
  BY <1>1, <1>8, OrphanNone, OrphanFault DEF CleanSlot
<1>9. ASSUME NEW j \in Jobs, WriteChunks(j) PROVE OrphanHasCleaner'
  <2> DEFINE new == [mount |-> job[j].mount, config |-> job[j].config]
  <2>1. /\ job'[j].pc = "fence3" /\ job'[j].mount = job[j].mount
        /\ \A i \in Jobs : i # j => job'[i] = job[i]
    BY <1>1, <1>9 DEF WriteChunks, JobGoto, JobRecords
  <2>2. \A m \in Mounts : WillNotice(m) => WillNotice(m)'
    BY <1>9, <2>1 DEF WillNotice, WriteChunks
  <2>3. \A m \in Mounts : Covered(m) => Covered(m)'
    BY <1>2, <1>4, <1>9, <2>2 DEF Covered, WriteChunks, RowExists
  <2>4. /\ chunks' \ revived' \subseteq (chunks \ revived) \cup {new}
        /\ faults' = faults
    BY <1>9 DEF WriteChunks
  <2>5. \A m \in Mounts : m = job[j].mount => Covered(m)'
    BY <2>1 DEF Covered, WillNotice
  <2>6. ASSUME NoFault', ~outrun', NEW c \in chunks' \ revived'
        PROVE  Covered(c.mount)'
    <3>1. CASE c \in chunks \ revived
      <4>1. c.mount \in Mounts /\ Covered(c.mount)
        BY <1>1, <1>2, <2>4, <2>6, <3>1
           DEF Generations, OrphanHasCleaner, NoFault, Covered
      <4> QED
        BY <2>3, <4>1
    <3>2. CASE c = new
      BY <1>3, <2>5, <3>2
    <3> QED
      BY <2>4, <2>6, <3>1, <3>2
  <2> QED
    BY <2>6 DEF OrphanHasCleaner, Covered
\* The last fence: a row that exists is the row of the mount the slot has.
<1>10. ASSUME NEW j \in Jobs, WriteFence(j) PROVE OrphanHasCleaner'
  <2>1. UNCHANGED <<chunks, revived, status>>
    BY <1>10 DEF WriteFence
  <2>2. CASE Fault("database")
    BY <1>1, <2>2, OrphanFault
  <2>3. ASSUME NoFaults, \A m \in Mounts : Covered(m) => Covered(m)'
        PROVE  OrphanHasCleaner'
    BY <1>1, <1>2, <2>1, <2>3, OrphanFrame
  <2>4. (AbortReason(j) = "removed") <=> ~RowExists(job[j].mount)
    BY DEF AbortReason
  <2>5. CASE ~RowExists(job[j].mount) /\ ~Fault("database")
    <3>1. JobGoto(j, "purge") /\ NoFaults
      BY <1>10, <2>4, <2>5 DEF WriteFence
    <3>2. \A m \in Mounts : WillNotice(m) => WillNotice(m)'
      BY <1>1, <3>1 DEF WillNotice, JobGoto, JobRecords
    <3> QED
      BY <1>2, <1>4, <2>1, <2>3, <3>1, <3>2 DEF Covered, RowExists
  <2>6. CASE RowExists(job[j].mount) /\ ~Fault("database")
    <3>1. NoFaults /\ (JobGoto(j, "submit") \/ EndJob(j))
      BY <1>10, <2>4, <2>6 DEF WriteFence
    <3>2. \A i \in Jobs : i # j => job'[i] = job[i]
      BY <1>1, <3>1 DEF JobGoto, EndJob
    <3>3. job[j].mount = mount
      BY <1>1, <1>3, <2>6 DEF RowHasMount
    <3>4. \A m \in Mounts \ {mount} : WillNotice(m) => WillNotice(m)'
      BY <3>2, <3>3 DEF WillNotice
    <3>5. \A m \in Mounts : Covered(m) => Covered(m)'
      BY <1>2, <1>4, <2>1, <2>6, <3>3, <3>4 DEF Covered, RowExists
    <3> QED
      BY <2>3, <3>1, <3>5
  <2> QED
    BY <2>2, <2>5, <2>6
<1>11. ASSUME NEW j \in Jobs, PurgeRemoved(j) PROVE OrphanHasCleaner'
  BY <1>1, <1>11, OrphanNone, OrphanFault DEF PurgeRemoved
<1>12. ASSUME NEW j \in Jobs, SubmitStamp(j) \/ AckJob(j) PROVE OrphanHasCleaner'
  BY <1>1, <1>5, <1>12 DEF SubmitStamp, AckJob, JobGoto, EndJob, RowExists
<1>13. ASSUME NEW j \in Jobs, CompleteJob(j) PROVE OrphanHasCleaner'
  <2>1. \A m \in Mounts : RowExists(m) => RowExists(m)'
    BY <1>1, <1>3, <1>13, SetStatusRows DEF CompleteJob, ParseStatus, RowExists
  <2> QED
    BY <1>1, <1>5, <1>13, <2>1, OrphanFault DEF CompleteJob, JobGoto
<1>14. ASSUME NEW j \in Jobs, TaskRaises(j) \/ WorkerLost(j) PROVE OrphanHasCleaner'
  BY <1>1, <1>14, OrphanFault DEF TaskRaises, WorkerLost
<1> QED
  BY <1>6, <1>7, <1>8, <1>9, <1>10, <1>11, <1>12, <1>13, <1>14
     DEF WorkerStep, JobWorks, JobFails

\* What the stamping worker inserts it counts as revived; the sweep changes the
\* status of a row that exists.
LEMMA StampSweepOrphan ==
    ASSUME OrphanInv, StampStep \/ SweepStep \/ UNCHANGED vars
    PROVE  OrphanInv'
<1>1. /\ MountInv' /\ OrphanHasCleaner /\ faults \in Nat
      /\ chunks \subseteq Generations /\ status \in [Mounts -> ParseStatus]
  BY StampSweepMount, StutterMount DEF OrphanInv, MountInv, TypeOK, TablesTypeOK
<1>2. UNCHANGED <<req, outrun, mount, job>>
  BY DEF StampStep, StampWorks, StampFails, TakeStamp, QueryRows, UpsertRows,
         SweepStep, SelectStale, MarkStale, vars, mountVars, apiVars
<1>3. CASE StampFails
  BY <1>1, <1>3, OrphanFault DEF OrphanInv, StampFails
<1>4. CASE ~StampFails
  <2>1. faults' = faults /\ chunks' \ revived' \subseteq chunks \ revived
    BY <1>4 DEF StampStep, StampWorks, TakeStamp, QueryRows, UpsertRows,
                SweepStep, SelectStale, MarkStale, vars, NoFaults, chunkVars
  <2>2. \A m \in Mounts : RowExists(m) => RowExists(m)'
    BY <1>1, <1>4 DEF StampStep, StampWorks, TakeStamp, QueryRows, UpsertRows,
                SweepStep, SelectStale, MarkStale, vars, rowVars, RowExists
  <2>3. \A m \in Mounts : Covered(m) => Covered(m)'
    BY <1>2, <2>2 DEF Covered, Removing, WillNotice
  <2> QED
    BY <1>1, <1>2, <2>1, <2>3, OrphanFrame DEF OrphanInv
<1> QED
  BY <1>1, <1>3, <1>4 DEF OrphanInv

\* While nothing fails, a chunk of a removed mount still has somebody who is
\* going to delete it: the call that removes the mount, or the task that wrote
\* the chunk and has yet to look at the row.
THEOREM OrphansHaveCleaners == Spec => []OrphanHasCleaner
<1>1. OrphanInv /\ [Next]_vars => OrphanInv'
  BY ApiOrphan, RelayOrphan, WorkerOrphan, StampSweepOrphan DEF Next
<1> QED
  BY InitOrphan, <1>1, PTL DEF Spec, OrphanInv

-----------------------------------------------------------------------------
(***************************************************************************)
(* Where nothing is removed, epochs only grow: no call gets as far as a    *)
(* deletion, no event asks for one, and a row has an epoch exactly while   *)
(* it exists.                                                              *)
(***************************************************************************)
RemovalPcs == {"unmountRead", "unmountRow", "unmountMount", "unmountEvent", "cleanupCancel",
               "cleanupDelete", "cleanupRemoved"}

NothingRemoved ==
    /\ \A r \in Requests : req[r].pc \notin RemovalPcs
    /\ \A i \in DOMAIN outbox : outbox[i].kind = "DocumentMounted"
    /\ relay.pc # "cleanup"

EpochOfRow == \A m \in Mounts : epoch[m] = 0 <=> status[m] = "none"

\* An API step without removals: what it does to calls, events, rows and epochs.
LEMMA ApiRemovesNothing ==
    ASSUME "unmount" \notin Ops, TypeOK, NothingRemoved, EpochOfRow, ApiStep
    PROVE  /\ NothingRemoved' /\ EpochOfRow'
           /\ \A m \in Mounts : epoch[m] <= epoch'[m] /\ (RowExists(m) => RowExists(m)')
<1>1. /\ RequestsTypeOK /\ outbox \in Seq(Events) /\ status \in [Mounts -> ParseStatus]
      /\ epoch \in [Mounts -> Nat] /\ outrun \in BOOLEAN /\ relay' = relay
  BY DEF TypeOK, TablesTypeOK, RequestsTypeOK, ApiStep
<1>2. \A r \in Requests : req[r].pc \notin NoMountPcs => req[r].mount \in Mounts
  BY <1>1 DEF RequestsTypeOK, ReqRecords
<1>3. ASSUME NEW m \in Mounts, UpsertQueued(m)
      PROVE  /\ EpochOfRow'
             /\ \A k \in Mounts : epoch[k] <= epoch'[k] /\ (RowExists(k) => RowExists(k)')
  BY <1>1, <1>3 DEF UpsertQueued, EpochOfRow, RowExists
<1>4. UNCHANGED rowVars =>
        /\ EpochOfRow'
        /\ \A k \in Mounts : epoch[k] <= epoch'[k] /\ (RowExists(k) => RowExists(k)')
  BY <1>1 DEF rowVars, EpochOfRow, RowExists
<1>5. ASSUME NEW r \in Requests, req'[r].pc \notin RemovalPcs,
             \A q \in Requests : q # r => req'[q] = req[q]
      PROVE  \A q \in Requests : req'[q].pc \notin RemovalPcs
  BY <1>5 DEF NothingRemoved
<1>6. ASSUME NEW m \in Mounts, Publish("DocumentMounted", m)
      PROVE  \A i \in DOMAIN outbox' : outbox'[i].kind = "DocumentMounted"
  BY <1>1, <1>6 DEF Publish, NothingRemoved
<1>7. outbox' = outbox => \A i \in DOMAIN outbox' : outbox'[i].kind = "DocumentMounted"
  BY DEF NothingRemoved
<1>8. relay'.pc # "cleanup"
  BY <1>1 DEF NothingRemoved
<1> USE DEF ReqPcs, NoMountPcs, RemovalPcs
<1>9. ASSUME NEW r \in Requests, BeginTriggerParse(r) \/ BeginBatchParse(r)
      PROVE  NothingRemoved' /\ rowVars' = rowVars
  <2>1. mount \in 0..MaxMounts /\ mount # 0 /\ outrun' = outrun
    BY <1>9 DEF BeginTriggerParse, BeginBatchParse, TypeOK, TablesTypeOK
  <2>2. /\ req'[r].pc \in {"parseEvent", "uploadRow"}
        /\ \A q \in Requests : q # r => req'[q] = req[q]
    BY <1>1, <1>9, <2>1, HoldType DEF BeginTriggerParse, BeginBatchParse
  <2> QED BY <1>5, <1>7, <1>8, <1>9, <2>2
          DEF NothingRemoved, BeginTriggerParse, BeginBatchParse
<1>10. ASSUME NEW r \in Requests, BeginUpload(r)
       PROVE  NothingRemoved' /\ rowVars' = rowVars
  <2>1. PICK pc \in {"link", "dedupe"} : \E m : Hold(r, pc, m)
    BY <1>10 DEF BeginUpload
  <2>2. req'[r].pc = pc /\ \A q \in Requests : q # r => req'[q] = req[q]
    BY <1>1, <2>1 DEF Hold, RequestsTypeOK
  <2> QED BY <1>5, <1>7, <1>8, <1>10, <2>2 DEF NothingRemoved, BeginUpload
<1>11. ASSUME NEW r \in Requests,
              UploadLink(r) \/ UploadInsert(r) \/ UploadDedupe(r) \/ ApiCrash(r)
       PROVE  NothingRemoved' /\ rowVars' = rowVars
  <2>1. Return(r) \/ \E pc \in {"insert", "dedupe", "uploadRow"} : Goto(r, pc)
    BY <1>11 DEF UploadLink, UploadInsert, UploadDedupe, ApiCrash
  <2>2. req'[r].pc \notin RemovalPcs /\ \A q \in Requests : q # r => req'[q] = req[q]
    BY <1>1, <2>1 DEF Return, Hold, Goto, RequestsTypeOK, ReqRecords
  <2> QED BY <1>5, <1>7, <1>8, <1>11, <2>2
          DEF NothingRemoved, UploadLink, UploadInsert, UploadDedupe, ApiCrash
<1>12. ASSUME NEW r \in Requests, TriggerParseEvent(r) \/ UploadEvent(r)
       PROVE  NothingRemoved' /\ rowVars' = rowVars
  <2>1. Return(r) \/ Goto(r, "parseRow")
    BY <1>12 DEF TriggerParseEvent, UploadEvent
  <2>2. req'[r].pc \notin RemovalPcs /\ \A q \in Requests : q # r => req'[q] = req[q]
    BY <1>1, <2>1 DEF Return, Hold, Goto, RequestsTypeOK, ReqRecords
  <2>3. req[r].mount \in Mounts /\ Publish("DocumentMounted", req[r].mount)
    BY <1>2, <1>12 DEF TriggerParseEvent, UploadEvent
  <2>4. rowVars' = rowVars
    BY <1>12 DEF TriggerParseEvent, UploadEvent
  <2>5. \A i \in DOMAIN outbox' : outbox'[i].kind = "DocumentMounted"
    BY <1>6, <2>3
  <2> QED BY <1>5, <1>8, <2>2, <2>4, <2>5 DEF NothingRemoved
<1>13. ASSUME NEW r \in Requests, TriggerParseRow(r) \/ UploadRow(r)
       PROVE  /\ NothingRemoved'
              /\ rowVars' = rowVars \/ \E m \in Mounts : UpsertQueued(m)
  <2>1. Return(r) \/ Goto(r, "uploadEvent")
    BY <1>13 DEF TriggerParseRow, UploadRow
  <2>2. req'[r].pc \notin RemovalPcs /\ \A q \in Requests : q # r => req'[q] = req[q]
    BY <1>1, <2>1 DEF Return, Hold, Goto, RequestsTypeOK, ReqRecords
  <2>3. req[r].mount \in Mounts /\ outbox' = outbox
    BY <1>2, <1>13 DEF TriggerParseRow, UploadRow
  <2>4. rowVars' = rowVars \/ UpsertQueued(req[r].mount)
    BY <1>13 DEF TriggerParseRow, UploadRow
  <2> QED BY <1>5, <1>7, <1>8, <2>2, <2>3, <2>4 DEF NothingRemoved
<1>14. ASSUME UpdateChunkingConfig PROVE NothingRemoved' /\ rowVars' = rowVars
  BY <1>7, <1>8, <1>14 DEF NothingRemoved, UpdateChunkingConfig
<1>15. ASSUME NEW r \in Requests,
              \/ BeginUnmount(r) \/ UnmountRead(r) \/ UnmountRow(r) \/ UnmountMount(r)
              \/ UnmountEvent(r) \/ CleanupCancel(r) \/ CleanupDelete(r) \/ CleanupRemoved(r)
       PROVE  FALSE
  BY <1>15 DEF NothingRemoved, BeginUnmount, UnmountRead, UnmountRow, UnmountMount,
               UnmountEvent, CleanupCancel, CleanupDelete, CleanupRemoved
<1>16. NothingRemoved' /\ (rowVars' = rowVars \/ \E m \in Mounts : UpsertQueued(m))
  <2>1. CASE \E r \in Requests : BeginRequest(r) \/ ContinueRequest(r) \/ ApiCrash(r)
    BY <1>9, <1>10, <1>11, <1>12, <1>13, <1>15, <2>1 DEF BeginRequest, ContinueRequest
  <2>2. CASE UpdateChunkingConfig
    BY <1>14, <2>2
  <2> QED BY <2>1, <2>2 DEF ApiStep
<1> QED
  BY <1>3, <1>4, <1>16

\* What a step of another process does to them: it changes a status only to another one, and
\* makes no event of removal.
LEMMA OthersRemoveNothing ==
    ASSUME TypeOK, NothingRemoved, EpochOfRow,
           RelayStep \/ WorkerStep \/ StampStep \/ SweepStep \/ UNCHANGED vars
    PROVE  /\ NothingRemoved' /\ EpochOfRow' /\ epoch' = epoch
           /\ \A m \in Mounts : RowExists(m) <=> RowExists(m)'
<1>1. /\ RequestsTypeOK /\ outbox \in Seq(Events) /\ status \in [Mounts -> ParseStatus]
      /\ epoch \in [Mounts -> Nat] /\ job \in [Jobs -> JobRecords]
      /\ RelayTypeOK /\ SweepTypeOK
  BY DEF TypeOK, TablesTypeOK
<1>2. \A j \in Jobs : job[j].mount \in Mounts
  BY <1>1 DEF JobRecords
<1>3. epoch' = epoch /\ req' = req
  BY DEF RelayStep, RelayWorks, RelayFails, TakeMounted, TakeUnmounted, ReadEpoch, Dispatch,
         DispatchFails, RelayDeletes, MarkSent, RelayCrash, WorkerStep, JobWorks, JobFails,
         StartJob, Fence, CleanSlot, ReadConfiguration, WriteChunks, WriteFence, PurgeRemoved,
         SubmitStamp, CompleteJob, AckJob, TaskRaises, WorkerLost, StampStep, StampWorks,
         StampFails, TakeStamp, QueryRows, UpsertRows, SweepStep, SelectStale, MarkStale,
         rowVars, apiVars,
         vars
<1>4. \A m \in Mounts : RowExists(m) <=> RowExists(m)'
  <2>1. CASE status' = status
    BY <2>1 DEF RowExists
  <2>2. ASSUME NEW m \in Mounts, NEW s \in ParseStatus \ {"none"}, SetStatus(m, s)
        PROVE  \A k \in Mounts : RowExists(k) <=> RowExists(k)'
    BY <1>1, <2>2, SetStatusRows
  <2>3. CASE WorkerStep
    <3>1. PICK j \in Jobs : JobWorks(j) \/ JobFails(j)
      BY <2>3 DEF WorkerStep
    <3>2. \/ status' = status
          \/ \E s \in {"processing", "completed", "failed"} : SetStatus(job[j].mount, s)
      BY <3>1 DEF JobWorks, JobFails, StartJob, Fence, CleanSlot, ReadConfiguration,
                  WriteChunks, WriteFence, PurgeRemoved, SubmitStamp, CompleteJob, AckJob,
                  TaskRaises, WorkerLost,
                  rowVars
    <3> QED BY <1>2, <2>1, <2>2, <3>2 DEF ParseStatus
  <2>4. CASE MarkStale
    BY <1>1, <2>4 DEF MarkStale, SweepTypeOK, SweepStatus, RowExists
  <2>5. CASE RelayStep \/ StampStep \/ UNCHANGED vars \/ \E m \in Mounts : SelectStale(m)
    <3>1. status' = status
      BY <2>5 DEF RelayStep, RelayWorks, RelayFails, TakeMounted, TakeUnmounted, ReadEpoch,
                  Dispatch, DispatchFails, RelayDeletes, MarkSent, RelayCrash, StampStep,
                  StampWorks, StampFails, TakeStamp, QueryRows, UpsertRows, SelectStale,
                  rowVars, vars
    <3> QED BY <2>1, <3>1
  <2> QED BY <2>3, <2>4, <2>5 DEF SweepStep
<1>5. EpochOfRow'
  BY <1>3, <1>4 DEF EpochOfRow, RowExists
<1>6. NothingRemoved'
  <2>1. CASE RelayStep
    <3>1. \A i \in DOMAIN outbox : outbox[i].kind # "DocumentUnmounted"
      BY DEF NothingRemoved
    <3>2. relay'.pc # "cleanup"
      <4>1. relay \in [pc : RelayPcs, at : Nat, epoch : Nat]
        BY <1>1 DEF RelayTypeOK
      <4>2. ASSUME NEW i \in DOMAIN outbox, TakeMounted(i) \/ TakeUnmounted(i)
            PROVE  relay'.pc # "cleanup"
        BY <3>1, <4>2 DEF TakeMounted, TakeUnmounted
      <4>3. CASE ReadEpoch
        BY <4>1, <4>3 DEF ReadEpoch
      <4>4. CASE Dispatch \/ RelayDeletes
        BY <4>1, <4>4 DEF Dispatch, RelayDeletes, RelayGoto
      <4>5. CASE MarkSent \/ DispatchFails \/ RelayCrash
        BY <4>5 DEF MarkSent, DispatchFails, RelayCrash, RelayPoll
      <4> QED BY <2>1, <4>2, <4>3, <4>4, <4>5 DEF RelayStep, RelayWorks, RelayFails
    <3>3. \/ outbox' = outbox
          \/ \E s \in {"failed", "sent"} : outbox' = [outbox EXCEPT ![relay.at].state = s]
      BY <2>1 DEF RelayStep, RelayWorks, RelayFails, TakeMounted, TakeUnmounted, ReadEpoch,
            Dispatch, DispatchFails, RelayDeletes, MarkSent, RelayCrash
    <3>4. \A i \in DOMAIN outbox' : i \in DOMAIN outbox /\ outbox'[i].kind = outbox[i].kind
      <4>1. CASE outbox' = outbox
        BY <4>1
      <4>2. ASSUME NEW s, outbox' = [outbox EXCEPT ![relay.at].state = s]
            PROVE  \A i \in DOMAIN outbox' : i \in DOMAIN outbox
                                             /\ outbox'[i].kind = outbox[i].kind
        BY <1>1, <4>2, EventAt DEF Events
      <4> QED BY <3>3, <4>1, <4>2
    <3> QED BY <1>3, <3>2, <3>4 DEF NothingRemoved
  <2>2. CASE WorkerStep \/ StampStep \/ SweepStep \/ UNCHANGED vars
    <3>1. relay' = relay /\ outbox' = outbox
      BY <2>2 DEF WorkerStep, JobWorks, JobFails, StartJob, Fence, CleanSlot,
                  ReadConfiguration, WriteChunks, WriteFence, PurgeRemoved, SubmitStamp,
                  CompleteJob, AckJob, TaskRaises, WorkerLost, StampStep, StampWorks,
                  StampFails, TakeStamp, QueryRows, UpsertRows, SweepStep, SelectStale,
                  MarkStale, vars
    <3> QED BY <1>3, <3>1 DEF NothingRemoved
  <2> QED BY <2>1, <2>2
<1> QED BY <1>3, <1>4, <1>5, <1>6

KeptInv == TypeOK /\ ("unmount" \notin Ops => NothingRemoved /\ EpochOfRow)

LEMMA KeptInit == Init => KeptInv
<1> SUFFICES ASSUME Init PROVE KeptInv
  OBVIOUS
<1>1. NothingRemoved /\ EpochOfRow
  BY DEF Init, TablesInit, RequestsInit, RelayInit, NothingRemoved, EpochOfRow, RemovalPcs
<1> QED BY <1>1, InitType DEF KeptInv

LEMMA TypeStep == TypeOK /\ [Next]_vars => TypeOK'
  BY ApiType, RelayType, WorkerType, StampType, SweepType, StutterType DEF Next

LEMMA KeptStep == KeptInv /\ [Next]_vars => KeptInv'
<1> SUFFICES ASSUME KeptInv, [Next]_vars PROVE KeptInv'
  OBVIOUS
<1>1. TypeOK'
  BY TypeStep DEF KeptInv
<1>2. "unmount" \notin Ops => (NothingRemoved /\ EpochOfRow)'
  BY ApiRemovesNothing, OthersRemoveNothing DEF KeptInv, Next
<1> QED BY <1>1, <1>2 DEF KeptInv

\* Epochs and rows only grow.
LEMMA EpochsGrow ==
    ASSUME "unmount" \notin Ops, KeptInv, [Next]_vars
    PROVE  \A m \in Mounts : epoch[m] <= epoch'[m] /\ (RowExists(m) => RowExists(m)')
<1>1. TypeOK /\ NothingRemoved /\ EpochOfRow
  BY DEF KeptInv
<1>2. epoch \in [Mounts -> Nat]
  BY <1>1 DEF TypeOK, TablesTypeOK
<1>3. CASE ApiStep
  BY <1>1, <1>3, ApiRemovesNothing
<1>4. CASE ~ApiStep
  <2>1. epoch' = epoch /\ \A m \in Mounts : RowExists(m) <=> RowExists(m)'
    BY <1>1, <1>4, OthersRemoveNothing DEF Next
  <2> QED BY <1>2, <2>1
<1> QED BY <1>3, <1>4

\* A step of a message is its own, and it keeps its mount and epoch until it is done.
LEMMA JobAlone ==
    ASSUME job \in [Jobs -> JobRecords], NEW j \in Jobs, JobWorks(j) \/ JobFails(j)
    PROVE  /\ \A i \in Jobs : i # j => job'[i] = job[i]
           /\ \/ job'[j].pc = "done" /\ EndJob(j)
              \/ job'[j].mount = job[j].mount /\ job'[j].epoch = job[j].epoch
<1>1. job[j] \in JobRecords
  OBVIOUS
<1>2. ASSUME NEW pc, JobGoto(j, pc)
      PROVE  job' = [job EXCEPT ![j] = [job[j] EXCEPT !.pc = pc]]
  BY <1>2 DEF JobGoto
<1>3. CASE \E pc : JobGoto(j, pc)
  BY <1>1, <1>3 DEF JobGoto, JobRecords
<1>4. CASE EndJob(j)
  BY <1>4 DEF EndJob, JobDone, NoJob
<1>5. CASE \E pc, k : job' = [job EXCEPT ![j].pc = pc, ![j].config = k]
  BY <1>1, <1>5 DEF JobRecords
<1>6. CASE job' = [job EXCEPT ![j].pc = "countdown", ![j].retries = @ + 1, ![j].config = 1]
  BY <1>1, <1>6 DEF JobRecords
<1> QED
  BY <1>3, <1>4, <1>5, <1>6 DEF JobWorks, JobFails, StartJob, Fence, CleanSlot,
                                ReadConfiguration, WriteChunks, WriteFence, PurgeRemoved,
                                SubmitStamp, CompleteJob, AckJob, TaskRaises, WorkerLost

\* Where its steps take a message
LEMMA JobPcOf ==
    ASSUME job \in [Jobs -> JobRecords], NEW j \in Jobs
    PROVE  /\ \A pc : JobGoto(j, pc) => job'[j].pc = pc
           /\ EndJob(j) => job'[j].pc = "done"
           /\ TaskRaises(j) => job'[j].pc \in {"countdown", "done"}
           /\ WorkerLost(j) => job'[j].pc \in {"ready", "done"}
<1>1. job[j] \in JobRecords
  OBVIOUS
<1>2. \A pc : JobGoto(j, pc) => job'[j].pc = pc
  BY <1>1 DEF JobGoto, JobRecords
<1>3. EndJob(j) => job'[j].pc = "done"
  BY DEF EndJob, JobDone, NoJob
<1>4. TaskRaises(j) => job'[j].pc \in {"countdown", "done"}
  BY <1>1, <1>3 DEF TaskRaises, JobRecords
<1>5. WorkerLost(j) => job'[j].pc \in {"ready", "done"}
  BY <1>1, <1>3 DEF WorkerLost, JobRecords
<1> QED BY <1>2, <1>3, <1>4, <1>5

\* What steps of other processes do to the messages: the relay may make one of an unused one.
LEMMA JobsElsewhere ==
    ASSUME ApiStep \/ RelayStep \/ StampStep \/ SweepStep \/ UNCHANGED vars
    PROVE  job' = job \/ (RelayStep /\ Dispatch)
  BY DEF ApiStep, BeginRequest, BeginTriggerParse, BeginBatchParse, BeginUpload, BeginUnmount,
         ContinueRequest, TriggerParseEvent, TriggerParseRow, UploadLink, UploadInsert,
         UploadDedupe, UploadRow, UploadEvent, UnmountRead, UnmountRow, UnmountMount,
         UnmountEvent, CleanupCancel, CleanupDelete, CleanupRemoved, ApiCrash,
         UpdateChunkingConfig, RelayStep, RelayWorks, RelayFails, TakeMounted, TakeUnmounted,
         ReadEpoch, DispatchFails, RelayDeletes, MarkSent, RelayCrash, StampStep, StampWorks,
         StampFails, TakeStamp, QueryRows, UpsertRows, SweepStep, SelectStale, MarkStale, vars

LEMMA SupersededStep ==
    ASSUME "unmount" \notin Ops, KeptInv, [Next]_vars, NEW j \in Jobs, Superseded(j)
    PROVE  Superseded(j)' \/ job'[j].pc = "done"
<1>1. /\ job \in [Jobs -> JobRecords] /\ job[j] \in JobRecords
      /\ job[j].mount \in Mounts /\ job[j].epoch \in Nat
      /\ epoch \in [Mounts -> Nat] /\ epoch' \in [Mounts -> Nat]
  BY TypeStep DEF KeptInv, TypeOK, TablesTypeOK, JobRecords
<1>2. job[j].pc \in {"ready", "countdown", "fence1", "fence2"}
  BY DEF Superseded
<1>3. epoch'[job[j].mount] > job[j].epoch
  BY <1>1, EpochsGrow DEF Superseded
<1>4. CASE job'[j] = job[j]
  BY <1>2, <1>3, <1>4 DEF Superseded
<1>5. ASSUME WorkerStep, job'[j] # job[j]
      PROVE  job'[j].pc \in {"ready", "countdown", "fence1", "fence2", "done"}
  <2>1. JobWorks(j) \/ JobFails(j)
    BY <1>1, <1>5, JobAlone DEF WorkerStep
  <2>2. AbortReason(j) # "go"
    BY <1>1 DEF KeptInv, EpochOfRow, AbortReason, Superseded, RowExists
  <2>3. CASE StartJob(j) \/ TaskRaises(j) \/ WorkerLost(j)
    BY <1>1, <2>3, JobPcOf DEF StartJob
  <2>4. CASE Fence(j)
    BY <1>1, <2>2, <2>4 DEF Fence, EndJob, JobDone, NoJob
  <2> QED
    BY <1>2, <2>1, <2>3, <2>4 DEF JobWorks, JobFails, CleanSlot, ReadConfiguration,
                                  WriteChunks, WriteFence, PurgeRemoved, SubmitStamp,
                                  CompleteJob, AckJob
<1>6. CASE WorkerStep /\ job'[j] # job[j]
  <2>1. \/ job'[j].pc = "done"
        \/ job'[j].mount = job[j].mount /\ job'[j].epoch = job[j].epoch
    BY <1>1, <1>6, JobAlone DEF WorkerStep
  <2> QED BY <1>3, <1>5, <1>6, <2>1 DEF Superseded
<1>7. CASE ~WorkerStep
  <2>1. job' = job \/ Dispatch
    BY <1>7, JobsElsewhere DEF Next
  <2>2. Dispatch => job'[j] = job[j]
    BY <1>1, <1>2 DEF Dispatch, NextJob
  <2> QED BY <1>4, <2>1, <2>2
<1> QED BY <1>4, <1>6, <1>7

\* A task that a later parse has overtaken before its second fence never gets to clean or to
\* write, whatever interleaves and fails, where nothing is removed (the fences of
\* ingest_document_task).
THEOREM OvertakenTasksStop == Spec => SupersededStaysOut
<1>1. KeptInv /\ [Next]_vars =>
        [\A j \in Jobs : "unmount" \notin Ops /\ Superseded(j) =>
            Superseded(j)' \/ job'[j].pc = "done"]_vars
  BY SupersededStep
<1> QED BY <1>1, KeptInit, KeptStep, PTL DEF Spec, SupersededStaysOut

-----------------------------------------------------------------------------
(***************************************************************************)
(* Epochs on their way: what the relay read and what a message carries was *)
(* installed, or is the 1 of the first parse.                              *)
(***************************************************************************)
\* An event stays in its place and keeps its mount.
LEMMA EventsStay ==
    ASSUME TypeOK, [Next]_vars
    PROVE  \A i \in DOMAIN outbox : i \in DOMAIN outbox' /\ outbox'[i].mount = outbox[i].mount
<1>1. outbox \in Seq(Events) /\ RequestsTypeOK
  BY DEF TypeOK, TablesTypeOK
<1>2. \A r \in Requests : req[r].pc \notin NoMountPcs => req[r].mount \in Mounts
  BY <1>1 DEF RequestsTypeOK, ReqRecords
<1>3. ASSUME NEW kind, NEW m, Publish(kind, m)
      PROVE  \A i \in DOMAIN outbox : i \in DOMAIN outbox' /\ outbox'[i] = outbox[i]
  BY <1>1, <1>3 DEF Publish
<1>4. ASSUME NEW s, NEW k, outbox' = [outbox EXCEPT ![k].state = s]
      PROVE  \A i \in DOMAIN outbox : i \in DOMAIN outbox' /\ outbox'[i].mount = outbox[i].mount
  <2>1. \A i \in DOMAIN outbox : outbox[i] \in Events
    BY <1>1, EventAt
  <2> QED BY <1>4, <2>1 DEF Events
<1>5. \/ outbox' = outbox
      \/ \E kind, m : Publish(kind, m)
      \/ \E s, k : outbox' = [outbox EXCEPT ![k].state = s]
  BY DEF Next, ApiStep, BeginRequest, BeginTriggerParse, BeginBatchParse, BeginUpload,
         BeginUnmount, ContinueRequest, TriggerParseEvent, TriggerParseRow, UploadLink,
         UploadInsert, UploadDedupe, UploadRow, UploadEvent, UnmountRead, UnmountRow,
         UnmountMount, UnmountEvent, CleanupCancel, CleanupDelete, CleanupRemoved, ApiCrash,
         UpdateChunkingConfig, RelayStep, RelayWorks, RelayFails, TakeMounted, TakeUnmounted,
         ReadEpoch, Dispatch, DispatchFails, RelayDeletes, MarkSent, RelayCrash, WorkerStep,
         JobWorks, JobFails, StartJob, Fence, CleanSlot, ReadConfiguration, WriteChunks,
         WriteFence, PurgeRemoved, SubmitStamp, CompleteJob, AckJob, TaskRaises, WorkerLost,
         StampStep, StampWorks, StampFails, TakeStamp, QueryRows, UpsertRows, SweepStep,
         SelectStale, MarkStale, vars
<1> QED BY <1>3, <1>4, <1>5

Issued(e, m) == e <= 1 \/ e <= epoch[m]

RelayEpochIssued == relay.pc # "poll" => Issued(relay.epoch, Handled.mount)

EpochInv == KeptInv /\ ("unmount" \notin Ops => JobEpochIssued /\ RelayEpochIssued)

LEMMA EpochInit == Init => EpochInv
  BY KeptInit DEF Init, TablesInit, RelayInit, NoJob, EpochInv, JobEpochIssued,
                  RelayEpochIssued

LEMMA RelayEpochStep ==
    ASSUME "unmount" \notin Ops, KeptInv, RelayEpochIssued, [Next]_vars
    PROVE  RelayEpochIssued'
<1>1. /\ epoch \in [Mounts -> Nat] /\ epoch' \in [Mounts -> Nat] /\ outbox \in Seq(Events)
      /\ relay \in [pc : RelayPcs, at : Nat, epoch : Nat]
      /\ relay.pc # "poll" => relay.at \in DOMAIN outbox
  BY TypeStep DEF KeptInv, TypeOK, TablesTypeOK, RelayTypeOK
<1>2. \A i \in DOMAIN outbox : outbox[i].mount \in Mounts
  BY <1>1, EventAt
<1>3. \A e \in Nat, i \in DOMAIN outbox : Issued(e, outbox[i].mount)
          => e <= 1 \/ e <= epoch'[outbox'[i].mount]
  <2> SUFFICES ASSUME NEW e \in Nat, NEW i \in DOMAIN outbox, Issued(e, outbox[i].mount)
               PROVE  e <= 1 \/ e <= epoch'[outbox'[i].mount]
    OBVIOUS
  <2>1. PICK m \in Mounts : m = outbox[i].mount
    BY <1>2
  <2>2. outbox'[i].mount = m
    BY <2>1, EventsStay DEF KeptInv
  <2>3. epoch[m] <= epoch'[m]
    BY EpochsGrow
  <2>4. epoch[m] \in Nat /\ epoch'[m] \in Nat
    BY <1>1
  <2> QED BY <2>1, <2>2, <2>3, <2>4 DEF Issued
\* The event in hand and what was read for it stay, or what is read is installed.
<1>4. ASSUME NEW i \in DOMAIN outbox, NEW e \in Nat, relay'.at = i, relay'.epoch = e,
             Issued(e, outbox[i].mount)
      PROVE  RelayEpochIssued'
  BY <1>3, <1>4 DEF RelayEpochIssued, Issued, Handled
<1>5. CASE relay'.pc = "poll"
  BY <1>5 DEF RelayEpochIssued
<1>6. ASSUME NEW i \in DOMAIN outbox, TakeMounted(i) \/ TakeUnmounted(i)
      PROVE  RelayEpochIssued'
  BY <1>4, <1>6 DEF TakeMounted, TakeUnmounted, Issued
<1>7. CASE ReadEpoch
  <2>1. relay.at \in DOMAIN outbox /\ relay'.at = relay.at
    BY <1>1, <1>7 DEF ReadEpoch
  <2>2. relay'.epoch = 1 \/ relay'.epoch = epoch[Handled.mount]
    BY <1>1, <1>7 DEF ReadEpoch
  <2>3. relay'.epoch \in Nat /\ Issued(relay'.epoch, outbox[relay.at].mount)
    BY <1>1, <1>2, <2>1, <2>2 DEF Issued, Handled
  <2> QED BY <1>4, <2>1, <2>3
<1>8. CASE Dispatch \/ RelayDeletes \/ relay' = relay
  <2>1. relay'.at = relay.at /\ relay'.epoch = relay.epoch
    BY <1>1, <1>8 DEF Dispatch, RelayDeletes, RelayGoto
  <2>2. relay.epoch \in Nat /\ (relay.pc = "poll" => relay'.pc = "poll")
    BY <1>1, <1>8 DEF Dispatch, RelayDeletes
  <2>3. relay.pc # "poll" =>
          relay.at \in DOMAIN outbox /\ Issued(relay.epoch, outbox[relay.at].mount)
    BY <1>1 DEF RelayEpochIssued, Handled
  <2> QED BY <1>4, <1>5, <2>1, <2>2, <2>3
<1>9. CASE MarkSent \/ DispatchFails \/ RelayCrash
  BY <1>5, <1>9 DEF MarkSent, DispatchFails, RelayCrash, RelayPoll
<1>10. CASE ~RelayStep
  <2>1. relay' = relay
    BY <1>10 DEF Next, ApiStep, WorkerStep, StampStep, SweepStep, vars
  <2> QED BY <1>8, <2>1
<1> QED
  BY <1>6, <1>7, <1>8, <1>9, <1>10 DEF RelayStep, RelayWorks, RelayFails

LEMMA JobEpochStep ==
    ASSUME "unmount" \notin Ops, KeptInv, JobEpochIssued, RelayEpochIssued, [Next]_vars
    PROVE  JobEpochIssued'
<1> SUFFICES ASSUME NEW j \in Jobs
             PROVE  job'[j].epoch <= 1 \/ job'[j].epoch <= epoch'[job'[j].mount]
  BY DEF JobEpochIssued
<1>1. /\ job \in [Jobs -> JobRecords] /\ job[j] \in JobRecords
      /\ job[j].mount \in Mounts /\ job[j].epoch \in Nat
      /\ epoch \in [Mounts -> Nat] /\ epoch' \in [Mounts -> Nat]
  BY TypeStep DEF KeptInv, TypeOK, TablesTypeOK, JobRecords
<1>2. CASE job'[j].mount = job[j].mount /\ job'[j].epoch = job[j].epoch
  BY <1>1, <1>2, EpochsGrow DEF JobEpochIssued
<1>3. CASE WorkerStep
  <2>1. PICK i \in Jobs : JobWorks(i) \/ JobFails(i)
    BY <1>3 DEF WorkerStep
  <2>2. CASE EndJob(j)
    BY <1>1, <2>2 DEF EndJob, JobDone, NoJob
  <2> QED BY <1>1, <1>2, <2>1, <2>2, JobAlone
<1>4. CASE Dispatch
  <2>1. PICK i \in Jobs :
          job' = [job EXCEPT ![i] = [pc |-> "ready", mount |-> Handled.mount,
                                     epoch |-> relay.epoch, retries |-> 0, config |-> 1]]
    BY <1>4 DEF Dispatch
  <2>2. CASE i # j
    BY <1>1, <1>2, <2>1, <2>2
  <2>3. CASE i = j
    <3>1. job'[j].mount = Handled.mount /\ job'[j].epoch = relay.epoch
      BY <1>1, <2>1, <2>3
    <3>2. Issued(relay.epoch, Handled.mount) /\ epoch' = epoch
      BY <1>4 DEF RelayEpochIssued, Dispatch, rowVars
    <3> QED BY <3>1, <3>2 DEF Issued
  <2> QED BY <2>2, <2>3
<1>5. CASE ~WorkerStep /\ ~Dispatch
  <2>1. job' = job
    BY <1>5, JobsElsewhere DEF Next
  <2> QED BY <1>2, <2>1
<1> QED BY <1>3, <1>4, <1>5

LEMMA EpochStep == EpochInv /\ [Next]_vars => EpochInv'
  BY KeptStep, RelayEpochStep, JobEpochStep DEF EpochInv

\* Where nothing is removed, no message carries an epoch that the API did not install (the
\* relay reads the epoch on a connection of its own, between the API's two writes).
THEOREM EpochsAreIssued ==
    ASSUME "unmount" \notin Ops
    PROVE  Spec => []JobEpochIssued
<1>1. EpochInv => JobEpochIssued
  BY DEF EpochInv
<1> QED BY <1>1, EpochInit, EpochStep, PTL DEF Spec

-----------------------------------------------------------------------------
(***************************************************************************)
(* A completed document has chunks.  A task past its fences has the row of *)
(* the mount the slot has, so that every task that cleans the slot is one  *)
(* that will write for the same mount.                                     *)
(***************************************************************************)
PastFences(j) ==
    job[j].pc \in {"clean", "configure", "write", "fence3", "submit", "complete"}

RowsPastFences ==
    \A j \in Jobs : job[j].pc # "purge" /\ (PastFences(j) => RowExists(job[j].mount))

Indexed(m) ==
    \/ \E c \in chunks : c.mount = m
    \/ \E j \in Jobs : job[j].mount = m /\ job[j].pc \in {"configure", "write"}

\* A task that has written, and a mount that is completed, have chunks.
WrittenIsIndexed ==
    /\ \A j \in Jobs : job[j].pc \in {"fence3", "submit", "complete"} => Indexed(job[j].mount)
    /\ \A m \in Mounts : status[m] = "completed" => Indexed(m)

IndexInv ==
    /\ KeptInv /\ MountInv
    /\ "unmount" \notin Ops => RowsPastFences /\ (NoFault => WrittenIsIndexed)

LEMMA IndexInit == Init => IndexInv
<1> SUFFICES ASSUME Init PROVE IndexInv
  OBVIOUS
<1>1. (\A j \in Jobs : job[j].pc = "unused") /\ (\A m \in Mounts : status[m] = "none")
  BY DEF Init, TablesInit, NoJob
<1> QED BY <1>1, KeptInit, InitMount DEF IndexInv, RowsPastFences, PastFences, WrittenIsIndexed

\* Nobody passes the second fence without a row, and rows stay.
LEMMA RowsPastFencesStep ==
    ASSUME "unmount" \notin Ops, KeptInv, RowsPastFences, [Next]_vars
    PROVE  RowsPastFences'
<1> SUFFICES ASSUME NEW j \in Jobs
             PROVE  /\ job'[j].pc # "purge"
                    /\ job'[j].pc \in {"clean", "configure", "write", "fence3", "submit",
                                       "complete"}
                         => status'[job'[j].mount] # "none"
  BY DEF RowsPastFences, PastFences, RowExists
<1>1. job \in [Jobs -> JobRecords] /\ job[j] \in JobRecords /\ job[j].mount \in Mounts
  BY DEF KeptInv, TypeOK, TablesTypeOK, JobRecords
<1>2. RowExists(job[j].mount) /\ job'[j].mount = job[j].mount
        => status'[job'[j].mount] # "none"
  BY <1>1, EpochsGrow DEF RowExists
<1>3. CASE job'[j] = job[j]
  BY <1>2, <1>3 DEF RowsPastFences, PastFences
<1>4. CASE WorkerStep /\ job'[j] # job[j]
  <2>1. JobWorks(j) \/ JobFails(j)
    BY <1>1, <1>4, JobAlone DEF WorkerStep
  <2>2. job'[j].pc # "done" => job'[j].mount = job[j].mount
    BY <1>1, <2>1, JobAlone
  <2>3. CASE Fence(j)
    <3>1. AbortReason(j) = "go" => RowExists(job[j].mount)
      BY DEF AbortReason
    <3>2. \/ job'[j].pc \in {"done", "fence2"}
          \/ job'[j].pc = "clean" /\ AbortReason(j) = "go"
      BY <1>1, <2>3, JobPcOf DEF Fence
    <3> QED BY <1>2, <2>2, <3>1, <3>2
  <2>4. CASE WriteFence(j)
    <3>1. RowExists(job[j].mount)
      BY <2>4 DEF WriteFence, RowsPastFences, PastFences
    <3>2. AbortReason(j) # "removed"
      BY <3>1 DEF AbortReason
    <3>3. job'[j].pc \in {"done", "submit"}
      BY <1>1, <2>4, <3>2, JobPcOf DEF WriteFence
    <3> QED BY <1>2, <2>2, <3>1, <3>3
  <2>5. CASE StartJob(j) \/ AckJob(j) \/ TaskRaises(j) \/ WorkerLost(j)
    <3>1. job'[j].pc \in {"fence1", "done", "countdown", "ready"}
      BY <1>1, <2>5, JobPcOf DEF StartJob, AckJob
    <3> QED BY <3>1
  <2>6. CASE CleanSlot(j) \/ ReadConfiguration(j)
    <3>1. job'[j].pc \in {"configure", "write"} /\ RowExists(job[j].mount)
      <4>1. CASE CleanSlot(j)
        BY <1>1, <4>1, JobPcOf DEF CleanSlot, RowsPastFences, PastFences
      <4>2. CASE ReadConfiguration(j)
        <5>1. PICK k : job' = [job EXCEPT ![j].pc = "write", ![j].config = k]
          BY <4>2 DEF ReadConfiguration
        <5>2. job'[j].pc = "write"
          BY <1>1, <5>1 DEF JobRecords
        <5> QED BY <4>2, <5>2 DEF ReadConfiguration, RowsPastFences, PastFences
      <4> QED BY <2>6, <4>1, <4>2
    <3> QED BY <1>2, <2>2, <3>1
  <2>7. CASE WriteChunks(j) \/ SubmitStamp(j) \/ CompleteJob(j)
    <3>1. job'[j].pc \in {"fence3", "complete", "ack"} /\ RowExists(job[j].mount)
      BY <1>1, <2>7, JobPcOf DEF WriteChunks, SubmitStamp, CompleteJob, RowsPastFences,
                                 PastFences
    <3> QED BY <1>2, <2>2, <3>1
  <2>8. CASE PurgeRemoved(j)
    BY <2>8 DEF PurgeRemoved, RowsPastFences
  <2> QED
    BY <2>1, <2>3, <2>4, <2>5, <2>6, <2>7, <2>8 DEF JobWorks, JobFails
<1>5. CASE Dispatch
  <2>1. PICK i \in Jobs :
          job' = [job EXCEPT ![i] = [pc |-> "ready", mount |-> Handled.mount,
                                     epoch |-> relay.epoch, retries |-> 0, config |-> 1]]
    BY <1>5 DEF Dispatch
  <2>2. job'[j] = job[j] \/ job'[j].pc = "ready"
    BY <1>1, <2>1
  <2> QED BY <1>3, <2>2
<1>6. CASE ~WorkerStep /\ ~Dispatch
  BY <1>3, <1>6, JobsElsewhere DEF Next
<1> QED BY <1>3, <1>4, <1>5, <1>6

\* Who has passed the fences, or is completed, has the mount of the slot.
LEMMA OneMount ==
    ASSUME MountInv, RowsPastFences
    PROVE  /\ \A j \in Jobs : PastFences(j) => job[j].mount = mount
           /\ \A m \in Mounts : status[m] = "completed" => m = mount
<1>1. \A j \in Jobs : job[j].mount \in Mounts
  BY DEF MountInv, TypeOK, TablesTypeOK, JobRecords
<1> QED BY <1>1 DEF MountInv, RowHasMount, RowsPastFences, RowExists

\* What was indexed stays so: who deletes the chunks of the slot is about to write it.
LEMMA IndexedStays ==
    ASSUME "unmount" \notin Ops, IndexInv, [Next]_vars, NoFault',
           NEW m \in Mounts, m = mount, Indexed(m)
    PROVE  Indexed(m)'
<1>1. /\ job \in [Jobs -> JobRecords] /\ NothingRemoved /\ RowsPastFences /\ MountInv
      /\ faults \in Nat
  BY DEF IndexInv, KeptInv, TypeOK, TablesTypeOK
<1>2. ASSUME NEW kind, Fault(kind) PROVE FALSE
  BY <1>1, <1>2 DEF Fault, NoFault
<1>3. ASSUME NEW j \in Jobs, JobWorks(j) \/ JobFails(j) PROVE Indexed(m)'
  <2>1. \A i \in Jobs : i # j => job'[i] = job[i]
    BY <1>1, <1>3, JobAlone
  <2>2. CASE CleanSlot(j) \/ ReadConfiguration(j)
    <3>1. job[j].mount = m
      BY <1>1, <2>2, OneMount DEF CleanSlot, ReadConfiguration, PastFences
    <3>2. job'[j].mount = m /\ job'[j].pc \in {"configure", "write"}
      BY <1>1, <2>2, <3>1, JobPcOf, JobAlone
         DEF CleanSlot, ReadConfiguration, JobWorks, JobRecords
    <3> QED BY <3>2 DEF Indexed
  <2>3. CASE WriteChunks(j)
    <3>1. chunks \subseteq chunks'
          /\ [mount |-> job[j].mount, config |-> job[j].config] \in chunks'
      BY <2>3 DEF WriteChunks
    <3>2. [mount |-> job[j].mount, config |-> job[j].config].mount = job[j].mount
      OBVIOUS
    <3> HIDE <2>3
    <3>3. CASE job[j].mount = m
      BY <3>1, <3>2, <3>3 DEF Indexed
    <3>4. CASE job[j].mount # m
      BY <2>1, <3>1, <3>4 DEF Indexed
    <3> QED BY <3>3, <3>4
  <2>4. CASE PurgeRemoved(j) \/ TaskRaises(j) \/ WorkerLost(j)
    BY <1>1, <1>2, <2>4 DEF PurgeRemoved, RowsPastFences, TaskRaises, WorkerLost
  <2>5. CASE StartJob(j) \/ Fence(j) \/ WriteFence(j) \/ SubmitStamp(j) \/ CompleteJob(j)
             \/ AckJob(j)
    <3>1. chunks' = chunks /\ job[j].pc \notin {"configure", "write"}
      BY <2>5 DEF StartJob, Fence, WriteFence, SubmitStamp, CompleteJob, AckJob, chunkVars
    <3> QED BY <2>1, <3>1 DEF Indexed
  <2> QED
    BY <1>3, <2>2, <2>3, <2>4, <2>5 DEF JobWorks, JobFails
<1>4. CASE ~WorkerStep
  <2>1. job' = job \/ Dispatch
    BY <1>4, JobsElsewhere DEF Next
  <2>2. chunks \subseteq chunks'
    BY <1>1, <1>2, <1>4 DEF NothingRemoved, RemovalPcs, Next,
       ApiStep, BeginRequest, BeginTriggerParse, BeginBatchParse, BeginUpload, BeginUnmount,
       ContinueRequest, TriggerParseEvent, TriggerParseRow, UploadLink, UploadInsert,
       UploadDedupe, UploadRow, UploadEvent, UnmountRead, UnmountRow, UnmountMount,
       UnmountEvent, CleanupCancel, CleanupDelete, CleanupRemoved, ApiCrash,
       UpdateChunkingConfig, RelayStep, RelayWorks, RelayFails, TakeMounted, TakeUnmounted,
       ReadEpoch, Dispatch, DispatchFails, RelayDeletes, MarkSent, RelayCrash, StampStep,
       StampWorks, StampFails, TakeStamp, QueryRows, UpsertRows, SweepStep, SelectStale,
       MarkStale, vars, chunkVars
  <2>3. \A j \in Jobs : job[j].pc \in {"configure", "write"} => job'[j] = job[j]
    BY <1>1, <2>1 DEF Dispatch, NextJob
  <2> QED BY <2>2, <2>3 DEF Indexed
<1> QED BY <1>3, <1>4 DEF WorkerStep

\* Faults are not forgotten.
LEMMA FaultsGrow == ASSUME faults \in Nat, [Next]_vars, NoFault' PROVE NoFault
<1>1. CASE NoFaults \/ \E kind : Fault(kind)
  BY <1>1 DEF NoFault, NoFaults, Fault
<1>2. ApiStep => NoFaults \/ \E kind : Fault(kind)
  BY DEF ApiStep, BeginRequest, BeginTriggerParse, BeginBatchParse, BeginUpload, BeginUnmount,
     ContinueRequest, TriggerParseEvent, TriggerParseRow, UploadLink, UploadInsert,
     UploadDedupe, UploadRow, UploadEvent, UnmountRead, UnmountRow, UnmountMount, UnmountEvent,
     CleanupCancel, CleanupDelete, CleanupRemoved, ApiCrash, UpdateChunkingConfig
<1>3. RelayStep \/ WorkerStep => NoFaults \/ \E kind : Fault(kind)
  BY DEF RelayStep, RelayWorks, RelayFails, TakeMounted, TakeUnmounted, ReadEpoch, Dispatch,
     DispatchFails, RelayDeletes, MarkSent, RelayCrash, WorkerStep, JobWorks, JobFails,
     StartJob, Fence, CleanSlot, ReadConfiguration, WriteChunks, WriteFence, PurgeRemoved,
     SubmitStamp, CompleteJob, AckJob, TaskRaises, WorkerLost
<1>4. StampStep \/ SweepStep \/ UNCHANGED vars => NoFaults \/ \E kind : Fault(kind)
  BY DEF StampStep, StampWorks, StampFails, TakeStamp, QueryRows, UpsertRows, SweepStep,
     SelectStale, MarkStale, vars, NoFaults
<1> QED BY <1>1, <1>2, <1>3, <1>4 DEF Next

\* Only the last step of a task makes a mount completed.
LEMMA CompletedBy ==
    ASSUME TypeOK, [Next]_vars, NEW m \in Mounts, status'[m] = "completed"
    PROVE  \/ status[m] = "completed"
           \/ WorkerStep /\ \E j \in Jobs : CompleteJob(j) /\ job[j].mount = m
<1>1. status \in [Mounts -> ParseStatus] /\ job \in [Jobs -> JobRecords]
  BY DEF TypeOK, TablesTypeOK
<1>2. CASE status' = status
  BY <1>2
<1>3. ASSUME NEW k, NEW s, s # "completed", status' = [status EXCEPT ![k] = s]
      PROVE  status[m] = "completed"
  BY <1>1, <1>3
<1>4. ASSUME NEW k, NEW s, s # "completed", SetStatus(k, s) \/ UpsertQueued(k) \/ DeleteRow(k)
      PROVE  status[m] = "completed"
  BY <1>2, <1>3, <1>4 DEF SetStatus, UpsertQueued, DeleteRow
<1>5. CASE ApiStep
  <2>1. \/ status' = status
        \/ \E k : \/ SetStatus(k, "cancelling") \/ SetStatus(k, "removed")
                  \/ UpsertQueued(k) \/ DeleteRow(k)
    BY <1>5 DEF ApiStep, BeginRequest, BeginTriggerParse, BeginBatchParse, BeginUpload,
                BeginUnmount, ContinueRequest, TriggerParseEvent, TriggerParseRow, UploadLink,
                UploadInsert, UploadDedupe, UploadRow, UploadEvent, UnmountRead, UnmountRow,
                UnmountMount, UnmountEvent, CleanupCancel, CleanupDelete, CleanupRemoved,
                ApiCrash, UpdateChunkingConfig, rowVars
  <2> QED BY <1>2, <1>4, <2>1
<1>6. CASE WorkerStep
  <2>1. PICK j \in Jobs : JobWorks(j) \/ JobFails(j)
    BY <1>6 DEF WorkerStep
  <2>2. CASE ~CompleteJob(j)
    <3>1. \/ status' = status
          \/ \E k : SetStatus(k, "processing") \/ SetStatus(k, "failed")
      BY <2>1, <2>2 DEF JobWorks, JobFails, StartJob, Fence, CleanSlot, ReadConfiguration,
                        WriteChunks, WriteFence, PurgeRemoved, SubmitStamp, AckJob,
                        TaskRaises, WorkerLost,
                  rowVars
    <3> QED BY <1>2, <1>4, <3>1
  <2>3. CASE CompleteJob(j) /\ job[j].mount # m
    BY <1>1, <1>2, <2>3 DEF CompleteJob, SetStatus
  <2> QED BY <1>6, <2>2, <2>3
<1>7. CASE RelayStep \/ StampStep \/ SweepStep \/ UNCHANGED vars
  <2>1. status' = status \/ \E k : status' = [status EXCEPT ![k] = "failed"]
    BY <1>7 DEF RelayStep, RelayWorks, RelayFails, TakeMounted, TakeUnmounted, ReadEpoch,
       Dispatch, DispatchFails, RelayDeletes, MarkSent, RelayCrash, StampStep, StampWorks,
       StampFails, TakeStamp, QueryRows, UpsertRows, SweepStep, SelectStale, MarkStale, vars,
       rowVars
  <2> QED BY <1>2, <1>3, <2>1
<1> QED BY <1>5, <1>6, <1>7 DEF Next

LEMMA WrittenStep ==
    ASSUME "unmount" \notin Ops, IndexInv, WrittenIsIndexed, [Next]_vars, NoFault',
           MountInv', RowsPastFences'
    PROVE  WrittenIsIndexed'
<1>1. /\ job \in [Jobs -> JobRecords] /\ job' \in [Jobs -> JobRecords]
      /\ RowsPastFences /\ MountInv /\ TypeOK
  BY DEF IndexInv, KeptInv, MountInv, TypeOK, TablesTypeOK
<1>2. \A j \in Jobs : job[j].mount \in Mounts /\ job'[j].mount \in Mounts
  BY <1>1 DEF JobRecords
\* A task that has written has the mount of the slot, which is indexed and stays so.
<1>3. ASSUME NEW j \in Jobs, NEW m \in Mounts, m = job[j].mount,
             job[j].pc \in {"fence3", "submit", "complete"}
      PROVE  Indexed(m)'
  <2>1. m = mount /\ Indexed(m)
    BY <1>1, <1>3, OneMount DEF PastFences, WrittenIsIndexed
  <2> QED BY <2>1, IndexedStays
<1>4. ASSUME NEW j \in Jobs, NEW m \in Mounts, m = job'[j].mount,
             job'[j].pc \in {"fence3", "submit", "complete"}
      PROVE  Indexed(m)'
  <2>1. CASE job'[j] = job[j]
    BY <1>3, <1>4, <2>1
  <2>2. CASE WorkerStep /\ job'[j] # job[j]
    <3>1. JobWorks(j) \/ JobFails(j)
      BY <1>1, <2>2, JobAlone DEF WorkerStep
    <3>2. job'[j].mount = job[j].mount
      BY <1>1, <1>4, <3>1, JobAlone
    <3>3. CASE WriteChunks(j)
      <4>1. [mount |-> job[j].mount, config |-> job[j].config] \in chunks'
        BY <3>3 DEF WriteChunks
      <4>2. [mount |-> job[j].mount, config |-> job[j].config].mount = m
        BY <1>4, <3>2
      <4> QED BY <4>1, <4>2 DEF Indexed
    <3>4. CASE ~WriteChunks(j)
      <4>1. job[j].pc \in {"fence3", "submit", "complete"}
        <5>1. CASE Fence(j) \/ StartJob(j) \/ AckJob(j) \/ TaskRaises(j) \/ WorkerLost(j)
                   \/ PurgeRemoved(j) \/ CompleteJob(j)
          <6>1. job'[j].pc \in {"fence1", "fence2", "clean", "done", "countdown", "ready", "ack"}
            BY <1>1, <5>1, JobPcOf DEF Fence, StartJob, AckJob, PurgeRemoved, CompleteJob
          <6> QED BY <1>4, <6>1
        <5>2. CASE CleanSlot(j) \/ ReadConfiguration(j)
          <6>1. job'[j].pc \in {"configure", "write"}
            BY <1>1, <5>2, JobPcOf DEF CleanSlot, ReadConfiguration, JobRecords
          <6> QED BY <1>4, <6>1
        <5>3. CASE WriteFence(j) \/ SubmitStamp(j)
          BY <5>3 DEF WriteFence, SubmitStamp
        <5> QED BY <3>1, <3>4, <5>1, <5>2, <5>3 DEF JobWorks, JobFails
      <4> QED BY <1>3, <1>4, <3>2, <4>1
    <3> QED BY <3>3, <3>4
  <2>3. CASE Dispatch
    <3>1. PICK i \in Jobs :
            job' = [job EXCEPT ![i] = [pc |-> "ready", mount |-> Handled.mount,
                                       epoch |-> relay.epoch, retries |-> 0, config |-> 1]]
      BY <2>3 DEF Dispatch
    <3>2. job'[j] = job[j] \/ job'[j].pc = "ready"
      BY <1>1, <3>1
    <3> QED BY <1>4, <2>1, <3>2
  <2>4. CASE ~WorkerStep /\ ~Dispatch
    BY <2>1, <2>4, JobsElsewhere DEF Next
  <2> QED BY <2>1, <2>2, <2>3, <2>4
<1>5. ASSUME NEW m \in Mounts, status'[m] = "completed"
      PROVE  Indexed(m)'
  <2>1. CASE status[m] = "completed"
    <3>1. m = mount /\ Indexed(m)
      BY <1>1, <2>1, OneMount DEF WrittenIsIndexed
    <3> QED BY <3>1, IndexedStays
  <2>2. CASE \E j \in Jobs : CompleteJob(j) /\ job[j].mount = m
    <3>1. PICK j \in Jobs : CompleteJob(j) /\ job[j].mount = m
      BY <2>2
    <3>2. job[j].pc = "complete"
      BY <3>1 DEF CompleteJob
    <3> QED BY <1>3, <3>1, <3>2
  <2> QED BY <1>1, <1>5, <2>1, <2>2, CompletedBy
<1>6. \A j \in Jobs : job'[j].pc \in {"fence3", "submit", "complete"}
        => \E m \in Mounts : m = job'[j].mount /\ Indexed(m)'
  BY <1>2, <1>4
<1> QED BY <1>5, <1>6 DEF WrittenIsIndexed, Indexed

LEMMA MountStep == MountInv /\ [Next]_vars => MountInv'
  BY ApiMount, RelayMount, WorkerMount, StampSweepMount, StutterMount DEF Next

LEMMA IndexStep == IndexInv /\ [Next]_vars => IndexInv'
<1> SUFFICES ASSUME IndexInv, [Next]_vars PROVE IndexInv'
  OBVIOUS
<1>1. KeptInv' /\ MountInv'
  BY KeptStep, MountStep DEF IndexInv
<1>2. ASSUME "unmount" \notin Ops PROVE RowsPastFences'
  BY <1>2, RowsPastFencesStep DEF IndexInv
<1>3. ASSUME "unmount" \notin Ops, NoFault' PROVE WrittenIsIndexed'
  <2>1. NoFault
    BY <1>3, FaultsGrow DEF IndexInv, KeptInv, TypeOK, TablesTypeOK
  <2> QED BY <1>1, <1>2, <1>3, <2>1, WrittenStep DEF IndexInv
<1> QED BY <1>1, <1>2, <1>3 DEF IndexInv

\* While nothing fails and nothing is removed, a document that says it is completed has
\* chunks, or a task that just cleaned the slot is about to write it, however many parses
\* overlap ('completed' is written without a look at the epoch).
THEOREM CompletedHasChunks == Spec => []CompletedIsIndexed
<1>1. IndexInv => CompletedIsIndexed
  BY DEF IndexInv, CompletedIsIndexed, WrittenIsIndexed, Indexed
<1> QED BY <1>1, IndexInit, IndexStep, PTL DEF Spec

-----------------------------------------------------------------------------
(***************************************************************************)
(* A completed document has the chunks of one parse, where calls are made  *)
(* one at a time.  A call begins when nothing is in progress, so that it   *)
(* leads to one event and one task at most, and each of them is worked on  *)
(* while the ones before it are over.                                      *)
(***************************************************************************)
Serial == ~Overlap /\ FaultKinds \cap {"relay", "database", "milvus"} = {}

Busy(r)    == req[r].pc \notin {"idle", "done"}
Pending(i) == i \in DOMAIN outbox /\ outbox[i].state = "pending"
Live(j)    == job[j].pc \notin {"unused", "done"}

\* The steps of a call that come after its event.
AfterEvent == {"parseRow", "cleanupCancel", "cleanupDelete", "cleanupRemoved"}

OneCall  == \A r, q \in Requests : Busy(r) /\ Busy(q) => r = q
OneEvent == \A i, k \in DOMAIN outbox : Pending(i) /\ Pending(k) => i = k
OneTask  == \A i, j \in Jobs : Live(i) /\ Live(j) => i = j

\* A call that has not published its event is alone.
CallFirst ==
    \A r \in Requests : Busy(r) /\ req[r].pc \notin AfterEvent =>
        /\ \A i \in DOMAIN outbox : ~Pending(i)
        /\ \A j \in Jobs : ~Live(j)

\* An event that has led to a task is only waiting to be marked.
EventFirst ==
    /\ relay.pc # "poll" => Pending(relay.at)
    /\ \A i \in DOMAIN outbox, j \in Jobs : Pending(i) /\ Live(j) => relay.pc = "mark"

\* What is in progress is about the mount that the slot has, and a removal publishes its
\* event, and cleans, when there is none.
EventFits(i) ==
    IF outbox[i].kind = "DocumentMounted" THEN outbox[i].mount = mount ELSE mount = 0

CallsFit ==
    \A r \in Requests :
        /\ req[r].pc \in CleanupPcs => mount = 0
        /\ req[r].pc \in {"parseEvent", "dedupe", "uploadRow", "uploadEvent"} =>
             req[r].mount = mount

WorkFits ==
    /\ \A i \in DOMAIN outbox : Pending(i) => EventFits(i)
    /\ relay.pc \in {"epoch", "dispatch"} => outbox[relay.at].kind = "DocumentMounted"
    /\ relay.pc = "cleanup" => outbox[relay.at].kind = "DocumentUnmounted"
    /\ \A j \in Jobs : Live(j) => job[j].mount = mount

\* A stamping task knows of the link; an upload links when none is in progress.
StamperKnows ==
    /\ stamper.pc # "idle" => StampOn /\ (linked => stamper.link)
    /\ \A r \in Requests : req[r].pc = "link" /\ StampOn =>
          stamper.pc = "idle" /\ stampQueue = 0

TurnsInv == OneCall /\ OneEvent /\ OneTask /\ CallFirst /\ EventFirst

\* The rows that were not put back after their deletion.
Kept == chunks \ revived

\* They are stamped, or will be.
StampsFit ==
    \/ ~linked
    \/ Kept \subseteq stamped
    \/ stampQueue > 0
    \/ stamper.pc = "query"
    \/ stamper.pc = "upsert" /\ Kept \subseteq stamper.rows

\* What a task has done to the slot, by its step.
TasksFit ==
    \A j \in Jobs :
        /\ job[j].pc \notin {"unused", "ready", "ack", "done"} =>
             \A m \in Mounts : status[m] # "completed"
        /\ job[j].pc \in {"configure", "write"} => Kept = {}
        /\ job[j].pc \in {"fence3", "submit", "complete"} =>
             Kept = {[mount |-> job[j].mount, config |-> job[j].config]}
        /\ job[j].pc = "complete" => StampsFit

\* And with it a completed mount.
CompletedFits ==
    \A m \in Mounts : status[m] = "completed" =>
        /\ \E k \in Configs : Kept = {[mount |-> m, config |-> k]}
        /\ StampsFit

SerialInv ==
    /\ MountInv
    /\ Serial => /\ TurnsInv /\ CallsFit /\ WorkFits /\ StamperKnows
                 /\ TasksFit /\ CompletedFits /\ twice = {}

\* A call goes on, and nothing else happens.
LEMMA CallGoesOn ==
    ASSUME TurnsInv, NEW r \in Requests, Busy(r),
           \A q \in Requests : q # r => req'[q] = req[q],
           Busy(r)' /\ req'[r].pc \notin AfterEvent => req[r].pc \notin AfterEvent,
           UNCHANGED <<outbox, job, relay>>
    PROVE  TurnsInv'
<1>1. \A q \in Requests : Busy(q)' => Busy(q)
  BY DEF Busy
<1>2. (\A i : Pending(i)' <=> Pending(i)) /\ (\A j : Live(j)' <=> Live(j))
  BY DEF Pending, Live
<1>3. OneCall' /\ OneEvent' /\ OneTask' /\ EventFirst'
  BY <1>1, <1>2 DEF TurnsInv, OneCall, OneEvent, OneTask, EventFirst
<1>4. \A q \in Requests : Busy(q)' /\ req'[q].pc \notin AfterEvent
                            => Busy(q) /\ req[q].pc \notin AfterEvent
  BY <1>1
<1>5. CallFirst'
  BY <1>2, <1>4 DEF TurnsInv, CallFirst
<1> QED BY <1>3, <1>5 DEF TurnsInv

\* A call publishes its event.
LEMMA CallPublishes ==
    ASSUME TypeOK, TurnsInv, NEW r \in Requests, Busy(r), req[r].pc \notin AfterEvent,
           \A q \in Requests : q # r => req'[q] = req[q],
           Busy(r)' => req'[r].pc \in AfterEvent,
           NEW kind, NEW m, Publish(kind, m), UNCHANGED <<job, relay>>
    PROVE  TurnsInv'
<1>1. outbox \in Seq(Events) /\ (\A i \in DOMAIN outbox : ~Pending(i)) /\ relay.pc = "poll"
  BY DEF TypeOK, TablesTypeOK, TurnsInv, CallFirst, EventFirst, Pending
<1>2. \A i \in DOMAIN outbox' : Pending(i)' => i = Len(outbox) + 1
  BY <1>1 DEF Publish, Pending
<1>3. \A q \in Requests : Busy(q)' => q = r
  BY DEF TurnsInv, OneCall, Busy
<1>4. \A j \in Jobs : ~Live(j) /\ ~Live(j)'
  BY DEF TurnsInv, CallFirst, Live
<1> QED BY <1>1, <1>2, <1>3, <1>4
        DEF TurnsInv, OneCall, OneEvent, OneTask, CallFirst, EventFirst

\* A call begins.
LEMMA CallBegins ==
    ASSUME Quiet, NEW r \in Requests, \A q \in Requests : q # r => req'[q] = req[q],
           UNCHANGED <<outbox, job, relay>>
    PROVE  TurnsInv'
<1>1. \A q \in Requests : Busy(q)' => q = r
  BY DEF Quiet, Busy
<1>2. /\ (\A i \in DOMAIN outbox' : ~Pending(i)') /\ (\A j \in Jobs : ~Live(j)')
      /\ relay'.pc = "poll"
  BY DEF Quiet, Pending, Live
<1> QED BY <1>1, <1>2 DEF TurnsInv, OneCall, OneEvent, OneTask, CallFirst, EventFirst

LEMMA ApiTurns ==
    ASSUME TypeOK, Serial, TurnsInv, ApiStep
    PROVE  TurnsInv'
<1>1. req \in [Requests -> ReqRecords] /\ UNCHANGED <<relay, job>>
  BY DEF TypeOK, RequestsTypeOK, ApiStep, BeginRequest, BeginTriggerParse, BeginBatchParse,
         BeginUpload, BeginUnmount, ContinueRequest, TriggerParseEvent, TriggerParseRow,
         UploadLink, UploadInsert, UploadDedupe, UploadRow, UploadEvent, UnmountRead,
         UnmountRow, UnmountMount, UnmountEvent, CleanupCancel, CleanupDelete, CleanupRemoved,
         ApiCrash, UpdateChunkingConfig
<1>2. ASSUME NEW r \in Requests, NEW pc, Goto(r, pc) \/ \E m : Hold(r, pc, m)
      PROVE  req'[r].pc = pc /\ \A q \in Requests : q # r => req'[q] = req[q]
  BY <1>1, <1>2 DEF Goto, Hold, ReqRecords
<1>3. ASSUME NEW r \in Requests, Quiet, BeginRequest(r)
      PROVE  TurnsInv'
  <2>1. outbox' = outbox /\ \E pc : Goto(r, pc) \/ \E m : Hold(r, pc, m)
    BY <1>3 DEF BeginRequest, BeginTriggerParse, BeginBatchParse, BeginUpload, BeginUnmount
  <2>2. \A q \in Requests : q # r => req'[q] = req[q]
    BY <1>2, <2>1
  <2> QED BY <1>1, <1>3, <2>1, <2>2, CallBegins
<1>4. ASSUME NEW r \in Requests, TriggerParseEvent(r) \/ UploadEvent(r) \/ UnmountEvent(r)
      PROVE  TurnsInv'
  <2>1. /\ req[r].pc \in {"parseEvent", "uploadEvent", "unmountEvent"}
        /\ \E kind, m : Publish(kind, m)
        /\ Goto(r, "parseRow") \/ Goto(r, "cleanupCancel") \/ Hold(r, "done", 0)
    BY <1>4 DEF TriggerParseEvent, UploadEvent, UnmountEvent, Return
  <2>2. /\ Busy(r) /\ req[r].pc \notin AfterEvent
        /\ req'[r].pc \in {"parseRow", "cleanupCancel", "done"}
        /\ \A q \in Requests : q # r => req'[q] = req[q]
    BY <1>2, <2>1 DEF Busy, AfterEvent
  <2>3. Busy(r)' => req'[r].pc \in AfterEvent
    BY <2>2 DEF Busy, AfterEvent
  <2> QED BY <1>1, <2>1, <2>2, <2>3, CallPublishes
<1>5. ASSUME NEW r \in Requests, outbox' = outbox, Busy(r), NEW pc,
             Goto(r, pc) \/ \E m : Hold(r, pc, m),
             pc = "done" \/ pc \in AfterEvent \/ req[r].pc \notin AfterEvent
      PROVE  TurnsInv'
  <2>1. req'[r].pc = pc /\ \A q \in Requests : q # r => req'[q] = req[q]
    BY <1>2, <1>5
  <2>2. Busy(r)' /\ req'[r].pc \notin AfterEvent => req[r].pc \notin AfterEvent
    BY <1>5, <2>1 DEF Busy
  <2> QED BY <1>1, <1>5, <2>1, <2>2, CallGoesOn
<1>6. ASSUME NEW r \in Requests,
             TriggerParseRow(r) \/ CleanupCancel(r) \/ CleanupDelete(r) \/ CleanupRemoved(r)
             \/ ApiCrash(r)
      PROVE  TurnsInv'
  <2>1. outbox' = outbox /\ Busy(r)
    BY <1>6 DEF TriggerParseRow, CleanupCancel, CleanupDelete, CleanupRemoved, ApiCrash, Busy
  <2>2. Goto(r, "cleanupDelete") \/ Goto(r, "cleanupRemoved") \/ Hold(r, "done", 0)
    BY <1>6 DEF TriggerParseRow, CleanupCancel, CleanupDelete, CleanupRemoved, ApiCrash, Return
  <2> QED BY <1>5, <2>1, <2>2 DEF AfterEvent
<1>7. ASSUME NEW r \in Requests,
             UploadLink(r) \/ UploadInsert(r) \/ UploadDedupe(r) \/ UploadRow(r)
             \/ UnmountRead(r) \/ UnmountRow(r) \/ UnmountMount(r)
      PROVE  TurnsInv'
  <2>1. /\ outbox' = outbox
        /\ req[r].pc \in {"link", "insert", "dedupe", "uploadRow", "unmountRead", "unmountRow",
                          "unmountMount"}
    BY <1>7 DEF UploadLink, UploadInsert, UploadDedupe, UploadRow, UnmountRead, UnmountRow,
                UnmountMount
  <2>2. Busy(r) /\ req[r].pc \notin AfterEvent
    BY <2>1 DEF Busy, AfterEvent
  <2>3. \E pc : Goto(r, pc) \/ \E m : Hold(r, pc, m)
    BY <1>7 DEF UploadLink, UploadInsert, UploadDedupe, UploadRow, UnmountRead, UnmountRow,
                UnmountMount, Return
  <2> QED BY <1>5, <2>1, <2>2, <2>3
<1>8. CASE UpdateChunkingConfig
  <2>1. UNCHANGED <<outbox, req>>
    BY <1>8 DEF UpdateChunkingConfig
  <2> QED BY <1>1, <2>1 DEF TurnsInv, OneCall, OneEvent, OneTask, CallFirst, EventFirst, Busy,
                            Pending, Live
<1> QED
  BY <1>3, <1>4, <1>6, <1>7, <1>8 DEF ApiStep, ContinueRequest, Serial

LEMMA RelayTurns ==
    ASSUME TypeOK, Serial, TurnsInv, RelayStep
    PROVE  TurnsInv'
<1>1. /\ req' = req /\ outbox \in Seq(Events) /\ job \in [Jobs -> JobRecords]
      /\ relay \in [pc : RelayPcs, at : Nat, epoch : Nat] /\ ~RelayCrash
  BY DEF TypeOK, TablesTypeOK, RelayTypeOK, RelayStep, RelayCrash, Fault, Serial, apiVars
<1>2. ASSUME NEW i \in DOMAIN outbox, TakeMounted(i) \/ TakeUnmounted(i)
      PROVE  TurnsInv'
  <2>1. /\ UNCHANGED <<outbox, job>> /\ Pending(i) /\ relay.pc = "poll"
        /\ relay'.at = i
    BY <1>2 DEF TakeMounted, TakeUnmounted, FirstPending, Pending
  <2>2. \A j \in Jobs : ~Live(j)
    BY <2>1 DEF TurnsInv, EventFirst
  <2> QED BY <1>1, <2>1, <2>2 DEF TurnsInv, OneCall, OneEvent, OneTask, CallFirst, EventFirst,
                                  Busy, Pending, Live
<1>3. CASE ReadEpoch \/ RelayDeletes
  <2>1. /\ UNCHANGED <<outbox, job>> /\ relay.pc \in {"epoch", "cleanup"} /\ relay'.at = relay.at
    BY <1>1, <1>3 DEF ReadEpoch, RelayDeletes, RelayGoto
  <2>2. Pending(relay.at) /\ \A j \in Jobs : ~Live(j)
    BY <2>1 DEF TurnsInv, EventFirst, Pending
  <2> QED BY <1>1, <2>1, <2>2 DEF TurnsInv, OneCall, OneEvent, OneTask, CallFirst, EventFirst,
                                  Busy, Pending, Live
<1>4. CASE Dispatch
  <2>1. PICK k \in Jobs : \A j \in Jobs : j # k => job'[j] = job[j]
    BY <1>1, <1>4 DEF Dispatch
  <2>2. /\ outbox' = outbox /\ relay.pc = "dispatch" /\ relay'.pc = "mark"
        /\ relay'.at = relay.at
    BY <1>1, <1>4 DEF Dispatch, RelayGoto
  <2>3. Pending(relay.at) /\ \A j \in Jobs : ~Live(j)
    BY <2>2 DEF TurnsInv, EventFirst, Pending
  <2>4. \A j \in Jobs : Live(j)' => j = k
    BY <2>1, <2>3 DEF Live
  <2>5. \A r \in Requests : Busy(r) => req[r].pc \in AfterEvent
    BY <2>3 DEF TurnsInv, CallFirst, Pending
  <2>6. (\A i : Pending(i)' <=> Pending(i)) /\ (\A r \in Requests : Busy(r)' <=> Busy(r))
    BY <1>1, <2>2 DEF Pending, Busy
  <2>7. OneCall' /\ OneEvent' /\ OneTask'
    BY <2>2, <2>4, <2>6 DEF TurnsInv, OneCall, OneEvent, OneTask
  <2>8. CallFirst' /\ EventFirst'
    BY <1>1, <2>2, <2>3, <2>5, <2>6 DEF CallFirst, EventFirst
  <2> QED BY <2>7, <2>8 DEF TurnsInv
<1>5. CASE DispatchFails \/ MarkSent
  <2>1. /\ job' = job /\ relay'.pc = "poll" /\ relay.pc # "poll"
        /\ \E s \in {"failed", "sent"} : outbox' = [outbox EXCEPT ![relay.at].state = s]
    BY <1>5 DEF DispatchFails, MarkSent, RelayPoll
  <2>2. Pending(relay.at) /\ \A i \in DOMAIN outbox : Pending(i) => i = relay.at
    BY <2>1 DEF TurnsInv, EventFirst, OneEvent, Pending
  <2>3. DOMAIN outbox' = DOMAIN outbox /\ \A i \in DOMAIN outbox' : ~Pending(i)'
    <3>1. relay.at \in DOMAIN outbox /\ outbox[relay.at] \in Events
      BY <1>1, <2>2, EventAt DEF Pending
    <3> QED BY <1>1, <2>1, <2>2, <3>1 DEF Pending, Events
  <2> QED BY <1>1, <2>1, <2>3 DEF TurnsInv, OneCall, OneEvent, OneTask, CallFirst, EventFirst,
                                  Busy, Live
<1> QED
  BY <1>1, <1>2, <1>3, <1>4, <1>5 DEF RelayStep, RelayWorks, RelayFails

\* A task in progress was there before.
LEMMA TaskAlone ==
    ASSUME job \in [Jobs -> JobRecords], NEW j \in Jobs, JobWorks(j) \/ JobFails(j)
    PROVE  /\ Live(j) /\ \A i \in Jobs : i # j => job'[i] = job[i]
           /\ Live(j)' => job'[j].mount = job[j].mount
<1>1. Live(j)
  BY DEF Live, Running, JobWorks, JobFails, StartJob, Fence, CleanSlot, ReadConfiguration,
         WriteChunks, WriteFence, PurgeRemoved, SubmitStamp, CompleteJob, AckJob, TaskRaises,
         WorkerLost
<1> QED BY <1>1, JobAlone DEF Live

LEMMA OtherTurns ==
    ASSUME TypeOK, TurnsInv, WorkerStep \/ StampStep \/ SweepStep \/ UNCHANGED vars
    PROVE  TurnsInv'
<1>1. UNCHANGED <<req, relay, outbox>>
  BY DEF WorkerStep, JobWorks, JobFails, StartJob, Fence, CleanSlot, ReadConfiguration,
         WriteChunks, WriteFence, PurgeRemoved, SubmitStamp, CompleteJob, AckJob, TaskRaises,
         WorkerLost, StampStep, StampWorks, StampFails, TakeStamp, QueryRows, UpsertRows,
         SweepStep, SelectStale, MarkStale,
     vars, apiVars
<1>2. \A j \in Jobs : Live(j)' => Live(j)
  <2>1. CASE WorkerStep
    <3>1. PICK k \in Jobs : JobWorks(k) \/ JobFails(k)
      BY <2>1 DEF WorkerStep
    <3>2. Live(k) /\ \A i \in Jobs : i # k => job'[i] = job[i]
      BY <3>1, TaskAlone DEF TypeOK, TablesTypeOK
    <3> QED BY <3>2 DEF Live
  <2>2. CASE ~WorkerStep
    <3>1. job' = job
      BY <2>2, JobsElsewhere DEF StampStep, StampWorks, StampFails, TakeStamp, QueryRows,
         UpsertRows, SweepStep, SelectStale, MarkStale, vars
    <3> QED BY <3>1 DEF Live
  <2> QED BY <2>1, <2>2
<1>3. (\A i : Pending(i)' <=> Pending(i)) /\ (\A r : Busy(r)' <=> Busy(r))
  BY <1>1 DEF Pending, Busy
<1> QED BY <1>1, <1>2, <1>3 DEF TurnsInv, OneCall, OneEvent, OneTask, CallFirst, EventFirst

LEMMA TurnsStep == TypeOK /\ Serial /\ TurnsInv /\ [Next]_vars => TurnsInv'
  BY ApiTurns, RelayTurns, OtherTurns DEF Next

\* The steps of a call: nobody else has one in progress.
LEMMA CallSteps ==
    ASSUME TypeOK, Serial, TurnsInv, ApiStep
    PROVE  \/ UpdateChunkingConfig
           \/ \E r \in Requests :
                /\ (Quiet /\ BeginRequest(r)) \/ ContinueRequest(r) \/ ApiCrash(r)
                /\ \A q \in Requests : q # r => ~Busy(q) /\ ~Busy(q)'
                /\ \A pc : Goto(r, pc) => req'[r].pc = pc /\ req'[r].mount = req[r].mount
                /\ \A pc, m : Hold(r, pc, m) => req'[r].pc = pc /\ req'[r].mount = m
<1> SUFFICES ASSUME NEW r \in Requests,
                    (Quiet /\ BeginRequest(r)) \/ ContinueRequest(r) \/ ApiCrash(r)
             PROVE  /\ \A q \in Requests : q # r => ~Busy(q) /\ ~Busy(q)'
                    /\ \A pc : Goto(r, pc) => req'[r].pc = pc /\ req'[r].mount = req[r].mount
                    /\ \A pc, m : Hold(r, pc, m) => req'[r].pc = pc /\ req'[r].mount = m
  BY DEF ApiStep, Serial
<1>1. req \in [Requests -> ReqRecords]
  BY DEF TypeOK, RequestsTypeOK
<1>2. \A pc : Goto(r, pc) => /\ req'[r].pc = pc /\ req'[r].mount = req[r].mount
                             /\ \A q \in Requests : q # r => req'[q] = req[q]
  BY <1>1 DEF Goto, ReqRecords
<1>3. \A pc, m : Hold(r, pc, m) => /\ req'[r].pc = pc /\ req'[r].mount = m
                                   /\ \A q \in Requests : q # r => req'[q] = req[q]
  BY <1>1 DEF Hold, ReqRecords
<1>4. (\E pc : Goto(r, pc)) \/ \E pc, m : Hold(r, pc, m)
  BY DEF BeginRequest, BeginTriggerParse, BeginBatchParse, BeginUpload, BeginUnmount,
         ContinueRequest, TriggerParseEvent, TriggerParseRow, UploadLink, UploadInsert,
         UploadDedupe, UploadRow, UploadEvent, UnmountRead, UnmountRow, UnmountMount,
         UnmountEvent, CleanupCancel, CleanupDelete, CleanupRemoved, ApiCrash, Return
<1>5. \A q \in Requests : q # r => ~Busy(q)
  <2>1. CASE Quiet
    BY <2>1 DEF Quiet, Busy
  <2>2. CASE ContinueRequest(r) \/ ApiCrash(r)
    <3>1. Busy(r)
      BY <2>2 DEF Busy, ContinueRequest, TriggerParseEvent, TriggerParseRow, UploadLink,
         UploadInsert, UploadDedupe, UploadRow, UploadEvent, UnmountRead, UnmountRow,
         UnmountMount, UnmountEvent, CleanupCancel, CleanupDelete, CleanupRemoved, ApiCrash
    <3> QED BY <3>1 DEF TurnsInv, OneCall
  <2> QED BY <2>1, <2>2
<1> QED BY <1>2, <1>3, <1>4, <1>5 DEF Busy

\* What a call holds is the mount that the slot has.
LEMMA CallsFitStep ==
    ASSUME TypeOK, Serial, TurnsInv, CallsFit, [Next]_vars
    PROVE  CallsFit'
<1>1. CASE ~ApiStep
  <2>1. req' = req /\ mount' = mount
    BY <1>1 DEF Next, RelayStep, RelayWorks, RelayFails, TakeMounted, TakeUnmounted, ReadEpoch,
       Dispatch, DispatchFails, RelayDeletes, MarkSent, RelayCrash, WorkerStep, JobWorks,
       JobFails, StartJob, Fence, CleanSlot, ReadConfiguration, WriteChunks, WriteFence,
       PurgeRemoved, SubmitStamp, CompleteJob, AckJob, TaskRaises, WorkerLost, StampStep,
       StampWorks, StampFails, TakeStamp, QueryRows, UpsertRows, SweepStep, SelectStale,
       MarkStale, vars, apiVars, mountVars
  <2> QED BY <2>1 DEF CallsFit
<1>2. CASE UpdateChunkingConfig
  <2>1. req' = req /\ mount' = mount
    BY <1>2 DEF UpdateChunkingConfig, mountVars
  <2> QED BY <2>1 DEF CallsFit
<1>3. ASSUME NEW r \in Requests,
             (Quiet /\ BeginRequest(r)) \/ ContinueRequest(r) \/ ApiCrash(r),
             \A q \in Requests : q # r => ~Busy(q) /\ ~Busy(q)',
             \A pc : Goto(r, pc) => req'[r].pc = pc /\ req'[r].mount = req[r].mount,
             \A pc, m : Hold(r, pc, m) => req'[r].pc = pc /\ req'[r].mount = m
      PROVE  CallsFit'
  <2>1. \A q \in Requests : q # r => req'[q].pc \in {"idle", "done"}
    BY <1>3 DEF Busy
  <2>2. SUFFICES /\ req'[r].pc \in CleanupPcs => mount' = 0
                 /\ req'[r].pc \in {"parseEvent", "dedupe", "uploadRow", "uploadEvent"} =>
                      req'[r].mount = mount'
    BY <2>1 DEF CallsFit, CleanupPcs
  <2>3. CASE BeginTriggerParse(r) \/ BeginBatchParse(r) \/ BeginUpload(r) \/ BeginUnmount(r)
    BY <1>3, <2>3 DEF BeginTriggerParse, BeginBatchParse, BeginUpload, BeginUnmount,
                      mountVars, CleanupPcs
  <2>4. CASE Return(r)
    BY <1>3, <2>4 DEF Return, CleanupPcs
  <2>5. CASE TriggerParseEvent(r) \/ UploadLink(r) \/ UnmountRead(r) \/ UnmountRow(r)
    <3>1. req'[r].pc \in {"parseRow", "insert", "unmountRow", "unmountMount"}
      BY <1>3, <2>5 DEF TriggerParseEvent, UploadLink, UnmountRead, UnmountRow
    <3> QED BY <3>1 DEF CleanupPcs
  <2>6. CASE (UploadInsert(r) \/ UnmountMount(r)) /\ ~Return(r)
    BY <1>3, <2>6 DEF UploadInsert, UnmountMount, CleanupPcs
  <2>7. CASE (UploadDedupe(r) \/ UploadRow(r)) /\ ~Return(r)
    BY <1>3, <2>7 DEF UploadDedupe, UploadRow, CallsFit, mountVars, CleanupPcs
  <2>8. CASE UnmountEvent(r) \/ CleanupCancel(r) \/ CleanupDelete(r)
    <3>1. req[r].pc \in CleanupPcs /\ mount' = mount
      BY <2>8 DEF UnmountEvent, CleanupCancel, CleanupDelete, mountVars, CleanupPcs
    <3>2. req'[r].pc \in CleanupPcs
      BY <1>3, <2>8 DEF UnmountEvent, CleanupCancel, CleanupDelete, CleanupPcs
    <3> QED BY <3>1, <3>2 DEF CallsFit, CleanupPcs
  <2>9. CASE TriggerParseRow(r) \/ UploadEvent(r) \/ CleanupRemoved(r) \/ ApiCrash(r)
    BY <2>4, <2>9 DEF TriggerParseRow, UploadEvent, CleanupRemoved, ApiCrash
  <2> QED BY <1>3, <2>3, <2>4, <2>5, <2>6, <2>7, <2>8, <2>9
          DEF BeginRequest, ContinueRequest
<1> QED BY <1>1, <1>2, <1>3, CallSteps

\* And so are the events and the tasks.
LEMMA ApiWorkFits ==
    ASSUME TypeOK, Serial, TurnsInv, CallsFit, WorkFits, ApiStep
    PROVE  WorkFits'
<1>1. UNCHANGED <<relay, job>> /\ outbox \in Seq(Events)
  BY DEF TypeOK, TablesTypeOK, ApiStep, BeginRequest, BeginTriggerParse, BeginBatchParse,
         BeginUpload, BeginUnmount, ContinueRequest, TriggerParseEvent, TriggerParseRow,
         UploadLink, UploadInsert, UploadDedupe, UploadRow, UploadEvent, UnmountRead,
         UnmountRow, UnmountMount, UnmountEvent, CleanupCancel, CleanupDelete, CleanupRemoved,
         ApiCrash, UpdateChunkingConfig
<1>2. CASE UNCHANGED <<mount, outbox>>
  BY <1>1, <1>2 DEF WorkFits, Pending, EventFits, Live
<1>3. ASSUME NEW r \in Requests, UploadInsert(r) \/ UnmountMount(r)
      PROVE  WorkFits'
  <2>1. Busy(r) /\ req[r].pc \notin AfterEvent /\ outbox' = outbox
    BY <1>3 DEF UploadInsert, UnmountMount, Busy, AfterEvent
  <2>2. relay.pc = "poll" /\ (\A i \in DOMAIN outbox : ~Pending(i)) /\ \A j \in Jobs : ~Live(j)
    BY <2>1 DEF TurnsInv, CallFirst, EventFirst, Pending
  <2> QED BY <1>1, <2>1, <2>2 DEF WorkFits, Pending, Live
<1>4. ASSUME NEW r \in Requests, TriggerParseEvent(r) \/ UploadEvent(r) \/ UnmountEvent(r)
      PROVE  WorkFits'
  <2>1. /\ mount' = mount /\ Busy(r) /\ req[r].pc \notin AfterEvent
        /\ \/ Publish("DocumentMounted", req[r].mount) /\ req[r].mount = mount
           \/ Publish("DocumentUnmounted", req[r].mount) /\ mount = 0
    BY <1>4 DEF TriggerParseEvent, UploadEvent, UnmountEvent, CallsFit, CleanupPcs, mountVars,
                Busy, AfterEvent
  <2>2. relay.pc = "poll" /\ (\A i \in DOMAIN outbox : ~Pending(i)) /\ \A j \in Jobs : ~Live(j)
    BY <2>1 DEF TurnsInv, CallFirst, EventFirst, Pending
  <2>3. \A i \in DOMAIN outbox' : Pending(i)' => EventFits(i)'
    <3>1. SUFFICES ASSUME NEW kind,
                          outbox' = Append(outbox, [kind |-> kind, mount |-> req[r].mount,
                                                    state |-> "pending"]),
                          IF kind = "DocumentMounted" THEN req[r].mount = mount ELSE mount = 0
                   PROVE  \A i \in DOMAIN outbox' : Pending(i)' => EventFits(i)'
      <4>1. ASSUME Publish("DocumentMounted", req[r].mount), req[r].mount = mount
            PROVE  \A i \in DOMAIN outbox' : Pending(i)' => EventFits(i)'
        BY <3>1, <4>1 DEF Publish
      <4>2. ASSUME Publish("DocumentUnmounted", req[r].mount), mount = 0
            PROVE  \A i \in DOMAIN outbox' : Pending(i)' => EventFits(i)'
        BY <3>1, <4>2 DEF Publish
      <4> QED BY <2>1, <4>1, <4>2
    <3>2. \A i \in DOMAIN outbox' :
             \/ i \in DOMAIN outbox /\ outbox'[i] = outbox[i]
             \/ outbox'[i] = [kind |-> kind, mount |-> req[r].mount, state |-> "pending"]
      BY <1>1, <3>1
    <3> QED BY <2>1, <2>2, <3>1, <3>2 DEF Pending, EventFits
  <2> QED BY <1>1, <2>2, <2>3 DEF WorkFits, Live
<1>5. UNCHANGED <<mount, outbox>>
      \/ \E r \in Requests : \/ UploadInsert(r) \/ UnmountMount(r)
                             \/ TriggerParseEvent(r) \/ UploadEvent(r) \/ UnmountEvent(r)
  BY DEF ApiStep, BeginRequest, BeginTriggerParse, BeginBatchParse, BeginUpload,
     BeginUnmount, ContinueRequest, TriggerParseRow, UploadLink, UploadDedupe, UploadRow,
     UnmountRead, UnmountRow, CleanupCancel, CleanupDelete, CleanupRemoved, ApiCrash,
     UpdateChunkingConfig, mountVars
<1> QED BY <1>2, <1>3, <1>4, <1>5

LEMMA RelayWorkFits ==
    ASSUME TypeOK, Serial, TurnsInv, WorkFits, RelayStep
    PROVE  WorkFits'
<1>1. /\ mount' = mount /\ outbox \in Seq(Events) /\ job \in [Jobs -> JobRecords]
      /\ relay \in [pc : RelayPcs, at : Nat, epoch : Nat]
  BY DEF TypeOK, TablesTypeOK, RelayTypeOK, RelayStep, RelayWorks, RelayFails, TakeMounted,
     TakeUnmounted, ReadEpoch, Dispatch, DispatchFails, RelayDeletes, MarkSent, RelayCrash,
     mountVars
<1>2. ASSUME outbox' = outbox
      PROVE  \A i \in DOMAIN outbox' : Pending(i)' => EventFits(i)'
  BY <1>1, <1>2 DEF WorkFits, Pending, EventFits
<1>3. ASSUME job' = job
      PROVE  \A j \in Jobs : Live(j)' => job'[j].mount = mount'
  BY <1>1, <1>3 DEF WorkFits, Live
<1>4. ASSUME NEW i \in DOMAIN outbox, TakeMounted(i) \/ TakeUnmounted(i)
      PROVE  WorkFits'
  <2>1. /\ UNCHANGED <<outbox, job>> /\ relay'.at = i
        /\ relay'.pc \in {"epoch", "dispatch"} => outbox[i].kind = "DocumentMounted"
        /\ relay'.pc = "cleanup" => outbox[i].kind = "DocumentUnmounted"
    BY <1>4 DEF TakeMounted, TakeUnmounted
  <2> QED BY <1>2, <1>3, <2>1 DEF WorkFits
<1>5. CASE ReadEpoch \/ RelayDeletes
  <2>1. /\ UNCHANGED <<outbox, job>> /\ relay'.at = relay.at /\ relay'.pc # "cleanup"
        /\ relay'.pc = "dispatch" => relay.pc = "epoch"
        /\ relay'.pc # "epoch"
    BY <1>1, <1>5 DEF ReadEpoch, RelayDeletes, RelayGoto
  <2> QED BY <1>2, <1>3, <2>1 DEF WorkFits
<1>6. CASE Dispatch
  <2>1. PICK k \in Jobs : job' = [job EXCEPT ![k] = [pc |-> "ready", mount |-> Handled.mount,
                                        epoch |-> relay.epoch, retries |-> 0, config |-> 1]]
    BY <1>6 DEF Dispatch
  <2>2. outbox' = outbox /\ relay.pc = "dispatch" /\ relay'.pc = "mark"
    BY <1>1, <1>6 DEF Dispatch, RelayGoto
  <2>3. Handled.mount = mount
    <3>1. Pending(relay.at) /\ outbox[relay.at].kind = "DocumentMounted"
      BY <2>2 DEF TurnsInv, EventFirst, WorkFits
    <3> QED BY <3>1 DEF WorkFits, Pending, EventFits, Handled
  <2>4. \A j \in Jobs : Live(j)' => job'[j].mount = mount'
    BY <1>1, <2>1, <2>3 DEF WorkFits, Live
  <2> QED BY <1>2, <2>2, <2>4 DEF WorkFits
<1>7. CASE DispatchFails \/ MarkSent \/ RelayCrash
  <2>1. relay'.pc = "poll" /\ job' = job
    BY <1>7 DEF DispatchFails, MarkSent, RelayCrash, RelayPoll
  <2>2. CASE outbox' = outbox
    BY <1>2, <1>3, <2>1, <2>2 DEF WorkFits
  <2>3. CASE \E s \in {"failed", "sent"} : outbox' = [outbox EXCEPT ![relay.at].state = s]
    <3>1. \A i \in DOMAIN outbox : outbox[i] \in Events
      BY <1>1, EventAt
    <3>2. DOMAIN outbox' = DOMAIN outbox
      BY <1>1, <2>3
    <3>3. \A i \in DOMAIN outbox : Pending(i)' => /\ Pending(i)
                                                 /\ outbox'[i].kind = outbox[i].kind
                                                 /\ outbox'[i].mount = outbox[i].mount
      BY <1>1, <2>3, <3>1, <3>2 DEF Pending, Events
    <3> QED BY <1>1, <1>3, <2>1, <3>2, <3>3 DEF WorkFits, EventFits
  <2> QED BY <1>7, <2>2, <2>3 DEF DispatchFails, MarkSent, RelayCrash
<1> QED
  BY <1>4, <1>5, <1>6, <1>7 DEF RelayStep, RelayWorks, RelayFails

LEMMA WorkFitsStep ==
    ASSUME TypeOK, Serial, TurnsInv, CallsFit, WorkFits, [Next]_vars
    PROVE  WorkFits'
<1>1. CASE WorkerStep
  <2>1. UNCHANGED <<mount, outbox, relay>>
    BY <1>1 DEF WorkerStep, JobWorks, JobFails, StartJob, Fence, CleanSlot, ReadConfiguration,
                WriteChunks, WriteFence, PurgeRemoved, SubmitStamp, CompleteJob, AckJob,
                TaskRaises, WorkerLost,
       mountVars
  <2>2. PICK k \in Jobs : JobWorks(k) \/ JobFails(k)
    BY <1>1 DEF WorkerStep
  <2>3. /\ Live(k) /\ \A i \in Jobs : i # k => job'[i] = job[i]
        /\ Live(k)' => job'[k].mount = job[k].mount
    BY <2>2, TaskAlone DEF TypeOK, TablesTypeOK
  <2> QED BY <2>1, <2>3 DEF WorkFits, Pending, EventFits, Live
<1>2. CASE StampStep \/ SweepStep \/ UNCHANGED vars
  <2>1. UNCHANGED <<mount, outbox, relay, job>>
    BY <1>2 DEF StampStep, StampWorks, StampFails, TakeStamp, QueryRows,
       UpsertRows, SweepStep, SelectStale, MarkStale, vars, mountVars
  <2> QED BY <2>1 DEF WorkFits, Pending, EventFits, Live
<1> QED BY <1>1, <1>2, ApiWorkFits, RelayWorkFits DEF Next

\* A stamping task knows of the link.
LEMMA StamperStep ==
    ASSUME TypeOK, Serial, TurnsInv, StamperKnows, [Next]_vars
    PROVE  StamperKnows'
<1>1. ASSUME NEW r \in Requests,
             (Quiet /\ BeginRequest(r)) \/ ContinueRequest(r) \/ ApiCrash(r),
             stamper' = stamper,
             \A q \in Requests : q # r => ~Busy(q) /\ ~Busy(q)',
             \A pc : Goto(r, pc) => req'[r].pc = pc /\ req'[r].mount = req[r].mount,
             \A pc, m : Hold(r, pc, m) => req'[r].pc = pc /\ req'[r].mount = m
      PROVE  StamperKnows'
  <2>1. \A q \in Requests : q # r => req'[q].pc # "link"
    BY <1>1 DEF Busy
  <2>2. CASE Quiet /\ BeginUpload(r)
    <3>1. StampOn => stamper.pc = "idle" /\ stampQueue = 0
      BY <2>2 DEF Quiet
    <3>2. linked' = linked /\ stampQueue' = stampQueue
      BY <2>2 DEF BeginUpload
    <3> QED BY <1>1, <2>1, <3>1, <3>2 DEF StamperKnows
  <2>3. CASE UploadLink(r)
    <3>1. stamper.pc = "idle" /\ req'[r].pc = "insert"
      BY <1>1, <2>3 DEF StamperKnows, UploadLink
    <3> QED BY <1>1, <2>1, <3>1 DEF StamperKnows
  <2>4. CASE ~(Quiet /\ BeginUpload(r)) /\ ~UploadLink(r)
    <3>1. linked' = linked \/ linked' = FALSE
      BY <1>1, <2>4 DEF BeginRequest, BeginTriggerParse, BeginBatchParse, BeginUnmount,
                        ContinueRequest, TriggerParseEvent, TriggerParseRow, UploadInsert,
                        UploadDedupe, UploadRow, UploadEvent, UnmountRead, UnmountRow,
                        UnmountMount, UnmountEvent, CleanupCancel, CleanupDelete,
                        CleanupRemoved, ApiCrash, mountVars
    <3>2. \E pc \in {"parseEvent", "unmountRead", "parseRow", "done", "dedupe", "uploadRow",
                     "uploadEvent", "unmountRow", "unmountMount", "unmountEvent",
                     "cleanupCancel", "cleanupDelete", "cleanupRemoved"} :
             Goto(r, pc) \/ \E m : Hold(r, pc, m)
      BY <1>1, <2>4 DEF BeginRequest, BeginTriggerParse, BeginBatchParse, BeginUnmount,
                        ContinueRequest, TriggerParseEvent, TriggerParseRow, UploadInsert,
                        UploadDedupe, UploadRow, UploadEvent, UnmountRead, UnmountRow,
                        UnmountMount, UnmountEvent, CleanupCancel, CleanupDelete,
                        CleanupRemoved, ApiCrash, Return
    <3>3. req'[r].pc # "link"
      BY <1>1, <3>2
    <3> QED BY <1>1, <2>1, <3>1, <3>3 DEF StamperKnows
  <2> QED BY <2>2, <2>3, <2>4
<1>2. CASE ApiStep
  <2>1. stamper' = stamper
    BY <1>2 DEF ApiStep
  <2>2. CASE UpdateChunkingConfig
    BY <2>1, <2>2 DEF UpdateChunkingConfig, mountVars, StamperKnows
  <2> QED BY <1>1, <1>2, <2>1, <2>2, CallSteps
<1>3. ASSUME NEW r \in Requests, req[r].pc = "link"
      PROVE  \A j \in Jobs : ~Live(j)
  BY <1>3 DEF TurnsInv, CallFirst, Busy, AfterEvent
<1>4. CASE WorkerStep
  <2>1. UNCHANGED <<linked, stamper, req>>
    BY <1>4 DEF WorkerStep, JobWorks, JobFails, StartJob, Fence, CleanSlot, ReadConfiguration,
                WriteChunks, WriteFence, PurgeRemoved, SubmitStamp, CompleteJob, AckJob,
                TaskRaises, WorkerLost,
       mountVars, apiVars
  <2>2. \E j \in Jobs : Live(j)
    BY <1>4, TaskAlone DEF WorkerStep, TypeOK, TablesTypeOK
  <2> QED BY <1>3, <2>1, <2>2 DEF StamperKnows
<1>5. CASE StampStep
  <2>1. UNCHANGED <<linked, req>> /\ stamper \in [pc : {"idle", "query", "upsert"},
                                               link : BOOLEAN, rows : SUBSET Generations]
    BY <1>5 DEF StampStep, StampWorks, StampFails, TakeStamp, QueryRows, UpsertRows, mountVars,
                apiVars, TypeOK, StamperTypeOK
  <2>2. StampOn /\ \A r \in Requests : req[r].pc # "link"
    <3>1. StampOn
      BY <1>5 DEF StampStep, StampWorks, StampFails, TakeStamp, QueryRows, UpsertRows,
                  StamperKnows
    <3>2. stamper.pc # "idle" \/ (stampQueue > 0 /\ stampQueue \in Nat)
      BY <1>5 DEF StampStep, StampWorks, StampFails, TakeStamp, QueryRows, UpsertRows, TypeOK,
                  TablesTypeOK
    <3> QED BY <3>1, <3>2 DEF StamperKnows
  <2>3. stamper'.pc # "idle" => (linked => stamper'.link)
    <3>1. CASE TakeStamp
      BY <3>1 DEF TakeStamp
    <3>2. CASE QueryRows
      <4>1. stamper'.pc = "idle" \/ (stamper'.link = stamper.link /\ stamper.pc = "query")
        <5>1. /\ stamper.pc = "query"
              /\ \/ stamper' = StamperIdle
                 \/ stamper' = [stamper EXCEPT !.pc = "upsert", !.rows = chunks]
          BY <3>2 DEF QueryRows
        <5>2. [stamper EXCEPT !.pc = "upsert", !.rows = chunks].link = stamper.link
          BY <2>1
        <5>3. StamperIdle.pc = "idle"
          BY DEF StamperIdle
        <5>4. CASE stamper' = StamperIdle
          BY <5>3, <5>4
        <5>5. CASE stamper' = [stamper EXCEPT !.pc = "upsert", !.rows = chunks]
          BY <5>1, <5>2, <5>5, Zenon
        <5> QED BY <5>1, <5>4, <5>5
      <4> QED BY <4>1 DEF StamperKnows
    <3>3. CASE UpsertRows \/ StampFails
      BY <3>3 DEF UpsertRows, StampFails, StamperIdle
    <3> QED BY <1>5, <3>1, <3>2, <3>3 DEF StampStep, StampWorks
  <2> QED BY <2>1, <2>2, <2>3 DEF StamperKnows
<1>6. CASE RelayStep \/ SweepStep \/ UNCHANGED vars
  <2>1. UNCHANGED <<linked, req, stamper, stampQueue>>
    BY <1>6 DEF RelayStep, RelayWorks, RelayFails, TakeMounted, TakeUnmounted, ReadEpoch,
       Dispatch, DispatchFails, RelayDeletes, MarkSent, RelayCrash, SweepStep, SelectStale,
       MarkStale, vars, mountVars, apiVars
  <2> QED BY <2>1 DEF StamperKnows
<1> QED BY <1>2, <1>4, <1>5, <1>6 DEF Next

\* Without rows being put back the slot's rows are the same.
LEMMA StampsStay ==
    ASSUME TypeOK, StamperKnows, [Next]_vars, StampsFit,
           UNCHANGED chunkVars \/ StampStep
    PROVE  StampsFit'
<1>1. /\ stampQueue \in Nat
      /\ stamper \in [pc : {"idle", "query", "upsert"}, link : BOOLEAN,
                      rows : SUBSET Generations]
  BY DEF TypeOK, TablesTypeOK, StamperTypeOK
<1>2. CASE ~StampStep
  <2>1. /\ stamper' = stamper /\ Kept' = Kept /\ stamped' = stamped
        /\ stampQueue' = stampQueue \/ stampQueue' = stampQueue + 1
    BY <1>2 DEF Kept, chunkVars, Next, ApiStep, BeginRequest, BeginTriggerParse,
                BeginBatchParse, BeginUpload, BeginUnmount, ContinueRequest,
                TriggerParseEvent, TriggerParseRow, UploadLink, UploadInsert, UploadDedupe,
                UploadRow, UploadEvent, UnmountRead, UnmountRow, UnmountMount, UnmountEvent,
                CleanupCancel, CleanupDelete, CleanupRemoved, ApiCrash, UpdateChunkingConfig,
                RelayStep, RelayWorks, RelayFails, TakeMounted, TakeUnmounted, ReadEpoch,
                Dispatch, DispatchFails, RelayDeletes, MarkSent, RelayCrash, WorkerStep,
                JobWorks, JobFails, StartJob, Fence, CleanSlot, ReadConfiguration,
                WriteChunks, WriteFence, PurgeRemoved, SubmitStamp, CompleteJob, AckJob,
                TaskRaises, WorkerLost, SweepStep, SelectStale, MarkStale, vars, RequestStamp
  <2>2. linked' = linked \/ linked' = FALSE \/ stampQueue' = stampQueue + 1
    BY <1>2 DEF mountVars, Next, ApiStep, BeginRequest, BeginTriggerParse, BeginBatchParse,
                BeginUpload, BeginUnmount, ContinueRequest, TriggerParseEvent,
                TriggerParseRow, UploadLink, UploadInsert, UploadDedupe, UploadRow,
                UploadEvent, UnmountRead, UnmountRow, UnmountMount, UnmountEvent,
                CleanupCancel, CleanupDelete, CleanupRemoved, ApiCrash, UpdateChunkingConfig,
                RelayStep, RelayWorks, RelayFails, TakeMounted, TakeUnmounted, ReadEpoch,
                Dispatch, DispatchFails, RelayDeletes, MarkSent, RelayCrash, WorkerStep,
                JobWorks, JobFails, StartJob, Fence, CleanSlot, ReadConfiguration,
                WriteChunks, WriteFence, PurgeRemoved, SubmitStamp, CompleteJob, AckJob,
                TaskRaises, WorkerLost, SweepStep, SelectStale, MarkStale, vars, RequestStamp
  <2> QED BY <1>1, <2>1, <2>2 DEF StampsFit
<1>3. CASE TakeStamp
  BY <1>3 DEF TakeStamp, StampsFit
<1>4. CASE StampFails
  BY <1>1, <1>4 DEF StampFails, RequestStamp, StampsFit
<1>5. CASE QueryRows
  <2>1. Kept' = Kept /\ stamped' = stamped /\ stamper.pc = "query"
    BY <1>5 DEF QueryRows, chunkVars, Kept
  <2>2. CASE chunks = {}
    <3>1. Kept = {}
      BY <2>2 DEF Kept
    <3> QED BY <2>1, <3>1 DEF StampsFit
  <2>3. CASE chunks # {}
    <3>1. stamper' = [stamper EXCEPT !.pc = "upsert", !.rows = chunks]
      BY <1>5, <2>3 DEF QueryRows
    <3>2. stamper'.pc = "upsert" /\ stamper'.rows = chunks
      BY <1>1, <3>1
    <3>3. Kept \subseteq chunks
      BY DEF Kept
    <3> QED BY <2>1, <3>2, <3>3 DEF StampsFit
  <2> QED BY <2>2, <2>3
<1>6. CASE UpsertRows
  <2>1. UNCHANGED <<linked, stampQueue>> /\ stamper.pc = "upsert"
    BY <1>6 DEF UpsertRows, mountVars
  <2>2. Kept' = Kept
    BY <1>6 DEF UpsertRows, Kept
  <2>3. CASE linked /\ stampQueue = 0
    <3>1. stamper.link
      BY <2>1, <2>3 DEF StamperKnows
    <3>2. stamped' = stamped \cup stamper.rows
      BY <1>6, <3>1 DEF UpsertRows
    <3>3. Kept \subseteq stamped \/ Kept \subseteq stamper.rows
      BY <2>1, <2>3 DEF StampsFit
    <3> QED BY <2>2, <3>2, <3>3 DEF StampsFit
  <2>4. CASE ~linked \/ stampQueue > 0
    BY <2>1, <2>4 DEF StampsFit
  <2> QED BY <1>1, <2>3, <2>4
<1> QED
  BY <1>2, <1>3, <1>4, <1>5, <1>6 DEF StampStep, StampWorks

\* A stamping task changes neither what is kept nor a row of a table.
LEMMA StampKeeps == StampStep => Kept' = Kept /\ UNCHANGED <<status, job>>
  BY DEF StampStep, StampWorks, StampFails, TakeStamp, QueryRows, UpsertRows, chunkVars,
         rowVars, Kept

\* A step that leaves the tasks and the kept rows alone, and completes nothing.
LEMMA FitsStay ==
    ASSUME TypeOK, StamperKnows, [Next]_vars, TasksFit, CompletedFits,
           UNCHANGED chunkVars \/ StampStep, job' = job,
           \A m \in Mounts : status'[m] = "completed" => status[m] = "completed"
    PROVE  TasksFit' /\ CompletedFits'
<1>1. Kept' = Kept
  BY StampKeeps DEF chunkVars, Kept
<1>2. StampsFit => StampsFit'
  BY StampsStay
<1>3. CompletedFits'
  BY <1>1, <1>2 DEF CompletedFits
<1>4. TasksFit'
  BY <1>1, <1>2 DEF TasksFit
<1> QED BY <1>3, <1>4

\* When a removal deletes the chunks, nothing is completed and no task is in progress.
LEMMA DeletedFits ==
    ASSUME MountInv, WorkFits, mount = 0, job' = job,
           \A m \in Mounts : status'[m] = "completed" => status[m] = "completed"
    PROVE  TasksFit' /\ CompletedFits'
<1>1. \A m \in Mounts : status[m] # "completed"
  BY DEF MountInv, RowHasMount, RowExists
<1>2. \A j \in Jobs : job[j].mount \in Mounts
  BY DEF MountInv, TypeOK, TablesTypeOK, JobRecords
<1>3. \A j \in Jobs : ~Live(j)
  BY <1>2 DEF WorkFits
<1> QED BY <1>1, <1>3 DEF TasksFit, CompletedFits, Live

\* The steps of all but the ingestion worker.
LEMMA OthersFit ==
    ASSUME MountInv, Serial, CallsFit, WorkFits, StamperKnows, TasksFit, CompletedFits,
           TurnsInv, [Next]_vars, ~WorkerStep
    PROVE  TasksFit' /\ CompletedFits'
<1>1. TypeOK /\ job \in [Jobs -> JobRecords]
  BY DEF MountInv, TypeOK, TablesTypeOK
<1>2. \A m \in Mounts : status'[m] = "completed" => status[m] = "completed"
  BY <1>1, CompletedBy
<1>3. ASSUME NEW r \in Requests, CleanupDelete(r) PROVE TasksFit' /\ CompletedFits'
  <2>1. mount = 0 /\ job' = job
    BY <1>3 DEF CleanupDelete, CallsFit, CleanupPcs
  <2> QED BY <1>2, <1>3, <2>1, DeletedFits
<1>4. CASE RelayDeletes
  <2>1. Pending(relay.at) /\ outbox[relay.at].kind = "DocumentUnmounted" /\ job' = job
    BY <1>4 DEF RelayDeletes, TurnsInv, EventFirst, WorkFits
  <2>2. mount = 0
    BY <2>1 DEF WorkFits, EventFits, Pending
  <2> QED BY <1>2, <1>4, <2>1, <2>2, DeletedFits
<1>5. CASE Dispatch
  <2>1. PICK k \in Jobs : job' = [job EXCEPT ![k] = [pc |-> "ready", mount |-> Handled.mount,
                                        epoch |-> relay.epoch, retries |-> 0, config |-> 1]]
    BY <1>5 DEF Dispatch
  <2>2. UNCHANGED chunkVars
    BY <1>5 DEF Dispatch
  <2>3. Kept' = Kept
    BY <2>2 DEF chunkVars, Kept
  <2>4. StampsFit => StampsFit'
    BY <1>1, <2>2, StampsStay
  <2>5. CompletedFits'
    BY <1>2, <1>5, <2>3, <2>4 DEF CompletedFits
  <2>6. job'[k].pc = "ready" /\ \A j \in Jobs : j # k => job'[j] = job[j]
    BY <1>1, <2>1
  <2>7. ASSUME NEW j \in Jobs, j # k
        PROVE  /\ job'[j].pc \notin {"unused", "ready", "ack", "done"} =>
                    \A m \in Mounts : status'[m] # "completed"
               /\ job'[j].pc \in {"configure", "write"} => Kept' = {}
               /\ job'[j].pc \in {"fence3", "submit", "complete"} =>
                    Kept' = {[mount |-> job'[j].mount, config |-> job'[j].config]}
               /\ job'[j].pc = "complete" => StampsFit'
    BY <1>2, <1>5, <2>3, <2>4, <2>6, <2>7 DEF TasksFit
  <2>8. TasksFit'
    BY <2>6, <2>7 DEF TasksFit
  <2> QED BY <2>5, <2>8
<1>6. CASE job' = job /\ (UNCHANGED chunkVars \/ StampStep)
  BY <1>1, <1>2, <1>6, FitsStay
<1>7. job' = job \/ Dispatch
  BY JobsElsewhere DEF Next
<1>8. \/ UNCHANGED chunkVars \/ StampStep \/ RelayDeletes
      \/ \E r \in Requests : CleanupDelete(r)
  BY DEF Next, ApiStep, BeginRequest, BeginTriggerParse, BeginBatchParse, BeginUpload,
     BeginUnmount, ContinueRequest, TriggerParseEvent, TriggerParseRow, UploadLink,
     UploadInsert, UploadDedupe, UploadRow, UploadEvent, UnmountRead, UnmountRow, UnmountMount,
     UnmountEvent, CleanupCancel, CleanupRemoved, ApiCrash, UpdateChunkingConfig, RelayStep,
     RelayWorks, RelayFails, TakeMounted, TakeUnmounted, ReadEpoch, Dispatch, DispatchFails,
     MarkSent, RelayCrash, SweepStep, SelectStale, MarkStale, vars, chunkVars
<1> QED BY <1>3, <1>4, <1>5, <1>6, <1>7, <1>8

\* What TasksFit says of one task.
TaskFits(j) ==
    /\ job[j].pc \notin {"unused", "ready", "ack", "done"} =>
         \A m \in Mounts : status[m] # "completed"
    /\ job[j].pc \in {"configure", "write"} => Kept = {}
    /\ job[j].pc \in {"fence3", "submit", "complete"} =>
         Kept = {[mount |-> job[j].mount, config |-> job[j].config]}
    /\ job[j].pc = "complete" => StampsFit

\* The steps of the ingestion worker.
LEMMA TaskFitsStep ==
    ASSUME MountInv, Serial, TurnsInv, WorkFits, StamperKnows, TasksFit, CompletedFits,
           WorkerStep
    PROVE  TasksFit' /\ CompletedFits'
<1>1. /\ TypeOK /\ job \in [Jobs -> JobRecords] /\ status \in [Mounts -> ParseStatus]
      /\ stampQueue \in Nat /\ [Next]_vars
  BY DEF MountInv, TypeOK, TablesTypeOK, Next
<1>2. PICK j \in Jobs : JobWorks(j) \/ JobFails(j)
  BY DEF WorkerStep
<1>3. /\ Live(j) /\ \A i \in Jobs : i # j => job'[i] = job[i]
      /\ job[j] \in JobRecords /\ job[j].mount = mount /\ mount \in Mounts
      /\ \A pc : JobGoto(j, pc) => /\ job'[j].pc = pc /\ job'[j].mount = job[j].mount
                                   /\ job'[j].config = job[j].config
      /\ EndJob(j) => job'[j].pc = "done"
  <2>1. Live(j) /\ \A i \in Jobs : i # j => job'[i] = job[i]
    BY <1>1, <1>2, TaskAlone
  <2>2. job[j] \in JobRecords /\ job[j].mount = mount /\ job[j].mount \in Mounts
    BY <1>1, <2>1 DEF WorkFits, JobRecords
  <2>3. \A pc : JobGoto(j, pc) => /\ job'[j].pc = pc /\ job'[j].mount = job[j].mount
                                  /\ job'[j].config = job[j].config
    BY <1>1, <2>2 DEF JobGoto, JobRecords
  <2>4. EndJob(j) => job'[j].pc = "done"
    BY <1>1, JobPcOf
  <2> QED BY <2>1, <2>2, <2>3, <2>4
<1>4. \A m \in Mounts : m # mount => status[m] = "none"
  BY DEF MountInv, RowHasMount, RowExists
<1>5. \A m \in Mounts : status'[m] = "completed" =>
         status[m] = "completed" \/ (CompleteJob(j) /\ m = mount)
  <2>1. CASE CompleteJob(j)
    BY <1>1, <1>3, <1>4, <2>1 DEF CompleteJob, SetStatus
  <2>2. CASE ~CompleteJob(j)
    <3>1. \/ status' = status
          \/ SetStatus(job[j].mount, "processing") \/ SetStatus(job[j].mount, "failed")
      BY <1>2, <2>2 DEF JobWorks, JobFails, StartJob, Fence, CleanSlot, ReadConfiguration,
                        WriteChunks, WriteFence, PurgeRemoved, SubmitStamp, AckJob,
                        TaskRaises, WorkerLost, rowVars
    <3> QED BY <1>1, <1>3, <3>1 DEF SetStatus
  <2> QED BY <2>1, <2>2
<1>6. \A i \in Jobs : i # j => ~Live(i) /\ job'[i] = job[i]
  BY <1>3 DEF TurnsInv, OneTask
<1>7. TaskFits(j)
  BY DEF TasksFit, TaskFits
<1>8. TaskFits(j)' => TasksFit'
  BY <1>6 DEF TasksFit, TaskFits, Live
<1>9. ASSUME UNCHANGED chunkVars
      PROVE  Kept' = Kept /\ (StampsFit => StampsFit')
  BY <1>1, <1>9, StampsStay DEF Kept, chunkVars
<1>10. ASSUME \A m \in Mounts : status[m] # "completed", ~CompleteJob(j)
       PROVE  CompletedFits' /\ \A m \in Mounts : status'[m] # "completed"
  BY <1>5, <1>10 DEF CompletedFits
<1>11. ASSUME UNCHANGED chunkVars, ~CompleteJob(j)
       PROVE  CompletedFits'
  BY <1>5, <1>9, <1>11 DEF CompletedFits
<1>12. CASE StartJob(j)
  <2>1. /\ SetStatus(job[j].mount, "processing") /\ UNCHANGED chunkVars
        /\ job'[j].pc = "fence1"
    BY <1>3, <1>12 DEF StartJob, Fault, Serial
  <2>2. \A m \in Mounts : status'[m] # "completed"
    BY <1>1, <1>3, <1>4, <2>1 DEF SetStatus, RowExists
  <2>3. TaskFits(j)' /\ CompletedFits'
    BY <2>1, <2>2 DEF TaskFits, CompletedFits
  <2> QED BY <1>8, <2>3
<1>13. CASE Fence(j)
  <2>1. /\ UNCHANGED chunkVars /\ ~CompleteJob(j) /\ job[j].pc \in {"fence1", "fence2"}
        /\ job'[j].pc \in {"fence2", "clean", "done"}
    BY <1>3, <1>13 DEF Fence, CompleteJob
  <2>2. \A m \in Mounts : status'[m] # "completed"
    BY <1>7, <1>10, <2>1 DEF TaskFits
  <2>3. TaskFits(j)'
    BY <2>1, <2>2 DEF TaskFits
  <2> QED BY <1>8, <1>11, <2>1, <2>3
<1>14. CASE CleanSlot(j)
  <2>1. /\ chunks' = {} /\ ~CompleteJob(j) /\ job[j].pc = "clean"
    BY <1>14 DEF CleanSlot, CompleteJob, Fault, Serial, DeleteSlotChunks
  <2>2. job'[j].pc = "configure" /\ Kept' = {}
    BY <1>3, <1>14, <2>1 DEF CleanSlot, Kept
  <2>3. CompletedFits' /\ \A m \in Mounts : status'[m] # "completed"
    BY <1>7, <1>10, <2>1 DEF TaskFits
  <2>4. TaskFits(j)'
    BY <2>2, <2>3 DEF TaskFits
  <2> QED BY <1>8, <2>3, <2>4
<1>15. CASE WriteChunks(j)
  <2> DEFINE new == [mount |-> job[j].mount, config |-> job[j].config]
  <2>1. /\ chunks' = chunks \cup {new} /\ revived' = revived \ {new}
        /\ job[j].pc = "write" /\ JobGoto(j, "fence3") /\ ~CompleteJob(j)
    BY <1>15 DEF WriteChunks, CompleteJob
  <2>2. Kept = {} /\ \A m \in Mounts : status[m] # "completed"
    BY <1>7, <2>1 DEF TaskFits
  <2>3. Kept' = {new}
    <3> HIDE DEF new
    <3> QED BY <2>1, <2>2 DEF Kept
  <2>4. Kept' = {[mount |-> job'[j].mount, config |-> job'[j].config]} /\ job'[j].pc = "fence3"
    BY <1>3, <2>1, <2>3
  <2>5. CompletedFits' /\ \A m \in Mounts : status'[m] # "completed"
    BY <1>10, <2>1, <2>2
  <2>6. TaskFits(j)'
    BY <2>4, <2>5 DEF TaskFits
  <2> QED BY <1>8, <2>5, <2>6
<1>16. CASE WriteFence(j)
  <2>1. /\ UNCHANGED chunkVars /\ ~CompleteJob(j) /\ job[j].pc = "fence3"
        /\ JobGoto(j, "submit") \/ JobGoto(j, "purge") \/ EndJob(j)
    BY <1>16 DEF WriteFence, CompleteJob
  <2>2. \A m \in Mounts : status'[m] # "completed"
    BY <1>7, <1>10, <2>1 DEF TaskFits
  <2>3. Kept' = {[mount |-> job[j].mount, config |-> job[j].config]}
    BY <1>7, <1>9, <2>1 DEF TaskFits
  <2>4. TaskFits(j)'
    BY <1>3, <2>1, <2>2, <2>3 DEF TaskFits
  <2> QED BY <1>8, <1>11, <2>1, <2>4
<1>17. CASE PurgeRemoved(j)
  <2>1. /\ ~CompleteJob(j) /\ job[j].pc = "purge" /\ job'[j].pc = "done"
    BY <1>3, <1>17 DEF PurgeRemoved, CompleteJob
  <2>2. CompletedFits' /\ TaskFits(j)'
    BY <1>7, <1>10, <2>1 DEF TaskFits
  <2> QED BY <1>8, <2>2
<1>18. CASE SubmitStamp(j)
  <2>1. /\ UNCHANGED chunkVars /\ ~CompleteJob(j) /\ job[j].pc = "submit"
        /\ JobGoto(j, "complete") /\ stampQueue' = stampQueue + 1
    BY <1>18 DEF SubmitStamp, CompleteJob, RequestStamp
  <2>2. \A m \in Mounts : status'[m] # "completed"
    BY <1>7, <1>10, <2>1 DEF TaskFits
  <2>3. Kept' = {[mount |-> job[j].mount, config |-> job[j].config]} /\ StampsFit'
    BY <1>1, <1>7, <1>9, <2>1 DEF TaskFits, StampsFit
  <2>4. TaskFits(j)'
    BY <1>3, <2>1, <2>2, <2>3 DEF TaskFits
  <2> QED BY <1>8, <1>11, <2>1, <2>4
<1>19. CASE CompleteJob(j)
  <2>1. UNCHANGED chunkVars /\ job[j].pc = "complete" /\ job'[j].pc = "ack"
    BY <1>3, <1>19 DEF CompleteJob
  <2>2. /\ Kept' = {[mount |-> job[j].mount, config |-> job[j].config]} /\ StampsFit'
        /\ \A m \in Mounts : status[m] # "completed"
    BY <1>7, <1>9, <2>1 DEF TaskFits
  <2>3. job[j].config \in Configs
    BY <1>3 DEF JobRecords
  <2>4. CompletedFits'
    BY <1>3, <1>5, <2>2, <2>3 DEF CompletedFits
  <2>5. TaskFits(j)'
    BY <2>1 DEF TaskFits
  <2> QED BY <1>8, <2>4, <2>5
<1>20. CASE AckJob(j) \/ WorkerLost(j)
  <2>1. UNCHANGED chunkVars /\ job'[j].pc \in {"ready", "done"}
    BY <1>1, <1>3, <1>20, JobPcOf DEF AckJob, WorkerLost
  <2>2. ~CompleteJob(j) \/ status' = status
    BY <1>20 DEF AckJob, WorkerLost, rowVars
  <2>3. CompletedFits'
    BY <1>9, <1>11, <2>1, <2>2 DEF CompletedFits
  <2>4. TaskFits(j)'
    BY <2>1 DEF TaskFits
  <2> QED BY <1>8, <2>3, <2>4
<1>21. CASE TaskRaises(j)
  <2>1. /\ UNCHANGED chunkVars /\ ~CompleteJob(j)
        /\ job[j].pc \in {"fence2", "write", "fence3", "submit"}
        /\ job'[j].pc \in {"countdown", "done"}
    BY <1>1, <1>21, JobPcOf DEF TaskRaises, CompleteJob
  <2>2. \A m \in Mounts : status'[m] # "completed"
    BY <1>7, <1>10, <2>1 DEF TaskFits
  <2>3. TaskFits(j)'
    BY <2>1, <2>2 DEF TaskFits
  <2> QED BY <1>8, <1>11, <2>1, <2>3
<1>22. CASE ReadConfiguration(j)
  <2>1. UNCHANGED chunkVars /\ ~CompleteJob(j) /\ job[j].pc = "configure"
    BY <1>22 DEF ReadConfiguration, CompleteJob
  <2>2. PICK k : job' = [job EXCEPT ![j].pc = "write", ![j].config = k]
    BY <1>22 DEF ReadConfiguration
  <2>3. job'[j].pc = "write"
    BY <1>1, <1>3, <2>2 DEF JobRecords
  <2>4. \A m \in Mounts : status'[m] # "completed"
    BY <1>7, <1>10, <2>1 DEF TaskFits
  <2>5. TaskFits(j)'
    BY <1>7, <1>9, <2>1, <2>3, <2>4 DEF TaskFits
  <2> QED BY <1>8, <1>11, <2>1, <2>5
<1> QED
  BY <1>2, <1>12, <1>13, <1>14, <1>15, <1>16, <1>17, <1>18, <1>19, <1>20, <1>21, <1>22
     DEF JobWorks, JobFails

\* No task inserts what is there: what it writes, it has deleted.
LEMMA NothingTwice ==
    ASSUME TasksFit, twice = {}, [Next]_vars
    PROVE  twice' = {}
<1>1. ASSUME NEW j \in Jobs, WriteChunks(j) PROVE twice' = {}
  <2>1. job[j].pc = "write" /\ Kept = {}
    BY <1>1 DEF WriteChunks, TasksFit
  <2> QED BY <1>1, <2>1 DEF WriteChunks, Kept
<1>2. twice' = twice \/ DeleteSlotChunks \/ \E j \in Jobs : WriteChunks(j)
  BY DEF Next, ApiStep, BeginRequest, BeginTriggerParse, BeginBatchParse, BeginUpload,
     BeginUnmount, ContinueRequest, TriggerParseEvent, TriggerParseRow, UploadLink,
     UploadInsert, UploadDedupe, UploadRow, UploadEvent, UnmountRead, UnmountRow, UnmountMount,
     UnmountEvent, CleanupCancel, CleanupDelete, CleanupRemoved, ApiCrash,
     UpdateChunkingConfig, RelayStep, RelayWorks, RelayFails, TakeMounted, TakeUnmounted,
     ReadEpoch, Dispatch, DispatchFails, RelayDeletes, MarkSent, RelayCrash, WorkerStep,
     JobWorks, JobFails, StartJob, Fence, CleanSlot, ReadConfiguration, WriteFence,
     PurgeRemoved, SubmitStamp, CompleteJob, AckJob, TaskRaises, WorkerLost, StampStep,
     StampWorks, StampFails, TakeStamp, QueryRows, UpsertRows, SweepStep, SelectStale,
     MarkStale, vars, chunkVars
<1> QED BY <1>1, <1>2 DEF DeleteSlotChunks

LEMMA SerialInit == Init => SerialInv
<1> SUFFICES ASSUME Init PROVE SerialInv
  OBVIOUS
<1>1. /\ \A r \in Requests : req[r].pc = "idle"
      /\ outbox = << >> /\ relay.pc = "poll" /\ stamper.pc = "idle"
      /\ \A j \in Jobs : job[j].pc = "unused"
      /\ \A m \in Mounts : status[m] = "none"
  BY DEF Init, TablesInit, RequestsInit, RelayInit, StamperInit, StamperIdle, NoJob
<1>2. TurnsInv /\ CallsFit /\ WorkFits
  BY <1>1 DEF TurnsInv, OneCall, OneEvent, OneTask, CallFirst, EventFirst, CallsFit, WorkFits,
              CleanupPcs, Busy, Live
<1>3. StamperKnows /\ TasksFit /\ CompletedFits /\ twice = {}
  BY <1>1 DEF Init, TablesInit, StamperKnows, TasksFit, CompletedFits
<1> QED BY <1>2, <1>3, InitMount DEF SerialInv

LEMMA SerialStep == SerialInv /\ [Next]_vars => SerialInv'
<1> SUFFICES ASSUME SerialInv, [Next]_vars PROVE SerialInv'
  OBVIOUS
<1>1. MountInv' /\ MountInv /\ TypeOK
  BY MountStep DEF SerialInv, MountInv
<1>2. ASSUME Serial
      PROVE  /\ TurnsInv' /\ CallsFit' /\ WorkFits' /\ StamperKnows'
             /\ TasksFit' /\ CompletedFits' /\ twice' = {}
  <2>1. /\ TurnsInv /\ CallsFit /\ WorkFits /\ StamperKnows /\ TasksFit /\ CompletedFits
        /\ twice = {}
    BY <1>2 DEF SerialInv
  <2>2. TurnsInv' /\ CallsFit' /\ WorkFits' /\ StamperKnows'
    BY <1>1, <1>2, <2>1, TurnsStep, CallsFitStep, WorkFitsStep, StamperStep
  <2>3. TasksFit' /\ CompletedFits'
    BY <1>1, <1>2, <2>1, OthersFit, TaskFitsStep
  <2>4. twice' = {}
    BY <2>1, NothingTwice
  <2> QED BY <2>2, <2>3, <2>4
<1> QED BY <1>1, <1>2 DEF SerialInv

\* When calls are made one at a time, and neither the relay dies nor a statement or a
\* deletion fails unnoticed, a completed document has the chunks of exactly one parse,
\* stamped or about to be, however often its task raises or loses its worker, and whenever
\* the configuration changes.
THEOREM CompletedHasOneParse ==
    ASSUME ~Overlap, FaultKinds \cap {"relay", "database", "milvus"} = {}
    PROVE  Spec => []CompletedHasOneGeneration
<1>1. Serial
  BY DEF Serial
<1>2. SerialInv => CompletedHasOneGeneration
  <2>1. StampsFit => \/ Kept \subseteq stamped
                     \/ stampQueue > 0 \/ stamper.pc # "idle" \/ ~linked
    BY DEF StampsFit
  <2> QED BY <1>1, <2>1 DEF SerialInv, CompletedFits, CompletedHasOneGeneration, Kept
<1> QED BY <1>2, SerialInit, SerialStep, PTL DEF Spec
=============================================================================
