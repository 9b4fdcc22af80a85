------------------------- MODULE LogCollectRelayProofs -------------------------
(***************************************************************************)
(* What the relay keeps for any number of pods, chunks, sessions, epochs   *)
(* and faults.  Four arguments, one part each:                             *)
(*                                                                         *)
(*   - types, with Positions: a coroutine that sends has a session and a   *)
(*     chunk of the package left to send.                                  *)
(*   - BackedInv: the break point a row or a coroutine resumes from is     *)
(*     backed by chunks the server holds.  PersistedIndexBacked speaks of  *)
(*     the row only; a coroutine writes its own index to the row later, so *)
(*     the invariant says the same of every coroutine.                     *)
(*   - Lock: a coroutine past the gate holds a running row and a fresh     *)
(*     lease, for which somebody keeps the lease from ageing out.          *)
(*   - ArchivedInv: a session under assembly holds every chunk, and who    *)
(*     waits for it, waits for one that was sent whole.                    *)
(***************************************************************************)
EXTENDS LogCollectRelay, TLAPS

USE DEF vars, rowVars, cursorVars, packageVars, storeVars, localVars, execVars,
        serverVars

\* Where a coroutine holds a session, and where it is about to send or to save a chunk.
Sending   == {"send", "savechunk", "savelast"}
InSession == Sending \cup {"probe", "saveinit", "await"}

Position(e) ==
  /\ pc[e] \in Sending => index[e] < ChunkTotal
  /\ pc[e] \in InSession => upload_id[e] \in UploadIds
Positions == \A e \in Pods : Position(e)

\* The first delivery of a task is a state of the declared types.
LEMMA InitType == Init => TypeOK
  <1> SUFFICES ASSUME Init PROVE TypeOK
    OBVIOUS
  <1> USE RelayConstants DEF Init
  <1>1. RowType
    BY DEF RowType, RelayStatuses, UploadIds, NoUpload, Bytes, DeliveryStatuses, Epochs
  <1>2. FlagType
    BY DEF FlagType
  <1>3. StoreType
    BY DEF StoreType, Bytes
  <1>4. ExecType
    BY DEF ExecType, Labels, LabelsAtWork, Bytes, UploadIds, NoUpload
  <1>5. ServerType
    BY DEF ServerType, Phases, Whole, Bytes
  <1> QED BY <1>1, <1>2, <1>3, <1>4, <1>5 DEF TypeOK

\* A chunk the server stores leaves its sessions well typed (external 5888 server).
LEMMA ReceiveTyped ==
  ASSUME ServerType, file \in Bytes, NEW s \in UploadIds, NEW c \in Chunks, Receive(s, c)
  PROVE  ServerType'
  <1> USE DEF Receive, ServerType
  <1>1. held' \in [UploadIds -> [Chunks -> Bytes]] BY DEF Store
  <1>2. phase' \in [UploadIds -> Phases] BY DEF Phases
  <1> QED BY <1>1, <1>2

\* Every step of one attempt (_run_with_retry, _run, _finish) keeps the types; that the
\* index it sends and saves is a chunk number needs Positions.
LEMMA WorkTyped ==
  ASSUME TypeOK, Positions, NEW e \in Pods, Work(e)
  PROVE  TypeOK'
  <1>1. CASE BeginAttempt(e)
    <2> USE <1>1 DEF TypeOK, BeginAttempt
    <2>1. RowType' BY RelayConstants DEF RowType, SaveRunning, RelayStatuses
    <2>2. FlagType' BY RelayConstants DEF FlagType, SaveRunning
    <2>3. StoreType' BY DEF StoreType
    <2>4. ExecType' BY RelayConstants DEF ExecType, Goto, Labels, LabelsAtWork
    <2>5. ServerType' BY DEF ServerType
    <2>6. faults' \in 0 .. MaxFaults OBVIOUS
    <2> QED BY <2>1, <2>2, <2>3, <2>4, <2>5, <2>6
  <1>2. CASE LoadTask(e)
    <2> USE <1>2 DEF TypeOK, LoadTask
    <2>1. RowType' BY DEF RowType
    <2>2. FlagType' BY DEF FlagType
    <2>3. StoreType' BY DEF StoreType
    <2>4. ExecType' BY RelayConstants DEF ExecType, Goto, Labels, LabelsAtWork, ResumeIndex, RowType
    <2>5. ServerType' BY DEF ServerType
    <2>6. faults' \in 0 .. MaxFaults OBVIOUS
    <2> QED BY <2>1, <2>2, <2>3, <2>4, <2>5, <2>6
  <1>3. CASE ProbeSession(e)
    <2> USE <1>3 DEF TypeOK, ProbeSession
    <2>1. RowType' BY RelayConstants DEF RowType, SaveRunning, RelayStatuses
    <2>2. FlagType' BY RelayConstants DEF FlagType, SaveRunning
    <2>3. StoreType' BY DEF StoreType
    <2>4. ExecType' BY RelayConstants DEF ExecType, Goto, Labels, LabelsAtWork, NextStop
    <2>5. ServerType' BY DEF ServerType
    <2>6. faults' \in 0 .. MaxFaults OBVIOUS
    <2> QED BY <2>1, <2>2, <2>3, <2>4, <2>5, <2>6
  <1>4. CASE InitUpload(e)
    <2> USE <1>4 DEF TypeOK, InitUpload
    <2>1. RowType' BY DEF RowType
    <2>2. FlagType' BY DEF FlagType
    <2>3. StoreType' BY DEF StoreType
    <2>4. ExecType' BY RelayConstants DEF ExecType, Goto, Labels, LabelsAtWork
    <2>5. ServerType' BY RelayConstants DEF ServerType, Phases
    <2>6. faults' \in 0 .. MaxFaults OBVIOUS
    <2> QED BY <2>1, <2>2, <2>3, <2>4, <2>5, <2>6
  <1>5. CASE SaveInit(e)
    <2> USE <1>5 DEF TypeOK, SaveInit
    <2>1. RowType' BY RelayConstants DEF RowType, SaveRunning, RelayStatuses, ExecType
    <2>2. FlagType' BY RelayConstants DEF FlagType, SaveRunning
    <2>3. StoreType' BY DEF StoreType
    <2>4. ExecType' BY RelayConstants DEF ExecType, Goto, Labels, LabelsAtWork
    <2>5. ServerType' BY DEF ServerType
    <2>6. faults' \in 0 .. MaxFaults OBVIOUS
    <2> QED BY <2>1, <2>2, <2>3, <2>4, <2>5, <2>6
  <1>6. CASE SendChunk(e)
    <2> USE <1>6 DEF TypeOK, SendChunk
    <2>1. RowType' BY DEF RowType
    <2>2. FlagType' BY DEF FlagType
    <2>3. StoreType' BY DEF StoreType
    <2>4. ExecType' BY RelayConstants DEF ExecType, Goto, Labels, LabelsAtWork
    <2>5. ServerType'
      <3>1. index[e] \in Chunks /\ upload_id[e] \in UploadIds
        BY RelayConstants DEF Positions, Position, InSession, Sending, ExecType, Chunks
      <3> QED BY <3>1, ReceiveTyped DEF StoreType
    <2>6. faults' \in 0 .. MaxFaults OBVIOUS
    <2> QED BY <2>1, <2>2, <2>3, <2>4, <2>5, <2>6
  <1>7. CASE SendChunkRejected(e)
    <2> USE <1>7 DEF TypeOK, SendChunkRejected
    <2>1. RowType' BY DEF RowType
    <2>2. FlagType' BY DEF FlagType
    <2>3. StoreType' BY DEF StoreType
    <2>4. ExecType' BY RelayConstants DEF ExecType, Goto, Labels, LabelsAtWork
    <2>5. ServerType' BY DEF ServerType
    <2>6. faults' \in 0 .. MaxFaults OBVIOUS
    <2> QED BY <2>1, <2>2, <2>3, <2>4, <2>5, <2>6
  <1>8. CASE SaveChunk(e)
    <2> USE <1>8 DEF TypeOK, SaveChunk
    <2>1. RowType' BY RelayConstants DEF RowType, SaveRunning, RelayStatuses, ExecType, Position, Sending, Positions
    <2>2. FlagType' BY RelayConstants DEF FlagType, SaveRunning
    <2>3. StoreType' BY DEF StoreType
    <2>4. ExecType' BY RelayConstants DEF ExecType, Goto, Labels, LabelsAtWork, NextStop, Position, Sending, Positions
    <2>5. ServerType' BY DEF ServerType
    <2>6. faults' \in 0 .. MaxFaults OBVIOUS
    <2> QED BY <2>1, <2>2, <2>3, <2>4, <2>5, <2>6
  <1>9. CASE AwaitArchive(e)
    <2> USE <1>9 DEF TypeOK, AwaitArchive
    <2>1. RowType' BY DEF RowType
    <2>2. FlagType' BY DEF FlagType
    <2>3. StoreType' BY DEF StoreType
    <2>4. ExecType' BY RelayConstants DEF ExecType, Goto, Labels, LabelsAtWork
    <2>5. ServerType' BY DEF ServerType
    <2>6. faults' \in 0 .. MaxFaults OBVIOUS
    <2> QED BY <2>1, <2>2, <2>3, <2>4, <2>5, <2>6
  <1>10. CASE HandleError(e)
    <2> USE <1>10 DEF TypeOK, HandleError
    <2>1. RowType' BY RelayConstants DEF RowType, SaveRunning, RelayStatuses
    <2>2. FlagType' BY RelayConstants DEF FlagType, SaveRunning
    <2>3. StoreType' BY DEF StoreType
    <2>4. ExecType' BY RelayConstants DEF ExecType, Goto, Labels, LabelsAtWork, ForgetRun, Bytes, NoUpload
    <2>5. ServerType' BY DEF ServerType
    <2>6. faults' \in 0 .. MaxFaults OBVIOUS
    <2> QED BY <2>1, <2>2, <2>3, <2>4, <2>5, <2>6
  <1>11. CASE FinishSuccess(e)
    <2> USE <1>11 DEF TypeOK, FinishSuccess
    <2>1. RowType' BY RelayConstants DEF RowType, RelayStatuses, DeliveryStatuses
    <2>2. FlagType' BY RelayConstants DEF FlagType
    <2>3. StoreType' BY DEF StoreType
    <2>4. ExecType' BY RelayConstants DEF ExecType, Goto, Labels, LabelsAtWork, ForgetRun, Bytes, NoUpload
    <2>5. ServerType' BY DEF ServerType
    <2>6. faults' \in 0 .. MaxFaults OBVIOUS
    <2> QED BY <2>1, <2>2, <2>3, <2>4, <2>5, <2>6
  <1>12. CASE FinishFailed(e)
    <2> USE <1>12 DEF TypeOK, FinishFailed
    <2>1. RowType' BY RelayConstants DEF RowType, RelayStatuses, DeliveryStatuses
    <2>2. FlagType' BY RelayConstants DEF FlagType
    <2>3. StoreType' BY DEF StoreType
    <2>4. ExecType' BY RelayConstants DEF ExecType, Goto, Labels, LabelsAtWork
    <2>5. ServerType' BY DEF ServerType
    <2>6. faults' \in 0 .. MaxFaults OBVIOUS
    <2> QED BY <2>1, <2>2, <2>3, <2>4, <2>5, <2>6
  <1>13. CASE Return(e)
    <2> USE <1>13 DEF TypeOK, Return
    <2>1. RowType' BY DEF RowType
    <2>2. FlagType' BY RelayConstants DEF FlagType, ForgetRelay
    <2>3. StoreType' BY DEF StoreType
    <2>4. ExecType' BY RelayConstants DEF ExecType, Goto, Labels, LabelsAtWork, ForgetRelay, ForgetRun, Bytes, NoUpload
    <2>5. ServerType' BY DEF ServerType
    <2>6. faults' \in 0 .. MaxFaults OBVIOUS
    <2> QED BY <2>1, <2>2, <2>3, <2>4, <2>5, <2>6
  <1> QED BY <1>1, <1>2, <1>3, <1>4, <1>5, <1>6, <1>7, <1>8, <1>9, <1>10, <1>11, <1>12, <1>13 DEF Work

\* Network errors, timeouts, cancelled coroutines and killed pods keep the types.
LEMMA DisturbTyped ==
  ASSUME TypeOK, Positions, NEW e \in Pods, Disturb(e)
  PROVE  TypeOK'
  <1>1. CASE SendChunkAnswerLost(e)
    <2> USE <1>1 DEF TypeOK, SendChunkAnswerLost
    <2>1. RowType' BY DEF RowType
    <2>2. FlagType' BY DEF FlagType
    <2>3. StoreType' BY DEF StoreType
    <2>4. ExecType' BY RelayConstants DEF ExecType, Goto, Labels, LabelsAtWork
    <2>5. ServerType'
      <3>1. index[e] \in Chunks /\ upload_id[e] \in UploadIds
        BY RelayConstants DEF Positions, Position, InSession, Sending, ExecType, Chunks
      <3> QED BY <3>1, ReceiveTyped DEF StoreType
    <2>6. faults' \in 0 .. MaxFaults BY RelayConstants DEF Fault, Trouble
    <2> QED BY <2>1, <2>2, <2>3, <2>4, <2>5, <2>6
  <1>2. CASE AwaitTimeout(e)
    <2> USE <1>2 DEF TypeOK, AwaitTimeout
    <2>1. RowType' BY DEF RowType
    <2>2. FlagType' BY DEF FlagType
    <2>3. StoreType' BY DEF StoreType
    <2>4. ExecType' BY RelayConstants DEF ExecType, Goto, Labels, LabelsAtWork
    <2>5. ServerType' BY DEF ServerType
    <2>6. faults' \in 0 .. MaxFaults BY RelayConstants DEF Fault, Trouble
    <2> QED BY <2>1, <2>2, <2>3, <2>4, <2>5, <2>6
  <1>3. CASE NetworkError(e)
    <2> USE <1>3 DEF TypeOK, NetworkError
    <2>1. RowType' BY DEF RowType
    <2>2. FlagType' BY DEF FlagType
    <2>3. StoreType' BY DEF StoreType
    <2>4. ExecType' BY RelayConstants DEF ExecType, Goto, Labels, LabelsAtWork
    <2>5. ServerType' BY DEF ServerType
    <2>6. faults' \in 0 .. MaxFaults BY RelayConstants DEF Fault, Trouble
    <2> QED BY <2>1, <2>2, <2>3, <2>4, <2>5, <2>6
  <1>4. CASE CancelRelay(e)
    <2> USE <1>4 DEF TypeOK, CancelRelay
    <2>1. RowType' BY DEF RowType
    <2>2. FlagType' BY RelayConstants DEF FlagType, ForgetRelay
    <2>3. StoreType' BY DEF StoreType
    <2>4. ExecType' BY RelayConstants DEF ExecType, Goto, Labels, LabelsAtWork, ForgetRelay, ForgetRun, Bytes, NoUpload
    <2>5. ServerType' BY DEF ServerType
    <2>6. faults' \in 0 .. MaxFaults BY RelayConstants DEF Fault, Trouble
    <2> QED BY <2>1, <2>2, <2>3, <2>4, <2>5, <2>6
  <1>5. CASE KillPod(e)
    <2> USE <1>5 DEF TypeOK, KillPod
    <2>1. RowType' BY DEF RowType
    <2>2. FlagType' BY RelayConstants DEF FlagType, ForgetRelay
    <2>3. StoreType' BY DEF StoreType
    <2>4. ExecType' BY RelayConstants DEF ExecType, Goto, Labels, LabelsAtWork, ForgetRelay, ForgetRun, Bytes, NoUpload
    <2>5. ServerType' BY DEF ServerType
    <2>6. faults' \in 0 .. MaxFaults BY RelayConstants DEF Fault, Trouble
    <2> QED BY <2>1, <2>2, <2>3, <2>4, <2>5, <2>6
  <1> QED BY <1>1, <1>2, <1>3, <1>4, <1>5 DEF Disturb

\* trigger, claim_stale, the gate, the heartbeat and release keep the types.
LEMMA LeaseTyped ==
  ASSUME TypeOK, Positions, NEW e \in Pods, 
         \/ StartRelay(e) \/ ReconcileRelays(e) \/ AcquireGate(e)
         \/ GateTimeout(e) \/ Heartbeat(e) \/ ReleaseCancelled(e)
  PROVE  TypeOK'
  <1>1. CASE StartRelay(e)
    <2> USE <1>1 DEF TypeOK, StartRelay
    <2>1. RowType' BY RelayConstants DEF RowType, Trigger, Goto, Release, RelayStatuses
    <2>2. FlagType' BY RelayConstants DEF FlagType, Trigger, Goto, Release
    <2>3. StoreType' BY DEF StoreType
    <2>4. ExecType' BY RelayConstants DEF ExecType, Goto, Labels, LabelsAtWork, Trigger
    <2>5. ServerType' BY DEF ServerType
    <2>6. UNCHANGED faults \/ Fault BY Zenon DEF Trouble
    <2> HIDE <1>1
    <2> QED BY <2>1, <2>2, <2>3, <2>4, <2>5, <2>6, RelayConstants DEF Fault
  <1>2. CASE ReconcileRelays(e)
    <2> USE <1>2 DEF TypeOK, ReconcileRelays
    <2>1. RowType' BY RelayConstants DEF RowType, Trigger, Goto, Release, RelayStatuses
    <2>2. FlagType' BY RelayConstants DEF FlagType, Trigger, Goto, Release
    <2>3. StoreType' BY DEF StoreType
    <2>4. ExecType' BY RelayConstants DEF ExecType, Goto, Labels, LabelsAtWork, Trigger
    <2>5. ServerType' BY DEF ServerType
    <2>6. faults' \in 0 .. MaxFaults OBVIOUS
    <2> QED BY <2>1, <2>2, <2>3, <2>4, <2>5, <2>6
  <1>3. CASE AcquireGate(e)
    <2> USE <1>3 DEF TypeOK, AcquireGate
    <2>1. RowType' BY DEF RowType
    <2>2. FlagType' BY RelayConstants DEF FlagType
    <2>3. StoreType' BY DEF StoreType
    <2>4. ExecType' BY RelayConstants DEF ExecType, Goto, Labels, LabelsAtWork
    <2>5. ServerType' BY DEF ServerType
    <2>6. faults' \in 0 .. MaxFaults OBVIOUS
    <2> QED BY <2>1, <2>2, <2>3, <2>4, <2>5, <2>6
  <1>4. CASE GateTimeout(e)
    <2> USE <1>4 DEF TypeOK, GateTimeout
    <2>1. RowType' BY RelayConstants DEF RowType, Release, RelayStatuses
    <2>2. FlagType' BY RelayConstants DEF FlagType, Release
    <2>3. StoreType' BY DEF StoreType
    <2>4. ExecType' BY RelayConstants DEF ExecType, Goto, Labels, LabelsAtWork
    <2>5. ServerType' BY DEF ServerType
    <2>6. faults' \in 0 .. MaxFaults OBVIOUS
    <2> QED BY <2>1, <2>2, <2>3, <2>4, <2>5, <2>6
  <1>5. CASE Heartbeat(e)
    <2> USE <1>5 DEF TypeOK, Heartbeat
    <2>1. RowType' BY RelayConstants DEF RowType
    <2>2. FlagType' BY RelayConstants DEF FlagType
    <2>3. StoreType' BY DEF StoreType
    <2>4. ExecType' BY RelayConstants DEF ExecType
    <2>5. ServerType' BY DEF ServerType
    <2>6. faults' \in 0 .. MaxFaults OBVIOUS
    <2> QED BY <2>1, <2>2, <2>3, <2>4, <2>5, <2>6
  <1>6. CASE ReleaseCancelled(e)
    <2> USE <1>6 DEF TypeOK, ReleaseCancelled
    <2>1. RowType' BY RelayConstants DEF RowType, Release, RelayStatuses
    <2>2. FlagType' BY RelayConstants DEF FlagType, Release
    <2>3. StoreType' BY DEF StoreType
    <2>4. ExecType' BY RelayConstants DEF ExecType, Goto, Labels, LabelsAtWork
    <2>5. ServerType' BY DEF ServerType
    <2>6. faults' \in 0 .. MaxFaults OBVIOUS
    <2> QED BY <2>1, <2>2, <2>3, <2>4, <2>5, <2>6
  <1> QED BY <1>1, <1>2, <1>3, <1>4, <1>5, <1>6

\* Assembling, failing and expiring a session keeps the types.
LEMMA ServerTyped ==
  ASSUME TypeOK, Positions, NEW s \in UploadIds, Server(s)
  PROVE  TypeOK'
  <1>1. CASE ArchiveSession(s)
    <2> USE <1>1 DEF TypeOK, ArchiveSession
    <2>1. RowType' BY DEF RowType
    <2>2. FlagType' BY DEF FlagType
    <2>3. StoreType' BY DEF StoreType
    <2>4. ExecType' BY DEF ExecType
    <2>5. ServerType' BY RelayConstants DEF ServerType, Phases
    <2>6. faults' \in 0 .. MaxFaults OBVIOUS
    <2> QED BY <2>1, <2>2, <2>3, <2>4, <2>5, <2>6
  <1>2. CASE FailSession(s)
    <2> USE <1>2 DEF TypeOK, FailSession
    <2>1. RowType' BY DEF RowType
    <2>2. FlagType' BY DEF FlagType
    <2>3. StoreType' BY DEF StoreType
    <2>4. ExecType' BY DEF ExecType
    <2>5. ServerType' BY RelayConstants DEF ServerType, Phases, Whole, Bytes
    <2>6. faults' \in 0 .. MaxFaults BY RelayConstants DEF Fault, Trouble
    <2> QED BY <2>1, <2>2, <2>3, <2>4, <2>5, <2>6
  <1>3. CASE ExpireSession(s)
    <2> USE <1>3 DEF TypeOK, ExpireSession
    <2>1. RowType' BY DEF RowType
    <2>2. FlagType' BY DEF FlagType
    <2>3. StoreType' BY DEF StoreType
    <2>4. ExecType' BY DEF ExecType
    <2>5. ServerType' BY RelayConstants DEF ServerType, Phases
    <2>6. faults' \in 0 .. MaxFaults BY RelayConstants DEF Fault, Trouble
    <2> QED BY <2>1, <2>2, <2>3, <2>4, <2>5, <2>6
  <1> QED BY <1>1, <1>2, <1>3 DEF Server

\* Deliveries, merges, corrections and the ageing lease keep the types.
LEMMA PlatformTyped ==
  ASSUME TypeOK, Positions, 
         \/ LeaseExpires \/ BeginDelivery \/ MergePackage
         \/ CommitPackage \/ TriggerAfterComplete \/ KillUploader
         \/ CorrectTask
  PROVE  TypeOK'
  <1>1. CASE LeaseExpires
    <2> USE <1>1 DEF TypeOK, LeaseExpires
    <2>1. RowType' BY RelayConstants DEF RowType
    <2>2. FlagType' BY RelayConstants DEF FlagType
    <2>3. StoreType' BY DEF StoreType
    <2>4. ExecType' BY DEF ExecType
    <2>5. ServerType' BY DEF ServerType
    <2>6. faults' \in 0 .. MaxFaults BY RelayConstants DEF Fault, Trouble
    <2> QED BY <2>1, <2>2, <2>3, <2>4, <2>5, <2>6
  <1>2. CASE BeginDelivery
    <2> USE <1>2 DEF TypeOK, BeginDelivery
    <2>1. RowType' BY RelayConstants DEF RowType, DeliveryStatuses, Epochs, Bytes, RelayStatuses
    <2>2. FlagType' BY RelayConstants DEF FlagType
    <2>3. StoreType' BY DEF StoreType
    <2>4. ExecType' BY DEF ExecType
    <2>5. ServerType' BY DEF ServerType
    <2>6. faults' \in 0 .. MaxFaults OBVIOUS
    <2> QED BY <2>1, <2>2, <2>3, <2>4, <2>5, <2>6
  <1>3. CASE MergePackage
    <2> USE <1>3 DEF TypeOK, MergePackage
    <2>1. RowType' BY DEF RowType
    <2>2. FlagType' BY DEF FlagType
    <2>3. StoreType' BY RelayConstants DEF StoreType, RowType, Epochs, Bytes
    <2>4. ExecType' BY DEF ExecType
    <2>5. ServerType' BY DEF ServerType
    <2>6. faults' \in 0 .. MaxFaults OBVIOUS
    <2> QED BY <2>1, <2>2, <2>3, <2>4, <2>5, <2>6
  <1>4. CASE CommitPackage
    <2> USE <1>4 DEF TypeOK, CommitPackage
    <2>1. RowType' BY RelayConstants DEF RowType, StoreType, DeliveryStatuses
    <2>2. FlagType' BY RelayConstants DEF FlagType
    <2>3. StoreType' BY RelayConstants DEF StoreType
    <2>4. ExecType' BY DEF ExecType
    <2>5. ServerType' BY DEF ServerType
    <2>6. faults' \in 0 .. MaxFaults OBVIOUS
    <2> QED BY <2>1, <2>2, <2>3, <2>4, <2>5, <2>6
  <1>5. CASE TriggerAfterComplete
    <2> USE <1>5 DEF TypeOK, TriggerAfterComplete
    <2>1. RowType' BY RelayConstants DEF RowType, Trigger, Goto, Release, RelayStatuses
    <2>2. FlagType' BY RelayConstants DEF FlagType, Trigger, Goto, Release
    <2>3. StoreType' BY RelayConstants DEF StoreType
    <2>4. ExecType' BY RelayConstants DEF ExecType, Goto, Labels, LabelsAtWork, Trigger
    <2>5. ServerType' BY DEF ServerType
    <2>6. faults' \in 0 .. MaxFaults OBVIOUS
    <2> QED BY <2>1, <2>2, <2>3, <2>4, <2>5, <2>6
  <1>6. CASE KillUploader
    <2> USE <1>6 DEF TypeOK, KillUploader
    <2>1. RowType' BY DEF RowType
    <2>2. FlagType' BY DEF FlagType
    <2>3. StoreType' BY RelayConstants DEF StoreType
    <2>4. ExecType' BY DEF ExecType
    <2>5. ServerType' BY DEF ServerType
    <2>6. faults' \in 0 .. MaxFaults BY RelayConstants DEF Fault, Trouble
    <2> QED BY <2>1, <2>2, <2>3, <2>4, <2>5, <2>6
  <1>7. CASE CorrectTask
    <2> USE <1>7 DEF TypeOK, CorrectTask
    <2>1. RowType' BY RelayConstants DEF RowType, RelayStatuses
    <2>2. FlagType' BY RelayConstants DEF FlagType
    <2>3. StoreType' BY DEF StoreType
    <2>4. ExecType' BY DEF ExecType
    <2>5. ServerType' BY DEF ServerType
    <2>6. faults' \in 0 .. MaxFaults BY RelayConstants DEF Fault, Trouble
    <2> QED BY <2>1, <2>2, <2>3, <2>4, <2>5, <2>6
  <1> QED BY <1>1, <1>2, <1>3, <1>4, <1>5, <1>6, <1>7

--------------------------------------------------------------------------------
(***************************************************************************)
(* The break point is backed by the server.                                *)
(***************************************************************************)
Backed(s, n) ==
  phase[s] \in {"open", "complete", "done"} => \A c \in Chunks : c < n => held[s][c] # 0

RowBacked ==
  relay_upload_id # NoUpload =>
    /\ phase[relay_upload_id] # "absent"
    /\ Backed(relay_upload_id, relay_chunk_index + 1)

PodBacked(e) ==
  /\ Position(e)
  /\ upload_id[e] # NoUpload => phase[upload_id[e]] # "absent"
  /\ pc[e] \in Sending \cup {"probe", "init", "saveinit"} => file # 0
  /\ pc[e] = "saveinit" => index[e] = 0
  /\ pc[e] \in {"probe", "send", "savechunk", "savelast"} => Backed(upload_id[e], index[e])
  /\ pc[e] \in {"savechunk", "savelast"} => Backed(upload_id[e], index[e] + 1)

BackedInv == RowBacked /\ \A e \in Pods : PodBacked(e)

\* The server forgets no session, and no chunk of a session that is alive afterwards.
ServerKeeps ==
  \A s \in UploadIds :
    phase[s] # "absent" =>
      /\ phase'[s] # "absent"
      /\ \A n \in 0 .. ChunkTotal : Backed(s, n) => Backed(s, n)'

\* A server that does not move forgets nothing.
LEMMA UnchangedKeeps == UNCHANGED <<phase, held>> => ServerKeeps
  BY DEF ServerKeeps, Backed

\* What a coroutine relies on survives every step that leaves its locals alone.
LEMMA PodKept ==
  ASSUME TypeOK, ServerKeeps, file # 0 => file' # 0,
         NEW f \in Pods, PodBacked(f),
         pc'[f] = pc[f], upload_id'[f] = upload_id[f], index'[f] = index[f]
  PROVE  PodBacked(f)'
  <1> USE DEF PodBacked
  <1>1. upload_id[f] \in UploadIds \cup {NoUpload} /\ index[f] \in 0 .. ChunkTotal
    BY DEF TypeOK, ExecType
  <1>2. Position(f)'
    BY DEF Position
  <1>3. upload_id'[f] # NoUpload => phase'[upload_id'[f]] # "absent"
    BY <1>1 DEF ServerKeeps
  <1>4. ASSUME pc[f] \in {"probe", "send", "savechunk", "savelast"}
        PROVE  Backed(upload_id[f], index[f])'
    <2>1. upload_id[f] \in UploadIds /\ upload_id[f] # NoUpload
      BY <1>4 DEF Position, InSession, Sending, UploadIds, NoUpload
    <2> QED BY <1>1, <1>4, <2>1 DEF ServerKeeps, Backed
  <1>5. ASSUME pc[f] \in {"savechunk", "savelast"}
        PROVE  Backed(upload_id[f], index[f] + 1)'
    <2>1. upload_id[f] \in UploadIds /\ upload_id[f] # NoUpload
      BY <1>5 DEF Position, InSession, Sending, UploadIds, NoUpload
    <2>2. index[f] + 1 \in 0 .. ChunkTotal
      BY <1>1, <1>5, RelayConstants DEF Position, Sending
    <2> QED BY <1>5, <2>1, <2>2 DEF ServerKeeps, Backed
  <1> QED BY <1>2, <1>3, <1>4, <1>5

\* The break point of the row survives every step that does not write it.
LEMMA RowKept ==
  ASSUME TypeOK, ServerKeeps, RowBacked, UNCHANGED <<relay_upload_id, relay_chunk_index>>
  PROVE  RowBacked'
  <1>1. relay_upload_id # NoUpload => relay_upload_id \in UploadIds
    BY DEF TypeOK, RowType
  <1>2. relay_chunk_index + 1 \in 0 .. ChunkTotal
    BY RelayConstants DEF TypeOK, RowType
  <1> QED BY <1>1, <1>2 DEF RowBacked, ServerKeeps, Backed

\* A chunk overwritten by a re-send is never lost (external 5888 server).
LEMMA ReceiveKeeps ==
  ASSUME TypeOK, file # 0, NEW s \in UploadIds, NEW c \in Chunks, Receive(s, c)
  PROVE  /\ ServerKeeps
         /\ held'[s][c] # 0
  <1> USE DEF TypeOK, ServerType, Receive
  <1>1. \A t \in UploadIds : \A d \in Chunks :
           held'[t][d] = IF t = s /\ d = c THEN file ELSE held[t][d]
    BY DEF Store
  <1>2. \A t \in UploadIds : phase'[t] = phase[t] \/ (t = s /\ phase'[t] = "complete" /\ Full(s, c))
    OBVIOUS
  <1>3. ASSUME NEW t \in UploadIds, phase[t] # "absent", NEW n \in 0 .. ChunkTotal, Backed(t, n)
        PROVE  Backed(t, n)'
    <2>1. CASE phase'[t] = phase[t]
      BY <1>1, <1>3, <2>1 DEF Backed
    <2>2. CASE t = s /\ Full(s, c)
      BY <1>1, <2>2 DEF Backed, Full
    <2> QED BY <1>2, <2>1, <2>2
  <1> QED BY <1>1, <1>2, <1>3 DEF ServerKeeps

\* Only pod e moves, and what it moves to is backed.
LEMMA OnePodMoves ==
  ASSUME TypeOK, BackedInv, ServerKeeps, file # 0 => file' # 0, NEW e \in Pods,
         \A f \in Pods \ {e} : /\ pc'[f] = pc[f]
                               /\ upload_id'[f] = upload_id[f]
                               /\ index'[f] = index[f],
         PodBacked(e)', RowBacked'
  PROVE  BackedInv'
  <1>1. \A f \in Pods \ {e} : PodBacked(f)'
    BY PodKept DEF BackedInv
  <1> QED BY <1>1 DEF BackedInv

\* Every step of one attempt keeps what the break points rest on: _run sends a chunk
\* before _save records it, and starts a new session at chunk 0.
LEMMA WorkBacked ==
  ASSUME TypeOK, BackedInv, NEW e \in Pods, Work(e)
  PROVE  BackedInv'
  <1> USE DEF Goto
  <1>0. /\ pc \in [Pods -> Labels] /\ upload_id \in [Pods -> UploadIds \cup {NoUpload}]
        /\ index \in [Pods -> 0 .. ChunkTotal]
        /\ RowBacked /\ PodBacked(e)
    BY DEF TypeOK, ExecType, BackedInv
  <1>1. CASE BeginAttempt(e)
    <2> USE <1>1 DEF BeginAttempt
    <2>1. ServerKeeps BY UnchangedKeeps
    <2>2. RowBacked' BY <1>0, <2>1, RowKept
    <2>3. PodBacked(e)' BY <1>0 DEF PodBacked, Position, Sending, InSession, Backed
    <2> QED BY <1>0, <2>1, <2>2, <2>3, OnePodMoves
  <1>2. CASE LoadTask(e)
    <2> USE <1>2 DEF LoadTask
    <2>1. ServerKeeps BY UnchangedKeeps
    <2>2. RowBacked' BY <1>0, <2>1, RowKept
    <2>3. PodBacked(e)'
      <3>1. CASE pc'[e] = "permanent"
        BY <1>0, <3>1 DEF PodBacked, Position, Sending, InSession
      <3>2. CASE pc'[e] = "probe" /\ Reusable
        <4>1. upload_id'[e] = relay_upload_id /\ relay_upload_id \in UploadIds /\ file' # 0
          BY <1>0, <3>2 DEF Reusable, TypeOK, RowType
        <4>2. \A c \in Chunks : c < index'[e] => c < relay_chunk_index + 1
          BY <1>0, <3>2 DEF ResumeIndex, TypeOK, RowType, Chunks
        <4>3. Backed(upload_id[e], index[e])'
          BY <1>0, <3>2, <4>1, <4>2 DEF RowBacked, Backed, Reusable
        <4> QED BY <1>0, <3>2, <4>1, <4>3 DEF PodBacked, Position, Sending, InSession, RowBacked
      <3>3. CASE pc'[e] = "init"
        <4>1. upload_id'[e] = relay_upload_id /\ file' # 0
          BY <1>0, <3>3
        <4> QED BY <1>0, <3>3, <4>1 DEF PodBacked, Position, Sending, InSession, RowBacked
      <3> QED BY <1>0, <3>1, <3>2, <3>3
    <2> QED BY <1>0, <2>1, <2>2, <2>3, OnePodMoves
  <1>3. CASE ProbeSession(e)
    <2> USE <1>3 DEF ProbeSession
    <2>1. ServerKeeps BY UnchangedKeeps
    <2>2. RowBacked' BY <1>0, <2>1, RowKept
    <2>3. PodBacked(e)'
      BY <1>0 DEF PodBacked, Position, Sending, InSession, Backed, NextStop
    <2> QED BY <1>0, <2>1, <2>2, <2>3, OnePodMoves
  <1>4. CASE InitUpload(e)
    <2> USE <1>4 DEF InitUpload
    <2>0. PICK s \in UploadIds : /\ FirstAbsent(s)
                                 /\ phase' = [phase EXCEPT ![s] = "open"]
                                 /\ upload_id' = [upload_id EXCEPT ![e] = s]
      OBVIOUS
    <2>1. ServerKeeps BY <2>0 DEF ServerKeeps, Backed, FirstAbsent, TypeOK, ServerType
    <2>2. RowBacked' BY <1>0, <2>1, RowKept
    <2>3. PodBacked(e)'
      BY <1>0, <2>0 DEF PodBacked, Position, Sending, InSession, TypeOK, ServerType
    <2> QED BY <1>0, <2>0, <2>1, <2>2, <2>3, OnePodMoves
  <1>5. CASE SaveInit(e)
    <2> USE <1>5 DEF SaveInit
    <2>1. ServerKeeps BY UnchangedKeeps
    <2>2. RowBacked'
      BY <1>0 DEF PodBacked, Position, InSession, RowBacked, Backed, Chunks
    <2>3. PodBacked(e)'
      BY <1>0, RelayConstants DEF PodBacked, Position, Sending, InSession, Backed, Chunks
    <2> QED BY <1>0, <2>1, <2>2, <2>3, OnePodMoves
  <1>6. CASE SendChunk(e)
    <2> USE <1>6 DEF SendChunk
    <2>0. /\ upload_id[e] \in UploadIds /\ index[e] \in Chunks /\ file # 0
          /\ Receive(upload_id[e], index[e])
      BY <1>0, RelayConstants DEF PodBacked, Position, Sending, InSession, Chunks
    <2>1. ServerKeeps /\ held'[upload_id[e]][index[e]] # 0 BY <2>0, ReceiveKeeps
    <2>2. RowBacked' BY <1>0, <2>1, RowKept DEF Receive
    <2>3. PodBacked(e)'
      <3>1. phase'[upload_id[e]] # "absent" /\ Backed(upload_id[e], index[e])'
        BY <1>0, <2>0, <2>1 DEF ServerKeeps, PodBacked, UploadIds, NoUpload
      <3>2. Backed(upload_id[e], index[e] + 1)'
        BY <1>0, <2>0, <2>1, <3>1 DEF Backed, Chunks
      <3> QED BY <1>0, <2>0, <3>1, <3>2 DEF PodBacked, Position, Sending, InSession, Backed
    <2> QED BY <1>0, <2>0, <2>1, <2>2, <2>3, OnePodMoves
  <1>7. CASE SendChunkRejected(e)
    <2> USE <1>7 DEF SendChunkRejected
    <2>1. ServerKeeps BY UnchangedKeeps
    <2>2. RowBacked' BY <1>0, <2>1, RowKept
    <2>3. PodBacked(e)' BY <1>0 DEF PodBacked, Position, Sending, InSession
    <2> QED BY <1>0, <2>1, <2>2, <2>3, OnePodMoves
  <1>8. CASE SaveChunk(e)
    <2> USE <1>8 DEF SaveChunk
    <2>1. ServerKeeps BY UnchangedKeeps
    <2>2. RowBacked' BY <1>0 DEF PodBacked, Position, InSession, Sending, RowBacked, Backed
    <2>3. PodBacked(e)'
      <3>1. index'[e] = index[e] + 1 /\ upload_id'[e] = upload_id[e]
        BY <1>0
      <3>2. pc'[e] \in {"send", "await"} /\ (pc'[e] = "send" => index'[e] < ChunkTotal)
        BY <1>0, <3>1 DEF NextStop
      <3>3. /\ upload_id[e] \in UploadIds /\ Backed(upload_id[e], index[e] + 1)
            /\ upload_id[e] # NoUpload => phase[upload_id[e]] # "absent"
        BY <1>0 DEF PodBacked, Position, InSession, Sending
      <3>4. Backed(upload_id[e], index[e])'
        BY <3>1, <3>3 DEF Backed
      <3>5. pc'[e] = "send" => file' # 0
        BY <1>0 DEF PodBacked, Sending
      <3> QED BY <3>1, <3>2, <3>3, <3>4, <3>5 DEF PodBacked, Position, Sending, InSession
    <2> QED BY <1>0, <2>1, <2>2, <2>3, OnePodMoves
  <1>9. CASE AwaitArchive(e)
    <2> USE <1>9 DEF AwaitArchive
    <2>1. ServerKeeps BY UnchangedKeeps
    <2>2. RowBacked' BY <1>0, <2>1, RowKept
    <2>3. PodBacked(e)' BY <1>0 DEF PodBacked, Position, Sending, InSession
    <2> QED BY <1>0, <2>1, <2>2, <2>3, OnePodMoves
  <1>10. CASE HandleError(e)
    <2> USE <1>10 DEF HandleError, ForgetRun
    <2>1. ServerKeeps BY UnchangedKeeps
    <2>2. RowBacked' BY <1>0, <2>1, RowKept
    <2>3. PodBacked(e)' BY <1>0 DEF PodBacked, Position, Sending, InSession
    <2> QED BY <1>0, <2>1, <2>2, <2>3, OnePodMoves
  <1>11. CASE FinishSuccess(e)
    <2> USE <1>11 DEF FinishSuccess, ForgetRun
    <2>1. ServerKeeps BY UnchangedKeeps
    <2>2. RowBacked' BY <1>0, <2>1, RowKept
    <2>3. PodBacked(e)' BY <1>0 DEF PodBacked, Position, Sending, InSession
    <2> QED BY <1>0, <2>1, <2>2, <2>3, OnePodMoves
  <1>12. CASE FinishFailed(e)
    <2> USE <1>12 DEF FinishFailed
    <2>1. ServerKeeps BY UnchangedKeeps
    <2>2. RowBacked' BY <1>0, <2>1, RowKept
    <2>3. PodBacked(e)' BY <1>0 DEF PodBacked, Position, Sending, InSession
    <2> QED BY <1>0, <2>1, <2>2, <2>3, OnePodMoves
  <1>13. CASE Return(e)
    <2> USE <1>13 DEF Return, ForgetRelay, ForgetRun
    <2>1. ServerKeeps BY UnchangedKeeps
    <2>2. RowBacked' BY <1>0, <2>1, RowKept
    <2>3. PodBacked(e)' BY <1>0 DEF PodBacked, Position, Sending, InSession
    <2> QED BY <1>0, <2>1, <2>2, <2>3, OnePodMoves
  <1> QED BY <1>1, <1>2, <1>3, <1>4, <1>5, <1>6, <1>7, <1>8, <1>9, <1>10, <1>11,
             <1>12, <1>13 DEF Work

\* A coroutine that errs or dies leaves the break points backed.
LEMMA DisturbBacked ==
  ASSUME TypeOK, BackedInv, NEW e \in Pods, Disturb(e)
  PROVE  BackedInv'
  <1> USE DEF Goto
  <1>0. /\ pc \in [Pods -> Labels] /\ upload_id \in [Pods -> UploadIds \cup {NoUpload}]
        /\ index \in [Pods -> 0 .. ChunkTotal]
        /\ RowBacked /\ PodBacked(e)
    BY DEF TypeOK, ExecType, BackedInv
  <1>1. CASE SendChunkAnswerLost(e)
    <2> USE <1>1 DEF SendChunkAnswerLost
    <2>0. /\ upload_id[e] \in UploadIds /\ index[e] \in Chunks /\ file # 0
          /\ Receive(upload_id[e], index[e])
      BY <1>0, RelayConstants DEF PodBacked, Position, Sending, InSession, Chunks
    <2>1. ServerKeeps BY <2>0, ReceiveKeeps
    <2>2. RowBacked' BY <1>0, <2>1, RowKept
    <2>3. PodBacked(e)'
      BY <1>0, <2>0, <2>1 DEF ServerKeeps, PodBacked, Position, Sending, InSession
    <2> QED BY <1>0, <2>1, <2>2, <2>3, OnePodMoves
  <1>2. CASE AwaitTimeout(e) \/ NetworkError(e)
    <2> USE <1>2 DEF AwaitTimeout, NetworkError
    <2>1. ServerKeeps BY UnchangedKeeps
    <2>2. RowBacked' BY <1>0, <2>1, RowKept
    <2>3. PodBacked(e)' BY <1>0 DEF PodBacked, Position, Sending, InSession
    <2> QED BY <1>0, <2>1, <2>2, <2>3, OnePodMoves
  <1>3. CASE CancelRelay(e) \/ KillPod(e)
    <2> USE <1>3 DEF CancelRelay, KillPod, ForgetRelay, ForgetRun
    <2>1. ServerKeeps BY UnchangedKeeps
    <2>2. RowBacked' BY <1>0, <2>1, RowKept
    <2>3. PodBacked(e)' BY <1>0 DEF PodBacked, Position, Sending, InSession
    <2> QED BY <1>0, <2>1, <2>2, <2>3, OnePodMoves
  <1> QED BY <1>1, <1>2, <1>3 DEF Disturb

\* Taking, renewing and giving back the lease moves no coroutine to or from a session.
LEMMA TriggerBacked ==
  ASSUME TypeOK, BackedInv, NEW e \in Pods, NEW force, Trigger(e, force),
         UNCHANGED <<file, phase, held>>
  PROVE  BackedInv'
  <1> USE DEF Trigger, Goto
  <1>0. /\ pc \in [Pods -> Labels] /\ RowBacked /\ PodBacked(e)
    BY DEF TypeOK, ExecType, BackedInv
  <1>1. ServerKeeps BY UnchangedKeeps
  <1>2. RowBacked' BY <1>0, <1>1, RowKept
  <1>3. PodBacked(e)' BY <1>0 DEF PodBacked, Position, Sending, InSession
  <1> QED BY <1>0, <1>1, <1>2, <1>3, OnePodMoves

\* Taking over a row starts from what the row says, nothing else.
LEMMA LeaseBacked ==
  ASSUME TypeOK, BackedInv, NEW e \in Pods,
         \/ StartRelay(e) \/ ReconcileRelays(e) \/ AcquireGate(e)
         \/ GateTimeout(e) \/ Heartbeat(e) \/ ReleaseCancelled(e)
  PROVE  BackedInv'
  <1>0. /\ pc \in [Pods -> Labels] /\ RowBacked /\ PodBacked(e)
    BY DEF TypeOK, ExecType, BackedInv
  <1>1. CASE StartRelay(e)
    BY <1>1, TriggerBacked DEF StartRelay
  <1>2. CASE ReconcileRelays(e)
    BY <1>2, TriggerBacked DEF ReconcileRelays
  <1>3. CASE AcquireGate(e) \/ GateTimeout(e) \/ Heartbeat(e) \/ ReleaseCancelled(e)
    <2> USE <1>3 DEF AcquireGate, GateTimeout, Heartbeat, ReleaseCancelled, Release, Goto
    <2>1. ServerKeeps BY UnchangedKeeps
    <2>2. RowBacked' BY <1>0, <2>1, RowKept
    <2>3. PodBacked(e)' BY <1>0 DEF PodBacked, Position, Sending, InSession, Backed
    <2> QED BY <1>0, <2>1, <2>2, <2>3, OnePodMoves
  <1> QED BY <1>1, <1>2, <1>3

\* No coroutine moves.
LEMMA PodsStay ==
  ASSUME TypeOK, BackedInv, ServerKeeps, file # 0 => file' # 0,
         UNCHANGED <<pc, upload_id, index>>, RowBacked'
  PROVE  BackedInv'
  BY PodKept DEF BackedInv

\* A session that fails or expires is no longer one to resume.
LEMMA ServerBacked ==
  ASSUME TypeOK, BackedInv, NEW s \in UploadIds, Server(s)
  PROVE  BackedInv'
  <1>1. ServerKeeps
    <2>1. /\ \A t \in UploadIds \ {s} : phase'[t] = phase[t] /\ held'[t] = held[t]
          /\ phase[s] \in {"open", "complete"}
          /\ phase'[s] \in {"done", "gone", "failed"}
          /\ phase'[s] = "done" => phase[s] = "complete" /\ held'[s] = held[s]
      BY DEF Server, ArchiveSession, FailSession, ExpireSession, TypeOK, ServerType
    <2> QED BY <2>1 DEF ServerKeeps, Backed
  <1>2. UNCHANGED <<rowVars, storeVars, execVars>>
    BY DEF Server, ArchiveSession, FailSession, ExpireSession
  <1>3. RowBacked' BY <1>1, <1>2, RowKept DEF BackedInv
  <1> QED BY <1>1, <1>2, <1>3, PodsStay

\* A new delivery or a correction never advances a break point.
LEMMA PlatformBacked ==
  ASSUME TypeOK, BackedInv, Platform \/ LeaseExpires
  PROVE  BackedInv'
  <1>1. CASE LeaseExpires \/ BeginDelivery \/ CommitPackage \/ KillUploader \/ MergePackage
    <2> USE <1>1 DEF LeaseExpires, BeginDelivery, CommitPackage, KillUploader, MergePackage
    <2>1. ServerKeeps BY UnchangedKeeps
    <2>2. RowBacked' BY <2>1, RowKept DEF BackedInv
    <2>3. file # 0 => file' # 0 BY DEF TypeOK, RowType, Epochs
    <2> QED BY <2>1, <2>2, <2>3, PodsStay
  <1>2. CASE TriggerAfterComplete
    <2>1. CASE UNCHANGED <<rowVars, execVars>>
      BY <1>2, <2>1, PodsStay, RowKept, UnchangedKeeps DEF TriggerAfterComplete, BackedInv
    <2>2. CASE \E e \in Pods : Trigger(e, FALSE)
      BY <1>2, <2>2, TriggerBacked DEF TriggerAfterComplete
    <2> QED BY <1>2, <2>1, <2>2 DEF TriggerAfterComplete
  <1>3. CASE CorrectTask
    <2> USE <1>3 DEF CorrectTask
    <2>1. ServerKeeps BY UnchangedKeeps
    <2>2. RowBacked' BY DEF BackedInv, RowBacked, Backed, Chunks
    <2> QED BY <2>1, <2>2, PodsStay
  <1> QED BY <1>1, <1>2, <1>3 DEF Platform

--------------------------------------------------------------------------------
RelayInv == TypeOK /\ BackedInv

\* RelayInv holds of a task whose delivery was just registered.
LEMMA InitInv == Init => RelayInv
  BY InitType DEF Init, RelayInv, BackedInv, RowBacked, PodBacked, Position, Sending, InSession

\* RelayInv is inductive: one case per process of Next.
LEMMA NextInv == RelayInv /\ [Next]_vars => RelayInv'
  <1> SUFFICES ASSUME RelayInv, [Next]_vars PROVE RelayInv'
    OBVIOUS
  <1>0. TypeOK /\ BackedInv /\ Positions
    BY DEF RelayInv, BackedInv, Positions, PodBacked
  <1>1. ASSUME NEW e \in Pods, Pod(e) PROVE RelayInv'
    BY <1>0, <1>1, WorkTyped, DisturbTyped, LeaseTyped, WorkBacked, DisturbBacked, LeaseBacked
       DEF Pod, RelayInv
  <1>2. ASSUME NEW s \in UploadIds, Server(s) PROVE RelayInv'
    BY <1>0, <1>2, ServerTyped, ServerBacked DEF RelayInv
  <1>3. CASE LeaseExpires \/ Platform
    BY <1>0, <1>3, PlatformTyped, PlatformBacked DEF Platform, RelayInv
  <1>4. CASE UNCHANGED vars
    <2>1. TypeOK'
      BY <1>0, <1>4 DEF TypeOK, RowType, FlagType, StoreType, ExecType, ServerType
    <2>2. BackedInv'
      BY <1>0, <1>4, PodsStay, RowKept, UnchangedKeeps DEF BackedInv
    <2> QED BY <2>1, <2>2 DEF RelayInv
  <1> QED BY <1>1, <1>2, <1>3, <1>4 DEF Next

\* RelayInv in every behaviour; TypeCorrect and BreakPointSound follow from it.
LEMMA InvHolds == Spec => []RelayInv
  BY InitInv, NextInv, PTL DEF Spec

\* Every variable keeps its type, for any number of pods, sessions, epochs and faults.
THEOREM TypeCorrect == Spec => []TypeOK
  <1>1. RelayInv => TypeOK
    BY DEF RelayInv
  <1> QED BY <1>1, InvHolds, PTL

\* The persisted break point never runs ahead of the log server: a resumed relay
\* (_run, start_index) skips no chunk that the server does not hold.
THEOREM BreakPointSound == Spec => []PersistedIndexBacked
  <1>1. RelayInv => PersistedIndexBacked
    BY DEF RelayInv, BackedInv, RowBacked, Backed, PersistedIndexBacked, TypeOK, RowType, Chunks
  <1> QED BY <1>1, InvHolds, PTL

--------------------------------------------------------------------------------
(***************************************************************************)
(* One executor at a time.  Without force, orderly shutdown, correction    *)
(* and stalls the lease is a lock: crashes, network errors and server      *)
(* failures do not break it.                                               *)
(***************************************************************************)
Holds(e) == pc[e] \in LabelsAtWork \cup {"queued"}

\* Whoever holds the lease has marked the row running and keeps the lease fresh,
\* so nobody else can claim the row.
Lock ==
  /\ \A e \in Pods : pc[e] # "draining"
  /\ \A e \in Pods : Holds(e) => relay_status = "running" /\ lease = TRUE
  /\ \A e \in Pods : pc[e] \in LabelsAtWork => beating[e] = TRUE
  /\ \A e, f \in Pods : Holds(e) /\ Holds(f) => e = f

\* The step of one pod that leaves the row running and the lease fresh, or gives
\* both up together with its own hold.
LEMMA HolderMoves ==
  ASSUME TypeOK, Lock, NEW e \in Pods, Holds(e),
         \A f \in Pods \ {e} : pc'[f] = pc[f] /\ beating'[f] = beating[f],
         pc'[e] # "draining",
         Holds(e)' => relay_status' = "running" /\ lease' = TRUE,
         (pc[e] \in LabelsAtWork)' => beating'[e] = TRUE
  PROVE  Lock'
  BY DEF Lock, Holds

\* An attempt keeps its own lease: every _save renews it, _finish gives it up.
LEMMA WorkLocked ==
  ASSUME TypeOK, Lock, NEW e \in Pods, Work(e)
  PROVE  Lock'
  <1>0. pc \in [Pods -> Labels] /\ beating \in [Pods -> BOOLEAN]
    BY DEF TypeOK, ExecType, FlagType
  <1>1. CASE Return(e)
    BY <1>0, <1>1 DEF Return, ForgetRelay, Goto, Lock, Holds, LabelsAtWork
  <1>2. CASE FinishSuccess(e) \/ FinishFailed(e)
    <2> USE <1>0, <1>2 DEF FinishSuccess, FinishFailed, Goto
    <2>1. Holds(e) BY DEF Holds, LabelsAtWork
    <2>2. pc'[e] = "ended" /\ \A f \in Pods \ {e} : pc'[f] = pc[f] /\ beating'[f] = beating[f]
      OBVIOUS
    <2> QED BY <2>1, <2>2, HolderMoves DEF Holds, LabelsAtWork
  <1>3. CASE /\ ~Return(e) /\ ~FinishSuccess(e) /\ ~FinishFailed(e)
    <2>1. /\ pc[e] \in LabelsAtWork /\ pc'[e] \in LabelsAtWork
          /\ \A f \in Pods \ {e} : pc'[f] = pc[f]
      BY <1>0, <1>3 DEF Work, BeginAttempt, LoadTask, ProbeSession, InitUpload, SaveInit,
         SendChunk, SendChunkRejected, SaveChunk, AwaitArchive, HandleError, NextStop,
         Goto, LabelsAtWork
    <2>2. UNCHANGED beating /\ (SaveRunning \/ UNCHANGED <<relay_status, lease>>)
      BY <1>3 DEF Work, BeginAttempt, LoadTask, ProbeSession, InitUpload, SaveInit,
         SendChunk, SendChunkRejected, SaveChunk, AwaitArchive, HandleError
    <2> QED BY <1>0, <2>1, <2>2, HolderMoves DEF Lock, Holds, LabelsAtWork, SaveRunning
  <1> QED BY <1>1, <1>2, <1>3

\* A pod that dies drops its hold; without a graceful exit nobody else moves the row.
LEMMA DisturbLocked ==
  ASSUME TypeOK, Lock, Troubles = {}, NEW e \in Pods, Disturb(e)
  PROVE  Lock'
  <1>0. pc \in [Pods -> Labels] /\ beating \in [Pods -> BOOLEAN]
    BY DEF TypeOK, ExecType, FlagType
  <1>1. CASE SendChunkAnswerLost(e) \/ AwaitTimeout(e) \/ NetworkError(e)
    <2>1. /\ pc[e] \in LabelsAtWork /\ pc'[e] \in LabelsAtWork
          /\ \A f \in Pods \ {e} : pc'[f] = pc[f]
      BY <1>0, <1>1 DEF SendChunkAnswerLost, AwaitTimeout, NetworkError, Goto, LabelsAtWork
    <2>2. UNCHANGED <<beating, relay_status, lease>>
      BY <1>1 DEF SendChunkAnswerLost, AwaitTimeout, NetworkError
    <2> QED BY <1>0, <2>1, <2>2, HolderMoves DEF Lock, Holds, LabelsAtWork
  <1>2. CASE KillPod(e)
    BY <1>0, <1>2 DEF KillPod, ForgetRelay, Goto, Lock, Holds, LabelsAtWork
  <1>3. CASE CancelRelay(e)
    BY <1>3 DEF CancelRelay, Trouble
  <1> QED BY <1>1, <1>2, <1>3 DEF Disturb

\* A row that can be claimed without force has no holder.
LEMMA TriggerLocked ==
  ASSUME TypeOK, Lock, NEW e \in Pods, Trigger(e, FALSE)
  PROVE  Lock'
  <1>0. pc \in [Pods -> Labels] /\ beating \in [Pods -> BOOLEAN]
    BY DEF TypeOK, ExecType, FlagType
  <1>1. Claimable(FALSE)
    BY DEF Trigger
  <1>2. relay_status # "running" \/ lease # TRUE
    BY <1>1 DEF Claimable
  <1>3. \A f \in Pods : ~Holds(f)
    BY <1>2 DEF Lock
  <1>4. /\ pc'[e] = "queued" /\ relay_status' = "running" /\ lease' = TRUE
        /\ \A f \in Pods \ {e} : pc'[f] = pc[f]
        /\ UNCHANGED beating
    BY <1>0 DEF Trigger, Goto
  <1> QED BY <1>0, <1>3, <1>4 DEF Lock, Holds, LabelsAtWork

\* Of several triggers and reconcile rounds at most one finds the row claimable.
LEMMA LeaseLocked ==
  ASSUME TypeOK, Lock, Troubles = {}, NEW e \in Pods,
         \/ StartRelay(e) \/ ReconcileRelays(e) \/ AcquireGate(e)
         \/ GateTimeout(e) \/ Heartbeat(e) \/ ReleaseCancelled(e)
  PROVE  Lock'
  <1>0. pc \in [Pods -> Labels] /\ beating \in [Pods -> BOOLEAN]
    BY DEF TypeOK, ExecType, FlagType
  <1>1. CASE StartRelay(e) \/ ReconcileRelays(e)
    <2>1. Trigger(e, FALSE)
      BY <1>1 DEF StartRelay, ReconcileRelays, Trouble
    <2> QED BY <2>1, TriggerLocked
  <1>2. CASE AcquireGate(e)
    <2>1. /\ Holds(e) /\ pc'[e] = "attempt" /\ beating'[e] = TRUE
          /\ \A f \in Pods \ {e} : pc'[f] = pc[f] /\ beating'[f] = beating[f]
          /\ UNCHANGED <<relay_status, lease>>
      BY <1>0, <1>2 DEF AcquireGate, Goto, Holds
    <2> QED BY <2>1, HolderMoves DEF Lock
  <1>3. CASE GateTimeout(e)
    <2>1. /\ Holds(e) /\ pc'[e] = "idle"
          /\ \A f \in Pods \ {e} : pc'[f] = pc[f]
          /\ UNCHANGED beating
      BY <1>0, <1>3 DEF GateTimeout, Goto, Holds
    <2> QED BY <2>1, HolderMoves DEF Holds, LabelsAtWork
  <1>4. CASE Heartbeat(e)
    <2>1. CASE relay_status = "running"
      BY <1>4, <2>1 DEF Heartbeat, Lock, Holds
    <2>2. CASE relay_status # "running"
      <3>1. \A f \in Pods : ~Holds(f) /\ pc'[f] = pc[f]
        BY <1>4, <2>2 DEF Heartbeat, Lock
      <3> QED BY <3>1 DEF Lock, Holds
    <2> QED BY <2>1, <2>2
  <1>5. CASE ReleaseCancelled(e)
    BY <1>5 DEF ReleaseCancelled, Lock
  <1> QED BY <1>1, <1>2, <1>3, <1>4, <1>5

\* An upload that completes triggers a relay only of a row nobody holds.
LEMMA PlatformLocked ==
  ASSUME TypeOK, Lock, Troubles = {}, Platform \/ LeaseExpires
  PROVE  Lock'
  <1>1. CASE BeginDelivery \/ MergePackage \/ CommitPackage \/ KillUploader
    BY <1>1 DEF BeginDelivery, MergePackage, CommitPackage, KillUploader, Lock, Holds
  <1>2. CASE TriggerAfterComplete
    <2>1. CASE UNCHANGED <<rowVars, execVars>>
      BY <2>1 DEF Lock, Holds
    <2> QED BY <1>2, <2>1, TriggerLocked DEF TriggerAfterComplete
  <1>3. CASE CorrectTask
    BY <1>3 DEF CorrectTask, Trouble
  <1>4. CASE LeaseExpires
    <2>1. ~Renewed
      BY <1>4 DEF LeaseExpires, Trouble
    <2>2. \A f \in Pods : ~Holds(f)
      BY <2>1 DEF Renewed, Lock, Holds
    <2> QED BY <1>4, <2>2 DEF LeaseExpires, Lock, Holds
  <1> QED BY <1>1, <1>2, <1>3, <1>4 DEF Platform

\* No coroutine runs at first.
LEMMA InitLocked == Init => Lock
  BY DEF Init, Lock, Holds, LabelsAtWork

\* Lock is inductive as long as no trouble of Troubles can happen.
LEMMA NextLocked ==
  ASSUME Troubles = {}
  PROVE  RelayInv /\ Lock /\ [Next]_vars => Lock'
  <1> SUFFICES ASSUME RelayInv, Lock, [Next]_vars PROVE Lock'
    OBVIOUS
  <1>0. TypeOK
    BY DEF RelayInv
  <1>1. ASSUME NEW e \in Pods, Pod(e) PROVE Lock'
    BY <1>0, <1>1, WorkLocked, DisturbLocked, LeaseLocked DEF Pod
  <1>2. ASSUME NEW s \in UploadIds, Server(s) PROVE Lock'
    BY <1>2 DEF Server, ArchiveSession, FailSession, ExpireSession, Lock, Holds
  <1>3. CASE LeaseExpires \/ Platform
    BY <1>0, <1>3, PlatformLocked
  <1>4. CASE UNCHANGED vars
    BY <1>4 DEF Lock, Holds
  <1> QED BY <1>1, <1>2, <1>3, <1>4 DEF Next

\* start_relay's "no two concurrent uploads" holds for every number of pods and
\* of crashes, as long as nobody forces, drains, corrects or stalls.
THEOREM LeaseExcludes == ASSUME Troubles = {} PROVE Spec => []AtMostOneExecutor
  <1>1. Lock => AtMostOneExecutor
    BY DEF Lock, Holds, AtMostOneExecutor, AtWork
  <1> QED BY <1>1, InitLocked, NextLocked, InvHolds, PTL DEF Spec

--------------------------------------------------------------------------------
(***************************************************************************)
(* Success means archived, with a server that reports digests.             *)
(***************************************************************************)
Closed == {"complete", "done", "failed"}

\* An open session misses a chunk, an assembling or assembled one misses none.
SessionArchived(s) ==
  /\ phase[s] = "absent" => \A c \in Chunks : held[s][c] = 0
  /\ phase[s] = "open" => \E c \in Chunks : held[s][c] = 0
  /\ phase[s] \in {"complete", "done"} => \A c \in Chunks : held[s][c] # 0
  /\ phase[s] = "done" => held[s] \in archives

\* A coroutine waits for the archive only of a session that was sent whole.
PodArchived(e) ==
  /\ pc[e] \in InSession \cup {"init"} => digest[e] # 0
  /\ pc[e] \in {"savelast", "await"} => phase[upload_id[e]] \in Closed
  /\ pc[e] = "savechunk" /\ index[e] = ChunkTotal - 1 => phase[upload_id[e]] \in Closed
  /\ pc[e] = "finishok" => digest[e] # 0 /\ Whole(digest[e]) \in archives

ArchivedInv ==
  /\ \A s \in UploadIds : SessionArchived(s)
  /\ \A e \in Pods : PodArchived(e)
  /\ SuccessWasArchived

\* The server reopens no session it has begun to assemble and loses no package.
ArchiveKeeps ==
  /\ \A s \in UploadIds : phase[s] \in Closed => phase'[s] \in Closed
  /\ archives \subseteq archives'

\* A recorded success stays true while the server loses no package.
LEMMA SuccessKept ==
  ASSUME SuccessWasArchived, ArchiveKeeps, relay_status' = "success" => relay_status = "success"
  PROVE  SuccessWasArchived'
  BY DEF SuccessWasArchived, ArchiveKeeps, Whole

\* What a waiting coroutine relies on survives the steps of others.
LEMMA PodArchivedKept ==
  ASSUME TypeOK, BackedInv, ArchiveKeeps, NEW f \in Pods, PodArchived(f),
         pc'[f] = pc[f], upload_id'[f] = upload_id[f], index'[f] = index[f],
         digest'[f] = digest[f]
  PROVE  PodArchived(f)'
  <1>1. pc[f] \in InSession => upload_id[f] \in UploadIds
    BY DEF BackedInv, PodBacked, Position
  <1>2. pc[f] \in {"savelast", "await", "savechunk"} => pc[f] \in InSession
    BY DEF InSession, Sending
  <1>3. Whole(digest[f])' = Whole(digest[f])
    BY DEF Whole
  <1> QED BY <1>1, <1>2, <1>3 DEF PodArchived, ArchiveKeeps

\* Only pod e moves, and the server does not forget.
LEMMA OneArchivedMoves ==
  ASSUME TypeOK, BackedInv, ArchivedInv, ArchiveKeeps, NEW e \in Pods,
         \A f \in Pods \ {e} : /\ pc'[f] = pc[f] /\ upload_id'[f] = upload_id[f]
                               /\ index'[f] = index[f] /\ digest'[f] = digest[f],
         PodArchived(e)', \A s \in UploadIds : SessionArchived(s)', SuccessWasArchived'
  PROVE  ArchivedInv'
  <1>1. \A f \in Pods \ {e} : PodArchived(f)'
    BY PodArchivedKept DEF ArchivedInv
  <1> QED BY <1>1 DEF ArchivedInv

\* The usual case: one pod moves, the server does not, and nothing is declared a success.
LEMMA PodArchivedMoves ==
  ASSUME TypeOK, BackedInv, ArchivedInv, UNCHANGED serverVars, NEW e \in Pods,
         \A f \in Pods \ {e} : /\ pc'[f] = pc[f] /\ upload_id'[f] = upload_id[f]
                               /\ index'[f] = index[f] /\ digest'[f] = digest[f],
         PodArchived(e)', relay_status' = "success" => relay_status = "success"
  PROVE  ArchivedInv'
  <1>1. ArchiveKeeps BY DEF ArchiveKeeps
  <1>2. \A s \in UploadIds : SessionArchived(s)' BY DEF ArchivedInv, SessionArchived
  <1>3. SuccessWasArchived' BY <1>1, SuccessKept DEF ArchivedInv
  <1> QED BY <1>1, <1>2, <1>3, OneArchivedMoves

\* The chunk that fills a session closes it; before that, a chunk is missing.
LEMMA ReceiveArchived ==
  ASSUME TypeOK, ArchivedInv, file # 0, NEW s \in UploadIds, NEW c \in Chunks,
         phase[s] # "absent", Receive(s, c)
  PROVE  /\ ArchiveKeeps
         /\ \A t \in UploadIds : SessionArchived(t)'
         /\ Full(s, c) => phase'[s] = "complete"
         /\ ~Full(s, c) => phase'[s] = phase[s] /\ phase[s] \in {"open", "failed"}
  <1> USE DEF TypeOK, ServerType, Receive
  <1>1. /\ \A t \in UploadIds : \A d \in Chunks :
              held'[t][d] = IF t = s /\ d = c THEN file ELSE held[t][d]
        /\ \A t \in UploadIds \ {s} : held'[t] = held[t] /\ phase'[t] = phase[t]
    BY DEF Store
  <1>2. IF Full(s, c) THEN phase'[s] = "complete" ELSE phase'[s] = phase[s]
    OBVIOUS
  <1>3. ~Full(s, c) => phase[s] \in {"open", "failed"}
    BY DEF ArchivedInv, SessionArchived, Full, Phases
  <1>4. SessionArchived(s)'
    BY <1>1, <1>2, <1>3 DEF ArchivedInv, SessionArchived, Full
  <1>5. \A t \in UploadIds \ {s} : SessionArchived(t)'
    BY <1>1 DEF ArchivedInv, SessionArchived
  <1> QED BY <1>1, <1>2, <1>3, <1>4, <1>5 DEF ArchiveKeeps, Closed

\* A send that fills the session may be followed by _await_archive, any other by the
\* next chunk (external 5888 server).
LEMMA SendArchived ==
  ASSUME TypeOK, BackedInv, ArchivedInv, NEW e \in Pods, pc[e] = "send",
         Receive(upload_id[e], index[e])
  PROVE  /\ ArchiveKeeps
         /\ \A t \in UploadIds : SessionArchived(t)'
         /\ Full(upload_id[e], index[e]) => phase'[upload_id[e]] = "complete"
         /\ ~Full(upload_id[e], index[e]) /\ index[e] = ChunkTotal - 1
              => phase'[upload_id[e]] \in Closed
  <1>1. /\ upload_id[e] \in UploadIds /\ index[e] \in Chunks /\ file # 0
        /\ phase[upload_id[e]] # "absent" /\ Backed(upload_id[e], index[e])
    BY RelayConstants DEF BackedInv, PodBacked, Position, Sending, InSession, Chunks,
       TypeOK, ExecType, UploadIds, NoUpload
  <1>2. ASSUME index[e] = ChunkTotal - 1, phase[upload_id[e]] = "open"
        PROVE  Full(upload_id[e], index[e])
    BY <1>1, <1>2, RelayConstants DEF Backed, Full, Chunks
  <1> QED BY <1>1, <1>2, ReceiveArchived DEF Closed

\* Every step of one attempt, with a server that keeps digests: _verify_server_digest
\* is what lets finishok be reached only for a package assembled whole.
LEMMA WorkArchived ==
  ASSUME TypeOK, BackedInv, ArchivedInv, DigestServer = TRUE, NEW e \in Pods, Work(e)
  PROVE  ArchivedInv'
  <1> USE DEF Goto
  <1>0. /\ pc \in [Pods -> Labels] /\ upload_id \in [Pods -> UploadIds \cup {NoUpload}]
        /\ index \in [Pods -> 0 .. ChunkTotal] /\ digest \in [Pods -> Bytes]
        /\ PodBacked(e) /\ PodArchived(e)
    BY DEF TypeOK, ExecType, BackedInv, ArchivedInv
  <1>1. CASE BeginAttempt(e)
    <2> USE <1>1 DEF BeginAttempt, SaveRunning
    <2>1. PodArchived(e)' BY <1>0 DEF PodArchived, InSession, Sending
    <2> QED BY <1>0, <2>1, PodArchivedMoves
  <1>2. CASE LoadTask(e)
    <2> USE <1>2 DEF LoadTask
    <2>1. PodArchived(e)' BY <1>0 DEF PodArchived, InSession, Sending
    <2> QED BY <1>0, <2>1, PodArchivedMoves
  <1>3. CASE ProbeSession(e)
    <2> USE <1>3 DEF ProbeSession, SaveRunning
    <2>1. PodArchived(e)'
      <3>1. CASE pc'[e] \in {"init", "send"}
        BY <1>0, <3>1 DEF PodArchived, InSession, Sending
      <3>2. CASE pc'[e] = "await"
        <4>1. /\ upload_id[e] \in UploadIds /\ index[e] = ChunkTotal
              /\ phase[upload_id[e]] \notin {"gone", "failed", "absent"}
          <5>1. ~(index[e] < ChunkTotal) /\ phase[upload_id[e]] \notin {"gone", "failed"}
            BY <1>0, <3>2 DEF NextStop
          <5>2. upload_id[e] \in UploadIds /\ phase[upload_id[e]] # "absent"
            BY <1>0 DEF PodBacked, Position, InSession, UploadIds, NoUpload
          <5> QED BY <1>0, <5>1, <5>2, RelayConstants
        <4>2. phase[upload_id[e]] \in {"open", "complete", "done"}
          BY <4>1 DEF TypeOK, ServerType, Phases
        <4>3. \A c \in Chunks : held[upload_id[e]][c] # 0
          BY <1>0, <4>1, <4>2, RelayConstants DEF PodBacked, Backed, Chunks
        <4>4. phase[upload_id[e]] \in Closed
          BY <4>1, <4>2, <4>3 DEF ArchivedInv, SessionArchived, Closed
        <4> QED BY <1>0, <3>2, <4>4 DEF PodArchived, InSession, Sending
      <3> QED BY <1>0, <3>1, <3>2 DEF NextStop
    <2> QED BY <1>0, <2>1, PodArchivedMoves
  <1>4. CASE InitUpload(e)
    <2> USE <1>4 DEF InitUpload
    <2>1. PICK s \in UploadIds : /\ FirstAbsent(s)
                                 /\ phase' = [phase EXCEPT ![s] = "open"]
      OBVIOUS
    <2>2. ArchiveKeeps BY <2>1 DEF ArchiveKeeps, FirstAbsent, Closed, TypeOK, ServerType
    <2>3. \A t \in UploadIds : SessionArchived(t)'
      <3>1. 0 \in Chunks BY RelayConstants DEF Chunks
      <3> QED BY <2>1, <3>1 DEF ArchivedInv, SessionArchived, FirstAbsent, TypeOK, ServerType
    <2>4. SuccessWasArchived' BY <2>2, SuccessKept DEF ArchivedInv
    <2>5. PodArchived(e)' BY <1>0 DEF PodArchived, InSession, Sending
    <2> QED BY <1>0, <2>2, <2>3, <2>4, <2>5, OneArchivedMoves
  <1>5. CASE SaveInit(e)
    <2> USE <1>5 DEF SaveInit, SaveRunning
    <2>1. PodArchived(e)' BY <1>0 DEF PodArchived, InSession, Sending
    <2> QED BY <1>0, <2>1, PodArchivedMoves
  <1>6. CASE SendChunk(e)
    <2> USE <1>6 DEF SendChunk
    <2>1. /\ ArchiveKeeps /\ \A t \in UploadIds : SessionArchived(t)'
          /\ Full(upload_id[e], index[e]) => phase'[upload_id[e]] = "complete"
          /\ ~Full(upload_id[e], index[e]) /\ index[e] = ChunkTotal - 1
               => phase'[upload_id[e]] \in Closed
      BY SendArchived
    <2>2. SuccessWasArchived' BY <2>1, SuccessKept DEF ArchivedInv
    <2>3. PodArchived(e)' BY <1>0, <2>1 DEF PodArchived, InSession, Sending, Closed
    <2> QED BY <1>0, <2>1, <2>2, <2>3, OneArchivedMoves
  <1>7. CASE SendChunkRejected(e)
    <2> USE <1>7 DEF SendChunkRejected
    <2>1. PodArchived(e)' BY <1>0 DEF PodArchived, InSession, Sending
    <2> QED BY <1>0, <2>1, PodArchivedMoves
  <1>8. CASE SaveChunk(e)
    <2> USE <1>8 DEF SaveChunk, SaveRunning
    <2>1. PodArchived(e)'
      <3>1. CASE pc'[e] = "send"
        BY <1>0, <3>1 DEF PodArchived, InSession, Sending
      <3>2. CASE pc'[e] = "await"
        <4>1. pc[e] = "savechunk" => index[e] = ChunkTotal - 1
          BY <1>0, <3>2, RelayConstants DEF NextStop, PodBacked, Position, Sending
        <4> QED BY <1>0, <3>2, <4>1 DEF PodArchived, InSession, Sending
      <3> QED BY <1>0, <3>1, <3>2 DEF NextStop
    <2> QED BY <1>0, <2>1, PodArchivedMoves
  <1>9. CASE AwaitArchive(e)
    <2> USE <1>9 DEF AwaitArchive
    <2>1. upload_id[e] \in UploadIds /\ phase[upload_id[e]] # "gone"
      BY <1>0 DEF PodBacked, Position, InSession, PodArchived, Closed
    <2>2. PodArchived(e)'
      <3>1. CASE pc'[e] # "finishok"
        BY <1>0, <3>1 DEF PodArchived, InSession, Sending
      <3>2. CASE pc'[e] = "finishok"
        <4>1. phase[upload_id[e]] = "done" /\ held[upload_id[e]] = Whole(digest[e])
          BY <1>0, <2>1, <3>2
        <4>2. Whole(digest[e]) \in archives /\ digest[e] # 0
          BY <1>0, <2>1, <4>1 DEF ArchivedInv, SessionArchived, PodArchived, InSession
        <4>3. Whole(digest[e])' = Whole(digest[e])
          BY DEF Whole
        <4> QED BY <1>0, <3>2, <4>2, <4>3 DEF PodArchived, InSession, Sending
      <3> QED BY <3>1, <3>2
    <2> QED BY <1>0, <2>2, PodArchivedMoves
  <1>10. CASE HandleError(e)
    <2> USE <1>10 DEF HandleError, ForgetRun, SaveRunning
    <2>1. PodArchived(e)' BY <1>0 DEF PodArchived, InSession, Sending
    <2> QED BY <1>0, <2>1, PodArchivedMoves
  <1>11. CASE FinishSuccess(e)
    <2> USE <1>11 DEF FinishSuccess, ForgetRun
    <2>1. PodArchived(e)' BY <1>0 DEF PodArchived, InSession, Sending
    <2>2. ArchiveKeeps BY DEF ArchiveKeeps
    <2>3. \A s \in UploadIds : SessionArchived(s)' BY DEF ArchivedInv, SessionArchived
    <2>4. SuccessWasArchived'
      <3>1. digest[e] \in Bytes \ {0} /\ Whole(digest[e]) \in archives'
        BY <1>0 DEF PodArchived
      <3> QED BY <3>1 DEF SuccessWasArchived, Whole
    <2> QED BY <1>0, <2>1, <2>2, <2>3, <2>4, OneArchivedMoves
  <1>12. CASE FinishFailed(e)
    <2> USE <1>12 DEF FinishFailed
    <2>1. PodArchived(e)' BY <1>0 DEF PodArchived, InSession, Sending
    <2> QED BY <1>0, <2>1, PodArchivedMoves
  <1>13. CASE Return(e)
    <2> USE <1>13 DEF Return, ForgetRelay, ForgetRun
    <2>1. PodArchived(e)' BY <1>0 DEF PodArchived, InSession, Sending
    <2> QED BY <1>0, <2>1, PodArchivedMoves
  <1> QED BY <1>1, <1>2, <1>3, <1>4, <1>5, <1>6, <1>7, <1>8, <1>9, <1>10, <1>11,
             <1>12, <1>13 DEF Work

\* Errors and deaths declare nothing a success.
LEMMA DisturbArchived ==
  ASSUME TypeOK, BackedInv, ArchivedInv, NEW e \in Pods, Disturb(e)
  PROVE  ArchivedInv'
  <1> USE DEF Goto
  <1>0. pc \in [Pods -> Labels] /\ PodArchived(e)
        /\ upload_id \in [Pods -> UploadIds \cup {NoUpload}]
        /\ index \in [Pods -> 0 .. ChunkTotal] /\ digest \in [Pods -> Bytes]
    BY DEF TypeOK, ExecType, ArchivedInv
  <1>1. CASE SendChunkAnswerLost(e)
    <2> USE <1>1 DEF SendChunkAnswerLost
    <2>1. ArchiveKeeps /\ \A t \in UploadIds : SessionArchived(t)'
      BY SendArchived
    <2>2. SuccessWasArchived' BY <2>1, SuccessKept DEF ArchivedInv
    <2>3. PodArchived(e)' BY <1>0 DEF PodArchived, InSession, Sending
    <2> QED BY <1>0, <2>1, <2>2, <2>3, OneArchivedMoves
  <1>2. CASE AwaitTimeout(e) \/ NetworkError(e)
    <2> USE <1>2 DEF AwaitTimeout, NetworkError
    <2>1. PodArchived(e)' BY <1>0 DEF PodArchived, InSession, Sending
    <2> QED BY <1>0, <2>1, PodArchivedMoves
  <1>3. CASE CancelRelay(e) \/ KillPod(e)
    <2> USE <1>3 DEF CancelRelay, KillPod, ForgetRelay, ForgetRun
    <2>1. PodArchived(e)' BY <1>0 DEF PodArchived, InSession, Sending
    <2> QED BY <1>0, <2>1, PodArchivedMoves
  <1> QED BY <1>1, <1>2, <1>3 DEF Disturb

\* Neither the server nor the platform moves a coroutine.
LEMMA PodsArchivedStay ==
  ASSUME TypeOK, BackedInv, ArchivedInv, ArchiveKeeps, UNCHANGED execVars,
         \A s \in UploadIds : SessionArchived(s)',
         relay_status' = "success" => relay_status = "success"
  PROVE  ArchivedInv'
  BY PodArchivedKept, SuccessKept DEF ArchivedInv

\* A trigger takes the status away from success, never to it.
LEMMA TriggerArchived ==
  ASSUME TypeOK, BackedInv, ArchivedInv, NEW e \in Pods, NEW force, Trigger(e, force),
         UNCHANGED serverVars
  PROVE  ArchivedInv'
  <1> USE DEF Trigger, Goto
  <1>1. pc \in [Pods -> Labels] /\ PodArchived(e)
    BY DEF TypeOK, ExecType, ArchivedInv
  <1>2. PodArchived(e)' BY <1>1 DEF PodArchived, InSession, Sending
  <1> QED BY <1>1, <1>2, PodArchivedMoves

\* The lease protocol declares nothing a success.
LEMMA LeaseArchived ==
  ASSUME TypeOK, BackedInv, ArchivedInv, NEW e \in Pods,
         \/ StartRelay(e) \/ ReconcileRelays(e) \/ AcquireGate(e)
         \/ GateTimeout(e) \/ Heartbeat(e) \/ ReleaseCancelled(e)
  PROVE  ArchivedInv'
  <1>1. CASE StartRelay(e)
    BY <1>1, TriggerArchived DEF StartRelay
  <1>2. CASE ReconcileRelays(e)
    BY <1>2, TriggerArchived DEF ReconcileRelays
  <1>3. CASE AcquireGate(e) \/ GateTimeout(e) \/ Heartbeat(e) \/ ReleaseCancelled(e)
    <2> USE <1>3 DEF AcquireGate, GateTimeout, Heartbeat, ReleaseCancelled, Release, Goto
    <2>1. pc \in [Pods -> Labels] /\ PodArchived(e)
      BY DEF TypeOK, ExecType, ArchivedInv
    <2>2. PodArchived(e)' BY <2>1 DEF PodArchived, InSession, Sending
    <2> QED BY <2>1, <2>2, PodArchivedMoves
  <1> QED BY <1>1, <1>2, <1>3

\* Assembling adds a package and ends the session; failing and expiring add none.
LEMMA ServerArchived ==
  ASSUME TypeOK, BackedInv, ArchivedInv, DigestServer = TRUE, NEW s \in UploadIds, Server(s)
  PROVE  ArchivedInv'
  <1>1. /\ \A t \in UploadIds \ {s} : phase'[t] = phase[t] /\ held'[t] = held[t]
        /\ archives \subseteq archives'
        /\ \/ /\ phase[s] = "complete" /\ phase'[s] = "done"
              /\ held'[s] = held[s] /\ held[s] \in archives'
           \/ phase[s] = "complete" /\ phase'[s] = "failed"
           \/ phase[s] = "open" /\ phase'[s] = "gone"
    BY DEF Server, ArchiveSession, FailSession, ExpireSession, TypeOK, ServerType
  <1>2. UNCHANGED <<rowVars, execVars>>
    BY DEF Server, ArchiveSession, FailSession, ExpireSession
  <1>3. ArchiveKeeps BY <1>1 DEF ArchiveKeeps, Closed
  <1>4. \A t \in UploadIds : SessionArchived(t)'
    BY <1>1 DEF ArchivedInv, SessionArchived
  <1> QED BY <1>2, <1>3, <1>4, PodsArchivedStay

\* Uploads and corrections declare no relay a success.
LEMMA PlatformArchived ==
  ASSUME TypeOK, BackedInv, ArchivedInv, Platform \/ LeaseExpires
  PROVE  ArchivedInv'
  <1>0. UNCHANGED serverVars
    BY DEF Platform, LeaseExpires, BeginDelivery, MergePackage, CommitPackage,
       TriggerAfterComplete, KillUploader, CorrectTask
  <1>1. ArchiveKeeps /\ \A s \in UploadIds : SessionArchived(s)'
    BY <1>0 DEF ArchiveKeeps, ArchivedInv, SessionArchived
  <1>2. CASE TriggerAfterComplete
    <2>1. CASE UNCHANGED <<rowVars, execVars>>
      BY <1>1, <2>1, PodsArchivedStay
    <2> QED BY <1>0, <1>2, <2>1, TriggerArchived DEF TriggerAfterComplete
  <1>3. CASE ~TriggerAfterComplete
    <2>1. UNCHANGED execVars /\ (relay_status' = "success" => relay_status = "success")
      BY <1>3 DEF Platform, LeaseExpires, BeginDelivery, MergePackage, CommitPackage,
         KillUploader, CorrectTask
    <2> QED BY <1>1, <2>1, PodsArchivedStay
  <1> QED BY <1>2, <1>3

\* Nothing is recorded and no session is open at first.
LEMMA InitArchived == Init => ArchivedInv
  BY DEF Init, ArchivedInv, SessionArchived, PodArchived, SuccessWasArchived, Whole,
     InSession, Sending

\* ArchivedInv is inductive relative to RelayInv.
LEMMA NextArchived ==
  ASSUME DigestServer = TRUE
  PROVE  RelayInv /\ ArchivedInv /\ [Next]_vars => ArchivedInv'
  <1> SUFFICES ASSUME RelayInv, ArchivedInv, [Next]_vars PROVE ArchivedInv'
    OBVIOUS
  <1>0. TypeOK /\ BackedInv
    BY DEF RelayInv
  <1>1. ASSUME NEW e \in Pods, Pod(e) PROVE ArchivedInv'
    BY <1>0, <1>1, WorkArchived, DisturbArchived, LeaseArchived DEF Pod
  <1>2. ASSUME NEW s \in UploadIds, Server(s) PROVE ArchivedInv'
    BY <1>0, <1>2, ServerArchived
  <1>3. CASE LeaseExpires \/ Platform
    BY <1>0, <1>3, PlatformArchived
  <1>4. CASE UNCHANGED vars
    <2>1. ArchiveKeeps /\ \A s \in UploadIds : SessionArchived(s)'
      BY <1>4 DEF ArchiveKeeps, ArchivedInv, SessionArchived
    <2> QED BY <1>0, <1>4, <2>1, PodsArchivedStay
  <1> QED BY <1>1, <1>2, <1>3, <1>4 DEF Next

\* With a server that reports digests, "success" is written only for a package
\* that was assembled whole from the bytes of one delivery.
THEOREM SuccessSound == ASSUME DigestServer = TRUE PROVE Spec => []SuccessWasArchived
  <1>1. ArchivedInv => SuccessWasArchived
    BY DEF ArchivedInv
  <1> QED BY <1>1, InitArchived, NextArchived, InvHolds, PTL DEF Spec

================================================================================
