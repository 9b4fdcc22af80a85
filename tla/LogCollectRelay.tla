---------------------------- MODULE LogCollectRelay ----------------------------
(***************************************************************************)
(* Relay of one log package from the platform to the log server (5888):    *)
(* backend/case-service/app/services/log_collect_relay_service.py and the  *)
(* relay part of routes/log_collect.py.                                    *)
(*                                                                         *)
(* One row of log_collect_task, the object file it describes, the relay    *)
(* coroutines that several case-service pods run for that row, and the     *)
(* upload sessions of the log server.  A coroutine is a program whose      *)
(* steps are separated where the code awaits: every database statement and *)
(* every HTTP exchange is a step of its own, so a pod may die, stall or be *)
(* overtaken between any two of them.                                      *)
(*                                                                         *)
(* Data is abstracted to what the properties tell apart: the bytes of a    *)
(* package are the delivery epoch that produced it, a digest is the epoch  *)
(* it was computed from, a lease timestamp is fresh or expired.            *)
(***************************************************************************)
EXTENDS Integers

CONSTANTS
  Pods,          \* case-service processes, each with room for one relay coroutine of the row
  ChunkTotal,    \* chunks of a package at the log server's chunk size
  MaxAttempts,   \* max_attempts of _run_with_retry
  DigestServer,  \* TRUE: 5888 keeps the session as "done" with a digest; FALSE: it deletes it
  Troubles,      \* what may happen besides crashes, network errors and server failures
  MaxUploads,    \* bound: upload sessions the log server creates
  MaxEpoch,      \* bound: delivery epochs of the task
  MaxFaults      \* bound: faults and troubles of any kind in a behaviour

\* "force": POST /relay?force=true on a running relay.  "graceful": a pod is shut
\* down in order (shutdown_relays), not only killed.  "correct": a completed task
\* is corrected back to collecting.  "stall": a lease expires under a live coroutine.
TroubleKinds == {"force", "graceful", "correct", "stall"}

ASSUME RelayConstants ==
  /\ ChunkTotal \in Nat \ {0}
  /\ MaxAttempts \in Nat \ {0}
  /\ DigestServer \in BOOLEAN
  /\ Troubles \subseteq TroubleKinds
  /\ MaxUploads \in Nat
  /\ MaxEpoch \in Nat \ {0}
  /\ MaxFaults \in Nat

Chunks    == 0 .. ChunkTotal - 1
UploadIds == 1 .. MaxUploads
Epochs    == 1 .. MaxEpoch
Bytes     == 0 .. MaxEpoch       \* 0: no such file, chunk or digest
NoUpload  == 0                   \* relay_upload_id IS NULL

RelayStatuses    == {"none", "pending", "running", "success", "failed"}
DeliveryStatuses == {"none", "queued", "delivered", "failed"}
Phases           == {"absent", "open", "complete", "done", "failed", "gone"}
LabelsAtWork     == {"attempt", "load", "probe", "init", "saveinit", "send",
                     "savechunk", "savelast", "await", "transient", "permanent",
                     "finishok", "finishfail"}
Labels           == LabelsAtWork \cup {"idle", "queued", "ended", "draining"}

VARIABLES
  \* --- the row of log_collect_task
  relay_status, relay_upload_id, relay_chunk_index, relay_chunk_total,
  lease,             \* relay_updated_at is younger than stale_after
  archive_path,      \* archive_path IS NOT NULL
  object_sha256,     \* the package the row records
  delivery_status, delivery_epoch,
  \* --- platform storage and the upload that fills it
  file,              \* content of objects/<case>/<task>.zip
  uploader,          \* progress of the POST .../complete that publishes a package
  \* --- the relay coroutines
  pc, attempt, digest, upload_id, index, beating,
  \* --- the log server
  phase, held,
  archives,          \* packages assembled under the case's archive name
  faults             \* faults and troubles so far

rowVars    == <<relay_status, relay_upload_id, relay_chunk_index,
                relay_chunk_total, lease, archive_path, object_sha256,
                delivery_status, delivery_epoch>>
cursorVars == <<relay_upload_id, relay_chunk_index, relay_chunk_total>>
packageVars == <<archive_path, object_sha256, delivery_status, delivery_epoch>>
storeVars  == <<file, uploader>>
localVars  == <<attempt, digest, upload_id, index>>
execVars   == <<pc, localVars, beating>>
serverVars == <<phase, held, archives>>
vars == <<rowVars, storeVars, execVars, serverVars, faults>>

Whole(e) == [c \in Chunks |-> e]

RowType ==
  /\ relay_status \in RelayStatuses
  /\ relay_upload_id \in UploadIds \cup {NoUpload}
  /\ relay_chunk_index \in -1 .. ChunkTotal - 1
  /\ relay_chunk_total \in {0, ChunkTotal}
  /\ object_sha256 \in Bytes
  /\ delivery_status \in DeliveryStatuses
  /\ delivery_epoch \in Epochs

FlagType ==
  /\ lease \in BOOLEAN
  /\ archive_path \in BOOLEAN
  /\ beating \in [Pods -> BOOLEAN]

StoreType ==
  /\ file \in Bytes
  /\ uploader \in {"idle", "merged", "committed"}

ExecType ==
  /\ pc \in [Pods -> Labels]
  /\ attempt \in [Pods -> 1 .. MaxAttempts]
  /\ digest \in [Pods -> Bytes]
  /\ upload_id \in [Pods -> UploadIds \cup {NoUpload}]
  /\ index \in [Pods -> 0 .. ChunkTotal]

ServerType ==
  /\ phase \in [UploadIds -> Phases]
  /\ held \in [UploadIds -> [Chunks -> Bytes]]
  /\ archives \subseteq [Chunks -> Bytes]

TypeOK ==
  /\ RowType /\ FlagType /\ StoreType /\ ExecType /\ ServerType
  /\ faults \in 0 .. MaxFaults

(***************************************************************************)
(* A task whose first delivery was just registered (begin_delivery).       *)
(***************************************************************************)
Init ==
  /\ relay_status = "none"
  /\ relay_upload_id = NoUpload
  /\ relay_chunk_index = -1
  /\ relay_chunk_total = 0
  /\ lease = FALSE
  /\ archive_path = FALSE
  /\ object_sha256 = 0
  /\ delivery_status = "queued"
  /\ delivery_epoch = 1
  /\ file = 0
  /\ uploader = "idle"
  /\ pc = [e \in Pods |-> "idle"]
  /\ attempt = [e \in Pods |-> 1]
  /\ digest = [e \in Pods |-> 0]
  /\ upload_id = [e \in Pods |-> NoUpload]
  /\ index = [e \in Pods |-> 0]
  /\ beating = [e \in Pods |-> FALSE]
  /\ phase = [s \in UploadIds |-> "absent"]
  /\ held = [s \in UploadIds |-> Whole(0)]
  /\ archives = {}
  /\ faults = 0

Goto(e, label) == pc' = [pc EXCEPT ![e] = label]

\* The locals of _run() go out of scope with the attempt ...
ForgetRun(e) ==
  /\ digest' = [digest EXCEPT ![e] = 0]
  /\ upload_id' = [upload_id EXCEPT ![e] = NoUpload]
  /\ index' = [index EXCEPT ![e] = 0]

\* ... and the heartbeat and the attempt counter with the coroutine.
ForgetRelay(e) ==
  /\ ForgetRun(e)
  /\ attempt' = [attempt EXCEPT ![e] = 1]
  /\ beating' = [beating EXCEPT ![e] = FALSE]

Fault ==
  /\ faults < MaxFaults
  /\ faults' = faults + 1

Trouble(kind) == kind \in Troubles /\ Fault

--------------------------------------------------------------------------------
(***************************************************************************)
(* Taking and giving back the lease.                                       *)
(***************************************************************************)

\* Mutant of Claimable: the lease is not looked at.
ClaimableWhileRunning(force) ==
  relay_status \in {"none", "pending", "failed", "running"}

Claimable(force) ==
  \/ relay_status \in {"none", "pending", "failed"}
  \/ relay_status = "running" /\ (force \/ ~lease)

\* trigger() followed by _spawn_relay(): a conditional UPDATE, then a coroutine
\* that queues at the concurrency gate.
Trigger(e, force) ==
  /\ pc[e] = "idle"
  /\ Claimable(force)
  /\ relay_status' = "running"
  /\ lease' = TRUE
  /\ Goto(e, "queued")
  /\ UNCHANGED <<cursorVars, packageVars, localVars, beating>>

\* release(): a row still running goes back to pending, whoever runs it.
Release ==
  /\ relay_status' = IF relay_status = "running" THEN "pending" ELSE relay_status
  /\ lease' = (lease \/ relay_status = "running")
  /\ UNCHANGED <<cursorVars, packageVars>>

\* POST /{task_id}/relay
StartRelay(e) ==
  /\ archive_path
  /\ \/ Trigger(e, FALSE) /\ UNCHANGED faults
     \/ ~Claimable(FALSE) /\ Trigger(e, TRUE) /\ Trouble("force")
  /\ UNCHANGED <<storeVars, serverVars>>

\* Mutant of Stale: only what a graceful exit handed back is taken over.
StalePendingOnly == relay_status = "pending"

\* claim_stale() as run by reconcile_relays_loop(), at start-up and every minute.
Stale == relay_status = "pending" \/ (relay_status = "running" /\ ~lease)

ReconcileRelays(e) ==
  /\ archive_path
  /\ Stale
  /\ Trigger(e, FALSE)
  /\ UNCHANGED <<storeVars, serverVars, faults>>

\* _run_relay_gated(): the semaphore is granted and run() starts the heartbeat ...
AcquireGate(e) ==
  /\ pc[e] = "queued"
  /\ Goto(e, "attempt")
  /\ attempt' = [attempt EXCEPT ![e] = 1]
  /\ beating' = [beating EXCEPT ![e] = TRUE]
  /\ UNCHANGED <<rowVars, storeVars, digest, upload_id, index, serverVars, faults>>

\* ... or the queue lasts longer than half a lease and the lease is given back.
GateTimeout(e) ==
  /\ pc[e] = "queued"
  /\ Release
  /\ Goto(e, "idle")
  /\ UNCHANGED <<storeVars, localVars, beating, serverVars, faults>>

\* _heartbeat_loop(): renews whatever lease is running; stops for good once it is not.
Heartbeat(e) ==
  /\ beating[e]
  /\ IF relay_status = "running"
     THEN lease' = TRUE /\ UNCHANGED beating
     ELSE beating' = [beating EXCEPT ![e] = FALSE] /\ UNCHANGED lease
  /\ UNCHANGED <<relay_status, cursorVars, packageVars, storeVars, pc,
                 localVars, serverVars, faults>>

\* The queue timeout (half a lease), the heartbeat and a shutdown far shorter than
\* a lease keep it from ageing out; without them, or in a stalled pod, it does.
Renewed == \E e \in Pods : pc[e] \in {"queued", "draining"} \/ beating[e]

LeaseExpires ==
  /\ relay_status = "running" /\ lease
  /\ \/ ~Renewed /\ UNCHANGED faults
     \/ Renewed /\ Trouble("stall")
  /\ lease' = FALSE
  /\ UNCHANGED <<relay_status, cursorVars, packageVars, storeVars, execVars,
                 serverVars>>

--------------------------------------------------------------------------------
(***************************************************************************)
(* One attempt: _run_with_retry() and _run().                              *)
(***************************************************************************)

\* _save(): every progress write also claims the row for "running".
SaveRunning == relay_status' = "running" /\ lease' = TRUE

BeginAttempt(e) ==
  /\ pc[e] = "attempt"
  /\ SaveRunning
  /\ Goto(e, "load")
  /\ UNCHANGED <<cursorVars, packageVars, storeVars, localVars, beating,
                 serverVars, faults>>

\* Mutant of ResumeIndex: an absent index is taken for chunk 0, an off-by-one.
ResumeIndexPastEnd(i) == i + 2

\* int(task.relay_chunk_index or -1) + 1: index 0 is falsy and restarts at 0.
ResumeIndex(i) == IF i \in {-1, 0} THEN 0 ELSE i + 1

Reusable == relay_upload_id # NoUpload /\ relay_chunk_total > 0

LoadTask(e) ==
  /\ pc[e] = "load"
  /\ IF ~archive_path \/ file = 0 \/ file # object_sha256
     THEN Goto(e, "permanent") /\ UNCHANGED localVars
     ELSE /\ Goto(e, IF Reusable THEN "probe" ELSE "init")
          /\ digest' = [digest EXCEPT ![e] = object_sha256]
          /\ upload_id' = [upload_id EXCEPT ![e] = relay_upload_id]
          /\ index' = [index EXCEPT ![e] = ResumeIndex(relay_chunk_index)]
          /\ UNCHANGED attempt
  /\ UNCHANGED <<rowVars, storeVars, beating, serverVars, faults>>

NextStop(i) == IF i < ChunkTotal THEN "send" ELSE "await"

\* Only a session the server still holds is resumed; a failed one is abandoned
\* after its reason was saved.
ProbeSession(e) ==
  /\ pc[e] = "probe"
  /\ \/ /\ phase[upload_id[e]] = "gone"
        /\ Goto(e, "init")
        /\ UNCHANGED <<relay_status, lease>>
     \/ /\ phase[upload_id[e]] = "failed"
        /\ Goto(e, "init")
        /\ SaveRunning
     \/ /\ phase[upload_id[e]] \notin {"gone", "failed"}
        /\ Goto(e, NextStop(index[e]))
        /\ UNCHANGED <<relay_status, lease>>
  /\ UNCHANGED <<cursorVars, packageVars, storeVars, localVars, beating,
                 serverVars, faults>>

FirstAbsent(s) == phase[s] = "absent" /\ \A t \in 1 .. s - 1 : phase[t] # "absent"

InitUpload(e) ==
  /\ pc[e] = "init"
  /\ \E s \in UploadIds :
       /\ FirstAbsent(s)
       /\ phase' = [phase EXCEPT ![s] = "open"]
       /\ upload_id' = [upload_id EXCEPT ![e] = s]
  /\ index' = [index EXCEPT ![e] = 0]
  /\ Goto(e, "saveinit")
  /\ UNCHANGED <<rowVars, storeVars, attempt, digest, beating, held,
                 archives, faults>>

\* Mutant of SaveInit: the index of the previous session is kept.
SaveInitKeepsIndex(e) ==
  /\ pc[e] = "saveinit"
  /\ SaveRunning
  /\ relay_upload_id' = upload_id[e]
  /\ relay_chunk_total' = ChunkTotal
  /\ Goto(e, "send")
  /\ UNCHANGED <<relay_chunk_index, packageVars, storeVars, localVars, beating,
                 serverVars, faults>>

SaveInit(e) ==
  /\ pc[e] = "saveinit"
  /\ SaveRunning
  /\ relay_upload_id' = upload_id[e]
  /\ relay_chunk_total' = ChunkTotal
  /\ relay_chunk_index' = -1
  /\ Goto(e, "send")
  /\ UNCHANGED <<packageVars, storeVars, localVars, beating, serverVars, faults>>

\* The server stores the chunk (an overwrite if it has it) and dispatches the
\* assembly of the package whenever no chunk is missing.
Store(s, c, bytes) == [held EXCEPT ![s][c] = bytes]
Full(s, c) == \A d \in Chunks \ {c} : held[s][d] # 0

Receive(s, c) ==
  /\ phase[s] # "gone"
  /\ held' = Store(s, c, file)
  /\ phase' = IF Full(s, c) THEN [phase EXCEPT ![s] = "complete"] ELSE phase
  /\ UNCHANGED archives

SendChunk(e) ==
  /\ pc[e] = "send"
  /\ Receive(upload_id[e], index[e])
  /\ Goto(e, IF Full(upload_id[e], index[e]) THEN "savelast" ELSE "savechunk")
  /\ UNCHANGED <<rowVars, storeVars, localVars, beating, faults>>

\* The chunk arrives but its answer does not.
SendChunkAnswerLost(e) ==
  /\ pc[e] = "send"
  /\ Receive(upload_id[e], index[e])
  /\ Goto(e, "transient")
  /\ Fault
  /\ UNCHANGED <<rowVars, storeVars, localVars, beating>>

\* 404 for a session that is no more: a 4xx, hence permanent.
SendChunkRejected(e) ==
  /\ pc[e] = "send"
  /\ phase[upload_id[e]] = "gone"
  /\ Goto(e, "permanent")
  /\ UNCHANGED <<rowVars, storeVars, localVars, beating, serverVars, faults>>

\* _save(upload_id=..., chunk_index=...) after each chunk; "complete" ends the loop.
SaveChunk(e) ==
  /\ pc[e] \in {"savechunk", "savelast"}
  /\ SaveRunning
  /\ relay_upload_id' = upload_id[e]
  /\ relay_chunk_index' = index[e]
  /\ index' = [index EXCEPT ![e] = @ + 1]
  /\ Goto(e, IF pc[e] = "savelast" THEN "await" ELSE NextStop(index[e] + 1))
  /\ UNCHANGED <<relay_chunk_total, packageVars, storeVars, attempt, digest,
                 upload_id, beating, serverVars, faults>>

\* Mutant of AwaitArchive: the digest the server reports is not compared.
AwaitArchiveUnverified(e) ==
  /\ pc[e] = "await"
  /\ \/ phase[upload_id[e]] \in {"gone", "done"} /\ Goto(e, "finishok")
     \/ phase[upload_id[e]] = "failed" /\ Goto(e, "transient")
  /\ UNCHANGED <<rowVars, storeVars, localVars, beating, serverVars, faults>>

\* _await_archive() and _verify_server_digest().
AwaitArchive(e) ==
  /\ pc[e] = "await"
  /\ \/ phase[upload_id[e]] = "gone" /\ Goto(e, "finishok")
     \/ phase[upload_id[e]] = "failed" /\ Goto(e, "transient")
     \/ /\ phase[upload_id[e]] = "done"
        /\ Goto(e, IF held[upload_id[e]] = Whole(digest[e]) THEN "finishok" ELSE "permanent")
  /\ UNCHANGED <<rowVars, storeVars, localVars, beating, serverVars, faults>>

\* archive_timeout elapses while the session is still there.
AwaitTimeout(e) ==
  /\ pc[e] = "await"
  /\ phase[upload_id[e]] \in {"open", "complete"}
  /\ Goto(e, "transient")
  /\ Fault
  /\ UNCHANGED <<rowVars, storeVars, localVars, beating, serverVars>>

NetworkError(e) ==
  /\ pc[e] \in {"probe", "init", "send", "await"}
  /\ Goto(e, "transient")
  /\ Fault
  /\ UNCHANGED <<rowVars, storeVars, localVars, beating, serverVars>>

\* The except branch: save the reason, then back off and retry, or give up.
HandleError(e) ==
  /\ pc[e] \in {"transient", "permanent"}
  /\ SaveRunning
  /\ IF pc[e] = "transient" /\ attempt[e] < MaxAttempts
     THEN Goto(e, "attempt") /\ attempt' = [attempt EXCEPT ![e] = @ + 1]
     ELSE Goto(e, "finishfail") /\ UNCHANGED attempt
  /\ ForgetRun(e)
  /\ UNCHANGED <<cursorVars, packageVars, storeVars, beating, serverVars, faults>>

--------------------------------------------------------------------------------
(***************************************************************************)
(* _finish(): the terminal write.                                          *)
(***************************************************************************)

\* The guard `delivery_status != 'delivered'` is attached to writes without error.
FinishSuccess(e) ==
  /\ pc[e] = "finishok"
  /\ IF delivery_status # "delivered"
     THEN /\ relay_status' = "success"
          /\ lease' = TRUE
          /\ delivery_status' = "delivered"
     ELSE UNCHANGED <<relay_status, lease, delivery_status>>
  /\ Goto(e, "ended")
  /\ ForgetRun(e)
  /\ UNCHANGED <<cursorVars, archive_path, object_sha256, delivery_epoch,
                 storeVars, attempt, beating, serverVars, faults>>

FinishFailed(e) ==
  /\ pc[e] = "finishfail"
  /\ relay_status' = "failed"
  /\ lease' = TRUE
  /\ delivery_status' = "failed"
  /\ Goto(e, "ended")
  /\ UNCHANGED <<cursorVars, archive_path, object_sha256, delivery_epoch,
                 storeVars, localVars, beating, serverVars, faults>>

\* run() cancels the heartbeat and the coroutine leaves _running_relays.
Return(e) ==
  /\ pc[e] = "ended"
  /\ Goto(e, "idle")
  /\ ForgetRelay(e)
  /\ UNCHANGED <<rowVars, storeVars, serverVars, faults>>

--------------------------------------------------------------------------------
(***************************************************************************)
(* Pods end: shutdown_relays() cancels the coroutine and later gives its   *)
(* lease back; a kill does neither.  Either way a new pod takes its place. *)
(***************************************************************************)
CancelRelay(e) ==
  /\ pc[e] \in LabelsAtWork \cup {"queued", "ended"}
  /\ Goto(e, "draining")
  /\ ForgetRelay(e)
  /\ Trouble("graceful")
  /\ UNCHANGED <<rowVars, storeVars, serverVars>>

ReleaseCancelled(e) ==
  /\ pc[e] = "draining"
  /\ Release
  /\ Goto(e, "idle")
  /\ UNCHANGED <<storeVars, localVars, beating, serverVars, faults>>

KillPod(e) ==
  /\ pc[e] # "idle"
  /\ Goto(e, "idle")
  /\ ForgetRelay(e)
  /\ Fault
  /\ UNCHANGED <<rowVars, storeVars, serverVars>>

--------------------------------------------------------------------------------
(***************************************************************************)
(* The log server, as the relay service's header describes it.             *)
(***************************************************************************)

\* process_upload.py assembles the package, asynchronously.
ArchiveSession(s) ==
  /\ phase[s] = "complete"
  /\ archives' = archives \cup {held[s]}
  /\ phase' = [phase EXCEPT ![s] = IF DigestServer THEN "done" ELSE "gone"]
  /\ UNCHANGED <<rowVars, storeVars, execVars, held, faults>>

\* Assembly fails: the chunks are dropped, the session stays and says "failed".
FailSession(s) ==
  /\ phase[s] = "complete"
  /\ phase' = [phase EXCEPT ![s] = "failed"]
  /\ held' = [held EXCEPT ![s] = Whole(0)]
  /\ Fault
  /\ UNCHANGED <<rowVars, storeVars, execVars, archives>>

\* An unfinished session outlives its 24 hours.
ExpireSession(s) ==
  /\ phase[s] = "open"
  /\ phase' = [phase EXCEPT ![s] = "gone"]
  /\ Fault
  /\ UNCHANGED <<rowVars, storeVars, execVars, held, archives>>

--------------------------------------------------------------------------------
(***************************************************************************)
(* What the rest of the service does to the row meanwhile.                 *)
(***************************************************************************)

\* deliver: begin_delivery() registers a new epoch; relay_* columns keep their values.
BeginDelivery ==
  /\ delivery_epoch < MaxEpoch
  /\ delivery_epoch' = delivery_epoch + 1
  /\ delivery_status' = "queued"
  /\ UNCHANGED <<relay_status, cursorVars, lease, archive_path, object_sha256,
                 storeVars, execVars, serverVars, faults>>

\* complete: the merged package replaces the object file ...
MergePackage ==
  /\ uploader = "idle"
  /\ delivery_status = "queued"
  /\ file' = delivery_epoch
  /\ uploader' = "merged"
  /\ UNCHANGED <<rowVars, execVars, serverVars, faults>>

\* ... its metadata is committed ...
CommitPackage ==
  /\ uploader = "merged"
  /\ uploader' = "committed"
  /\ archive_path' = TRUE
  /\ object_sha256' = file
  /\ delivery_status' = "delivered"
  /\ UNCHANGED <<relay_status, cursorVars, lease, delivery_epoch, file,
                 execVars, serverVars, faults>>

\* ... and the relay is triggered, unless the row is not claimable.
TriggerAfterComplete ==
  /\ uploader = "committed"
  /\ uploader' = "idle"
  /\ \/ \E e \in Pods : Trigger(e, FALSE)
     \/ ~Claimable(FALSE) /\ UNCHANGED <<rowVars, execVars>>
  /\ UNCHANGED <<file, serverVars, faults>>

\* The pod dies between the commit and the trigger.
KillUploader ==
  /\ uploader # "idle"
  /\ uploader' = "idle"
  /\ Fault
  /\ UNCHANGED <<rowVars, file, execVars, serverVars>>

\* PATCH completed -> collecting ("corrected by node"): artefact columns are cleared.
CorrectTask ==
  /\ archive_path
  /\ archive_path' = FALSE
  /\ relay_status' = "none"
  /\ relay_chunk_index' = -1
  /\ relay_chunk_total' = 0
  /\ Trouble("correct")
  /\ UNCHANGED <<relay_upload_id, lease, object_sha256, delivery_status,
                 delivery_epoch, storeVars, execVars, serverVars>>

--------------------------------------------------------------------------------
Work(e) ==
  \/ BeginAttempt(e) \/ LoadTask(e) \/ ProbeSession(e) \/ InitUpload(e)
  \/ SaveInit(e) \/ SendChunk(e) \/ SendChunkRejected(e) \/ SaveChunk(e)
  \/ AwaitArchive(e) \/ HandleError(e) \/ FinishSuccess(e) \/ FinishFailed(e)
  \/ Return(e)

Disturb(e) ==
  \/ SendChunkAnswerLost(e) \/ AwaitTimeout(e) \/ NetworkError(e)
  \/ CancelRelay(e) \/ KillPod(e)

Pod(e) ==
  \/ StartRelay(e) \/ ReconcileRelays(e) \/ AcquireGate(e) \/ GateTimeout(e)
  \/ Heartbeat(e) \/ ReleaseCancelled(e) \/ Work(e) \/ Disturb(e)

Server(s) == ArchiveSession(s) \/ FailSession(s) \/ ExpireSession(s)

Platform ==
  \/ BeginDelivery \/ MergePackage \/ CommitPackage \/ TriggerAfterComplete
  \/ KillUploader \/ CorrectTask

Next ==
  \/ \E e \in Pods : Pod(e)
  \/ \E s \in UploadIds : Server(s)
  \/ LeaseExpires
  \/ Platform

Spec == Init /\ [][Next]_vars

(***************************************************************************)
(* The event loop runs every coroutine, the gate is granted or times out,  *)
(* reconcile_relays_loop() never stops, clocks advance, and the server     *)
(* finishes what it dispatched.  Nothing obliges a user, a fault or an     *)
(* upload to happen, except that a request under way goes on.              *)
(***************************************************************************)
Fairness ==
  /\ \A e \in Pods : /\ WF_vars(Work(e))
                     /\ WF_vars(AcquireGate(e) \/ GateTimeout(e))
                     /\ WF_vars(ReleaseCancelled(e))
                     /\ WF_vars(ReconcileRelays(e))
                     /\ WF_vars(Heartbeat(e))
  /\ \A s \in UploadIds : WF_vars(ArchiveSession(s) \/ FailSession(s))
  /\ WF_vars(LeaseExpires)
  /\ WF_vars(CommitPackage)
  /\ WF_vars(TriggerAfterComplete)

FairSpec == Spec /\ Fairness

--------------------------------------------------------------------------------
(***************************************************************************)
(* Properties.                                                             *)
(***************************************************************************)

AtWork == {e \in Pods : pc[e] \in LabelsAtWork}
Abandoned == /\ archive_path
             /\ relay_status \in {"pending", "running"}
             /\ \A e \in Pods : pc[e] = "idle"

\* The persisted break point never runs ahead of the log server: while the
\* session named by the row is alive, it holds every chunk up to the persisted
\* index, whichever of several coroutines wrote it.  A resume that skips chunks
\* (_run: start_index = relay_chunk_index + 1) is sound only because of this.
PersistedIndexBacked ==
  relay_upload_id # NoUpload /\ phase[relay_upload_id] \in {"open", "complete", "done"}
    => \A c \in Chunks : c <= relay_chunk_index => held[relay_upload_id][c] # 0

\* When the server reports digests, relay_status = "success" is written only for
\* a package that was assembled whole from one generation's bytes, whatever
\* coroutines, crashes and replaced files came in between.
SuccessWasArchived ==
  relay_status = "success" => \E b \in Bytes \ {0} : Whole(b) \in archives

\* start_relay's promise that repeated clicks and retries "do not produce two
\* concurrent uploads": at most one coroutine is past the concurrency gate.
AtMostOneExecutor == \A e, f \in AtWork : e = f

\* A relay whose process was killed or drained does not stay pending or running
\* unattended: the reconcile loop of some pod takes it over.
AbandonedRelayIsPickedUp == Abandoned ~> ~Abandoned

\* _finish's reason to exist: a running relay of a package that is there ends
\* in a terminal status.
EveryRelayEnds == relay_status = "running" ~> relay_status # "running"

================================================================================
