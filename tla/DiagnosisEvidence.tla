--------------------------- MODULE DiagnosisEvidence ---------------------------
(***************************************************************************)
(* Evidence of one offline diagnosis session: uploads completed by the     *)
(* diagnosis service (evidence_upload_service.py), bundles processed by    *)
(* the diagnosis workers (worker.py, bundle_processor.py), runs of the     *)
(* analysis, deletion and legal hold.                                      *)
(*                                                                         *)
(* A step is a transaction, or a statement that reads what a later one     *)
(* uses.  The session row is locked by whoever analyses, deletes or holds, *)
(* and nobody holds a lock across two steps.  A process that dies loses    *)
(* what it has not committed.                                              *)
(*                                                                         *)
(* Data: a package is its content, the pair of bundle type and SHA-256     *)
(* that makes bundles unique; an upload's parts arrive together; items of  *)
(* a package are numbered.  transition() of the session has no caller, so  *)
(* the statuses here are those some statement writes.  Reports appear only *)
(* as the publication that moves the session.                              *)
(***************************************************************************)
EXTENDS Naturals, Sequences

CONSTANTS
  Uploads,        \* upload sessions
  Contents,       \* packages
  Supplements,    \* those of bundle type "supplement"
  Workers,        \* diagnosis-worker replicas
  Items,          \* evidence items of a package
  MaxAttempts,    \* max_attempts of a job
  AutoSupplement, \* DIAGNOSIS_ENABLE_AUTOMATIC_SUPPLEMENT
  None,           \* no content, no upload
  Operations,     \* bound: what users and administrators ask for beside uploads
  MaxFaults       \* bound: processes killed and deletions interrupted

ASSUME EvidenceConstants ==
  /\ Supplements \subseteq Contents
  /\ None \notin Contents \cup Uploads
  /\ Items \in Nat \ {0} /\ MaxAttempts \in Nat \ {0} /\ MaxFaults \in Nat
  /\ AutoSupplement \in BOOLEAN
  /\ Operations \subseteq {"abort", "start", "publish", "terminate", "retry", "hold",
                           "request", "retention"}

VARIABLES
  session,   \* row of diagnosis_session: status, supplements, legal hold, with its
             \* supplement_plan and, in order, the bundles of each diagnosis_run
  uploads,   \* rows of diagnosis_upload_session
  handlers,  \* of each upload, the request that completes it
  objects,   \* uploads whose merged object is in the store
  bundles,   \* rows of diagnostic_evidence_bundle
  jobs,      \* rows of diagnosis_processing_job
  evidence,  \* of each content, the rows of evidence_item
  workers,   \* where each worker stands
  deletion,  \* row of diagnosis_deletion_job
  faults     \* faults so far

vars == <<session, uploads, handlers, objects, bundles, jobs, evidence, workers, deletion, faults>>

Stages == <<"quarantined", "scanning", "extracting", "assessing">>

SessionStatuses == {"plan_ready", "uploading", "assessing", "supplement_required",
                    "review_pending", "published", "cancelled", "deletion_pending", "deleted"}

UploadStatuses == {"absent", "initiated", "uploading", "completing", "completed", "failed",
                   "expired", "aborted"}

BundleStatuses == {"absent", "uploaded", "quarantined", "scanning", "extracting", "assessing",
                   "ready", "rejected", "failed", "deleted"}

Idle == [pc |-> "idle", content |-> None, attempt |-> 0, step |-> 0]

TypeOK ==
  /\ session \in [status : SessionStatuses, supplements : 0 .. 1, held : BOOLEAN,
                  plan : {"absent", "ready", "collecting", "completed", "cancelled"},
                  runs : Seq(SUBSET Contents)]
  /\ Len(session.runs) <= 2
  /\ uploads \in [Uploads -> [status : UploadStatuses, content : Contents \cup {None}]]
  /\ handlers \in [Uploads -> {"idle", "merge", "read", "insertHeld", "insertFree"}]
  /\ objects \subseteq Uploads
  /\ bundles \in [Contents -> [status : BundleStatuses, upload : Uploads \cup {None},
                               held : BOOLEAN]]
  /\ jobs \in [Contents -> [status : {"absent", "pending", "running", "succeeded", "failed"},
                            attempts : 0 .. MaxAttempts]]
  /\ evidence \in [Contents -> SUBSET (1 .. Items)]
  /\ workers \in [Workers -> [pc : {"down", "idle", "picked", "stage", "persist", "ready",
                                    "analyse"},
                              content : Contents \cup {None}, attempt : 0 .. MaxAttempts,
                              step : Nat]]
  /\ deletion \in {"absent", "pending", "deleted"}
  /\ faults \in 0 .. MaxFaults

Init ==
  /\ session = [status |-> "plan_ready", supplements |-> 0, held |-> FALSE, plan |-> "absent",
                runs |-> <<>>]
  /\ uploads = [u \in Uploads |-> [status |-> "absent", content |-> None]]
  /\ handlers = [u \in Uploads |-> "idle"]
  /\ objects = {}
  /\ bundles = [c \in Contents |-> [status |-> "absent", upload |-> None, held |-> FALSE]]
  /\ jobs = [c \in Contents |-> [status |-> "absent", attempts |-> 0]]
  /\ evidence = [c \in Contents |-> {}]
  /\ workers = [w \in Workers |-> [Idle EXCEPT !.pc = "down"]]
  /\ deletion = "absent"
  /\ faults = 0

Fault == faults < MaxFaults /\ faults' = faults + 1
Existing == {c \in Contents : bundles[c].status # "absent"}
Held == session.held \/ \E c \in Contents : bundles[c].held
UploadIs(u, statuses) == uploads[u].status \in statuses
SetUpload(u, status) == uploads' = [uploads EXCEPT ![u].status = status]

--------------------------------------------------------------------------------
(***************************************************************************)
(* Uploads                                                                 *)
(***************************************************************************)
processing == <<jobs, evidence, workers, deletion>>

\* A supplement is uploaded for the plan of the supplement.
Create(u, c) ==
  /\ UploadIs(u, {"absent"})
  /\ session.status \in {"plan_ready", "uploading", "supplement_required"}
  /\ c \in Supplements => session.plan # "absent"
  /\ uploads' = [uploads EXCEPT ![u] = [status |-> "initiated", content |-> c]]
  /\ session' = IF session.status = "plan_ready" THEN [session EXCEPT !.status = "uploading"]
                ELSE session
  /\ UNCHANGED <<handlers, objects, bundles, processing, faults>>

RecordParts(u) ==
  /\ UploadIs(u, {"initiated"})
  /\ SetUpload(u, "uploading")
  /\ UNCHANGED <<session, handlers, objects, bundles, processing, faults>>

At(u, pc) == handlers[u] = pc
Goto(u, pc) == handlers' = [handlers EXCEPT ![u] = pc]

\* complete(): one request wins the upload, and commits that it did.
ClaimUpload(u) ==
  /\ UploadIs(u, {"uploading"})
  /\ SetUpload(u, "completing")
  /\ Goto(u, "merge")
  /\ UNCHANGED <<session, objects, bundles, processing, faults>>

\* The parts are gone once the upload was aborted or expired.
Merge(u) ==
  /\ At(u, "merge") /\ UploadIs(u, {"completing"})
  /\ objects' = objects \cup {u}
  /\ Goto(u, "read")
  /\ UNCHANGED <<session, uploads, bundles, processing, faults>>

MergeFails(u) ==
  /\ At(u, "merge")
  /\ IF UploadIs(u, {"completing"}) THEN SetUpload(u, "failed") ELSE UNCHANGED uploads
  /\ Goto(u, "idle")
  /\ UNCHANGED <<session, objects, bundles, processing, faults>>

\* The object is not what was declared: it is removed.
Mismatch(u) ==
  /\ At(u, "read")
  /\ SetUpload(u, "failed")
  /\ objects' = objects \ {u}
  /\ Goto(u, "idle")
  /\ UNCHANGED <<session, bundles, processing, faults>>

\* The insertion copies the hold it sees, then waits for the session row its foreign key
\* names, which a change of the hold has locked.
ReadHold(u) ==
  /\ At(u, "read")
  /\ Goto(u, IF session.held THEN "insertHeld" ELSE "insertFree")
  /\ UNCHANGED <<session, uploads, objects, bundles, processing, faults>>

InsertFails(u) ==
  /\ handlers[u] \in {"insertHeld", "insertFree"}
  /\ SetUpload(u, "failed")
  /\ Goto(u, "idle")
  /\ UNCHANGED <<session, objects, bundles, processing, faults>>

Uploaded(c) ==
  [session EXCEPT
     !.status = IF @ \in {"uploading", "supplement_required"} THEN "assessing" ELSE @,
     !.plan = IF c \in Supplements /\ @ = "ready" THEN "collecting" ELSE @]

\* Mutant of Insert: the job is left to a later request.
InsertWithoutJob(u) ==
  LET c == uploads[u].content
  IN  /\ handlers[u] \in {"insertHeld", "insertFree"}
      /\ SetUpload(u, "completed")
      /\ Goto(u, "idle")
      /\ bundles' = IF c \in Existing THEN bundles
                    ELSE [bundles EXCEPT ![c] = [status |-> "uploaded", upload |-> u,
                                                 held |-> At(u, "insertHeld")]]
      /\ UNCHANGED <<session, objects, processing, faults>>

\* One transaction: bundle, job, upload, session and supplement plan.  A package the
\* session has already adds nothing but the completion; its object stays.
Insert(u) ==
  LET c == uploads[u].content
  IN  /\ handlers[u] \in {"insertHeld", "insertFree"}
      /\ SetUpload(u, "completed")
      /\ Goto(u, "idle")
      /\ IF c \in Existing THEN UNCHANGED <<session, bundles, jobs>>
         ELSE /\ bundles' = [bundles EXCEPT ![c] = [status |-> "uploaded", upload |-> u,
                                                    held |-> At(u, "insertHeld")]]
              /\ jobs' = [jobs EXCEPT ![c] = [status |-> "pending", attempts |-> 0]]
              /\ session' = Uploaded(c)
      /\ UNCHANGED <<objects, evidence, workers, deletion, faults>>

\* The API process dies.
KillHandler(u) ==
  /\ ~At(u, "idle") /\ Fault /\ Goto(u, "idle")
  /\ UNCHANGED <<session, uploads, objects, bundles, processing>>

\* An upload under completion may be aborted too.
Abort(u) ==
  /\ ~UploadIs(u, {"absent", "completed", "aborted"})
  /\ SetUpload(u, "aborted")
  /\ UNCHANGED <<session, handlers, objects, bundles, processing, faults>>

\* Mutant of Expire: uploads under completion are left to their request.
ExpireOpen(u) ==
  /\ UploadIs(u, {"initiated", "uploading", "failed"})
  /\ SetUpload(u, "expired")
  /\ UNCHANGED <<session, handlers, objects, bundles, processing, faults>>

\* run_lifecycle_maintenance, once the time to live of the upload is over.
Expire(u) ==
  /\ UploadIs(u, {"initiated", "uploading", "failed", "completing"})
  /\ SetUpload(u, "expired")
  /\ UNCHANGED <<session, handlers, objects, bundles, processing, faults>>

--------------------------------------------------------------------------------
(***************************************************************************)
(* Analysis                                                                *)
(***************************************************************************)
Ready == {c \in Contents : bundles[c].status = "ready"}

Supplementable == AutoSupplement /\ session.supplements < 1

\* The second run completes the supplement plan, even one it has just created.
Planned(supplement) ==
  CASE Len(session.runs) = 1 /\ (supplement \/ session.plan # "absent") -> "completed"
    [] Len(session.runs) = 0 /\ supplement -> "ready"
    [] OTHER -> session.plan

Assessable == Ready # {} /\ Len(session.runs) < 2

\* The run manifest holds the version of the session, which each run increments: no run
\* finds its manifest again.
AssessAndDiagnose ==
  /\ Assessable
  /\ \E supplement \in IF Supplementable THEN BOOLEAN ELSE {FALSE} :
       session' = [session EXCEPT
         !.status = IF supplement THEN "supplement_required" ELSE "review_pending",
         !.supplements = IF supplement THEN @ + 1 ELSE @,
         !.plan = Planned(supplement),
         !.runs = Append(@, Ready)]

StartDiagnosis ==
  /\ session.runs = <<>>
  /\ AssessAndDiagnose
  /\ UNCHANGED <<uploads, handlers, objects, bundles, processing, faults>>

\* review_report() publishes the report of a run.
Publish ==
  /\ session.status = "review_pending" /\ session.runs # <<>>
  /\ session' = [session EXCEPT !.status = "published"]
  /\ UNCHANGED <<uploads, handlers, objects, bundles, processing, faults>>

--------------------------------------------------------------------------------
(***************************************************************************)
(* Workers                                                                 *)
(***************************************************************************)
uploading == <<uploads, handlers, objects>>

Pc(w, pc) == workers[w].pc = pc
Proceed(w, pc) == workers' = [workers EXCEPT ![w].pc = pc]
Rest(w) == workers' = [workers EXCEPT ![w] = Idle]
SetBundle(c, status) == bundles' = [bundles EXCEPT ![c].status = status]
SetJob(c, status) == jobs' = [jobs EXCEPT ![c].status = status]

\* The worker starts.  recover_stuck_tasks() sets running jobs that are overdue to pending
\* and returns from inside the session's generator, which commits only when it is resumed:
\* the update is rolled back.
RecoverStuckTasks(w) ==
  /\ Pc(w, "down") /\ Rest(w)
  /\ UNCHANGED <<session, uploading, bundles, jobs, evidence, deletion, faults>>

\* next_task() reads the job and lets its row lock go.
NextTask(w, c) ==
  /\ Pc(w, "idle")
  /\ jobs[c].status = "pending" /\ jobs[c].attempts < MaxAttempts
  /\ workers' = [workers EXCEPT ![w] = [Idle EXCEPT !.pc = "picked", !.content = c]]
  /\ UNCHANGED <<session, uploading, bundles, jobs, evidence, deletion, faults>>

\* Mutant of Claimable: a failed job is claimed over its budget.
ClaimableAgain(c) == jobs[c].status \in {"pending", "failed"}

Claimable(c) == jobs[c].status \in {"pending", "failed"} /\ jobs[c].attempts < MaxAttempts

\* Mutant of ClaimJob: the status the worker read is taken for granted.
ClaimPicked(w) ==
  LET c == workers[w].content
  IN  /\ Pc(w, "picked")
      /\ IF jobs[c].attempts < MaxAttempts
         THEN /\ jobs' = [jobs EXCEPT ![c] = [status |-> "running", attempts |-> @.attempts + 1]]
              /\ workers' = [workers EXCEPT ![w].pc = "stage", ![w].step = 1,
                                            ![w].attempt = jobs[c].attempts + 1]
         ELSE Rest(w) /\ UNCHANGED jobs
      /\ UNCHANGED <<session, uploading, bundles, evidence, deletion, faults>>

ClaimJob(w) ==
  LET c == workers[w].content
  IN  /\ Pc(w, "picked")
      /\ IF Claimable(c)
         THEN /\ jobs' = [jobs EXCEPT ![c] = [status |-> "running", attempts |-> @.attempts + 1]]
              /\ workers' = [workers EXCEPT ![w].pc = "stage", ![w].step = 1,
                                            ![w].attempt = jobs[c].attempts + 1]
         ELSE Rest(w) /\ UNCHANGED jobs
      /\ UNCHANGED <<session, uploading, bundles, evidence, deletion, faults>>

\* Each stage is written, whatever the row says by then.  The object is read and decrypted
\* between the first stage and the second.
EnterStage(w) ==
  LET c == workers[w].content
      s == workers[w].step
  IN  /\ Pc(w, "stage")
      /\ s = 2 => bundles[c].upload \in objects
      /\ SetBundle(c, Stages[s])
      /\ workers' = [workers EXCEPT ![w].pc = IF s < Len(Stages) THEN "stage" ELSE "persist",
                                    ![w].step = IF s < Len(Stages) THEN s + 1 ELSE 1]
      /\ UNCHANGED <<session, uploading, jobs, evidence, deletion, faults>>

\* Mutant of PersistEvidence: an item that is there already ends the work.
PersistUntilKnown(w) ==
  LET c == workers[w].content
      s == workers[w].step
  IN  /\ Pc(w, "persist")
      /\ evidence' = [evidence EXCEPT ![c] = @ \cup {s}]
      /\ workers' = [workers EXCEPT
           ![w].pc = IF s < Items /\ s \notin evidence[c] THEN "persist" ELSE "ready",
           ![w].step = s + 1]
      /\ UNCHANGED <<session, uploading, bundles, jobs, deletion, faults>>

\* Each item is a transaction; one that is there is left as it is.
PersistEvidence(w) ==
  LET c == workers[w].content
      s == workers[w].step
  IN  /\ Pc(w, "persist")
      /\ evidence' = [evidence EXCEPT ![c] = @ \cup {s}]
      /\ workers' = [workers EXCEPT ![w].pc = IF s < Items THEN "persist" ELSE "ready",
                                    ![w].step = s + 1]
      /\ UNCHANGED <<session, uploading, bundles, jobs, deletion, faults>>

BundleReady(w) ==
  /\ Pc(w, "ready")
  /\ SetBundle(workers[w].content, "ready")
  /\ Proceed(w, "analyse")
  /\ UNCHANGED <<session, uploading, jobs, evidence, deletion, faults>>

\* Mutant of Analyse: the job is done even where the analysis was refused.
AnalyseOrNot(w) ==
  /\ Pc(w, "analyse")
  /\ IF Assessable THEN AssessAndDiagnose ELSE UNCHANGED session
  /\ SetJob(workers[w].content, "succeeded")
  /\ Rest(w)
  /\ UNCHANGED <<uploading, bundles, evidence, deletion, faults>>

\* The run and the end of the job are one transaction.
Analyse(w) ==
  /\ Pc(w, "analyse")
  /\ AssessAndDiagnose
  /\ SetJob(workers[w].content, "succeeded")
  /\ Rest(w)
  /\ UNCHANGED <<uploading, bundles, evidence, deletion, faults>>

Processing(w) == workers[w].pc \in {"stage", "persist", "ready", "analyse"}

\* A permanent error: the package is malformed, or the analysis refuses it.
Reject(w) ==
  LET c == workers[w].content
  IN  /\ Processing(w)
      /\ SetBundle(c, "rejected") /\ SetJob(c, "failed")
      /\ Rest(w)
      /\ UNCHANGED <<session, uploading, evidence, deletion, faults>>

\* Mutant of Fail: the attempts are not counted.
FailAgain(w) ==
  LET c == workers[w].content
  IN  /\ Processing(w)
      /\ SetBundle(c, "failed")
      /\ jobs' = [jobs EXCEPT ![c].status = "pending", ![c].attempts = 0]
      /\ Rest(w)
      /\ UNCHANGED <<session, uploading, evidence, deletion, faults>>

\* Any other error, a missing object among them, is tried again.
Fail(w) ==
  LET c == workers[w].content
  IN  /\ Processing(w)
      /\ SetBundle(c, "failed")
      /\ SetJob(c, IF workers[w].attempt < MaxAttempts THEN "pending" ELSE "failed")
      /\ Rest(w)
      /\ UNCHANGED <<session, uploading, evidence, deletion, faults>>

\* The worker is killed, or told to stop by a rolling update.
KillWorker(w) ==
  /\ ~Pc(w, "down") /\ Fault
  /\ workers' = [workers EXCEPT ![w] = [Idle EXCEPT !.pc = "down"]]
  /\ UNCHANGED <<session, uploading, bundles, jobs, evidence, deletion>>

--------------------------------------------------------------------------------
(***************************************************************************)
(* Administration                                                          *)
(***************************************************************************)
\* terminate() aborts open uploads and fails pending jobs; the rest runs on.
Terminate ==
  /\ session.status \notin {"cancelled", "deleted"}
  /\ session' = [session EXCEPT !.status = "cancelled",
                                !.plan = IF @ \in {"ready", "collecting"} THEN "cancelled" ELSE @]
  /\ uploads' = [u \in Uploads |-> IF UploadIs(u, {"initiated", "uploading"})
                                   THEN [uploads[u] EXCEPT !.status = "aborted"] ELSE uploads[u]]
  /\ jobs' = [c \in Contents |-> IF jobs[c].status = "pending"
                                 THEN [jobs[c] EXCEPT !.status = "failed"] ELSE jobs[c]]
  /\ UNCHANGED <<handlers, objects, bundles, evidence, workers, deletion, faults>>

RetryProcessing(c) ==
  /\ jobs[c].status = "failed" /\ jobs[c].attempts < MaxAttempts
  /\ bundles[c].status = "failed"
  /\ SetJob(c, "pending") /\ SetBundle(c, "uploaded")
  /\ UNCHANGED <<session, uploading, evidence, workers, deletion, faults>>

\* Both releases and applications write all the bundles of the session there are.
SetHold(held) ==
  /\ session.held # held
  /\ session' = [session EXCEPT !.held = held]
  /\ bundles' = [c \in Contents |-> IF c \in Existing THEN [bundles[c] EXCEPT !.held = held]
                                    ELSE bundles[c]]
  /\ UNCHANGED <<uploading, processing, faults>>

RequestDeletion ==
  /\ deletion = "absent" /\ ~Held
  /\ deletion' = "pending"
  /\ session' = [session EXCEPT !.status = "deletion_pending"]
  /\ UNCHANGED <<uploading, bundles, jobs, evidence, workers, faults>>

\* run_lifecycle_maintenance, once the retention of every bundle is over.
EnqueueRetention ==
  LET kept == {c \in Existing : bundles[c].status # "deleted"}
  IN  /\ deletion = "absent" /\ ~session.held /\ session.status # "deleted"
      /\ kept # {} /\ \A c \in kept : ~bundles[c].held
      /\ deletion' = "pending"
      /\ UNCHANGED <<session, uploading, bundles, jobs, evidence, workers, faults>>

BundleObjects == {bundles[c].upload : c \in Existing}

\* Mutant of ExecuteDeletion: the hold was asked for when the deletion was requested.
ExecuteRequested ==
  /\ deletion = "pending"
  /\ objects' = objects \ BundleObjects
  /\ evidence' = [c \in Contents |-> {}]
  /\ bundles' = [c \in Contents |-> IF c \in Existing THEN [bundles[c] EXCEPT !.status = "deleted"]
                                    ELSE bundles[c]]
  /\ deletion' = "deleted"
  /\ session' = [session EXCEPT !.status = "deleted"]
  /\ UNCHANGED <<uploads, handlers, jobs, workers, faults>>

ExecuteDeletion ==
  /\ deletion = "pending" /\ ~Held
  /\ objects' = objects \ BundleObjects
  /\ evidence' = [c \in Contents |-> {}]
  /\ bundles' = [c \in Contents |-> IF c \in Existing THEN [bundles[c] EXCEPT !.status = "deleted"]
                                    ELSE bundles[c]]
  /\ deletion' = "deleted"
  /\ session' = [session EXCEPT !.status = "deleted"]
  /\ UNCHANGED <<uploads, handlers, jobs, workers, faults>>

\* It fails on the way: the tables, with the count of its attempts, are rolled back.
DeletionFails(gone) ==
  /\ deletion = "pending" /\ ~Held /\ Fault
  /\ gone \subseteq BundleObjects
  /\ objects' = objects \ gone
  /\ UNCHANGED <<session, uploads, handlers, bundles, processing>>

--------------------------------------------------------------------------------
Complete(u) ==
  \/ Merge(u) \/ MergeFails(u) \/ Mismatch(u)
  \/ ReadHold(u) \/ Insert(u) \/ InsertFails(u)

Work(w) ==
  \/ RecoverStuckTasks(w)
  \/ \E c \in Contents : NextTask(w, c)
  \/ ClaimJob(w) \/ EnterStage(w) \/ PersistEvidence(w) \/ BundleReady(w)
  \/ Analyse(w) \/ Reject(w) \/ Fail(w)

Administer ==
  \/ "abort" \in Operations /\ \E u \in Uploads : Abort(u)
  \/ "start" \in Operations /\ StartDiagnosis
  \/ "publish" \in Operations /\ Publish
  \/ "terminate" \in Operations /\ Terminate
  \/ "retry" \in Operations /\ \E c \in Contents : RetryProcessing(c)
  \/ "hold" \in Operations /\ \E held \in BOOLEAN : SetHold(held)
  \/ "request" \in Operations /\ RequestDeletion
  \/ "retention" \in Operations /\ EnqueueRetention

Next ==
  \/ \E u \in Uploads, c \in Contents : Create(u, c)
  \/ \E u \in Uploads : RecordParts(u) \/ ClaimUpload(u) \/ Complete(u) \/ KillHandler(u)
                        \/ Expire(u)
  \/ \E w \in Workers : Work(w) \/ KillWorker(w)
  \/ Administer \/ ExecuteDeletion
  \/ \E gone \in SUBSET Uploads : DeletionFails(gone)

Spec == Init /\ [][Next]_vars

\* Requests and workers run on, dead workers are restarted, and times to live end.
FairSpec ==
  /\ Spec
  /\ \A u \in Uploads : WF_vars(Complete(u)) /\ WF_vars(Expire(u))
  /\ \A w \in Workers : WF_vars(Work(w))

--------------------------------------------------------------------------------
\* A package is in the hands of one worker: picked by several, processed by one.
OneProcessor ==
  \A v, w \in Workers :
    (v # w /\ Processing(v) /\ Processing(w)) => workers[v].content # workers[w].content

\* An upload that was reported complete has its bundle and its job, whoever completed
\* the same package first, aborted it or let it expire meanwhile.
CompletedIsQueued ==
  \A u \in Uploads : UploadIs(u, {"completed"}) =>
    uploads[u].content \in Existing /\ jobs[uploads[u].content].status # "absent"

\* Short of a deletion, a bundle is ready with all of its items, however often a worker
\* failed between them.
ReadyIsComplete == deletion # "deleted" => \A c \in Ready : evidence[c] = 1 .. Items

\* Short of a deletion, a job succeeds only with its bundle in a run of the analysis.
SucceededIsDiagnosed ==
  deletion # "deleted" =>
    \A c \in Contents : jobs[c].status = "succeeded" =>
      \E i \in DOMAIN session.runs : c \in session.runs[i]

\* Under a legal hold no bundle's object and no evidence disappears.
HeldIsKept ==
  [][session.held /\ session'.held =>
       /\ \A c \in Contents : evidence[c] \subseteq evidence'[c]
       /\ \A c \in Existing : bundles[c].upload \in objects => bundles[c].upload \in objects'
    ]_vars

Orphaned(c) ==
  jobs[c].status = "running" /\ \A w \in Workers : ~(Processing(w) /\ workers[w].content = c)

\* Every queued package is processed to an end, or stands with a worker that died.
JobsEnd ==
  \A c \in Contents :
    jobs[c].status = "pending" ~> jobs[c].status \in {"succeeded", "failed"} \/ Orphaned(c)

\* No upload stays under completion for ever: it ends, or it expires.
UploadsSettle ==
  \A u \in Uploads : UploadIs(u, {"completing"}) ~> ~UploadIs(u, {"completing"})

\* "恢复进程崩溃后超时停留在 running 的任务": what a dead worker leaves is taken up again.
RunningIsRecovered == \A c \in Contents : Orphaned(c) ~> ~Orphaned(c)

================================================================================
