------------------------ MODULE DiagnosisEvidenceProofs ------------------------
(***************************************************************************)
(* What holds of a session's evidence for any number of uploads, packages, *)
(* workers and faults.                                                     *)
(*                                                                         *)
(* A worker takes a job by making it "running" where it is not, and nobody *)
(* else moves a running job: one worker processes a package, and what it   *)
(* has written of it stands until it is done or the session is deleted.    *)
(* The upload a bundle names is completed and served by nobody, so only a  *)
(* deletion, which asks for the hold, removes its object.                  *)
(***************************************************************************)
EXTENDS DiagnosisEvidence, TLAPS

USE DEF vars, processing, uploading

\* A worker at work has a package, and is at one of its stages or items.
Placed ==
  \A w \in Workers :
    /\ workers[w].pc \notin {"down", "idle"} => workers[w].content \in Contents
    /\ Pc(w, "stage") => workers[w].step \in 1 .. 4
    /\ Pc(w, "persist") => workers[w].step \in 1 .. Items

\* An upload under way has a package.
Declared ==
  \A u \in Uploads :
    /\ ~UploadIs(u, {"absent"}) => uploads[u].content \in Contents
    /\ ~At(u, "idle") => ~UploadIs(u, {"absent"})

TypeInv == TypeOK /\ Placed /\ Declared

Session == [status : SessionStatuses, supplements : 0 .. 1, held : BOOLEAN,
            plan : {"absent", "ready", "collecting", "completed", "cancelled"},
            runs : Seq(SUBSET Contents)]

Upload == [status : UploadStatuses, content : Contents \cup {None}]

BundleRow == [status : BundleStatuses, upload : Uploads \cup {None}, held : BOOLEAN]

Job == [status : {"absent", "pending", "running", "succeeded", "failed"},
        attempts : 0 .. MaxAttempts]

Worker == [pc : {"down", "idle", "picked", "stage", "persist", "ready", "analyse"},
           content : Contents \cup {None}, attempt : 0 .. MaxAttempts, step : Nat]

--------------------------------------------------------------------------------
(***************************************************************************)
(* Types                                                                   *)
(***************************************************************************)
LEMMA IdleTyped == Idle \in Worker /\ [Idle EXCEPT !.pc = "down"] \in Worker
BY EvidenceConstants DEF Idle, Worker

LEMMA InitTyped == Init => TypeInv
<1> SUFFICES ASSUME Init PROVE TypeInv OBVIOUS
<1>1. session \in Session /\ Len(session.runs) = 0 BY DEF Init, Session, SessionStatuses
<1>2. workers \in [Workers -> Worker] BY IdleTyped DEF Init
<1>3. Placed BY DEF Init, Placed, Idle, Pc
<1>4. Declared BY DEF Init, Declared, UploadIs, At
<1>5. uploads \in [Uploads -> [status : UploadStatuses, content : Contents \cup {None}]]
  BY DEF Init, UploadStatuses
<1>6. bundles \in [Contents -> [status : BundleStatuses, upload : Uploads \cup {None},
                                held : BOOLEAN]]
  BY DEF Init, BundleStatuses
<1>7. jobs \in [Contents -> [status : {"absent", "pending", "running", "succeeded", "failed"},
                             attempts : 0 .. MaxAttempts]]
  BY EvidenceConstants DEF Init
<1>8. /\ handlers \in [Uploads -> {"idle", "merge", "read", "insertHeld", "insertFree"}]
      /\ objects \subseteq Uploads
      /\ evidence \in [Contents -> SUBSET (1 .. Items)]
      /\ deletion \in {"absent", "pending", "deleted"}
      /\ faults \in 0 .. MaxFaults
  BY EvidenceConstants DEF Init
<1>9. QED
  BY <1>1, <1>2, <1>3, <1>4, <1>5, <1>6, <1>7, <1>8 DEF TypeInv, TypeOK, Session, Worker

\* What a statement may write of the session.
LEMMA StatusTyped ==
  ASSUME session \in Session, NEW status \in SessionStatuses
  PROVE  /\ [session EXCEPT !.status = status] \in Session
         /\ [session EXCEPT !.status = status].runs = session.runs
BY DEF Session

LEMMA AssessTyped ==
  ASSUME TypeOK, AssessAndDiagnose
  PROVE  /\ session' \in Session /\ Len(session'.runs) <= 2
         /\ session'.runs = Append(session.runs, Ready) /\ session'.held = session.held
<1>1. session \in Session BY DEF TypeOK, Session
<1>2. PICK supplement \in IF Supplementable THEN BOOLEAN ELSE {FALSE} :
       session' = [session EXCEPT
         !.status = IF supplement THEN "supplement_required" ELSE "review_pending",
         !.supplements = IF supplement THEN @ + 1 ELSE @,
         !.plan = Planned(supplement),
         !.runs = Append(@, Ready)]
  BY DEF AssessAndDiagnose
<1> DEFINE status == IF supplement THEN "supplement_required" ELSE "review_pending"
           supplements == IF supplement THEN session.supplements + 1 ELSE session.supplements
           runs == Append(session.runs, Ready)
<1>3. session' = [session EXCEPT !.status = status, !.supplements = supplements,
                                 !.plan = Planned(supplement), !.runs = runs]
  BY <1>2
<1>4. status \in SessionStatuses BY DEF SessionStatuses
<1>5. supplements \in 0 .. 1
  <2>1. session.supplements \in 0 .. 1 BY <1>1 DEF Session
  <2>2. supplement => session.supplements < 1 BY DEF Supplementable
  <2>3. QED BY <2>1, <2>2
<1>6. Planned(supplement) \in {"absent", "ready", "collecting", "completed", "cancelled"}
  BY <1>1 DEF Planned, Session
<1>7. runs \in Seq(SUBSET Contents) /\ Len(runs) <= 2
  <2>1. Ready \in SUBSET Contents BY DEF Ready
  <2>2. session.runs \in Seq(SUBSET Contents) BY <1>1 DEF Session
  <2>3. Len(session.runs) < 2 BY DEF AssessAndDiagnose, Assessable
  <2>4. QED BY <2>1, <2>2, <2>3
<1> HIDE DEF status, supplements
<1>8. QED BY <1>1, <1>3, <1>4, <1>5, <1>6, <1>7 DEF Session

\* A statement that writes one column of one row.
LEMMA UploadSet ==
  ASSUME TypeOK, NEW u \in Uploads, NEW status \in UploadStatuses, SetUpload(u, status)
  PROVE  /\ uploads' \in [Uploads -> Upload]
         /\ \A v \in Uploads :
              /\ uploads'[v].content = uploads[v].content
              /\ uploads'[v].status = IF v = u THEN status ELSE uploads[v].status
<1>1. uploads \in [Uploads -> Upload] BY DEF TypeOK, Upload
<1> DEFINE n == [uploads[u] EXCEPT !.status = status]
<1>2. n \in Upload /\ n.content = uploads[u].content /\ n.status = status
  BY <1>1 DEF Upload
<1>3. uploads' = [uploads EXCEPT ![u] = n] BY <1>1 DEF SetUpload
<1> HIDE DEF n
<1>4. QED BY <1>1, <1>2, <1>3

LEMMA BundleSet ==
  ASSUME TypeOK, NEW c \in Contents, NEW status \in BundleStatuses, SetBundle(c, status)
  PROVE  /\ bundles' \in [Contents -> BundleRow]
         /\ \A d \in Contents :
              /\ bundles'[d].upload = bundles[d].upload
              /\ bundles'[d].status = IF d = c THEN status ELSE bundles[d].status
<1>1. bundles \in [Contents -> BundleRow] BY DEF TypeOK, BundleRow
<1> DEFINE n == [bundles[c] EXCEPT !.status = status]
<1>2. n \in BundleRow /\ n.upload = bundles[c].upload /\ n.status = status
  BY <1>1 DEF BundleRow
<1>3. bundles' = [bundles EXCEPT ![c] = n] BY <1>1 DEF SetBundle
<1> HIDE DEF n
<1>4. QED BY <1>1, <1>2, <1>3

LEMMA JobSet ==
  ASSUME TypeOK, NEW c \in Contents,
         NEW status \in {"pending", "running", "succeeded", "failed"}, SetJob(c, status)
  PROVE  /\ jobs' \in [Contents -> Job]
         /\ \A d \in Contents : jobs'[d].status = IF d = c THEN status ELSE jobs[d].status
<1>1. jobs \in [Contents -> Job] BY DEF TypeOK, Job
<1> DEFINE n == [jobs[c] EXCEPT !.status = status]
<1>2. n \in Job /\ n.status = status BY <1>1 DEF Job
<1>3. jobs' = [jobs EXCEPT ![c] = n] BY <1>1 DEF SetJob
<1> HIDE DEF n
<1>4. QED BY <1>1, <1>2, <1>3

\* The insertion of a package that is new.
LEMMA InsertNew ==
  ASSUME TypeInv, NEW u \in Uploads, Insert(u), uploads[u].content \notin Existing
  PROVE  /\ uploads[u].content \in Contents
         /\ bundles' = [bundles EXCEPT ![uploads[u].content] =
               [status |-> "uploaded", upload |-> u, held |-> At(u, "insertHeld")]]
         /\ bundles' \in [Contents -> BundleRow]
         /\ jobs' = [jobs EXCEPT ![uploads[u].content] = [status |-> "pending", attempts |-> 0]]
         /\ jobs' \in [Contents -> Job]
         /\ session' \in Session /\ session'.runs = session.runs
         /\ session'.held = session.held
<1> DEFINE c == uploads[u].content
           bundle == [status |-> "uploaded", upload |-> u, held |-> At(u, "insertHeld")]
           job == [status |-> "pending", attempts |-> 0]
<1>1. c \in Contents BY DEF Insert, TypeInv, Declared, At
<1>2. /\ bundles' = [bundles EXCEPT ![c] = bundle]
      /\ jobs' = [jobs EXCEPT ![c] = job]
      /\ session' = Uploaded(c)
  BY DEF Insert
<1>3. bundle \in BundleRow BY DEF BundleRow, BundleStatuses, At
<1>4. job \in Job BY EvidenceConstants DEF Job
<1>5. /\ Uploaded(c) \in Session /\ Uploaded(c).runs = session.runs
      /\ Uploaded(c).held = session.held
  <2>1. session \in Session BY DEF TypeInv, TypeOK, Session
  <2> DEFINE status == IF session.status \in {"uploading", "supplement_required"}
                       THEN "assessing" ELSE session.status
             plan == IF c \in Supplements /\ session.plan = "ready"
                     THEN "collecting" ELSE session.plan
  <2>2. status \in SessionStatuses BY <2>1 DEF Session, SessionStatuses
  <2>3. plan \in {"absent", "ready", "collecting", "completed", "cancelled"}
    BY <2>1 DEF Session
  <2>4. Uploaded(c) = [session EXCEPT !.status = status, !.plan = plan] BY DEF Uploaded
  <2> HIDE DEF status, plan
  <2>5. QED BY <2>1, <2>2, <2>3, <2>4 DEF Session
<1> HIDE DEF bundle, job
<1>6. bundles' \in [Contents -> BundleRow]
  BY <1>1, <1>2, <1>3 DEF TypeInv, TypeOK, BundleRow
<1>7. jobs' \in [Contents -> Job] BY <1>1, <1>2, <1>4 DEF TypeInv, TypeOK, Job
<1>8. QED BY <1>1, <1>2, <1>5, <1>6, <1>7 DEF bundle, job

\* Uploads and what they complete.
LEMMA UploadTyped ==
  ASSUME TypeInv, NEW u \in Uploads,
         \/ \E c \in Contents : Create(u, c)
         \/ RecordParts(u) \/ ClaimUpload(u) \/ Complete(u) \/ KillHandler(u) \/ Expire(u)
         \/ Abort(u)
  PROVE  TypeInv'
<1> USE DEF TypeInv, TypeOK, Placed, Declared, UploadIs, At, Goto, Pc,
            Upload, BundleRow, Job, Session
<1>1. ASSUME NEW c \in Contents, Create(u, c) PROVE TypeInv'
  <2>1. session' \in Session /\ session'.runs = session.runs
    BY <1>1, StatusTyped DEF Create, SessionStatuses
  <2>2. QED BY <1>1, <2>1 DEF Create, UploadStatuses
<1>2. ASSUME NEW status \in UploadStatuses \ {"absent"}, SetUpload(u, status),
             uploads[u].content \in Contents,
             UNCHANGED <<session, bundles, jobs, evidence, workers, deletion, faults>>,
             objects' \subseteq Uploads,
             \/ UNCHANGED handlers
             \/ \E pc \in {"idle", "merge"} : Goto(u, pc)
      PROVE  TypeInv'
  <2>1. /\ uploads' \in [Uploads -> Upload]
        /\ \A v \in Uploads :
             /\ uploads'[v].content = uploads[v].content
             /\ uploads'[v].status = IF v = u THEN status ELSE uploads[v].status
    BY <1>2, UploadSet
  <2>2. handlers' \in [Uploads -> {"idle", "merge", "read", "insertHeld", "insertFree"}]
    BY <1>2
  <2>3. \A v \in Uploads : v # u => handlers'[v] = handlers[v] BY <1>2
  <2>4. Declared' BY <1>2, <2>1, <2>2, <2>3
  <2>5. QED BY <1>2, <2>1, <2>2, <2>4
<1>3. CASE RecordParts(u) BY <1>2, <1>3 DEF RecordParts, UploadStatuses
<1>4. CASE ClaimUpload(u) BY <1>2, <1>4 DEF ClaimUpload, UploadStatuses
<1>5. CASE Merge(u) BY <1>5 DEF Merge
<1>6. CASE MergeFails(u)
  <2>1. CASE UploadIs(u, {"completing"}) BY <1>2, <1>6, <2>1 DEF MergeFails, UploadStatuses
  <2>2. CASE ~UploadIs(u, {"completing"}) BY <1>6, <2>2 DEF MergeFails
  <2>3. QED BY <2>1, <2>2
<1>7. CASE Mismatch(u) BY <1>2, <1>7 DEF Mismatch, UploadStatuses
<1>8. CASE ReadHold(u) BY <1>8 DEF ReadHold
<1>9. CASE InsertFails(u) BY <1>2, <1>9 DEF InsertFails, UploadStatuses
<1>10. CASE Insert(u)
  <2>1. CASE uploads[u].content \in Existing
    BY <1>2, <1>10, <2>1 DEF Insert, UploadStatuses
  <2>2. CASE uploads[u].content \notin Existing
    <3>1. /\ bundles' \in [Contents -> BundleRow] /\ jobs' \in [Contents -> Job]
          /\ session' \in Session /\ session'.runs = session.runs
          /\ uploads[u].content \in Contents
      BY <1>10, <2>2, InsertNew
    <3>2. /\ uploads' \in [Uploads -> Upload]
          /\ \A v \in Uploads :
               /\ uploads'[v].content = uploads[v].content
               /\ uploads'[v].status = IF v = u THEN "completed" ELSE uploads[v].status
      BY <1>10, UploadSet DEF Insert, UploadStatuses
    <3>3. handlers' = [handlers EXCEPT ![u] = "idle"]
          /\ UNCHANGED <<objects, evidence, workers, deletion, faults>>
      BY <1>10 DEF Insert
    <3>4. Declared' BY <3>1, <3>2, <3>3
    <3>5. QED BY <3>1, <3>2, <3>3, <3>4
  <2>3. QED BY <2>1, <2>2
<1>11. CASE KillHandler(u) BY <1>11, EvidenceConstants DEF KillHandler, Fault
<1>12. CASE Expire(u) BY <1>2, <1>12 DEF Expire, UploadStatuses
<1>13. CASE Abort(u) BY <1>2, <1>13 DEF Abort, UploadStatuses
<1>14. QED
  BY <1>1, <1>3, <1>4, <1>5, <1>6, <1>7, <1>8, <1>9, <1>10, <1>11, <1>12, <1>13 DEF Complete

\* Workers: what a worker may become.
LEMMA WorkerSet ==
  ASSUME TypeInv, NEW w \in Workers, NEW n \in Worker, workers' = [workers EXCEPT ![w] = n],
         n.pc \notin {"down", "idle"} => n.content \in Contents,
         n.pc = "stage" => n.step \in 1 .. 4,
         n.pc = "persist" => n.step \in 1 .. Items
  PROVE  workers' \in [Workers -> Worker] /\ Placed'
<1>1. workers \in [Workers -> Worker] BY DEF TypeInv, TypeOK, Worker
<1>2. workers' \in [Workers -> Worker] BY <1>1
<1>3. \A v \in Workers : workers'[v] = IF v = w THEN n ELSE workers[v] BY <1>1
<1>4. QED BY <1>2, <1>3 DEF TypeInv, Placed, Pc

LEMMA WorkerRests ==
  ASSUME TypeInv, NEW w \in Workers, Rest(w)
  PROVE  workers' \in [Workers -> Worker] /\ Placed'
<1>1. Idle.pc = "idle" BY DEF Idle
<1>2. QED BY <1>1, IdleTyped, WorkerSet DEF Rest

LEMMA WorkTyped ==
  ASSUME TypeInv, NEW w \in Workers, Work(w) \/ KillWorker(w)
  PROVE  TypeInv'
<1> DEFINE b == workers[w]
           c == b.content
           s == b.step
<1>0. /\ workers \in [Workers -> Worker] /\ Idle \in Worker
      /\ b \in Worker
      /\ b.pc \notin {"down", "idle"} => c \in Contents
  BY IdleTyped DEF TypeInv, TypeOK, Worker, Placed
<1>1. ASSUME workers' \in [Workers -> Worker], Placed',
             bundles' \in [Contents -> BundleRow], jobs' \in [Contents -> Job],
             session' \in Session, Len(session'.runs) <= 2,
             evidence' \in [Contents -> SUBSET (1 .. Items)],
             faults' \in 0 .. MaxFaults,
             UNCHANGED <<uploads, handlers, objects, deletion>>
      PROVE  TypeInv'
  BY <1>1 DEF TypeInv, TypeOK, Declared, UploadIs, At, BundleRow, Job, Session, Worker
<1>2. /\ bundles \in [Contents -> BundleRow] /\ jobs \in [Contents -> Job]
      /\ session \in Session /\ Len(session.runs) <= 2
      /\ evidence \in [Contents -> SUBSET (1 .. Items)] /\ faults \in 0 .. MaxFaults
      /\ TypeOK
  BY DEF TypeInv, TypeOK, BundleRow, Job, Session
<1>3. CASE RecoverStuckTasks(w) BY <1>1, <1>2, <1>3, WorkerRests DEF RecoverStuckTasks
<1>4. ASSUME NEW d \in Contents, NextTask(w, d) PROVE TypeInv'
  <2> DEFINE n == [Idle EXCEPT !.pc = "picked", !.content = d]
  <2>2. n \in Worker /\ n.pc = "picked" /\ n.content = d BY <1>0 DEF Worker
  <2>3. workers' = [workers EXCEPT ![w] = n] BY <1>4 DEF NextTask
  <2> HIDE DEF n
  <2>4. workers' \in [Workers -> Worker] /\ Placed' BY <2>2, <2>3, WorkerSet
  <2>5. QED BY <1>1, <1>2, <1>4, <2>4 DEF NextTask
<1>5. CASE ClaimJob(w)
  <2>1. CASE Claimable(c)
    <3>1. c \in Contents BY <1>0, <1>5 DEF ClaimJob, Pc
    <3> DEFINE a == jobs[c].attempts + 1
               n == [b EXCEPT !.pc = "stage", !.step = 1, !.attempt = a]
               j == [status |-> "running", attempts |-> a]
    <3>2. a \in 0 .. MaxAttempts
      BY <1>2, <2>1, <3>1, EvidenceConstants DEF Claimable, Job
    <3>3. workers' = [workers EXCEPT ![w] = n] /\ jobs' = [jobs EXCEPT ![c] = j]
      BY <1>0, <1>2, <1>5, <2>1, <3>1 DEF ClaimJob, Job
    <3> HIDE DEF a
    <3>4. n \in Worker /\ n.pc = "stage" /\ n.content = c /\ n.step = 1
      BY <1>0, <3>2 DEF Worker
    <3>5. j \in Job BY <3>2 DEF Job
    <3> HIDE DEF n, j
    <3>6. workers' \in [Workers -> Worker] /\ Placed'
      <4>1. n.content \in Contents /\ n.step \in 1 .. 4 /\ n.pc # "persist" BY <3>1, <3>4
      <4> HIDE DEF c
      <4>2. QED BY <3>3, <3>4, <4>1, WorkerSet
    <3>7. jobs' \in [Contents -> Job] BY <1>2, <3>1, <3>3, <3>5
    <3>8. QED BY <1>1, <1>2, <1>5, <3>6, <3>7 DEF ClaimJob
  <2>2. CASE ~Claimable(c)
    BY <1>1, <1>2, <1>5, <2>2, WorkerRests DEF ClaimJob
  <2>3. QED BY <2>1, <2>2
<1>6. CASE EnterStage(w)
  <2> DEFINE pc == IF s < 4 THEN "stage" ELSE "persist"
             t == IF s < 4 THEN s + 1 ELSE 1
             n == [b EXCEPT !.pc = pc, !.step = t, !.attempt = b.attempt]
  <2>1. s \in 1 .. 4 /\ c \in Contents
    BY <1>0, <1>6 DEF EnterStage, TypeInv, Placed, Pc
  <2>2. Len(Stages) = 4 /\ Stages[s] \in BundleStatuses BY <2>1 DEF Stages, BundleStatuses
  <2>3. workers' = [workers EXCEPT ![w] = n] BY <1>0, <1>6, <2>2 DEF EnterStage, Worker
  <2>4. /\ t \in Nat /\ pc \in {"stage", "persist"}
        /\ pc = "stage" => t \in 1 .. 4
        /\ pc = "persist" => t \in 1 .. Items
    BY <2>1, EvidenceConstants
  <2> HIDE DEF pc, t
  <2>5. n \in Worker /\ n.pc = pc /\ n.content = c /\ n.step = t
    <3>1. b.attempt \in 0 .. MaxAttempts BY <1>0 DEF Worker
    <3>2. QED BY <1>0, <2>4, <3>1 DEF Worker
  <2> HIDE DEF n
  <2>6. workers' \in [Workers -> Worker] /\ Placed' BY <2>1, <2>3, <2>4, <2>5, WorkerSet
  <2>7. bundles' \in [Contents -> BundleRow] BY <1>2, <1>6, <2>1, <2>2, BundleSet DEF EnterStage
  <2>8. QED BY <1>1, <1>2, <1>6, <2>6, <2>7 DEF EnterStage
<1>7. CASE PersistEvidence(w)
  <2> DEFINE pc == IF s < Items THEN "persist" ELSE "ready"
             n == [b EXCEPT !.pc = pc, !.step = s + 1, !.attempt = b.attempt]
  <2>1. s \in 1 .. Items /\ c \in Contents
    BY <1>0, <1>7 DEF PersistEvidence, TypeInv, Placed, Pc
  <2>2. workers' = [workers EXCEPT ![w] = n] BY <1>0, <1>7 DEF PersistEvidence, Worker
  <2>3. /\ s + 1 \in Nat /\ pc \in {"persist", "ready"}
        /\ pc = "persist" => s + 1 \in 1 .. Items
    BY <2>1, EvidenceConstants
  <2> HIDE DEF pc
  <2>4. n \in Worker /\ n.pc = pc /\ n.content = c /\ n.step = s + 1
    <3>1. b.attempt \in 0 .. MaxAttempts BY <1>0 DEF Worker
    <3>2. QED BY <1>0, <2>3, <3>1 DEF Worker
  <2> HIDE DEF n
  <2>5. workers' \in [Workers -> Worker] /\ Placed' BY <2>1, <2>2, <2>3, <2>4, WorkerSet
  <2>6. evidence' \in [Contents -> SUBSET (1 .. Items)]
    BY <1>2, <1>7, <2>1 DEF PersistEvidence
  <2>7. QED BY <1>1, <1>2, <1>7, <2>5, <2>6 DEF PersistEvidence
<1>8. CASE BundleReady(w)
  <2> DEFINE n == [b EXCEPT !.pc = "analyse", !.step = s, !.attempt = b.attempt]
  <2>1. c \in Contents /\ s \in Nat /\ b.attempt \in 0 .. MaxAttempts
    BY <1>0, <1>8 DEF BundleReady, Pc, Worker
  <2>2. workers' = [workers EXCEPT ![w] = n] BY <1>0, <1>8 DEF BundleReady, Proceed, Worker
  <2>3. n \in Worker /\ n.pc = "analyse" /\ n.content = c BY <1>0, <2>1 DEF Worker
  <2> HIDE DEF n
  <2>4. workers' \in [Workers -> Worker] /\ Placed' BY <2>1, <2>2, <2>3, WorkerSet
  <2>5. bundles' \in [Contents -> BundleRow]
    BY <1>2, <1>8, <2>1, BundleSet DEF BundleReady, BundleStatuses
  <2>6. QED BY <1>1, <1>2, <1>8, <2>4, <2>5 DEF BundleReady
<1>9. CASE Analyse(w)
  <2>1. session' \in Session /\ Len(session'.runs) <= 2
    BY <1>2, <1>9, AssessTyped DEF Analyse
  <2>2. jobs' \in [Contents -> Job] BY <1>0, <1>2, <1>9, JobSet DEF Analyse, Pc
  <2>3. QED BY <1>1, <1>2, <1>9, <2>1, <2>2, WorkerRests DEF Analyse
<1>10. CASE Reject(w) \/ Fail(w)
  <2>1. c \in Contents BY <1>0, <1>10 DEF Reject, Fail, Processing
  <2>2. bundles' \in [Contents -> BundleRow]
    BY <1>2, <1>10, <2>1, BundleSet DEF Reject, Fail, BundleStatuses
  <2>3. jobs' \in [Contents -> Job]
    BY <1>2, <1>10, <2>1, JobSet DEF Reject, Fail
  <2>4. QED BY <1>1, <1>2, <1>10, <2>2, <2>3, WorkerRests DEF Reject, Fail
<1>11. CASE KillWorker(w)
  <2> DEFINE n == [Idle EXCEPT !.pc = "down"]
  <2>1. n \in Worker /\ n.pc = "down" BY IdleTyped DEF Idle
  <2>2. workers' = [workers EXCEPT ![w] = n] BY <1>11 DEF KillWorker
  <2> HIDE DEF n
  <2>3. workers' \in [Workers -> Worker] /\ Placed' BY <2>1, <2>2, WorkerSet
  <2>4. faults' \in 0 .. MaxFaults BY <1>2, <1>11, EvidenceConstants DEF KillWorker, Fault
  <2>5. QED BY <1>1, <1>2, <1>11, <2>3, <2>4 DEF KillWorker
<1>12. QED
  BY <1>3, <1>4, <1>5, <1>6, <1>7, <1>8, <1>9, <1>10, <1>11 DEF Work

\* A statement that writes one column of several rows.
LEMMA RowsTyped ==
  ASSUME TypeOK
  PROVE  /\ \A u \in Uploads : [uploads[u] EXCEPT !.status = "aborted"] \in Upload
         /\ \A c \in Contents : [jobs[c] EXCEPT !.status = "failed"] \in Job
         /\ \A c \in Contents, held \in BOOLEAN : [bundles[c] EXCEPT !.held = held] \in BundleRow
         /\ \A c \in Contents : [bundles[c] EXCEPT !.status = "deleted"] \in BundleRow
<1>1. /\ \A u \in Uploads : uploads[u] \in Upload
      /\ \A c \in Contents : bundles[c] \in BundleRow /\ jobs[c] \in Job
  BY DEF TypeOK, Upload, BundleRow, Job
<1>2. ASSUME NEW r \in Upload PROVE [r EXCEPT !.status = "aborted"] \in Upload
  BY DEF Upload, UploadStatuses
<1>3. ASSUME NEW r \in Job PROVE [r EXCEPT !.status = "failed"] \in Job
  BY DEF Job
<1>4. ASSUME NEW r \in BundleRow, NEW held \in BOOLEAN
      PROVE  [r EXCEPT !.held = held] \in BundleRow
  BY DEF BundleRow
<1>5. ASSUME NEW r \in BundleRow PROVE [r EXCEPT !.status = "deleted"] \in BundleRow
  BY DEF BundleRow, BundleStatuses
<1>6. QED BY <1>1, <1>2, <1>3, <1>4, <1>5

LEMMA AdministerTyped ==
  ASSUME TypeInv,
         Administer \/ ExecuteDeletion \/ \E gone \in SUBSET Uploads : DeletionFails(gone)
  PROVE  TypeInv'
<1>1. ASSUME uploads' \in [Uploads -> Upload], Declared', objects' \subseteq Uploads,
             bundles' \in [Contents -> BundleRow], jobs' \in [Contents -> Job],
             session' \in Session, Len(session'.runs) <= 2,
             evidence' \in [Contents -> SUBSET (1 .. Items)],
             faults' \in 0 .. MaxFaults, deletion' \in {"absent", "pending", "deleted"},
             UNCHANGED <<handlers, workers>>
      PROVE  TypeInv'
  BY <1>1 DEF TypeInv, TypeOK, Placed, Pc, Upload, BundleRow, Job, Session, Worker
<1>2. /\ uploads \in [Uploads -> Upload] /\ Declared /\ objects \subseteq Uploads
      /\ bundles \in [Contents -> BundleRow] /\ jobs \in [Contents -> Job]
      /\ session \in Session /\ Len(session.runs) <= 2
      /\ evidence \in [Contents -> SUBSET (1 .. Items)] /\ faults \in 0 .. MaxFaults
      /\ deletion \in {"absent", "pending", "deleted"}
      /\ TypeOK
  BY DEF TypeInv, TypeOK, Upload, BundleRow, Job, Session
<1>3. ASSUME UNCHANGED <<uploads, handlers>> PROVE Declared'
  BY <1>2, <1>3 DEF Declared, UploadIs, At
<1>4. ASSUME NEW u \in Uploads, Abort(u) PROVE TypeInv' BY <1>4, UploadTyped
<1>5. CASE StartDiagnosis
  <2>1. session' \in Session /\ Len(session'.runs) <= 2
    BY <1>2, <1>5, AssessTyped DEF StartDiagnosis
  <2>2. QED BY <1>1, <1>2, <1>3, <1>5, <2>1 DEF StartDiagnosis
<1>6. CASE Publish
  <2>1. session' \in Session /\ Len(session'.runs) <= 2
    BY <1>2, <1>6, StatusTyped DEF Publish, SessionStatuses
  <2>2. QED BY <1>1, <1>2, <1>3, <1>6, <2>1 DEF Publish
<1>7. CASE Terminate
  <2>1. session' \in Session /\ Len(session'.runs) <= 2
    <3> DEFINE plan == IF session.plan \in {"ready", "collecting"} THEN "cancelled"
                       ELSE session.plan
    <3>1. session' = [session EXCEPT !.status = "cancelled", !.plan = plan]
      BY <1>7 DEF Terminate
    <3>2. plan \in {"absent", "ready", "collecting", "completed", "cancelled"}
      BY <1>2 DEF Session
    <3> HIDE DEF plan
    <3>3. QED BY <1>2, <3>1, <3>2 DEF Session, SessionStatuses
  <2>2. /\ uploads' = [u \in Uploads |-> IF UploadIs(u, {"initiated", "uploading"})
                                        THEN [uploads[u] EXCEPT !.status = "aborted"]
                                        ELSE uploads[u]]
        /\ jobs' = [c \in Contents |-> IF jobs[c].status = "pending"
                                       THEN [jobs[c] EXCEPT !.status = "failed"] ELSE jobs[c]]
    BY <1>7 DEF Terminate
  <2>3. uploads' \in [Uploads -> Upload] BY <1>2, <2>2, RowsTyped
  <2>4. jobs' \in [Contents -> Job] BY <1>2, <2>2, RowsTyped
  <2>5. ASSUME NEW u \in Uploads
        PROVE  /\ uploads'[u].content = uploads[u].content
               /\ uploads'[u].status = "absent" <=> uploads[u].status = "absent"
    <3>1. uploads[u] \in Upload BY <1>2
    <3>2. CASE UploadIs(u, {"initiated", "uploading"})
      <4>1. uploads'[u] = [uploads[u] EXCEPT !.status = "aborted"] BY <2>2, <3>2
      <4>2. QED BY <3>1, <3>2, <4>1 DEF UploadIs, Upload
    <3>3. CASE ~UploadIs(u, {"initiated", "uploading"})
      <4>1. uploads'[u] = uploads[u] BY <2>2, <3>3
      <4>2. QED BY <4>1
    <3>4. QED BY <3>2, <3>3
  <2>6. UNCHANGED handlers BY <1>7 DEF Terminate
  <2>7. Declared' BY <1>2, <2>5, <2>6 DEF Declared, UploadIs, At
  <2>8. QED BY <1>1, <1>2, <1>7, <2>1, <2>3, <2>4, <2>7 DEF Terminate
<1>8. ASSUME NEW c \in Contents, RetryProcessing(c) PROVE TypeInv'
  <2>1. bundles' \in [Contents -> BundleRow]
    BY <1>2, <1>8, BundleSet DEF RetryProcessing, BundleStatuses
  <2>2. jobs' \in [Contents -> Job] BY <1>2, <1>8, JobSet DEF RetryProcessing
  <2>3. QED BY <1>1, <1>2, <1>3, <1>8, <2>1, <2>2 DEF RetryProcessing
<1>9. ASSUME NEW held \in BOOLEAN, SetHold(held) PROVE TypeInv'
  <2>1. bundles' \in [Contents -> BundleRow]
    BY <1>2, <1>9, RowsTyped DEF SetHold
  <2>2. session' \in Session /\ session'.runs = session.runs BY <1>2, <1>9 DEF SetHold, Session
  <2>3. QED BY <1>1, <1>2, <1>3, <1>9, <2>1, <2>2 DEF SetHold
<1>10. CASE RequestDeletion
  <2>1. session' \in Session /\ Len(session'.runs) <= 2
    BY <1>2, <1>10, StatusTyped DEF RequestDeletion, SessionStatuses
  <2>2. QED BY <1>1, <1>2, <1>3, <1>10, <2>1 DEF RequestDeletion
<1>11. CASE EnqueueRetention BY <1>1, <1>2, <1>3, <1>11 DEF EnqueueRetention
<1>12. CASE ExecuteDeletion
  <2>1. session' \in Session /\ Len(session'.runs) <= 2
    BY <1>2, <1>12, StatusTyped DEF ExecuteDeletion, SessionStatuses
  <2>2. bundles' \in [Contents -> BundleRow] BY <1>2, <1>12, RowsTyped DEF ExecuteDeletion
  <2>3. evidence' \in [Contents -> SUBSET (1 .. Items)] BY <1>12 DEF ExecuteDeletion
  <2>4. QED BY <1>1, <1>2, <1>3, <1>12, <2>1, <2>2, <2>3 DEF ExecuteDeletion
<1>13. ASSUME NEW gone \in SUBSET Uploads, DeletionFails(gone) PROVE TypeInv'
  <2>1. faults' \in 0 .. MaxFaults BY <1>2, <1>13, EvidenceConstants DEF DeletionFails, Fault
  <2>2. QED BY <1>1, <1>2, <1>3, <1>13, <2>1 DEF DeletionFails
<1>14. QED
  BY <1>4, <1>5, <1>6, <1>7, <1>8, <1>9, <1>10, <1>11, <1>12, <1>13 DEF Administer

LEMMA NextTyped == TypeInv /\ [Next]_vars => TypeInv'
<1> SUFFICES ASSUME TypeInv, [Next]_vars PROVE TypeInv' OBVIOUS
<1>1. CASE UNCHANGED vars
  BY <1>1 DEF TypeInv, TypeOK, Placed, Declared, Pc, UploadIs, At
<1>2. QED BY <1>1, UploadTyped, WorkTyped, AdministerTyped DEF Next

LEMMA TypeInvariant == Spec => []TypeInv
BY InitTyped, NextTyped, PTL DEF Spec

\* Rows, objects, requests and workers keep their types, and runs their limit.
THEOREM TypeCorrect == Spec => []TypeOK
BY TypeInvariant, PTL DEF TypeInv

--------------------------------------------------------------------------------
(***************************************************************************)
(* Who owns a job                                                          *)
(***************************************************************************)
\* A job runs in the hands of the one worker that processes it, or of a dead one.
Owned ==
  /\ \A c \in Contents : jobs[c].status # "absent" <=> c \in Existing
  /\ \A w \in Workers : Processing(w) => jobs[workers[w].content].status = "running"
  /\ OneProcessor

\* What a worker does to itself and to its job.
LEMMA WorkMoves ==
  ASSUME TypeInv, NEW w \in Workers, Work(w) \/ KillWorker(w)
  PROVE  /\ \A v \in Workers \ {w} : workers'[v] = workers[v]
         /\ \/ /\ ~Processing(w)' /\ UNCHANGED jobs
            \/ /\ Processing(w) /\ Processing(w)' /\ UNCHANGED jobs
               /\ workers'[w].content = workers[w].content
            \/ /\ Pc(w, "picked") /\ Claimable(workers[w].content) /\ Pc(w, "stage")'
               /\ workers'[w].content = workers[w].content
               /\ jobs'[workers[w].content].status = "running"
               /\ \A d \in Contents \ {workers[w].content} : jobs'[d].status = jobs[d].status
            \/ /\ Processing(w) /\ ~Processing(w)'
               /\ jobs'[workers[w].content].status # "absent"
               /\ \A d \in Contents \ {workers[w].content} : jobs'[d].status = jobs[d].status
<1> DEFINE c == workers[w].content
<1>0. /\ workers \in [Workers -> Worker] /\ jobs \in [Contents -> Job] /\ TypeOK
      /\ workers[w].pc \notin {"down", "idle"} => c \in Contents
      /\ Pc(w, "stage") => workers[w].step \in 1 .. 4
      /\ Len(Stages) = 4
  BY DEF TypeInv, TypeOK, Placed, Worker, Job, Stages
<1>1. Idle.pc = "idle" BY DEF Idle
<1> USE DEF Pc, Processing, Rest
<1>2. CASE RecoverStuckTasks(w) BY <1>0, <1>1, <1>2 DEF RecoverStuckTasks
<1>3. ASSUME NEW d \in Contents, NextTask(w, d)
      PROVE  /\ \A v \in Workers \ {w} : workers'[v] = workers[v]
             /\ ~Processing(w)' /\ UNCHANGED jobs
  <2>1. workers'[w].pc = "picked" BY <1>0, <1>3 DEF NextTask, Idle
  <2>2. QED BY <1>0, <1>3, <2>1 DEF NextTask
<1>4. CASE ClaimJob(w)
  <2>1. CASE Claimable(c)
    <3>1. jobs' = [jobs EXCEPT ![c] = [status |-> "running", attempts |-> jobs[c].attempts + 1]]
      BY <1>0, <1>4, <2>1 DEF ClaimJob
    <3>2. workers' = [workers EXCEPT ![w].pc = "stage", ![w].step = 1,
                                     ![w].attempt = jobs[c].attempts + 1]
      BY <1>4, <2>1 DEF ClaimJob
    <3>3. workers'[w].pc = "stage" /\ workers'[w].content = c BY <1>0, <3>2 DEF Worker
    <3>4. c \in Contents BY <1>0, <1>4 DEF ClaimJob
    <3>5. QED BY <1>0, <1>4, <2>1, <3>1, <3>2, <3>3, <3>4 DEF ClaimJob
  <2>2. CASE ~Claimable(c) BY <1>0, <1>1, <1>4, <2>2 DEF ClaimJob
  <2>3. QED BY <2>1, <2>2
<1>5. CASE EnterStage(w)
  <2>1. workers'[w].pc \in {"stage", "persist"} /\ workers'[w].content = c
    BY <1>0, <1>5 DEF EnterStage, Worker
  <2>2. QED BY <1>0, <1>5, <2>1 DEF EnterStage
<1>6. CASE PersistEvidence(w)
  <2>1. workers'[w].pc \in {"persist", "ready"} /\ workers'[w].content = c
    BY <1>0, <1>6 DEF PersistEvidence, Worker
  <2>2. QED BY <1>0, <1>6, <2>1 DEF PersistEvidence
<1>7. CASE BundleReady(w)
  <2>1. workers'[w].pc = "analyse" /\ workers'[w].content = c
    BY <1>0, <1>7 DEF BundleReady, Proceed, Worker
  <2>2. QED BY <1>0, <1>7, <2>1 DEF BundleReady, Proceed
<1>8. CASE Analyse(w) \/ Reject(w) \/ Fail(w)
  <2>1. Processing(w) /\ c \in Contents /\ workers' = [workers EXCEPT ![w] = Idle]
    BY <1>0, <1>8 DEF Analyse, Reject, Fail
  <2>2. PICK status \in {"pending", "succeeded", "failed"} : SetJob(c, status)
    BY <1>8 DEF Analyse, Reject, Fail
  <2>3. \A d \in Contents : jobs'[d].status = IF d = c THEN status ELSE jobs[d].status
    BY <1>0, <2>1, <2>2, JobSet
  <2>4. QED BY <1>0, <1>1, <2>1, <2>3
<1>9. CASE KillWorker(w)
  <2>1. workers'[w].pc = "down" BY <1>0, <1>9 DEF KillWorker, Idle
  <2>2. QED BY <1>0, <1>9, <2>1 DEF KillWorker
<1>10. QED BY <1>2, <1>3, <1>4, <1>5, <1>6, <1>7, <1>8, <1>9 DEF Work

\* Bundles appear when they are inserted, and none disappears.
LEMMA ExistingSame ==
  ASSUME TypeInv, Owned, [Next]_vars,
         ~(\E u \in Uploads : Insert(u) /\ uploads[u].content \notin Existing)
  PROVE  Existing' = Existing
<1> USE DEF Existing
<1>0. TypeOK /\ bundles \in [Contents -> BundleRow] BY DEF TypeInv, TypeOK, BundleRow
<1>1. CASE UNCHANGED bundles BY <1>1
<1>2. ASSUME NEW c \in Existing, NEW status \in BundleStatuses \ {"absent"},
             SetBundle(c, status)
      PROVE  Existing' = Existing
  BY <1>0, <1>2, BundleSet
<1>3. ASSUME NEW u \in Uploads, Complete(u) PROVE UNCHANGED bundles
  BY <1>3 DEF Complete, Merge, MergeFails, Mismatch, ReadHold, Insert, InsertFails
<1>4. ASSUME NEW u \in Uploads,
             \/ \E c \in Contents : Create(u, c)
             \/ RecordParts(u) \/ ClaimUpload(u) \/ KillHandler(u) \/ Expire(u) \/ Abort(u)
      PROVE  UNCHANGED bundles
  BY <1>4 DEF Create, RecordParts, ClaimUpload, KillHandler, Expire, Abort
<1>5. ASSUME NEW w \in Workers, Work(w) \/ KillWorker(w) PROVE Existing' = Existing
  <2>1. Processing(w) => workers[w].content \in Existing
    BY DEF Owned, Processing, TypeInv, Placed
  <2>2. CASE EnterStage(w)
    <3>1. workers[w].step \in 1 .. 4 BY <2>2 DEF EnterStage, TypeInv, Placed
    <3>2. Stages[workers[w].step] \in BundleStatuses \ {"absent"}
      BY <3>1 DEF Stages, BundleStatuses
    <3>3. QED BY <1>2, <2>1, <2>2, <3>2 DEF EnterStage, Processing, Pc
  <2>3. CASE BundleReady(w)
    BY <1>2, <2>1, <2>3 DEF BundleReady, Processing, Pc, BundleStatuses
  <2>4. CASE Reject(w) \/ Fail(w) BY <1>2, <2>1, <2>4 DEF Reject, Fail, BundleStatuses
  <2>5. QED
    BY <1>1, <1>5, <2>2, <2>3, <2>4
    DEF Work, RecoverStuckTasks, NextTask, ClaimJob, PersistEvidence, Analyse, KillWorker
<1>6. ASSUME NEW c \in Contents, RetryProcessing(c) PROVE Existing' = Existing
  <2>1. c \in Existing BY <1>6 DEF RetryProcessing
  <2>2. QED BY <1>2, <1>6, <2>1 DEF RetryProcessing, BundleStatuses
<1>7. ASSUME NEW held \in BOOLEAN, SetHold(held) PROVE Existing' = Existing
  <2>1. ASSUME NEW c \in Contents PROVE bundles'[c].status = bundles[c].status
    <3>1. bundles[c] \in BundleRow BY <1>0
    <3>2. bundles'[c] \in {bundles[c], [bundles[c] EXCEPT !.held = held]}
      BY <1>7 DEF SetHold
    <3>3. QED BY <3>1, <3>2 DEF BundleRow
  <2>2. QED BY <2>1
<1>8. CASE ExecuteDeletion
  <2>1. ASSUME NEW c \in Contents
        PROVE  bundles'[c].status = "absent" <=> bundles[c].status = "absent"
    <3>1. bundles[c] \in BundleRow BY <1>0
    <3>2. bundles'[c] = IF c \in Existing THEN [bundles[c] EXCEPT !.status = "deleted"]
                        ELSE bundles[c]
      BY <1>8 DEF ExecuteDeletion
    <3>3. QED BY <3>1, <3>2 DEF BundleRow
  <2>2. QED BY <2>1
<1>9. QED
  BY <1>1, <1>3, <1>4, <1>5, <1>6, <1>7, <1>8
  DEF Next, Administer, StartDiagnosis, Publish, Terminate, RequestDeletion, EnqueueRetention,
      DeletionFails

LEMMA NextOwned == TypeInv /\ Owned /\ [Next]_vars => Owned'
<1> SUFFICES ASSUME TypeInv, Owned, [Next]_vars PROVE Owned' OBVIOUS
<1> USE DEF Owned, OneProcessor, Processing
<1>0. /\ TypeOK /\ jobs \in [Contents -> Job]
      /\ \A w \in Workers : Processing(w) => workers[w].content \in Contents
  BY DEF TypeInv, TypeOK, Placed, Job
<1>1. CASE \E u \in Uploads : Insert(u) /\ uploads[u].content \notin Existing
  <2>1. PICK u \in Uploads : Insert(u) /\ uploads[u].content \notin Existing BY <1>1
  <2> DEFINE c == uploads[u].content
  <2>2. /\ c \in Contents
        /\ bundles' = [bundles EXCEPT ![c] =
              [status |-> "uploaded", upload |-> u, held |-> At(u, "insertHeld")]]
        /\ jobs' = [jobs EXCEPT ![c] = [status |-> "pending", attempts |-> 0]]
    BY <2>1, InsertNew
  <2>3. Existing' = Existing \cup {c} BY <2>2 DEF Existing, TypeInv, TypeOK
  <2>4. UNCHANGED workers BY <2>1 DEF Insert
  <2>5. \A d \in Contents : jobs'[d].status = IF d = c THEN "pending" ELSE jobs[d].status
    BY <1>0, <2>2
  <2>6. \A w \in Workers : Processing(w) => workers[w].content # c BY <1>0, <2>1
  <2> HIDE DEF c
  <2>7. QED BY <1>0, <2>2, <2>3, <2>4, <2>5, <2>6
<1>2. CASE ~(\E u \in Uploads : Insert(u) /\ uploads[u].content \notin Existing)
  <2>0. Existing' = Existing BY <1>2, ExistingSame
  <2>1. CASE UNCHANGED <<jobs, workers>> BY <2>0, <2>1
  <2>2. ASSUME NEW w \in Workers, Work(w) \/ KillWorker(w) PROVE Owned'
    <3> DEFINE c == workers[w].content
    <3>1. \A v \in Workers \ {w} : workers'[v] = workers[v] BY <2>2, WorkMoves
    <3>2. CASE ~Processing(w)' /\ UNCHANGED jobs BY <2>0, <3>1, <3>2
    <3>3. CASE /\ Processing(w) /\ Processing(w)' /\ UNCHANGED jobs
               /\ workers'[w].content = c
      BY <2>0, <3>1, <3>3
    <3>4. CASE /\ Pc(w, "picked") /\ Claimable(c) /\ Pc(w, "stage")'
               /\ workers'[w].content = c /\ jobs'[c].status = "running"
               /\ \A d \in Contents \ {c} : jobs'[d].status = jobs[d].status
      <4>1. c \in Contents BY <3>4 DEF TypeInv, Placed, Pc
      <4>2. \A v \in Workers : Processing(v) => workers[v].content # c
        BY <3>4 DEF Claimable
      <4>3. c \in Existing BY <3>4, <4>1 DEF Claimable
      <4> HIDE DEF c
      <4>4. QED BY <1>0, <2>0, <3>1, <3>4, <4>1, <4>2, <4>3
    <3>5. CASE /\ Processing(w) /\ ~Processing(w)'
               /\ jobs'[c].status # "absent"
               /\ \A d \in Contents \ {c} : jobs'[d].status = jobs[d].status
      <4>1. \A v \in Workers \ {w} : Processing(v) => workers[v].content # c BY <3>5
      <4>2. c \in Contents /\ jobs[c].status = "running" BY <1>0, <3>5
      <4> HIDE DEF c
      <4>3. QED BY <1>0, <2>0, <3>1, <3>5, <4>1, <4>2
    <3>6. QED BY <2>2, <3>2, <3>3, <3>4, <3>5, WorkMoves
  <2>3. CASE Terminate
    <3>1. \A c \in Contents :
            jobs'[c].status = IF jobs[c].status = "pending" THEN "failed" ELSE jobs[c].status
      BY <1>0, <2>3 DEF Terminate, Job
    <3>2. UNCHANGED workers BY <2>3 DEF Terminate
    <3>3. QED BY <1>0, <2>0, <3>1, <3>2
  <2>4. ASSUME NEW c \in Contents, RetryProcessing(c) PROVE Owned'
    <3>1. \A d \in Contents : jobs'[d].status = IF d = c THEN "pending" ELSE jobs[d].status
      BY <1>0, <2>4, JobSet DEF RetryProcessing
    <3>2. UNCHANGED workers /\ jobs[c].status = "failed" BY <2>4 DEF RetryProcessing
    <3>3. QED BY <1>0, <2>0, <3>1, <3>2
  <2>5. ASSUME NEW u \in Uploads, Complete(u) PROVE UNCHANGED <<jobs, workers>>
    BY <1>2, <2>5 DEF Complete, Merge, MergeFails, Mismatch, ReadHold, Insert, InsertFails
  <2>6. QED
    BY <2>1, <2>2, <2>3, <2>4, <2>5
    DEF Next, Create, RecordParts, ClaimUpload, KillHandler, Expire, Administer, Abort,
        StartDiagnosis, Publish, SetHold, RequestDeletion, EnqueueRetention, ExecuteDeletion,
        DeletionFails
<1>3. QED BY <1>1, <1>2

LEMMA OwnedInvariant == Spec => [](TypeInv /\ Owned)
<1>1. Init => Owned
  BY DEF Init, Owned, OneProcessor, Existing, Processing, Idle
<1>2. QED BY <1>1, InitTyped, NextTyped, NextOwned, PTL DEF Spec

\* A package is processed by one worker at a time, however many picked it.
THEOREM ProcessorIsAlone == Spec => []OneProcessor
BY OwnedInvariant, PTL DEF Owned

--------------------------------------------------------------------------------
(***************************************************************************)
(* Completed uploads and their objects                                     *)
(***************************************************************************)
\* A bundle's upload is completed, and no request works on it any more.
Stored ==
  /\ \A c \in Existing :
       /\ bundles[c].upload \in Uploads
       /\ At(bundles[c].upload, "idle") /\ UploadIs(bundles[c].upload, {"completed"})
  /\ \A u \in Uploads : UploadIs(u, {"completed"}) => uploads[u].content \in Existing

\* What a step does to an upload: one that is completed stays as it is, unless a request
\* still works on it.
LEMMA UploadMoves ==
  ASSUME TypeInv, [Next]_vars, NEW u \in Uploads
  PROVE  /\ UploadIs(u, {"completed"}) /\ At(u, "idle") =>
              /\ uploads'[u].status = "completed" /\ uploads'[u].content = uploads[u].content
              /\ handlers'[u] = "idle"
         /\ uploads'[u].status = "completed" =>
              \/ uploads'[u] = uploads[u]
              \/ Insert(u) /\ uploads'[u].content = uploads[u].content
         /\ u \notin objects' /\ u \in objects =>
              \/ ~At(u, "idle")
              \/ ~Held /\ u \in BundleObjects
<1> DEFINE Result ==
      /\ UploadIs(u, {"completed"}) /\ At(u, "idle") =>
           /\ uploads'[u].status = "completed" /\ uploads'[u].content = uploads[u].content
           /\ handlers'[u] = "idle"
      /\ uploads'[u].status = "completed" =>
           \/ uploads'[u] = uploads[u]
           \/ Insert(u) /\ uploads'[u].content = uploads[u].content
      /\ u \notin objects' /\ u \in objects =>
           \/ ~At(u, "idle")
           \/ ~Held /\ u \in BundleObjects
<1> SUFFICES Result OBVIOUS
<1> USE DEF UploadIs, At, Goto
<1>0. /\ TypeOK /\ uploads \in [Uploads -> Upload]
      /\ handlers \in [Uploads -> {"idle", "merge", "read", "insertHeld", "insertFree"}]
  BY DEF TypeInv, TypeOK, Upload
<1>1. CASE UNCHANGED <<uploads, handlers, objects>> BY <1>1
<1>2. ASSUME NEW v \in Uploads, NEW status \in UploadStatuses \ {"completed"},
             SetUpload(v, status),
             ~UploadIs(v, {"completed"}) \/ ~At(v, "idle"),
             UNCHANGED handlers \/ \E pc : Goto(v, pc),
             UNCHANGED objects \/ (objects' = objects \ {v} /\ ~At(v, "idle"))
      PROVE  Result
  <2>1. \A x \in Uploads :
          /\ uploads'[x].content = uploads[x].content
          /\ uploads'[x].status = IF x = v THEN status ELSE uploads[x].status
    BY <1>0, <1>2, UploadSet
  <2>2. u # v => uploads'[u] = uploads[u] /\ handlers'[u] = handlers[u]
    BY <1>0, <1>2 DEF SetUpload
  <2>3. QED BY <1>2, <2>1, <2>2
<1>3. ASSUME NEW v \in Uploads, Complete(v) PROVE Result
  <2>1. CASE Merge(v) BY <1>0, <2>1 DEF Merge
  <2>2. CASE MergeFails(v)
    <3>1. CASE UploadIs(v, {"completing"})
      BY <1>2, <2>2, <3>1 DEF MergeFails, UploadStatuses
    <3>2. CASE ~UploadIs(v, {"completing"}) BY <1>0, <2>2, <3>2 DEF MergeFails
    <3>3. QED BY <3>1, <3>2
  <2>3. CASE Mismatch(v) BY <1>2, <2>3 DEF Mismatch, UploadStatuses
  <2>4. CASE ReadHold(v)
    <3>1. ~At(v, "idle") /\ UNCHANGED <<uploads, objects>> BY <2>4 DEF ReadHold
    <3>2. u # v => handlers'[u] = handlers[u] BY <1>0, <2>4 DEF ReadHold
    <3>3. QED BY <3>1, <3>2
  <2>5. CASE InsertFails(v) BY <1>2, <2>5 DEF InsertFails, UploadStatuses
  <2>6. CASE Insert(v)
    <3>1. SetUpload(v, "completed") /\ Goto(v, "idle") /\ UNCHANGED objects /\ ~At(v, "idle")
      BY <2>6 DEF Insert
    <3>2. \A x \in Uploads :
            /\ uploads'[x].content = uploads[x].content
            /\ uploads'[x].status = IF x = v THEN "completed" ELSE uploads[x].status
      BY <1>0, <3>1, UploadSet DEF UploadStatuses
    <3>3. u # v => uploads'[u] = uploads[u] /\ handlers'[u] = handlers[u]
      BY <1>0, <3>1 DEF SetUpload
    <3>4. QED BY <2>6, <3>1, <3>2, <3>3
  <2>7. QED BY <1>3, <2>1, <2>2, <2>3, <2>4, <2>5, <2>6 DEF Complete
<1>4. ASSUME NEW v \in Uploads, NEW c \in Contents, Create(v, c) PROVE Result
  <2>1. uploads' = [uploads EXCEPT ![v] = [status |-> "initiated", content |-> c]]
        /\ uploads[v].status = "absent" /\ UNCHANGED <<handlers, objects>>
    BY <1>4 DEF Create
  <2>2. QED BY <1>0, <2>1
<1>5. ASSUME NEW v \in Uploads,
             RecordParts(v) \/ ClaimUpload(v) \/ KillHandler(v) \/ Expire(v) \/ Abort(v)
      PROVE  Result
  <2>1. CASE RecordParts(v) BY <1>2, <2>1 DEF RecordParts, UploadStatuses
  <2>2. CASE ClaimUpload(v) BY <1>2, <2>2 DEF ClaimUpload, UploadStatuses
  <2>3. CASE KillHandler(v) BY <1>0, <2>3 DEF KillHandler
  <2>4. CASE Expire(v) BY <1>2, <2>4 DEF Expire, UploadStatuses
  <2>5. CASE Abort(v) BY <1>2, <2>5 DEF Abort, UploadStatuses
  <2>6. QED BY <1>5, <2>1, <2>2, <2>3, <2>4, <2>5
<1>6. ASSUME NEW w \in Workers, Work(w) \/ KillWorker(w) PROVE Result
  BY <1>1, <1>6
  DEF Work, RecoverStuckTasks, NextTask, ClaimJob, EnterStage, PersistEvidence, BundleReady,
      Analyse, Reject, Fail, KillWorker
<1>7. CASE Terminate
  <2>1. uploads'[u] = IF UploadIs(u, {"initiated", "uploading"})
                      THEN [uploads[u] EXCEPT !.status = "aborted"] ELSE uploads[u]
    BY <1>7 DEF Terminate
  <2>2. UNCHANGED <<handlers, objects>> BY <1>7 DEF Terminate
  <2>3. CASE UploadIs(u, {"initiated", "uploading"})
    <3>1. uploads'[u].status = "aborted" BY <1>0, <2>1, <2>3 DEF Upload
    <3>2. QED BY <2>2, <2>3, <3>1
  <2>4. CASE ~UploadIs(u, {"initiated", "uploading"}) BY <2>1, <2>2, <2>4
  <2>5. QED BY <2>3, <2>4
<1>8. CASE ExecuteDeletion \/ \E gone \in SUBSET Uploads : DeletionFails(gone)
  BY <1>8 DEF ExecuteDeletion, DeletionFails
<1>9. CASE UNCHANGED vars BY <1>1, <1>9
<1>10. QED
  BY <1>1, <1>3, <1>4, <1>5, <1>6, <1>7, <1>8, <1>9
  DEF Next, Administer, StartDiagnosis, Publish, RetryProcessing, SetHold, RequestDeletion,
      EnqueueRetention

\* Who writes a bundle, and what of it.
LEMMA BundleMoves ==
  ASSUME TypeInv, [Next]_vars, NEW c \in Contents
  PROVE  \/ /\ bundles'[c].upload = bundles[c].upload
            /\ \/ bundles'[c].status = bundles[c].status
               \/ \E w \in Workers :
                    /\ Work(w) /\ Processing(w) /\ workers[w].content = c
                    /\ bundles'[c].status = "ready" => BundleReady(w)
               \/ RetryProcessing(c) /\ bundles'[c].status = "uploaded"
               \/ ExecuteDeletion
         \/ \E u \in Uploads :
              /\ Insert(u) /\ c = uploads[u].content /\ c \notin Existing
              /\ bundles'[c].upload = u /\ bundles'[c].status = "uploaded"
<1> DEFINE Same == bundles'[c].upload = bundles[c].upload
           Processed == \E w \in Workers :
                          /\ Work(w) /\ Processing(w) /\ workers[w].content = c
                          /\ bundles'[c].status = "ready" => BundleReady(w)
           Result ==
             \/ /\ Same
                /\ \/ bundles'[c].status = bundles[c].status
                   \/ Processed
                   \/ RetryProcessing(c) /\ bundles'[c].status = "uploaded"
                   \/ ExecuteDeletion
             \/ \E u \in Uploads :
                  /\ Insert(u) /\ c = uploads[u].content /\ c \notin Existing
                  /\ bundles'[c].upload = u /\ bundles'[c].status = "uploaded"
<1> SUFFICES Result OBVIOUS
<1>0. TypeOK /\ bundles \in [Contents -> BundleRow] BY DEF TypeInv, TypeOK, BundleRow
<1>1. CASE bundles'[c] = bundles[c] BY <1>1
<1>2. ASSUME NEW w \in Workers, Work(w) \/ KillWorker(w) PROVE Result
  <2> DEFINE d == workers[w].content
  <2>1. ASSUME NEW status \in BundleStatuses, SetBundle(d, status), Work(w), Processing(w),
               status = "ready" => BundleReady(w)
        PROVE  Result
    <3>1. d \in Contents BY <2>1 DEF Processing, TypeInv, Placed
    <3>2. Same /\ bundles'[c].status = IF c = d THEN status ELSE bundles[c].status
      BY <1>0, <2>1, <3>1, BundleSet
    <3>3. QED BY <2>1, <3>2
  <2>2. CASE EnterStage(w)
    <3>1. workers[w].step \in 1 .. 4 BY <2>2 DEF EnterStage, TypeInv, Placed
    <3>2. Stages[workers[w].step] \in BundleStatuses \ {"ready"}
      BY <3>1 DEF Stages, BundleStatuses
    <3>3. QED BY <2>1, <2>2, <3>2 DEF Work, EnterStage, Processing, Pc
  <2>3. CASE BundleReady(w)
    BY <2>1, <2>3 DEF Work, BundleReady, Processing, Pc, BundleStatuses
  <2>4. CASE Reject(w) \/ Fail(w) BY <2>1, <2>4 DEF Work, Reject, Fail, BundleStatuses
  <2>5. QED
    BY <1>1, <1>2, <2>2, <2>3, <2>4
    DEF Work, RecoverStuckTasks, NextTask, ClaimJob, PersistEvidence, Analyse, KillWorker
<1>3. ASSUME NEW u \in Uploads, Complete(u) PROVE Result
  <2>1. CASE Insert(u) /\ uploads[u].content \notin Existing
    <3>1. /\ uploads[u].content \in Contents
          /\ bundles' = [bundles EXCEPT ![uploads[u].content] =
                [status |-> "uploaded", upload |-> u, held |-> At(u, "insertHeld")]]
      BY <2>1, InsertNew
    <3>2. CASE c = uploads[u].content BY <1>0, <2>1, <3>1, <3>2
    <3>3. CASE c # uploads[u].content BY <1>0, <1>1, <3>1, <3>3
    <3>4. QED BY <3>2, <3>3
  <2>2. QED
    BY <1>1, <1>3, <2>1
    DEF Complete, Merge, MergeFails, Mismatch, ReadHold, Insert, InsertFails
<1>4. ASSUME NEW d \in Contents, RetryProcessing(d) PROVE Result
  <2>1. Same /\ bundles'[c].status = IF c = d THEN "uploaded" ELSE bundles[c].status
    BY <1>0, <1>4, BundleSet DEF RetryProcessing, BundleStatuses
  <2>2. QED BY <1>4, <2>1
<1>5. ASSUME NEW held \in BOOLEAN, SetHold(held) PROVE Result
  <2>1. bundles[c] \in BundleRow BY <1>0
  <2>2. bundles'[c] \in {bundles[c], [bundles[c] EXCEPT !.held = held]} BY <1>5 DEF SetHold
  <2>3. Same /\ bundles'[c].status = bundles[c].status BY <2>1, <2>2 DEF BundleRow
  <2>4. QED BY <2>3
<1>6. CASE ExecuteDeletion
  <2>1. bundles[c] \in BundleRow BY <1>0
  <2>2. bundles'[c] \in {bundles[c], [bundles[c] EXCEPT !.status = "deleted"]}
    BY <1>6 DEF ExecuteDeletion
  <2>3. Same BY <2>1, <2>2 DEF BundleRow
  <2>4. QED BY <1>6, <2>3
<1>7. QED
  BY <1>1, <1>2, <1>3, <1>4, <1>5, <1>6
  DEF Next, Create, RecordParts, ClaimUpload, KillHandler, Expire, Administer, Abort,
      StartDiagnosis, Publish, Terminate, RequestDeletion, EnqueueRetention, DeletionFails

LEMMA NextStored == TypeInv /\ Owned /\ Stored /\ [Next]_vars => Stored'
<1> SUFFICES ASSUME TypeInv, Owned, Stored, [Next]_vars PROVE Stored' OBVIOUS
<1>0. TypeOK /\ bundles \in [Contents -> BundleRow] BY DEF TypeInv, TypeOK, BundleRow
<1>1. Existing \subseteq Existing'
  <2>1. CASE \E u \in Uploads : Insert(u) /\ uploads[u].content \notin Existing
    <3>1. PICK u \in Uploads : Insert(u) /\ uploads[u].content \notin Existing BY <2>1
    <3>2. bundles' = [bundles EXCEPT ![uploads[u].content] =
            [status |-> "uploaded", upload |-> u, held |-> At(u, "insertHeld")]]
      BY <3>1, InsertNew
    <3>3. QED BY <1>0, <3>2 DEF Existing
  <2>2. QED BY <2>1, ExistingSame
<1>2. ASSUME NEW u \in Uploads, Insert(u)
      PROVE  /\ uploads'[u].status = "completed" /\ handlers'[u] = "idle"
             /\ uploads'[u].content = uploads[u].content /\ uploads[u].content \in Existing'
  <2>1. /\ uploads'[u].status = "completed" /\ uploads'[u].content = uploads[u].content
        /\ handlers'[u] = "idle"
    BY <1>0, <1>2, UploadSet DEF Insert, Goto, UploadStatuses, TypeOK
  <2>2. CASE uploads[u].content \notin Existing
    <3>1. /\ uploads[u].content \in Contents
          /\ bundles' = [bundles EXCEPT ![uploads[u].content] =
                [status |-> "uploaded", upload |-> u, held |-> At(u, "insertHeld")]]
      BY <1>2, <2>2, InsertNew
    <3>2. QED BY <1>0, <2>1, <3>1 DEF Existing
  <2>3. QED BY <1>1, <2>1, <2>2
<1>3. ASSUME NEW c \in Existing'
      PROVE  /\ bundles'[c].upload \in Uploads
             /\ At(bundles[c].upload, "idle")' /\ UploadIs(bundles[c].upload, {"completed"})'
  <2>0. c \in Contents BY DEF Existing
  <2>1. CASE \E u \in Uploads :
              /\ Insert(u) /\ c = uploads[u].content /\ c \notin Existing
              /\ bundles'[c].upload = u /\ bundles'[c].status = "uploaded"
    BY <1>2, <2>1 DEF At, UploadIs
  <2>2. CASE bundles'[c].upload = bundles[c].upload /\ c \in Existing
    <3>1. PICK u \in Uploads : u = bundles[c].upload BY <2>2 DEF Stored
    <3>2. At(u, "idle") /\ UploadIs(u, {"completed"}) BY <2>2, <3>1 DEF Stored
    <3>3. uploads'[u].status = "completed" /\ handlers'[u] = "idle" BY <3>2, UploadMoves
    <3>4. QED BY <2>2, <3>1, <3>3 DEF At, UploadIs
  <2>3. CASE bundles'[c].upload = bundles[c].upload /\ c \notin Existing
    <3>1. ~(\E u \in Uploads : Insert(u) /\ uploads[u].content \notin Existing)
          => c \in Existing
      BY ExistingSame
    <3>2. PICK u \in Uploads : Insert(u) /\ uploads[u].content \notin Existing
      BY <2>3, <3>1
    <3>3. bundles' = [bundles EXCEPT ![uploads[u].content] =
            [status |-> "uploaded", upload |-> u, held |-> At(u, "insertHeld")]]
      BY <3>2, InsertNew
    <3>4. c = uploads[u].content BY <1>0, <2>0, <2>3, <3>3 DEF Existing
    <3>5. bundles'[c].upload = u BY <1>0, <2>0, <3>3, <3>4
    <3>6. QED BY <1>2, <3>2, <3>5 DEF At, UploadIs
  <2>4. QED BY <2>0, <2>1, <2>2, <2>3, BundleMoves
<1>4. ASSUME NEW u \in Uploads, UploadIs(u, {"completed"})' PROVE uploads'[u].content \in Existing'
  <2>1. CASE uploads'[u] = uploads[u] BY <1>1, <1>4, <2>1 DEF Stored, UploadIs
  <2>2. CASE Insert(u) BY <1>2, <2>2
  <2>3. QED BY <1>4, <2>1, <2>2, UploadMoves DEF UploadIs
<1>5. QED BY <1>3, <1>4 DEF Stored

LEMMA StoredInvariant == Spec => [](TypeInv /\ Owned /\ Stored)
<1>1. Init => Stored BY DEF Init, Stored, Existing, UploadIs
<1>2. QED BY <1>1, OwnedInvariant, NextStored, PTL DEF Spec

\* A completed upload has a bundle with a job, whoever completed the package first.
THEOREM CompletionsAreQueued == Spec => []CompletedIsQueued
<1>1. TypeInv /\ Owned /\ Stored => CompletedIsQueued
  BY DEF Owned, Stored, CompletedIsQueued, Existing
<1>2. QED BY <1>1, StoredInvariant, PTL

\* Items disappear with the deletion, which asks for the hold.
LEMMA EvidenceMoves ==
  ASSUME TypeInv, [Next]_vars, NEW c \in Contents
  PROVE  \/ evidence'[c] = evidence[c]
         \/ ExecuteDeletion
         \/ \E w \in Workers :
              /\ PersistEvidence(w) /\ workers[w].content = c
              /\ evidence'[c] = evidence[c] \cup {workers[w].step}
<1>1. CASE UNCHANGED evidence BY <1>1
<1>2. ASSUME NEW w \in Workers, PersistEvidence(w)
      PROVE  \/ evidence'[c] = evidence[c]
             \/ /\ workers[w].content = c
                /\ evidence'[c] = evidence[c] \cup {workers[w].step}
  BY <1>2 DEF PersistEvidence, TypeInv, TypeOK
<1>3. ASSUME NEW w \in Workers, Work(w) \/ KillWorker(w), ~PersistEvidence(w)
      PROVE  UNCHANGED evidence
  BY <1>3 DEF Work, RecoverStuckTasks, NextTask, ClaimJob, EnterStage, BundleReady, Analyse,
              Reject, Fail, KillWorker
<1>4. ASSUME NEW u \in Uploads, Complete(u) PROVE UNCHANGED evidence
  BY <1>4 DEF Complete, Merge, MergeFails, Mismatch, ReadHold, Insert, InsertFails
<1>5. QED
  BY <1>1, <1>2, <1>3, <1>4
  DEF Next, Create, RecordParts, ClaimUpload, KillHandler, Expire, Administer, Abort,
      StartDiagnosis, Publish, Terminate, RetryProcessing, SetHold, RequestDeletion,
      EnqueueRetention, DeletionFails

\* While a session is under legal hold, no evidence and no object of a bundle disappears:
\* not by a deletion requested before the hold, nor by a request that fails late.
THEOREM HoldKeeps == Spec => HeldIsKept
<1>1. TypeInv /\ Owned /\ Stored /\ [Next]_vars =>
        [session.held /\ session'.held =>
           /\ \A c \in Contents : evidence[c] \subseteq evidence'[c]
           /\ \A c \in Existing : bundles[c].upload \in objects => bundles[c].upload \in objects'
        ]_vars
  <2> SUFFICES ASSUME TypeInv, Stored, [Next]_vars, session.held
               PROVE  /\ \A c \in Contents : evidence[c] \subseteq evidence'[c]
                      /\ \A c \in Existing :
                           bundles[c].upload \in objects => bundles[c].upload \in objects'
    OBVIOUS
  <2>1. ~ExecuteDeletion /\ Held BY DEF ExecuteDeletion, Held
  <2>2. \A c \in Contents : evidence[c] \subseteq evidence'[c] BY <2>1, EvidenceMoves
  <2>3. ASSUME NEW c \in Existing, bundles[c].upload \in objects
        PROVE  bundles[c].upload \in objects'
    <3>1. PICK u \in Uploads : u = bundles[c].upload BY DEF Stored
    <3>2. At(u, "idle") BY <3>1 DEF Stored
    <3>3. QED BY <2>1, <2>3, <3>1, <3>2, UploadMoves
  <2>4. QED BY <2>2, <2>3
<1>2. QED BY <1>1, StoredInvariant, PTL DEF Spec, HeldIsKept

--------------------------------------------------------------------------------
(***************************************************************************)
(* What a worker has written                                               *)
(***************************************************************************)
\* The items behind a worker are there, and so is what it has declared ready.
Written(w) ==
  LET c == workers[w].content
  IN  /\ Pc(w, "persist") => 1 .. (workers[w].step - 1) \subseteq evidence[c]
      /\ Pc(w, "ready") => evidence[c] = 1 .. Items
      /\ Pc(w, "analyse") => bundles[c].status = "ready"

Kept ==
  /\ ReadyIsComplete
  /\ SucceededIsDiagnosed
  /\ deletion # "deleted" => \A w \in Workers : Written(w)

\* A deletion is done once, and then for good.
LEMMA DeletionMoves ==
  ASSUME [Next]_vars, deletion' # "deleted"
  PROVE  deletion # "deleted" /\ ~ExecuteDeletion
<1>1. ~ExecuteDeletion BY DEF ExecuteDeletion
<1>2. UNCHANGED deletion \/ deletion = "absent"
  BY <1>1
  DEF Next, Create, RecordParts, ClaimUpload, Complete, Merge, MergeFails, Mismatch, ReadHold,
      Insert, InsertFails, KillHandler, Expire, Work, RecoverStuckTasks, NextTask, ClaimJob,
      EnterStage, PersistEvidence, BundleReady, Analyse, Reject, Fail, KillWorker, Administer,
      Abort, StartDiagnosis, Publish, Terminate, RetryProcessing, SetHold, RequestDeletion,
      EnqueueRetention, DeletionFails
<1>3. QED BY <1>1, <1>2

LEMMA EvidenceGrows ==
  ASSUME TypeInv, [Next]_vars, deletion' # "deleted", NEW c \in Contents
  PROVE  /\ evidence[c] \subseteq evidence'[c]
         /\ evidence[c] = 1 .. Items => evidence'[c] = 1 .. Items
<1>1. evidence[c] \subseteq evidence'[c] BY DeletionMoves, EvidenceMoves
<1>2. evidence'[c] \subseteq 1 .. Items BY NextTyped DEF TypeInv, TypeOK
<1>3. QED BY <1>1, <1>2

\* A bundle that a step leaves ready has all of its items.
LEMMA NextReady ==
  ASSUME TypeInv, Owned, Kept, [Next]_vars, deletion' # "deleted", NEW c \in Contents,
         bundles'[c].status = "ready"
  PROVE  evidence'[c] = 1 .. Items
<1>1. deletion # "deleted" /\ ~ExecuteDeletion BY DeletionMoves
<1>2. CASE bundles[c].status = "ready"
  BY <1>1, <1>2, EvidenceGrows DEF Kept, ReadyIsComplete, Ready
<1>3. CASE bundles[c].status # "ready"
  <2>1. PICK w \in Workers : BundleReady(w) /\ workers[w].content = c
    BY <1>1, <1>3, BundleMoves
  <2>2. evidence[c] = 1 .. Items BY <1>1, <2>1 DEF BundleReady, Kept, Written
  <2>3. QED BY <2>2, EvidenceGrows
<1>4. QED BY <1>2, <1>3

LEMMA NextWritten ==
  ASSUME TypeInv, Owned, Kept, [Next]_vars, deletion' # "deleted", NEW w \in Workers
  PROVE  Written(w)'
<1> DEFINE c == workers[w].content
<1> USE DEF Pc, Processing
<1>1. deletion # "deleted" /\ ~ExecuteDeletion /\ Written(w) BY DeletionMoves DEF Kept
<1>2. /\ workers \in [Workers -> Worker] /\ bundles \in [Contents -> BundleRow] /\ TypeOK
      /\ Processing(w) => c \in Contents
      /\ Pc(w, "persist") => workers[w].step \in 1 .. Items
  BY DEF TypeInv, TypeOK, Placed, Worker, BundleRow
<1>3. ASSUME workers'[w] = workers[w], ~(Work(w) \/ KillWorker(w)) PROVE Written(w)'
  <2>1. CASE Pc(w, "persist") \/ Pc(w, "ready")
    BY <1>1, <1>2, <1>3, <2>1, EvidenceGrows DEF Written
  <2>2. CASE Pc(w, "analyse")
    <3>1. Processing(w) /\ jobs[c].status = "running" /\ bundles[c].status = "ready"
      BY <1>1, <2>2 DEF Owned, Written
    <3>2. \A v \in Workers : Processing(v) /\ workers[v].content = c => v = w
      BY <3>1 DEF Owned, OneProcessor
    <3>3. bundles'[c].status = "ready"
      <4>1. c \in Existing BY <1>2, <3>1 DEF Owned
      <4>2. ~RetryProcessing(c) BY <3>1 DEF RetryProcessing
      <4>3. ASSUME NEW v \in Workers, Processing(v), workers[v].content = c
            PROVE  ~Work(v)
        BY <1>3, <3>2, <4>3
      <4>4. QED BY <1>1, <1>2, <3>1, <4>1, <4>2, <4>3, BundleMoves
    <3>4. QED BY <1>3, <2>2, <3>3 DEF Written
  <2>3. QED BY <1>3, <2>1, <2>2 DEF Written
<1>4. CASE EnterStage(w)
  <2>1. workers[w].step \in 1 .. 4 /\ Len(Stages) = 4
    BY <1>4 DEF EnterStage, TypeInv, Placed, Stages
  <2>2. \/ workers'[w].pc = "stage"
        \/ workers'[w].pc = "persist" /\ workers'[w].step = 1
    BY <1>2, <1>4, <2>1 DEF EnterStage, Worker
  <2>3. QED BY <2>2 DEF Written
<1>5. CASE PersistEvidence(w)
  <2> DEFINE s == workers[w].step
  <2>1. /\ s \in 1 .. Items /\ c \in Contents
        /\ 1 .. (s - 1) \subseteq evidence[c] /\ evidence'[c] = evidence[c] \cup {s}
    BY <1>1, <1>2, <1>5 DEF PersistEvidence, Written, TypeInv, TypeOK
  <2>2. /\ workers'[w].content = c /\ workers'[w].step = s + 1
        /\ workers'[w].pc = IF s < Items THEN "persist" ELSE "ready"
    BY <1>2, <1>5 DEF PersistEvidence, Worker
  <2>3. evidence'[c] \subseteq 1 .. Items BY <2>1, NextTyped DEF TypeInv, TypeOK
  <2>4. 1 .. s \subseteq evidence'[c] BY <2>1
  <2>5. CASE s < Items
    <3>1. workers'[w].pc = "persist" /\ 1 .. (workers'[w].step - 1) = 1 .. s
      BY <2>1, <2>2, <2>5
    <3>2. QED BY <2>2, <2>4, <3>1 DEF Written
  <2>6. CASE ~(s < Items)
    <3>1. workers'[w].pc = "ready" /\ s = Items
      BY <2>1, <2>2, <2>6, EvidenceConstants
    <3>2. evidence'[c] = 1 .. Items BY <2>3, <2>4, <3>1
    <3>3. QED BY <2>2, <3>1, <3>2 DEF Written
  <2>7. QED BY <2>5, <2>6
<1>6. CASE BundleReady(w)
  <2>1. c \in Contents BY <1>2, <1>6 DEF BundleReady
  <2>2. bundles'[c].status = "ready"
    BY <1>2, <1>6, <2>1, BundleSet DEF BundleReady, BundleStatuses
  <2>3. workers'[w].pc = "analyse" /\ workers'[w].content = c
    BY <1>2, <1>6 DEF BundleReady, Proceed, Worker
  <2>4. QED BY <2>2, <2>3 DEF Written
<1>7. ASSUME ~Processing(w)' PROVE Written(w)' BY <1>7 DEF Written
<1>8. ASSUME Pc(w, "stage")' PROVE Written(w)' BY <1>8 DEF Written
<1>9. CASE Work(w) \/ KillWorker(w)
  <2>1. CASE EnterStage(w) \/ PersistEvidence(w) \/ BundleReady(w)
    BY <1>4, <1>5, <1>6, <2>1
  <2>2. CASE ~(EnterStage(w) \/ PersistEvidence(w) \/ BundleReady(w))
    <3>1. Idle.pc = "idle" /\ [Idle EXCEPT !.pc = "down"].pc = "down" BY DEF Idle
    <3>2. \/ \E d \in Contents : NextTask(w, d)
          \/ ClaimJob(w) /\ Claimable(c)
          \/ Rest(w) \/ KillWorker(w)
      BY <1>9, <2>2 DEF Work, RecoverStuckTasks, ClaimJob, Analyse, Reject, Fail
    <3>3. CASE Rest(w) \/ KillWorker(w)
      <4>1. workers'[w].pc \in {"idle", "down"}
        BY <1>2, <3>1, <3>3 DEF Rest, KillWorker
      <4>2. QED BY <1>7, <4>1
    <3>4. CASE \E d \in Contents : NextTask(w, d)
      <4>1. workers'[w].pc = "picked" BY <1>2, <3>4 DEF NextTask, Idle
      <4>2. QED BY <1>7, <4>1
    <3>5. CASE ClaimJob(w) /\ Claimable(c)
      <4>1. workers'[w].pc = "stage" BY <1>2, <3>5 DEF ClaimJob, Worker
      <4>2. QED BY <1>8, <4>1
    <3>6. QED BY <3>2, <3>3, <3>4, <3>5
  <2>3. QED BY <2>1, <2>2
<1>10. CASE ~(Work(w) \/ KillWorker(w))
  <2>1. CASE UNCHANGED workers BY <1>3, <1>10, <2>1
  <2>2. ASSUME NEW v \in Workers, Work(v) \/ KillWorker(v) PROVE workers'[w] = workers[w]
    BY <1>10, <2>2, WorkMoves
  <2>3. ASSUME NEW u \in Uploads, Complete(u) PROVE UNCHANGED workers
    BY <2>3 DEF Complete, Merge, MergeFails, Mismatch, ReadHold, Insert, InsertFails
  <2>4. QED
    BY <1>1, <1>3, <1>10, <2>1, <2>2, <2>3
    DEF Next, Create, RecordParts, ClaimUpload, KillHandler, Expire, Administer, Abort,
        StartDiagnosis, Publish, Terminate, RetryProcessing, SetHold, RequestDeletion,
        EnqueueRetention, DeletionFails
<1>11. QED BY <1>9, <1>10

\* Which step makes a job succeed.
LEMMA JobSucceeds ==
  ASSUME TypeInv, [Next]_vars, NEW c \in Contents, jobs'[c].status = "succeeded",
         jobs[c].status # "succeeded"
  PROVE  \E w \in Workers : Analyse(w) /\ workers[w].content = c
<1>0. TypeOK /\ jobs \in [Contents -> Job] BY DEF TypeInv, TypeOK, Job
<1>1. CASE UNCHANGED jobs BY <1>1
<1>2. ASSUME NEW w \in Workers, Work(w) \/ KillWorker(w)
      PROVE  Analyse(w) /\ workers[w].content = c
  <2> DEFINE d == workers[w].content
  <2>1. CASE Analyse(w)
    <3>1. d \in Contents BY <2>1 DEF Analyse, Pc, TypeInv, Placed
    <3>2. \A e \in Contents : jobs'[e].status = IF e = d THEN "succeeded" ELSE jobs[e].status
      BY <1>0, <2>1, <3>1, JobSet DEF Analyse
    <3>3. QED BY <2>1, <3>2
  <2>2. CASE Reject(w) \/ Fail(w)
    <3>1. d \in Contents BY <2>2 DEF Reject, Fail, Processing, TypeInv, Placed
    <3>2. PICK status \in {"pending", "failed"} : SetJob(d, status)
      BY <2>2 DEF Reject, Fail
    <3>3. \A e \in Contents : jobs'[e].status = IF e = d THEN status ELSE jobs[e].status
      BY <1>0, <3>1, <3>2, JobSet
    <3>4. QED BY <3>3
  <2>3. CASE ClaimJob(w) /\ Claimable(d)
    <3>1. d \in Contents BY <2>3 DEF ClaimJob, Pc, TypeInv, Placed
    <3>2. jobs' = [jobs EXCEPT ![d] = [status |-> "running", attempts |-> jobs[d].attempts + 1]]
      BY <1>0, <2>3, <3>1 DEF ClaimJob
    <3>3. jobs'[c].status \in {"running", jobs[c].status} BY <1>0, <3>1, <3>2
    <3>4. QED BY <3>3
  <2>4. QED
    BY <1>1, <1>2, <2>1, <2>2, <2>3
    DEF Work, RecoverStuckTasks, NextTask, ClaimJob, EnterStage, PersistEvidence, BundleReady,
        KillWorker
<1>3. ASSUME NEW u \in Uploads, Complete(u) PROVE jobs'[c].status \in {"pending", jobs[c].status}
  <2>1. CASE Insert(u) /\ uploads[u].content \notin Existing
    <3>1. jobs' = [jobs EXCEPT ![uploads[u].content] = [status |-> "pending", attempts |-> 0]]
      BY <2>1, InsertNew
    <3>2. QED BY <1>0, <3>1
  <2>2. QED
    BY <1>3, <2>1 DEF Complete, Merge, MergeFails, Mismatch, ReadHold, Insert, InsertFails
<1>4. ASSUME Terminate PROVE jobs'[c].status \in {"failed", jobs[c].status}
  <2>1. jobs[c] \in Job BY <1>0
  <2>2. jobs'[c] \in {jobs[c], [jobs[c] EXCEPT !.status = "failed"]} BY <1>4 DEF Terminate
  <2>3. QED BY <2>1, <2>2 DEF Job
<1>5. ASSUME NEW d \in Contents, RetryProcessing(d)
      PROVE  jobs'[c].status \in {"pending", jobs[c].status}
  BY <1>0, <1>5, JobSet DEF RetryProcessing
<1>6. QED
  BY <1>1, <1>2, <1>3, <1>4, <1>5
  DEF Next, Create, RecordParts, ClaimUpload, KillHandler, Expire, Administer, Abort,
      StartDiagnosis, Publish, SetHold, RequestDeletion, EnqueueRetention, ExecuteDeletion,
      DeletionFails

\* Runs of the analysis are added, and keep their bundles.
LEMMA RunsGrow ==
  ASSUME TypeInv, [Next]_vars
  PROVE  session'.runs = session.runs \/ session'.runs = Append(session.runs, Ready)
<1>0. TypeOK /\ session \in Session BY DEF TypeInv, TypeOK, Session
<1>1. CASE UNCHANGED session BY <1>1
<1>2. CASE AssessAndDiagnose BY <1>0, <1>2, AssessTyped
<1>3. ASSUME NEW u \in Uploads, NEW c \in Contents, Create(u, c)
      PROVE  session'.runs = session.runs
  BY <1>0, <1>3 DEF Create, Session
<1>4. ASSUME NEW u \in Uploads, Complete(u) PROVE session'.runs = session.runs
  <2>1. CASE Insert(u) /\ uploads[u].content \notin Existing BY <2>1, InsertNew
  <2>2. QED
    BY <1>1, <1>4, <2>1
    DEF Complete, Merge, MergeFails, Mismatch, ReadHold, Insert, InsertFails
<1>5. ASSUME NEW w \in Workers, Work(w) \/ KillWorker(w)
      PROVE  UNCHANGED session \/ AssessAndDiagnose
  BY <1>5
  DEF Work, RecoverStuckTasks, NextTask, ClaimJob, EnterStage, PersistEvidence, BundleReady,
      Analyse, Reject, Fail, KillWorker
<1>6. CASE Publish \/ Terminate \/ RequestDeletion \/ ExecuteDeletion
           \/ \E held \in BOOLEAN : SetHold(held)
  BY <1>0, <1>6 DEF Publish, Terminate, RequestDeletion, ExecuteDeletion, SetHold, Session
<1>7. QED
  BY <1>1, <1>2, <1>3, <1>4, <1>5, <1>6
  DEF Next, RecordParts, ClaimUpload, KillHandler, Expire, Administer, Abort, StartDiagnosis,
      RetryProcessing, EnqueueRetention, DeletionFails

LEMMA NextKept == TypeInv /\ Owned /\ Kept /\ [Next]_vars => Kept'
<1> SUFFICES ASSUME TypeInv, Owned, Kept, [Next]_vars PROVE Kept' OBVIOUS
<1> SUFFICES ASSUME deletion' # "deleted" PROVE Kept'
  BY DEF Kept, ReadyIsComplete, SucceededIsDiagnosed
<1>1. deletion # "deleted" /\ ~ExecuteDeletion BY DeletionMoves
<1>2. \A c \in Ready' : evidence'[c] = 1 .. Items BY NextReady DEF Ready
<1>3. \A w \in Workers : Written(w)' BY NextWritten
<1>4. session.runs \in Seq(SUBSET Contents) BY DEF TypeInv, TypeOK
<1>5. ASSUME NEW c \in Contents, jobs'[c].status = "succeeded"
      PROVE  \E i \in DOMAIN session'.runs : c \in session'.runs[i]
  <2>1. CASE jobs[c].status = "succeeded"
    <3>1. PICK i \in DOMAIN session.runs : c \in session.runs[i]
      BY <1>1, <2>1 DEF Kept, SucceededIsDiagnosed
    <3>2. CASE session'.runs = session.runs BY <3>1, <3>2
    <3>3. CASE session'.runs = Append(session.runs, Ready)
      <4>1. Ready \in SUBSET Contents BY DEF Ready
      <4>2. i \in DOMAIN session'.runs /\ session'.runs[i] = session.runs[i]
        BY <1>4, <3>1, <3>3, <4>1
      <4>3. QED BY <3>1, <4>2
    <3>4. QED BY <3>2, <3>3, RunsGrow
  <2>2. CASE jobs[c].status # "succeeded"
    <3>1. PICK w \in Workers : Analyse(w) /\ workers[w].content = c
      BY <1>5, <2>2, JobSucceeds
    <3>2. c \in Ready BY <1>1, <3>1 DEF Analyse, Kept, Written, Ready
    <3>3. session'.runs = Append(session.runs, Ready)
      BY <3>1, AssessTyped DEF Analyse, TypeInv
    <3>4. Ready \in SUBSET Contents BY DEF Ready
    <3>5. /\ Len(session.runs) + 1 \in DOMAIN session'.runs
          /\ session'.runs[Len(session.runs) + 1] = Ready
      BY <1>4, <3>3, <3>4
    <3>6. QED BY <3>2, <3>5
  <2>3. QED BY <2>1, <2>2
<1>6. QED BY <1>2, <1>3, <1>5 DEF Kept, ReadyIsComplete, SucceededIsDiagnosed

LEMMA KeptInvariant == Spec => [](TypeInv /\ Owned /\ Kept)
<1>1. Init => Kept
  BY DEF Init, Kept, ReadyIsComplete, SucceededIsDiagnosed, Ready, Written, Pc, Idle
<1>2. QED BY <1>1, OwnedInvariant, NextKept, PTL DEF Spec

\* A bundle that is ready has all of its items, short of a deletion.
THEOREM ReadyBundlesAreComplete == Spec => []ReadyIsComplete
BY KeptInvariant, PTL DEF Kept

\* A job that succeeded has its bundle in a run of the analysis, short of a deletion.
THEOREM SuccessIsDiagnosed == Spec => []SucceededIsDiagnosed
BY KeptInvariant, PTL DEF Kept

================================================================================
