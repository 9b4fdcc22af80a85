-------------------------- MODULE DeliveryRunnerProofs --------------------------
(***************************************************************************)
(* What holds of the delivery of a package for any number of deliveries,   *)
(* goroutines, parts and troubles.                                         *)
(*                                                                         *)
(* Done: a job becomes done in one place, at the end of advance(), and the *)
(* steps that lead there start from the platform's answer to complete().   *)
(* One flow: a job is in one place only, not yet queued, in the queue,     *)
(* with a goroutine, asleep, with a user's resume or waiting for           *)
(* credentials.                                                            *)
(* Whole: a goroutine asks for completion after the last part it lacked,   *)
(* and nothing but a session of its own to begin again takes parts away.   *)
(* Replaced: what has been replaced has ended, so that whatever is still   *)
(* written for it late, is written as ended.                               *)
(***************************************************************************)
EXTENDS DeliveryRunner, FiniteSetTheorems, SequenceTheorems, TLAPS

USE DEF vars, jobVars, clientVars, diskVars, platformVars, history, None

\* A goroutine that is not idle has a job, a request of a user that is not over too.
RunsTyped ==
  /\ run \in [Slots -> RunState]
  /\ \A s \in Slots : run[s].at # "idle" => run[s].job \in Jobs

TypeInv ==
  /\ TypeOK
  /\ RunsTyped
  /\ user.at \in {"fail", "write", "enqueue"} => user.job \in Jobs

--------------------------------------------------------------------------------
(***************************************************************************)
(* Types                                                                   *)
(***************************************************************************)
\* A goroutine that has no job.
LEMMA IdleTyped == Idle \in RunState
BY RunnerConstants DEF Idle, RunState, Labels, Errors, Parts

\* A job as it is submitted.
LEMMA FreshTyped == Fresh \in JobState
BY RunnerConstants DEF Fresh, JobState, Phases, Parts

\* Nobody works at first.
LEMMA InitTyped == Init => TypeInv
BY IdleTyped, FreshTyped, RunnerConstants
DEF Init, TypeInv, RunsTyped, TypeOK, NoOne, UserState, Idle

\* A set of parts has no more than there are.
LEMMA PartsCounted ==
  ASSUME NEW S \in SUBSET Parts
  PROVE  Cardinality(S) \in 0 .. PartCount
<1>1. IsFiniteSet(Parts) /\ Cardinality(Parts) = PartCount
  BY FS_Interval, RunnerConstants DEF Parts
<1>2. IsFiniteSet(S) /\ Cardinality(S) <= Cardinality(Parts)
  BY <1>1, FS_Subset
<1>3. QED BY <1>1, <1>2, FS_CardinalityType, RunnerConstants

\* The queue holds jobs.
LEMMA EnqueueTyped ==
  ASSUME TypeOK, NEW j \in Jobs, Enqueue(j)
  PROVE  queue' \in Seq(Jobs)
BY DEF TypeOK, Enqueue

\* The steps of a goroutine that has a job.
LEMMA RecordTyped ==
  ASSUME NEW r \in RunState, NEW label \in Labels, NEW then \in Labels, NEW e \in Errors
  PROVE  /\ [r EXCEPT !.at = label] \in RunState
         /\ [r EXCEPT !.at = label, !.then = then] \in RunState
         /\ [r EXCEPT !.at = label, !.err = e] \in RunState
         /\ [r EXCEPT !.at = label, !.then = then, !.err = e] \in RunState
BY DEF RunState

\* A goroutine that is given a record of the type.
LEMMA StepTyped ==
  ASSUME RunsTyped, NEW s \in Slots, NEW r \in RunState, r.at # "idle" => r.job \in Jobs,
         run' = [run EXCEPT ![s] = r]
  PROVE  RunsTyped'
BY DEF RunsTyped

\* The ways from one stage to the next, or to the end of the round.
LEMMA GotoTyped ==
  ASSUME RunsTyped, NEW s \in Slots, run[s].job \in Jobs, NEW label \in Labels, NEW e \in Errors,
         Goto(s, label) \/ Saving(s, label) \/ Fails(s, e) \/ FailsSaving(s, e)
  PROVE  RunsTyped'
<1>0. run[s] \in RunState /\ {"write", "settle"} \subseteq Labels BY DEF RunsTyped, Labels
<1>1. CASE Goto(s, label)
  <2>1. run' = [run EXCEPT ![s] = [run[s] EXCEPT !.at = label]] BY <1>1 DEF Goto
  <2>2. [run[s] EXCEPT !.at = label].job = run[s].job BY <1>0 DEF RunState
  <2>3. QED BY <1>0, <2>1, <2>2, RecordTyped, StepTyped
<1>2. CASE Saving(s, label)
  <2>0. PICK l \in Labels : run' = [run EXCEPT ![s].at = l, ![s].then = label]
    BY <1>0, <1>2 DEF Saving
  <2>1. run' = [run EXCEPT ![s] = [run[s] EXCEPT !.at = l, !.then = label]] BY <2>0
  <2>2. [run[s] EXCEPT !.at = l, !.then = label].job = run[s].job BY <1>0 DEF RunState
  <2>3. QED BY <1>0, <2>1, <2>2, RecordTyped, StepTyped
<1>3. CASE Fails(s, e)
  <2>1. run' = [run EXCEPT ![s] = [run[s] EXCEPT !.at = "settle", !.err = e]] BY <1>3 DEF Fails
  <2>2. [run[s] EXCEPT !.at = "settle", !.err = e].job = run[s].job BY <1>0 DEF RunState
  <2>3. QED BY <1>0, <2>1, <2>2, RecordTyped, StepTyped
<1>4. CASE FailsSaving(s, e)
  <2>0. PICK l \in Labels : run' = [run EXCEPT ![s].at = l, ![s].then = "settle", ![s].err = e]
    BY <1>0, <1>4 DEF FailsSaving
  <2>1. run' = [run EXCEPT ![s] = [run[s] EXCEPT !.at = l, !.then = "settle", !.err = e]] BY <2>0
  <2>2. [run[s] EXCEPT !.at = l, !.then = "settle", !.err = e].job = run[s].job
    BY <1>0 DEF RunState
  <2>3. QED BY <1>0, <2>1, <2>2, RecordTyped, StepTyped
<1>5. QED BY <1>1, <1>2, <1>3, <1>4

\* A goroutine that picks its next part.
LEMMA PartTyped ==
  ASSUME RunsTyped, NEW s \in Slots, run[s].job \in Jobs, NEW label \in Labels, NEW n \in Parts,
         run' = [run EXCEPT ![s].at = label, ![s].part = n]
  PROVE  RunsTyped'
<1> DEFINE r == [run[s] EXCEPT !.at = label, !.part = n]
<1>1. run[s] \in RunState BY DEF RunsTyped
<1>2. r \in RunState /\ r.job = run[s].job BY <1>1 DEF RunState
<1>3. run' = [run EXCEPT ![s] = r] OBVIOUS
<1> HIDE DEF r
<1>4. QED BY <1>2, <1>3, StepTyped

\* A cancelled context changes nothing else.
LEMMA CancelTyped ==
  ASSUME RunsTyped, NEW f, Cancel(f)
  PROVE  RunsTyped'
<1>1. \A s \in Slots : [run[s] EXCEPT !.ctx = "canceled"] \in RunState BY DEF RunsTyped, RunState
<1>2. QED BY <1>1 DEF RunsTyped, RunState, Cancel

\* What is written into a job.
LEMMA JobTyped ==
  ASSUME job \in [Jobs -> JobState], NEW j \in Jobs
  PROVE  /\ \A p \in Phases : [job EXCEPT ![j].phase = p] \in [Jobs -> JobState]
         /\ \A p \in Phases, b \in BOOLEAN :
              /\ [job EXCEPT ![j].phase = p, ![j].superseded = b] \in [Jobs -> JobState]
              /\ [job EXCEPT ![j].needs_reauth = b, ![j].phase = p] \in [Jobs -> JobState]
         /\ \A n \in 0 .. Size :
              /\ [job EXCEPT ![j].pulled = n] \in [Jobs -> JobState]
              /\ \A p \in Phases :
                   [job EXCEPT ![j].pulled = n, ![j].phase = p] \in [Jobs -> JobState]
              /\ \A S \in SUBSET Parts :
                   [job EXCEPT ![j].pulled = n, ![j].uploaded = S] \in [Jobs -> JobState]
         /\ \A S \in SUBSET Parts : [job EXCEPT ![j].uploaded = S] \in [Jobs -> JobState]
         /\ \A a \in Nat, p \in Phases, b \in BOOLEAN :
              [job EXCEPT ![j].attempt = a, ![j].phase = p, ![j].needs_reauth = b]
                \in [Jobs -> JobState]
<1>0. job[j] \in JobState OBVIOUS
<1>1. \A r \in JobState : [job EXCEPT ![j] = r] \in [Jobs -> JobState] OBVIOUS
<1>2. \A p \in Phases : [job EXCEPT ![j].phase = p] \in [Jobs -> JobState]
  <2>1. \A p \in Phases : [job[j] EXCEPT !.phase = p] \in JobState BY <1>0 DEF JobState
  <2>2. QED BY <1>1, <2>1
<1>3. \A p \in Phases, b \in BOOLEAN :
        [job EXCEPT ![j].phase = p, ![j].superseded = b] \in [Jobs -> JobState]
  <2>1. \A p \in Phases, b \in BOOLEAN : [job[j] EXCEPT !.phase = p, !.superseded = b] \in JobState
    BY <1>0 DEF JobState
  <2>2. QED BY <1>1, <2>1
<1>4. \A p \in Phases, b \in BOOLEAN :
        [job EXCEPT ![j].needs_reauth = b, ![j].phase = p] \in [Jobs -> JobState]
  <2>1. \A p \in Phases, b \in BOOLEAN :
          [job[j] EXCEPT !.needs_reauth = b, !.phase = p] \in JobState
    BY <1>0 DEF JobState
  <2>2. QED BY <1>1, <2>1
<1>5. \A n \in 0 .. Size : [job EXCEPT ![j].pulled = n] \in [Jobs -> JobState]
  <2>1. \A n \in 0 .. Size : [job[j] EXCEPT !.pulled = n] \in JobState BY <1>0 DEF JobState
  <2>2. QED BY <1>1, <2>1
<1>6. \A n \in 0 .. Size, p \in Phases :
        [job EXCEPT ![j].pulled = n, ![j].phase = p] \in [Jobs -> JobState]
  <2>1. \A n \in 0 .. Size, p \in Phases : [job[j] EXCEPT !.pulled = n, !.phase = p] \in JobState
    BY <1>0 DEF JobState
  <2>2. QED BY <1>1, <2>1
<1>7. \A n \in 0 .. Size, S \in SUBSET Parts :
        [job EXCEPT ![j].pulled = n, ![j].uploaded = S] \in [Jobs -> JobState]
  <2>1. \A n \in 0 .. Size, S \in SUBSET Parts :
          [job[j] EXCEPT !.pulled = n, !.uploaded = S] \in JobState
    BY <1>0 DEF JobState
  <2>2. QED BY <1>1, <2>1
<1>8. \A S \in SUBSET Parts : [job EXCEPT ![j].uploaded = S] \in [Jobs -> JobState]
  <2>1. \A S \in SUBSET Parts : [job[j] EXCEPT !.uploaded = S] \in JobState BY <1>0 DEF JobState
  <2>2. QED BY <1>1, <2>1
<1>9. \A a \in Nat, p \in Phases, b \in BOOLEAN :
        [job EXCEPT ![j].attempt = a, ![j].phase = p, ![j].needs_reauth = b] \in [Jobs -> JobState]
  <2>1. \A a \in Nat, p \in Phases, b \in BOOLEAN :
          [job[j] EXCEPT !.attempt = a, !.phase = p, !.needs_reauth = b] \in JobState
    BY <1>0 DEF JobState
  <2>2. QED BY <1>1, <2>1
<1>10. QED BY <1>2, <1>3, <1>4, <1>5, <1>6, <1>7, <1>8, <1>9

\* Troubles are counted up to their bound.
LEMMA TroubleTyped ==
  ASSUME TypeOK, NEW t, Trouble(t)
  PROVE  troubles' \in 0 .. MaxTroubles
BY RunnerConstants DEF TypeOK, Trouble

\* Submit handlers and users.
LEMMA ClientTyped ==
  ASSUME TypeInv,
         (\E j \in Jobs : Sign(j) \/ Submit(j) \/ Wake(j)) \/ CancelStop \/ Resume \/ User
  PROVE  TypeInv'
<1> USE DEF TypeInv, TypeOK
<1>1. ASSUME NEW j \in Jobs, Sign(j) PROVE TypeInv'
  BY <1>1 DEF Sign, Submitting, RunsTyped
<1>2. ASSUME NEW j \in Jobs, SubmitSwitch(j) PROVE TypeInv'
  <2>1. job' \in [Jobs -> JobState]
    <3>1. CASE UNCHANGED job BY <3>1
    <3>2. CASE Unfinished /\ job' = [job EXCEPT ![current].phase = "failed",
                                               ![current].superseded = TRUE]
      BY <3>2, JobTyped DEF Unfinished, Phases
    <3>3. QED BY <1>2, <3>1, <3>2 DEF SubmitSwitch
  <2>2. current' \in Jobs /\ cancels' \in Slots \cup {None} BY <1>2 DEF SubmitSwitch
  <2>3. submit' \in [Jobs -> {"new", "signed", "stop", "save", "accepted", "lost"}]
    BY <1>2 DEF SubmitSwitch, Submitting
  <2>4. stale' \in [Jobs -> [job : Jobs \cup {None}, func : Slots \cup {None}]]
    BY <1>2 DEF SubmitSwitch
  <2>5. QED BY <1>2, <2>1, <2>2, <2>3, <2>4 DEF SubmitSwitch, RunsTyped
<1>3. ASSUME NEW j \in Jobs, SubmitStop(j) PROVE TypeInv'
  BY <1>3, CancelTyped DEF SubmitStop, Submitting, RunsTyped
<1>4. ASSUME NEW j \in Jobs, SubmitSave(j) PROVE TypeInv'
  BY <1>4, EnqueueTyped DEF SubmitSave, Submitting, NoOne, RunsTyped
<1>5. ASSUME NEW j \in Jobs, Wake(j) PROVE TypeInv'
  BY <1>5, EnqueueTyped DEF Wake, RunsTyped
<1>6. CASE CancelStop
  BY <1>6, CancelTyped, TroubleTyped DEF CancelStop, UserState, RunsTyped, UserFree
<1>7. ASSUME NEW j \in Jobs, NEW label \in {"none", "fail", "write", "enqueue", "done"},
             UserGoes(label, j) \/ (label \in {"enqueue", "done"} /\ UserSaving(j, label))
      PROVE  user' \in UserState /\ (user'.at \in {"fail", "write", "enqueue"} => user'.job \in Jobs)
  BY <1>7 DEF UserGoes, UserSaving, UserState
<1>8. CASE CancelFail
  <2>1. user.job \in Jobs /\ "failed" \in Phases BY <1>8 DEF CancelFail, Phases
  <2>2. job' \in [Jobs -> JobState] BY <1>8, <2>1, JobTyped DEF CancelFail
  <2>3. QED BY <1>7, <1>8, <2>1, <2>2 DEF CancelFail, RunsTyped
<1>9. CASE Resume
  <2>1. current \in Jobs /\ "retrying" \in Phases BY <1>9 DEF Resume, Phases
  <2>2. job' \in [Jobs -> JobState] BY <1>9, <2>1, JobTyped DEF Resume
  <2>3. QED BY <1>7, <1>9, <2>1, <2>2, TroubleTyped DEF Resume, RunsTyped
<1>10. CASE UserWrite
  BY <1>10 DEF UserWrite, UserGoes, UserState, RunsTyped
<1>11. CASE ResumeEnqueue
  BY <1>11, EnqueueTyped DEF ResumeEnqueue, UserGoes, UserState, RunsTyped
<1>12. QED
  BY <1>1, <1>2, <1>3, <1>4, <1>5, <1>6, <1>8, <1>9, <1>10, <1>11 DEF Submit, User

\* What the step of a goroutine leaves alone, and what it may write.
LEMMA KeptTyped ==
  ASSUME TypeInv, RunsTyped', job' \in [Jobs -> JobState],
         UNCHANGED <<current, cancels, queue, backoff, clientVars, history>>,
         journal' = journal \/ \E j \in Jobs : journal' = [job |-> j, data |-> job'[j]],
         copy' \in 0 .. Size,
         session' \in Jobs \cup {None}, delivered' \subseteq Jobs,
         troubles' \in 0 .. MaxTroubles
  PROVE  TypeInv'
<1>1. journal' \in [job : Jobs \cup {None}, data : JobState]
  <2>1. CASE journal' = journal BY <2>1 DEF TypeInv, TypeOK
  <2>2. CASE \E j \in Jobs : journal' = [job |-> j, data |-> job'[j]] BY <2>2
  <2>3. QED BY <2>1, <2>2
<1>2. /\ current' \in Jobs \cup {None} /\ cancels' \in Slots \cup {None}
      /\ queue' \in Seq(Jobs) /\ backoff' \subseteq Jobs /\ gone' \subseteq Jobs
      /\ doubled' \subseteq Jobs /\ torn' \subseteq Jobs
  BY DEF TypeInv, TypeOK
<1>3. /\ submit' \in [Jobs -> {"new", "signed", "stop", "save", "accepted", "lost"}]
      /\ stale' \in [Jobs -> [job : Jobs \cup {None}, func : Slots \cup {None}]]
      /\ user' \in UserState
      /\ user'.at \in {"fail", "write", "enqueue"} => user'.job \in Jobs
  BY DEF TypeInv, TypeOK
<1>4. run' \in [Slots -> RunState] BY DEF RunsTyped
<1>5. QED BY <1>1, <1>2, <1>3, <1>4 DEF TypeInv, TypeOK

\* The job of a goroutine, and the phase normalizeDeliveryPhase() gives it.
LEMMA PhasesTyped ==
  ASSUME TypeInv, NEW s \in Slots, run[s].at # "idle"
  PROVE  /\ run[s].job \in Jobs /\ job[run[s].job] \in JobState
         /\ job[run[s].job].phase \in Phases
         /\ ~Terminal(job[run[s].job].phase) =>
              Normal(run[s].job) \in {"waiting_collect", "pulling", "uploading", "completing"}
BY DEF TypeInv, TypeOK, RunsTyped, JobState, Terminal, Normal, Phases

\* Goroutines: the steps that write nothing of the job.
LEMMA PlainStepTyped ==
  ASSUME TypeInv, NEW s \in Slots,
         \/ CollectFails(s) \/ CollectStops(s)
         \/ UploadMissing(s) \/ UploadPart(s) \/ UploadStops(s) \/ UploadDone(s) \/ PutFails(s)
         \/ Complete(s) \/ CompleteAcknowledged(s) \/ CompleteFails(s) \/ Discard(s)
  PROVE  TypeInv'
<1> USE DEF Labels, Errors
<1>0. /\ RunsTyped /\ TypeOK /\ job \in [Jobs -> JobState]
      /\ copy \in 0 .. Size /\ session \in Jobs \cup {None} /\ delivered \subseteq Jobs
      /\ troubles \in 0 .. MaxTroubles
  BY DEF TypeInv, TypeOK
<1>1. run[s].at # "idle" => run[s].job \in Jobs BY <1>0 DEF RunsTyped
<1>2. CASE CollectFails(s) BY <1>0, <1>1, <1>2, GotoTyped, TroubleTyped, KeptTyped DEF CollectFails
<1>3. CASE CollectStops(s) BY <1>0, <1>1, <1>3, GotoTyped, KeptTyped DEF CollectStops, ContextError
<1>4. CASE UploadMissing(s) BY <1>0, <1>1, <1>4, GotoTyped, KeptTyped DEF UploadMissing
<1>5. CASE UploadPart(s)
  <2>0. PICK n \in Parts : run' = [run EXCEPT ![s].at = "put", ![s].part = n]
    BY <1>5 DEF UploadPart
  <2>1. RunsTyped' BY <1>0, <1>1, <1>5, <2>0, PartTyped DEF UploadPart
  <2>2. QED BY <1>0, <1>5, <2>1, KeptTyped DEF UploadPart
<1>6. CASE UploadStops(s) BY <1>0, <1>1, <1>6, GotoTyped, KeptTyped DEF UploadStops, ContextError
<1>7. CASE UploadDone(s) BY <1>0, <1>1, <1>7, GotoTyped, KeptTyped DEF UploadDone
<1>8. CASE PutFails(s)
  BY <1>0, <1>1, <1>8, GotoTyped, TroubleTyped, KeptTyped DEF PutFails, TransportError
<1>9. CASE Complete(s) BY <1>0, <1>1, <1>9, GotoTyped, KeptTyped DEF Complete, ContextError
<1>10. CASE CompleteAcknowledged(s)
  BY <1>0, <1>1, <1>10, GotoTyped, KeptTyped DEF CompleteAcknowledged, Merge
<1>11. CASE CompleteFails(s)
  <2>1. RunsTyped' BY <1>0, <1>1, <1>11, GotoTyped DEF CompleteFails, TransportError
  <2>2. session' \in Jobs \cup {None} /\ delivered' \subseteq Jobs
    BY <1>0, <1>1, <1>11 DEF CompleteFails, Merge
  <2>3. troubles' \in 0 .. MaxTroubles BY <1>0, <1>11, TroubleTyped DEF CompleteFails
  <2>4. QED BY <1>0, <1>11, <2>1, <2>2, <2>3, KeptTyped DEF CompleteFails
<1>12. CASE Discard(s) BY <1>0, <1>1, <1>12, GotoTyped, KeptTyped DEF Discard
<1>13. QED BY <1>2, <1>3, <1>4, <1>5, <1>6, <1>7, <1>8, <1>9, <1>10, <1>11, <1>12

\* Those that write the job, the copy or the journal.
LEMMA JobStepTyped ==
  ASSUME TypeInv, NEW s \in Slots,
         \/ Normalize(s) \/ SessionMissing(s) \/ Collect(s)
         \/ PullMore(s) \/ PullDone(s) \/ PullFails(s) \/ PullFatal(s) \/ Drop(s)
         \/ Turn(s) \/ PutAcknowledged(s) \/ Remove(s) \/ Finish(s) \/ Write(s)
  PROVE  TypeInv'
<1> USE DEF Labels, Errors, Phases
<1>0. /\ RunsTyped /\ TypeOK /\ job \in [Jobs -> JobState]
      /\ copy \in 0 .. Size /\ session \in Jobs \cup {None} /\ delivered \subseteq Jobs
      /\ troubles \in 0 .. MaxTroubles
  BY DEF TypeInv, TypeOK
<1>1. run[s].at # "idle" => run[s].job \in Jobs BY <1>0 DEF RunsTyped
<1>2. CASE Normalize(s)
  <2>1. /\ Normal(run[s].job) \in Phases /\ Entry[Normal(run[s].job)] \in Labels
        \/ Terminal(job[run[s].job].phase)
    BY <1>1, <1>2, PhasesTyped DEF Normalize, Entry
  <2>2. job' \in [Jobs -> JobState]
    <3>1. CASE UNCHANGED job BY <1>0, <3>1
    <3>2. CASE /\ Normal(run[s].job) \in Phases
               /\ job' = [job EXCEPT ![run[s].job].phase = Normal(run[s].job)]
      <4>1. run[s].job \in Jobs BY <1>1, <1>2 DEF Normalize
      <4> HIDE DEF Phases, Labels, Errors
      <4>2. QED BY <1>0, <3>2, <4>1, JobTyped
    <3>3. QED BY <1>2, <2>1, <3>1, <3>2 DEF Normalize
  <2>3. RunsTyped' BY <1>0, <1>1, <1>2, <2>1, GotoTyped DEF Normalize, ContextError
  <2>4. QED BY <1>0, <1>2, <2>2, <2>3, KeptTyped DEF Normalize
<1>3. CASE SessionMissing(s)
  <2>1. run[s].job \in Jobs /\ Normal(run[s].job) \in Phases
    BY <1>1, <1>3 DEF SessionMissing
  <2>2. job' \in [Jobs -> JobState] BY <1>0, <1>3, <2>1, JobTyped DEF SessionMissing
  <2>3. RunsTyped' BY <1>0, <1>3, <2>1, GotoTyped DEF SessionMissing
  <2>4. QED BY <1>0, <1>3, <2>2, <2>3, TroubleTyped, KeptTyped DEF SessionMissing
<1>4. CASE Collect(s)
  <2>1. job' \in [Jobs -> JobState] BY <1>0, <1>1, <1>4, JobTyped DEF Collect
  <2>2. QED BY <1>0, <1>1, <1>4, <2>1, GotoTyped, KeptTyped DEF Collect
<1>5. CASE PullMore(s)
  <2>0. copy + 1 \in 0 .. Size BY <1>0, <1>5, RunnerConstants DEF PullMore
  <2>1. job' \in [Jobs -> JobState] BY <1>0, <1>1, <1>5, <2>0, JobTyped DEF PullMore
  <2>2. QED BY <1>0, <1>1, <1>5, <2>0, <2>1, GotoTyped, KeptTyped DEF PullMore
<1>6. CASE PullDone(s)
  <2>0. Size \in 0 .. Size BY RunnerConstants
  <2>1. job' \in [Jobs -> JobState] BY <1>0, <1>1, <1>6, <2>0, JobTyped DEF PullDone
  <2>2. QED BY <1>0, <1>1, <1>6, <2>1, GotoTyped, KeptTyped DEF PullDone
<1>7. CASE PullFails(s)
  <2>1. job' \in [Jobs -> JobState] BY <1>0, <1>1, <1>7, JobTyped DEF PullFails
  <2>2. RunsTyped' BY <1>0, <1>1, <1>7, GotoTyped DEF PullFails, ContextError
  <2>3. troubles' \in 0 .. MaxTroubles BY <1>0, <1>7, TroubleTyped DEF PullFails
  <2>4. QED BY <1>0, <1>7, <2>1, <2>2, <2>3, KeptTyped DEF PullFails
<1>8. CASE PullFatal(s)
  <2>1. job' \in [Jobs -> JobState] BY <1>0, <1>1, <1>8, JobTyped DEF PullFatal
  <2>2. CASE FailsSaving(s, "fatal")
    BY <1>0, <1>1, <1>8, <2>1, <2>2, GotoTyped, TroubleTyped, KeptTyped DEF PullFatal
  <2>3. CASE run' = [run EXCEPT ![s].at = "drop", ![s].err = "fatal"]
    <3>1. RunsTyped'
      <4>1. run[s] \in RunState /\ run[s].job \in Jobs
        BY <1>0, <1>1, <1>8 DEF PullFatal, RunsTyped
      <4>2. run' = [run EXCEPT ![s] = [run[s] EXCEPT !.at = "drop", !.err = "fatal"]] BY <2>3
      <4>3. [run[s] EXCEPT !.at = "drop", !.err = "fatal"] \in RunState
        <5>1. "drop" \in Labels /\ "fatal" \in Errors OBVIOUS
        <5> HIDE DEF Phases, Labels, Errors
        <5>2. QED BY <4>1, <5>1, RecordTyped
      <4>4. [run[s] EXCEPT !.at = "drop", !.err = "fatal"].job = run[s].job BY <4>1 DEF RunState
      <4>5. QED BY <1>0, <4>1, <4>2, <4>3, <4>4, StepTyped
    <3>2. QED BY <1>0, <1>8, <2>1, <3>1, TroubleTyped, KeptTyped DEF PullFatal
  <2>4. QED BY <1>8, <2>2, <2>3 DEF PullFatal
<1>9. CASE Drop(s)
  <2>0. 0 \in 0 .. Size /\ {} \in SUBSET Parts BY RunnerConstants
  <2>1. job' \in [Jobs -> JobState]
    <3>1. run[s].job \in Jobs BY <1>1, <1>9 DEF Drop
    <3>2. job' = [job EXCEPT ![run[s].job].pulled = 0, ![run[s].job].uploaded = {}]
      BY <1>9 DEF Drop
    <3> HIDE DEF Phases, Labels, Errors
    <3>3. QED BY <1>0, <2>0, <3>1, <3>2, JobTyped
  <2>2. QED BY <1>0, <1>1, <1>9, <2>0, <2>1, GotoTyped, KeptTyped DEF Drop
<1>10. CASE Turn(s)
  <2>1. job' \in [Jobs -> JobState] BY <1>0, <1>1, <1>10, JobTyped DEF Turn
  <2>2. QED BY <1>0, <1>1, <1>10, <2>1, GotoTyped, KeptTyped DEF Turn
<1>11. CASE PutAcknowledged(s)
  <2>1. run[s].job \in Jobs /\ job[run[s].job].uploaded \cup {run[s].part} \in SUBSET Parts
    BY <1>0, <1>1, <1>11 DEF PutAcknowledged, RunsTyped, RunState, JobState
  <2>2. job' \in [Jobs -> JobState]
    <3> DEFINE S == job[run[s].job].uploaded \cup {run[s].part}
    <3>1. job' = [job EXCEPT ![run[s].job].uploaded = S] BY <1>11 DEF PutAcknowledged
    <3>2. S \in SUBSET Parts BY <2>1
    <3> HIDE DEF S
    <3>3. QED BY <1>0, <2>1, <3>1, <3>2, JobTyped
  <2>3. RunsTyped'
    <3>1. 1 \in Parts BY RunnerConstants DEF Parts
    <3>2. QED BY <1>0, <1>11, <2>1, <3>1, PartTyped DEF PutAcknowledged
  <2>4. QED BY <1>0, <1>11, <2>1, <2>2, <2>3, KeptTyped DEF PutAcknowledged
<1>12. CASE Remove(s)
  <2>0. 0 \in 0 .. Size BY RunnerConstants
  <2>1. QED BY <1>0, <1>1, <1>12, <2>0, GotoTyped, KeptTyped DEF Remove
<1>13. CASE Finish(s)
  <2>1. job' \in [Jobs -> JobState]
    <3>1. CASE UNCHANGED job BY <1>0, <3>1
    <3>2. CASE job' = [job EXCEPT ![run[s].job].phase = "done"]
      BY <1>0, <1>1, <1>13, <3>2, JobTyped DEF Finish
    <3>3. QED BY <1>13, <3>1, <3>2 DEF Finish
  <2>2. QED BY <1>0, <1>1, <1>13, <2>1, GotoTyped, KeptTyped DEF Finish
<1>14. CASE Write(s)
  <2>1. RunsTyped'
    <3> DEFINE r == [run[s] EXCEPT !.at = run[s].then, !.then = "idle"]
    <3>1. run[s] \in RunState /\ run[s].job \in Jobs BY <1>0, <1>1, <1>14 DEF Write, RunsTyped
    <3>2. run[s].then \in Labels BY <3>1 DEF RunState
    <3>3. r \in RunState BY <3>1, <3>2 DEF RunState
    <3>4. r.job = run[s].job BY <3>1 DEF RunState
    <3>5. run' = [run EXCEPT ![s] = r] BY <1>14 DEF Write
    <3> HIDE DEF r
    <3>6. QED BY <1>0, <3>1, <3>3, <3>4, <3>5, StepTyped
  <2>2. QED BY <1>0, <1>1, <1>14, <2>1, KeptTyped DEF Write
<1>15. QED
  BY <1>2, <1>3, <1>4, <1>5, <1>6, <1>7, <1>8, <1>9, <1>10, <1>11, <1>12, <1>13, <1>14

\* The rest of runJob(), the watchdog and the computer.
LEMMA OutcomeTyped ==
  ASSUME TypeInv, NEW s \in Slots, run[s].at = "settle"
  PROVE  Attempts(s) \in Nat /\ Outcome(s) \in Phases /\ Reauth(s) \in BOOLEAN
<1>1. run[s].job \in Jobs BY DEF TypeInv, RunsTyped
<1>2. job[run[s].job] \in JobState BY <1>1 DEF TypeInv, TypeOK
<1>3. Attempts(s) \in Nat BY <1>2 DEF Attempts, JobState
<1>4. Outcome(s) \in Phases BY <1>2 DEF Outcome, JobState, Phases
<1>5. QED BY <1>3, <1>4 DEF Reauth

\* The scheduler, and the ends of a round.
LEMMA RunnerTyped ==
  ASSUME TypeInv, NEW s \in Slots,
         Pop(s) \/ Register(s) \/ Settle(s) \/ Release(s) \/ Interrupt(s)
  PROVE  TypeInv'
<1>0. /\ RunsTyped /\ TypeOK /\ job \in [Jobs -> JobState] /\ run[s] \in RunState
      /\ run \in [Slots -> RunState]
  BY DEF TypeInv, TypeOK, RunsTyped
<1>1. run[s].at # "idle" => run[s].job \in Jobs BY <1>0 DEF RunsTyped
<1>2. CASE Pop(s)
  <2>1. Head(queue) \in Jobs /\ Tail(queue) \in Seq(Jobs) BY <1>0, <1>2 DEF Pop, TypeOK
  <2> DEFINE r == [run[s] EXCEPT !.at = "register", !.job = Head(queue)]
  <2>2. r \in RunState /\ r.job \in Jobs BY <1>0, <2>1 DEF RunState, Labels
  <2>3. run' = [run EXCEPT ![s] = r] BY <1>2 DEF Pop
  <2> HIDE DEF r
  <2>4. RunsTyped' BY <1>0, <2>2, <2>3, StepTyped
  <2>5. QED BY <1>2, <2>1, <2>4 DEF Pop, TypeInv, TypeOK, RunsTyped
<1>3. CASE Register(s)
  <2>1. RunsTyped'
    <3>1. CASE run' = [run EXCEPT ![s] = Idle] BY <1>0, <3>1, IdleTyped, StepTyped DEF Idle
    <3>2. CASE run' = [run EXCEPT ![s].at = "normalize",
                                  ![s].uploaded = Cardinality(job[run[s].job].uploaded),
                                  ![s].pulled = job[run[s].job].pulled]
      <4>1. job[run[s].job] \in JobState BY <1>0, <1>1, <1>3 DEF Register
      <4>2. Cardinality(job[run[s].job].uploaded) \in 0 .. PartCount
        BY <4>1, PartsCounted DEF JobState
      <4>3. job[run[s].job].pulled \in 0 .. Size BY <4>1 DEF JobState
      <4> DEFINE r == [run[s] EXCEPT !.at = "normalize",
                                     !.uploaded = Cardinality(job[run[s].job].uploaded),
                                     !.pulled = job[run[s].job].pulled]
      <4>4. r \in RunState /\ r.job = run[s].job BY <1>0, <4>2, <4>3 DEF RunState, Labels
      <4>5. run' = [run EXCEPT ![s] = r] BY <3>2
      <4> HIDE DEF r
      <4>6. QED BY <1>0, <1>1, <1>3, <4>4, <4>5, StepTyped DEF Register
    <3>3. QED BY <1>3, <3>1, <3>2 DEF Register
  <2>2. QED BY <1>0, <1>3, <2>1 DEF Register, TypeInv, TypeOK, RunsTyped
<1>4. CASE Settle(s)
  <2>0. /\ run[s].job \in Jobs
        /\ Attempts(s) \in Nat /\ Outcome(s) \in Phases /\ Reauth(s) \in BOOLEAN
    BY <1>1, <1>4, OutcomeTyped DEF Settle
  <2>1. job' \in [Jobs -> JobState] BY <1>0, <1>4, <2>0, JobTyped DEF Settle
  <2>2. RunsTyped'
    <3> DEFINE label == IF run[s].err # "none" /\ ~Reauth(s) /\ Attempts(s) < Budget(run[s].err)
                        THEN "requeue" ELSE "release"
               at    == IF OwnerIntact(run[s].job) THEN "write" ELSE label
               r     == [Idle EXCEPT !.job = run[s].job, !.then = label, !.at = at]
    <3>1. run' = [run EXCEPT ![s] = r] BY <1>4 DEF Settle
    <3>2. label \in Labels /\ at \in Labels BY DEF Labels
    <3> HIDE DEF label, at
    <3>3. r \in RunState /\ r.job \in Jobs BY <2>0, <3>2, IdleTyped DEF RunState
    <3> HIDE DEF r
    <3>4. QED BY <1>0, <3>1, <3>3, StepTyped
  <2>3. /\ copy \in 0 .. Size /\ session \in Jobs \cup {None} /\ delivered \subseteq Jobs
        /\ troubles \in 0 .. MaxTroubles
    BY <1>0 DEF TypeOK
  <2>4. QED BY <1>4, <2>1, <2>2, <2>3, KeptTyped DEF Settle
<1>5. CASE Release(s)
  <2>1. RunsTyped' BY <1>0, <1>5, IdleTyped, StepTyped DEF Release, Idle
  <2>2. stale' \in [Jobs -> [job : Jobs \cup {None}, func : Slots \cup {None}]]
    <3>1. stale \in [Jobs -> [job : Jobs \cup {None}, func : Slots \cup {None}]]
      BY <1>0 DEF TypeOK
    <3>2. \A j \in Jobs : [stale[j] EXCEPT !.func = None] \in [job : Jobs \cup {None},
                                                             func : Slots \cup {None}]
      BY <3>1
    <3>3. QED BY <1>5, <3>1, <3>2 DEF Release
  <2>3. backoff' \subseteq Jobs BY <1>0, <1>1, <1>5 DEF Release, TypeOK
  <2>4. QED BY <1>0, <1>5, <2>1, <2>2, <2>3 DEF Release, TypeInv, TypeOK, RunsTyped
<1>6. CASE Interrupt(s)
  <2>1. RunsTyped'
    <3>1. PICK r \in {[run[s] EXCEPT !.ctx = "canceled", !.stalled = TRUE],
                      [run[s] EXCEPT !.ctx = "expired"]} :
            run' = [run EXCEPT ![s] = r]
      BY <1>6 DEF Interrupt
    <3>2. r \in RunState /\ r.job = run[s].job BY <1>0 DEF RunState
    <3>3. QED BY <1>0, <1>1, <1>6, <3>1, <3>2, StepTyped DEF Interrupt
  <2>2. QED BY <1>0, <1>6, <2>1, TroubleTyped DEF Interrupt, TypeInv, TypeOK, RunsTyped
<1>7. QED BY <1>2, <1>3, <1>4, <1>5, <1>6

\* What happens to the computer.
LEMMA ComputerTyped ==
  ASSUME TypeInv, Vanish \/ Crash
  PROVE  TypeInv'
<1> USE DEF TypeInv, TypeOK
<1>1. CASE Vanish BY <1>1, RunnerConstants, TroubleTyped DEF Vanish, RunsTyped
<1>2. CASE Crash
  <2> DEFINE recovered == {j \in Jobs : journal.job = j /\ ~Terminal(journal.data.phase)}
  <2>0. journal.data \in JobState OBVIOUS
  <2>1. job' \in [Jobs -> JobState] BY <1>2, <2>0, FreshTyped DEF Crash
  <2>2. RunsTyped' BY <1>2, IdleTyped DEF Crash, RunsTyped, Idle
  <2>3. recovered # {} => journal.job \in Jobs OBVIOUS
  <2>4. current' \in Jobs \cup {None} /\ queue' \in Seq(Jobs) BY <1>2, <2>3 DEF Crash
  <2>5. submit' \in [Jobs -> {"new", "signed", "stop", "save", "accepted", "lost"}]
    BY <1>2 DEF Crash
  <2>6. user' \in UserState /\ user'.at \in {"none", "done"}
    BY <1>2 DEF Crash, UserGoes, UserState
  <2>7. stale' \in [Jobs -> [job : Jobs \cup {None}, func : Slots \cup {None}]]
    BY <1>2 DEF Crash, NoOne
  <2>8. cancels' = None /\ backoff' = {} /\ troubles' \in 0 .. MaxTroubles
        /\ UNCHANGED <<diskVars, platformVars, gone>> /\ doubled' \subseteq Jobs /\ torn' \subseteq Jobs
    BY <1>2, TroubleTyped DEF Crash
  <2>9. QED BY <2>1, <2>2, <2>4, <2>5, <2>6, <2>7, <2>8 DEF RunsTyped
<1>3. QED BY <1>1, <1>2

\* TypeInv is inductive.
LEMMA NextTyped == TypeInv /\ [Next]_vars => TypeInv'
<1> SUFFICES ASSUME TypeInv, [Next]_vars PROVE TypeInv' OBVIOUS
<1>1. CASE UNCHANGED vars BY <1>1 DEF TypeInv, TypeOK, RunsTyped
<1>2. ASSUME NEW s \in Slots, Run(s) PROVE TypeInv'
  BY <1>2, PlainStepTyped, JobStepTyped, RunnerTyped DEF Run
<1>3. QED BY <1>1, <1>2, ClientTyped, RunnerTyped, ComputerTyped DEF Next, Bridge

\* Every job, goroutine, journal record and queue entry keeps its type, for any number of
\* deliveries, slots and parts: what a crash recovers (start) is a job that was written.
THEOREM TypeCorrect == Spec => []TypeOK
<1>1. Spec => []TypeInv BY InitTyped, NextTyped, PTL DEF Spec
<1>2. TypeInv => TypeOK BY DEF TypeInv
<1>3. QED BY <1>1, <1>2, PTL

--------------------------------------------------------------------------------
(***************************************************************************)
(* A delivery that is done                                                 *)
(***************************************************************************)
\* Past the platform's answer to complete().
Certain(s) ==
  \/ run[s].at \in {"discard", "remove", "finish"}
  \/ run[s].at = "write" /\ run[s].then \in {"discard", "remove", "finish"}

DoneInv ==
  /\ DoneIsDelivered
  /\ \A s \in Slots : Certain(s) => run[s].job \in delivered

\* Nothing is done at first.
LEMMA DoneInit == Init => DoneInv
BY RunnerConstants DEF Init, DoneInv, DoneIsDelivered, Certain, Fresh, Idle

\* Writing a job whose end is that of a delivery, or no end.
LEMMA DoneWritten ==
  ASSUME TypeInv, DoneInv, NEW j \in Jobs, delivered \subseteq delivered',
         \A i \in Jobs : job'[i].phase = "done" => i \in delivered',
         journal' = journal \/ journal' = [job |-> j, data |-> job'[j]],
         \A s \in Slots : Certain(s)' => run'[s].job \in delivered'
  PROVE  DoneInv'
BY DEF DoneInv, DoneIsDelivered

\* Submit handlers, the backoff and the user make no job done.
LEMMA DoneClient ==
  ASSUME TypeInv, DoneInv,
         (\E j \in Jobs : Sign(j) \/ Submit(j) \/ Wake(j)) \/ CancelStop \/ Resume \/ User
  PROVE  DoneInv'
<1>0. job \in [Jobs -> JobState] /\ run \in [Slots -> RunState] BY DEF TypeInv, TypeOK
<1>1. ASSUME NEW f, Cancel(f)
      PROVE  \A s \in Slots : run'[s].at = run[s].at /\ run'[s].then = run[s].then
                              /\ run'[s].job = run[s].job
  BY <1>0, <1>1 DEF Cancel, RunState
<1> USE DEF DoneInv, DoneIsDelivered, Certain
<1>2. ASSUME NEW j \in Jobs, Sign(j) \/ SubmitSave(j) \/ Wake(j) PROVE DoneInv'
  BY <1>0, <1>2 DEF Sign, SubmitSave, Wake
<1>3. ASSUME NEW j \in Jobs, SubmitSwitch(j) PROVE DoneInv'
  <2>1. \A i \in Jobs : job'[i].phase = "done" => job[i].phase = "done"
    <3>1. CASE UNCHANGED job BY <3>1
    <3>2. CASE job' = [job EXCEPT ![current].phase = "failed", ![current].superseded = TRUE]
      BY <1>0, <3>2 DEF JobState
    <3>3. QED BY <1>3, <3>1, <3>2 DEF SubmitSwitch
  <2>2. QED BY <1>3, <2>1 DEF SubmitSwitch
<1>4. ASSUME NEW j \in Jobs, SubmitStop(j) PROVE DoneInv'
  BY <1>1, <1>4 DEF SubmitStop
<1>5. CASE ResumeEnqueue BY <1>5 DEF ResumeEnqueue
<1>6. CASE CancelStop BY <1>1, <1>6 DEF CancelStop
<1>7. CASE CancelFail BY <1>0, <1>7 DEF CancelFail, JobState, TypeInv
<1>8. CASE Resume BY <1>0, <1>8 DEF Resume, JobState, TypeInv, TypeOK
<1>9. CASE UserWrite BY <1>0, <1>9 DEF UserWrite, TypeInv
<1>10. QED BY <1>2, <1>3, <1>4, <1>5, <1>6, <1>7, <1>8, <1>9 DEF Submit, User

\* Where a step takes a goroutine.
LEMMA Moved ==
  ASSUME RunsTyped, NEW s \in Slots, NEW label \in Labels \ {"write"}, NEW e \in Errors,
         Goto(s, label) \/ Saving(s, label) \/ Fails(s, e) \/ FailsSaving(s, e)
  PROVE  /\ \A t \in Slots \ {s} : run'[t] = run[t]
         /\ run'[s].job = run[s].job
         /\ Certain(s)' => label \in {"discard", "remove", "finish"}
<1>0. run \in [Slots -> RunState] /\ run[s] \in RunState BY DEF RunsTyped
<1> USE DEF Certain
<1>1. CASE Goto(s, label) BY <1>0, <1>1 DEF Goto, RunState
<1>2. CASE Saving(s, label)
  <2>1. PICK l \in {"write", label} : run' = [run EXCEPT ![s].at = l, ![s].then = label]
    BY <1>2 DEF Saving
  <2>2. CASE l = "write" BY <1>0, <2>1, <2>2 DEF RunState
  <2>3. CASE l = label BY <1>0, <2>1, <2>3 DEF RunState
  <2>4. QED BY <2>2, <2>3
<1>3. CASE Fails(s, e) BY <1>0, <1>3 DEF Fails, RunState
<1>4. CASE FailsSaving(s, e)
  <2>1. PICK l \in {"write", "settle"} :
          run' = [run EXCEPT ![s].at = l, ![s].then = "settle", ![s].err = e]
    BY <1>4 DEF FailsSaving
  <2>2. QED BY <1>0, <2>1 DEF RunState
<1>5. QED BY <1>1, <1>2, <1>3, <1>4

\* A step of advance() that ends no job.
LEMMA DoneStep ==
  ASSUME TypeInv, DoneInv, NEW s \in Slots, run[s].at # "idle",
         \/ Normalize(s) \/ SessionMissing(s)
         \/ Collect(s) \/ CollectFails(s) \/ CollectStops(s)
         \/ PullMore(s) \/ PullDone(s) \/ PullFails(s) \/ PullFatal(s) \/ Drop(s)
         \/ UploadMissing(s) \/ UploadPart(s) \/ UploadStops(s) \/ UploadDone(s) \/ Turn(s)
         \/ PutAcknowledged(s) \/ PutFails(s) \/ Complete(s) \/ CompleteFails(s)
  PROVE  DoneInv'
<1> USE DEF Labels, Errors
<1>0. /\ job \in [Jobs -> JobState] /\ RunsTyped /\ run \in [Slots -> RunState]
      /\ run[s].job \in Jobs /\ run[s] \in RunState
  BY DEF TypeInv, TypeOK, RunsTyped
<1>1. delivered \subseteq delivered' 
  BY DEF Normalize, SessionMissing, Collect, CollectFails, CollectStops, PullMore, PullDone,
         PullFails, PullFatal, Drop, UploadMissing, UploadPart, UploadStops, UploadDone, Turn,
         PutAcknowledged, PutFails, Complete, CompleteFails, Merge
<1>2. \A i \in Jobs : job'[i].phase = "done" => job[i].phase = "done"
  <2>1. CASE UNCHANGED job BY <2>1
  <2>2. CASE Normalize(s)
    BY <1>0, <2>1, <2>2, PhasesTyped DEF Normalize, JobState
  <2>3. CASE SessionMissing(s) BY <1>0, <2>3 DEF SessionMissing, JobState
  <2>4. CASE Collect(s) BY <1>0, <2>4 DEF Collect, JobState
  <2>5. CASE PullMore(s) \/ PullDone(s) BY <1>0, <2>5 DEF PullMore, PullDone, JobState
  <2>6. CASE PullFails(s) \/ PullFatal(s) BY <1>0, <2>6 DEF PullFails, PullFatal, JobState
  <2>7. CASE Drop(s) BY <1>0, <2>7 DEF Drop, JobState
  <2>8. CASE Turn(s) BY <1>0, <2>8 DEF Turn, JobState
  <2>9. CASE PutAcknowledged(s) BY <1>0, <2>9 DEF PutAcknowledged, JobState
  <2>10. QED
    BY <2>1, <2>2, <2>3, <2>4, <2>5, <2>6, <2>7, <2>8, <2>9
    DEF CollectFails, CollectStops, UploadMissing, UploadPart, UploadStops, UploadDone,
        PutFails, Complete, CompleteFails
<1>3. journal' = journal \/ journal' = [job |-> run[s].job, data |-> job'[run[s].job]]
  BY DEF Normalize, SessionMissing, Collect, CollectFails, CollectStops, PullMore, PullDone,
         PullFails, PullFatal, Drop, UploadMissing, UploadPart, UploadStops, UploadDone, Turn,
         PutAcknowledged, PutFails, Complete, CompleteFails
<1>4. /\ \A t \in Slots \ {s} : run'[t] = run[t]
      /\ ~Certain(s)'
  <2>1. CASE Normalize(s)
    <3>1. CASE Goto(s, Entry[Normal(run[s].job)]) /\ ~Terminal(job[run[s].job].phase)
      <4>1. Entry[Normal(run[s].job)] \in Labels \ {"write", "discard", "remove", "finish"}
        BY <1>0, <3>1, PhasesTyped DEF Entry
      <4>2. QED BY <1>0, <3>1, <4>1, Moved
    <3>2. QED BY <1>0, <2>1, <3>1, Moved DEF Normalize, ContextError
  <2>2. CASE UploadPart(s)
    <3>1. PICK n \in Parts : run' = [run EXCEPT ![s].at = "put", ![s].part = n]
      BY <2>2 DEF UploadPart
    <3>2. (\A t \in Slots \ {s} : run'[t] = run[t]) /\ run'[s].at = "put"
      BY <1>0, <3>1 DEF RunState
    <3>3. QED BY <3>2 DEF Certain
  <2>3. CASE PutAcknowledged(s) BY <1>0, <2>3 DEF PutAcknowledged, Certain, RunState
  <2>4. CASE PullFatal(s)
    <3>1. CASE run' = [run EXCEPT ![s].at = "drop", ![s].err = "fatal"]
      BY <1>0, <3>1 DEF Certain, RunState
    <3>2. QED BY <1>0, <2>4, <3>1, Moved DEF PullFatal
  <2>5. CASE SessionMissing(s) \/ Collect(s) \/ CollectFails(s)
    BY <1>0, <2>5, Moved DEF SessionMissing, Collect, CollectFails
  <2>6. CASE CollectStops(s) \/ UploadStops(s) \/ Complete(s)
    BY <1>0, <2>6, Moved DEF CollectStops, UploadStops, Complete, ContextError
  <2>7. CASE PullMore(s) \/ PullDone(s) \/ PullFails(s) \/ Drop(s)
    BY <1>0, <2>7, Moved DEF PullMore, PullDone, PullFails, Drop, ContextError
  <2>8. CASE UploadMissing(s) \/ UploadDone(s) \/ Turn(s)
    BY <1>0, <2>8, Moved DEF UploadMissing, UploadDone, Turn
  <2>9. CASE PutFails(s) \/ CompleteFails(s)
    BY <1>0, <2>9, Moved DEF PutFails, CompleteFails, TransportError
  <2>10. QED BY <2>1, <2>2, <2>3, <2>4, <2>5, <2>6, <2>7, <2>8, <2>9
<1>5. \A t \in Slots : Certain(t)' => run'[t].job \in delivered'
  BY <1>1, <1>4 DEF DoneInv, Certain
<1>6. QED BY <1>0, <1>1, <1>2, <1>3, <1>5, DoneWritten DEF DoneInv, DoneIsDelivered

\* From the platform's answer to the end of runJob().
LEMMA DoneEnd ==
  ASSUME TypeInv, DoneInv, NEW s \in Slots, run[s].at # "idle",
         \/ CompleteAcknowledged(s) \/ Discard(s) \/ Remove(s) \/ Finish(s)
         \/ Settle(s) \/ Write(s)
  PROVE  DoneInv'
<1> USE DEF Labels, Errors
<1>0. /\ job \in [Jobs -> JobState] /\ RunsTyped /\ run \in [Slots -> RunState]
      /\ run[s].job \in Jobs /\ run[s] \in RunState
  BY DEF TypeInv, TypeOK, RunsTyped
<1>1. CASE CompleteAcknowledged(s)
  <2>1. delivered' = delivered \cup {run[s].job} /\ UNCHANGED <<job, journal>>
    BY <1>1 DEF CompleteAcknowledged, Merge
  <2>2. (\A t \in Slots \ {s} : run'[t] = run[t]) /\ run'[s].job = run[s].job
    BY <1>0, <1>1, Moved DEF CompleteAcknowledged
  <2>3. \A t \in Slots : Certain(t)' => run'[t].job \in delivered'
    BY <2>1, <2>2 DEF DoneInv, Certain
  <2>4. QED BY <1>0, <2>1, <2>3, DoneWritten DEF DoneInv, DoneIsDelivered
<1>2. CASE Discard(s) \/ Remove(s)
  <2>1. UNCHANGED <<job, journal, delivered>> BY <1>2 DEF Discard, Remove
  <2>2. (\A t \in Slots \ {s} : run'[t] = run[t]) /\ run'[s].job = run[s].job
    BY <1>0, <1>2, Moved DEF Discard, Remove
  <2>3. Certain(s) BY <1>2 DEF Discard, Remove, Certain
  <2>4. \A t \in Slots : Certain(t)' => run'[t].job \in delivered'
    BY <2>1, <2>2, <2>3 DEF DoneInv, Certain
  <2>5. QED BY <1>0, <2>1, <2>4, DoneWritten DEF DoneInv, DoneIsDelivered
<1>3. CASE Finish(s)
  <2>1. run[s].job \in delivered BY <1>3 DEF Finish, DoneInv, Certain
  <2>2. UNCHANGED <<journal, delivered>> BY <1>3 DEF Finish
  <2>3. \A i \in Jobs : job'[i].phase = "done" => i \in delivered'
    <3>1. CASE UNCHANGED job BY <2>2, <3>1 DEF DoneInv, DoneIsDelivered
    <3>2. CASE job' = [job EXCEPT ![run[s].job].phase = "done"]
      BY <1>0, <2>1, <2>2, <3>2 DEF DoneInv, DoneIsDelivered, JobState
    <3>3. QED BY <1>3, <3>1, <3>2 DEF Finish
  <2>4. (\A t \in Slots \ {s} : run'[t] = run[t]) /\ run'[s].job = run[s].job
    BY <1>0, <1>3, Moved DEF Finish
  <2>5. \A t \in Slots : Certain(t)' => run'[t].job \in delivered'
    BY <2>1, <2>2, <2>4 DEF DoneInv, Certain
  <2>6. QED BY <1>0, <2>2, <2>3, <2>5, DoneWritten
<1>4. CASE Settle(s)
  <2>1. UNCHANGED <<journal, delivered>> BY <1>4 DEF Settle
  <2>2. Outcome(s) = "done" => job[run[s].job].phase = "done" BY DEF Outcome
  <2>3. \A i \in Jobs : job'[i].phase = "done" => job[i].phase = "done"
    <3> DEFINE out == Outcome(s)
               a   == Attempts(s)
               b   == Reauth(s)
    <3>1. job' = [job EXCEPT ![run[s].job].attempt = a, ![run[s].job].phase = out,
                             ![run[s].job].needs_reauth = b]
      BY <1>4 DEF Settle
    <3>2. out = "done" => job[run[s].job].phase = "done" BY <2>2
    <3> HIDE DEF out, a, b
    <3>3. QED BY <1>0, <3>1, <3>2 DEF JobState
  <2>4. \A t \in Slots : Certain(t)' => run'[t].job \in delivered'
    <3> DEFINE label == IF run[s].err # "none" /\ ~Reauth(s) /\ Attempts(s) < Budget(run[s].err)
                        THEN "requeue" ELSE "release"
               at    == IF OwnerIntact(run[s].job) THEN "write" ELSE label
               r     == [Idle EXCEPT !.job = run[s].job, !.then = label, !.at = at]
    <3>1. run' = [run EXCEPT ![s] = r] BY <1>4 DEF Settle
    <3>2. label \in {"requeue", "release"} /\ at \in {"write", "requeue", "release"} OBVIOUS
    <3> HIDE DEF label, at
    <3>3. r.at = at /\ r.then = label BY IdleTyped DEF RunState
    <3> HIDE DEF r
    <3>4. ~Certain(s)' BY <1>0, <3>1, <3>2, <3>3 DEF Certain
    <3>5. \A t \in Slots \ {s} : run'[t] = run[t] BY <1>0, <3>1
    <3>6. QED BY <2>1, <3>4, <3>5 DEF DoneInv, Certain
  <2>5. QED BY <1>0, <2>1, <2>3, <2>4, DoneWritten DEF DoneInv, DoneIsDelivered
<1>5. CASE Write(s)
  <2>1. UNCHANGED <<job, delivered>> /\ journal' = [job |-> run[s].job, data |-> job'[run[s].job]]
    BY <1>5 DEF Write
  <2>2. /\ \A t \in Slots \ {s} : run'[t] = run[t]
        /\ run'[s].job = run[s].job /\ run'[s].at = run[s].then /\ run'[s].then = "idle"
    BY <1>0, <1>5 DEF Write, RunState
  <2>3. \A t \in Slots : Certain(t)' => run'[t].job \in delivered'
    <3>1. Certain(s)' => Certain(s) BY <1>5, <2>2 DEF Certain, Write
    <3>2. QED BY <2>1, <2>2, <3>1 DEF DoneInv, Certain
  <2>4. QED BY <1>0, <2>1, <2>3, DoneWritten DEF DoneInv, DoneIsDelivered
<1>6. QED BY <1>1, <1>2, <1>3, <1>4, <1>5

\* The scheduler, the watchdog and the computer.
LEMMA DoneRest ==
  ASSUME TypeInv, DoneInv,
         \/ \E s \in Slots : Pop(s) \/ Register(s) \/ Release(s) \/ Interrupt(s)
         \/ Vanish \/ Crash
  PROVE  DoneInv'
<1>0. job \in [Jobs -> JobState] /\ run \in [Slots -> RunState] BY DEF TypeInv, TypeOK
<1>1. ASSUME NEW s \in Slots, Pop(s) \/ Register(s) \/ Release(s) \/ Interrupt(s)
      PROVE  DoneInv'
  <2>1. UNCHANGED <<job, journal, delivered>> BY <1>1 DEF Pop, Register, Release, Interrupt
  <2>2. \A t \in Slots : Certain(t)' => Certain(t) /\ run'[t].job = run[t].job
    <3>1. CASE Pop(s) BY <1>0, <3>1 DEF Pop, Certain, RunState
    <3>2. CASE run' = [run EXCEPT ![s] = Idle] BY <1>0, <3>2 DEF Idle, Certain
    <3>3. CASE Register(s)
      <4>1. CASE run' = [run EXCEPT ![s].at = "normalize",
                                    ![s].uploaded = Cardinality(job[run[s].job].uploaded),
                                    ![s].pulled = job[run[s].job].pulled]
        BY <1>0, <4>1 DEF Certain, RunState
      <4>2. QED BY <3>2, <3>3, <4>1 DEF Register
    <3>4. CASE Interrupt(s) BY <1>0, <3>4 DEF Interrupt, Certain, RunState
    <3>5. QED BY <1>1, <3>1, <3>2, <3>3, <3>4 DEF Release
  <2>3. QED BY <2>1, <2>2 DEF DoneInv, DoneIsDelivered
<1>2. CASE Vanish BY <1>2 DEF Vanish, DoneInv, DoneIsDelivered, Certain
<1>3. CASE Crash
  <2>1. UNCHANGED <<journal, delivered>> /\ run' = [s \in Slots |-> Idle] BY <1>3 DEF Crash
  <2>2. \A j \in Jobs : job'[j].phase # "done" BY <1>3 DEF Crash, Fresh, Terminal
  <2>3. QED BY <2>1, <2>2 DEF DoneInv, DoneIsDelivered, Certain, Idle
<1>4. QED BY <1>1, <1>2, <1>3

\* DoneInv is inductive.
LEMMA DoneNext == TypeInv /\ DoneInv /\ [Next]_vars => DoneInv'
<1> SUFFICES ASSUME TypeInv, DoneInv, [Next]_vars PROVE DoneInv' OBVIOUS
<1>1. CASE UNCHANGED vars BY <1>1 DEF DoneInv, DoneIsDelivered, Certain
<1>2. ASSUME NEW s \in Slots, Run(s) PROVE DoneInv'
  <2>1. CASE Register(s) \/ Release(s) BY <2>1, DoneRest
  <2>2. CASE run[s].at # "idle" BY <1>2, <2>1, <2>2, DoneStep, DoneEnd DEF Run
  <2>3. QED
    BY <1>2, <2>1, <2>2
    DEF Run, Normalize, SessionMissing, Collect, CollectFails, CollectStops, PullMore, PullDone,
        PullFails, PullFatal, Drop, UploadMissing, UploadPart, UploadStops, UploadDone, Turn,
        PutAcknowledged, PutFails, Complete, CompleteAcknowledged, CompleteFails, Discard, Remove,
        Finish, Settle, Write
<1>3. QED BY <1>1, <1>2, DoneClient, DoneRest DEF Next, Bridge

\* What the panel or the journal calls done, the platform has merged: no failure, retry,
\* restart or newer delivery makes a job done by another way (normalizeDeliveryPhase, advance).
THEOREM DoneWasDelivered == Spec => []DoneIsDelivered
<1>1. Spec => []TypeInv BY InitTyped, NextTyped, PTL DEF Spec
<1>2. Spec => []DoneInv BY <1>1, DoneInit, DoneNext, PTL DEF Spec
<1>3. DoneInv => DoneIsDelivered BY DEF DoneInv
<1>4. QED BY <1>2, <1>3, PTL

--------------------------------------------------------------------------------
(***************************************************************************)
(* The steps of a goroutine                                                *)
(***************************************************************************)
\* A step of s to label, by way of the journal if the job stands for the task.
Follows(s, label) ==
  /\ \A t \in Slots \ {s} : run'[t] = run[t]
  /\ run'[s].job = run[s].job /\ run'[s].ctx = run[s].ctx
  /\ run'[s].at \in {"write", label} /\ Heading(s)' = label
  /\ run'[s].at = "write" => OwnerIntact(run[s].job)

Stages == Labels \ {"idle", "register", "write", "requeue", "release"}

\* Going on is following a label.
LEMMA Went ==
  ASSUME RunsTyped, NEW s \in Slots, NEW label \in Stages, Goto(s, label) \/ Saving(s, label)
  PROVE  Follows(s, label)
<1>0. run \in [Slots -> RunState] /\ run[s] \in RunState /\ label # "write"
  BY DEF RunsTyped, Stages
<1> USE DEF Follows, Heading
<1>1. CASE Goto(s, label) BY <1>0, <1>1 DEF Goto, RunState
<1>2. CASE Saving(s, label)
  <2>1. CASE OwnerIntact(run[s].job)
    <3>1. run' = [run EXCEPT ![s].at = "write", ![s].then = label] BY <1>2, <2>1 DEF Saving
    <3>2. QED BY <1>0, <2>1, <3>1 DEF RunState
  <2>2. CASE ~OwnerIntact(run[s].job)
    <3>1. run' = [run EXCEPT ![s].at = label, ![s].then = label] BY <1>2, <2>2 DEF Saving
    <3>2. QED BY <1>0, <3>1 DEF RunState
  <2>3. QED BY <2>1, <2>2
<1>3. QED BY <1>1, <1>2

\* Failing is following the label "settle".
LEMMA Failed ==
  ASSUME RunsTyped, NEW s \in Slots, NEW e \in Errors, Fails(s, e) \/ FailsSaving(s, e)
  PROVE  Follows(s, "settle")
<1>0. run \in [Slots -> RunState] /\ run[s] \in RunState BY DEF RunsTyped
<1> USE DEF Follows, Heading
<1>1. CASE Fails(s, e) BY <1>0, <1>1 DEF Fails, RunState
<1>2. CASE FailsSaving(s, e)
  <2>1. CASE OwnerIntact(run[s].job)
    <3>1. run' = [run EXCEPT ![s].at = "write", ![s].then = "settle", ![s].err = e]
      BY <1>2, <2>1 DEF FailsSaving
    <3>2. QED BY <1>0, <2>1, <3>1 DEF RunState
  <2>2. CASE ~OwnerIntact(run[s].job)
    <3>1. run' = [run EXCEPT ![s].at = "settle", ![s].then = "settle", ![s].err = e]
      BY <1>2, <2>2 DEF FailsSaving
    <3>2. QED BY <1>0, <3>1 DEF RunState
  <2>3. QED BY <2>1, <2>2
<1>3. QED BY <1>1, <1>2

\* Where the stages of advance() lead.
LEMMA StageFollows ==
  ASSUME TypeInv, NEW s \in Slots, Run(s),
         run[s].at \notin {"register", "settle", "write", "requeue", "release"}
  PROVE  \E label \in Stages : Follows(s, label)
<1> USE DEF Labels, Errors, Stages
<1>0. RunsTyped /\ run \in [Slots -> RunState] /\ run[s] \in RunState
  BY DEF TypeInv, RunsTyped
<1>1. CASE Normalize(s)
  <2>1. CASE Goto(s, Entry[Normal(run[s].job)]) /\ ~Terminal(job[run[s].job].phase)
    <3>1. Entry[Normal(run[s].job)] \in Stages
      BY <1>0, <1>1, <2>1, PhasesTyped DEF Entry, Normalize
    <3>2. QED BY <1>0, <2>1, <3>1, Went
  <2>2. CASE \E e \in Errors : Fails(s, e)
    <3>1. Follows(s, "settle") BY <1>0, <2>2, Failed
    <3>2. QED BY <3>1
  <2>3. QED BY <1>1, <2>1, <2>2 DEF Normalize, ContextError
<1>2. CASE SessionMissing(s) \/ CollectFails(s) \/ CollectStops(s)
  <2>1. \E e \in Errors : Fails(s, e)
    BY <1>2 DEF SessionMissing, CollectFails, CollectStops, ContextError
  <2>2. QED BY <1>0, <2>1, Failed
<1>3. CASE Collect(s) \/ PullMore(s) \/ PullDone(s) \/ Drop(s) \/ Turn(s)
  <2>1. \E label \in Stages : Saving(s, label)
    BY <1>3 DEF Collect, PullMore, PullDone, Drop, Turn
  <2>2. QED BY <1>0, <2>1, Went
<1>4. CASE PullFails(s)
  <2>1. \E e \in Errors : FailsSaving(s, e) BY <1>4 DEF PullFails, ContextError
  <2>2. QED BY <1>0, <2>1, Failed
<1>5. CASE PullFatal(s)
  <2>1. CASE FailsSaving(s, "fatal") BY <1>0, <2>1, Failed
  <2>2. CASE run' = [run EXCEPT ![s].at = "drop", ![s].err = "fatal"]
    <3>1. Follows(s, "drop") BY <1>0, <2>2 DEF Follows, Heading, RunState
    <3>2. QED BY <3>1
  <2>3. QED BY <1>5, <2>1, <2>2 DEF PullFatal
<1>6. CASE UploadMissing(s) \/ PutFails(s)
  <2>1. \E e \in Errors : Fails(s, e) BY <1>6 DEF UploadMissing, PutFails, TransportError
  <2>2. QED BY <1>0, <2>1, Failed
<1>7. CASE UploadPart(s)
  <2>1. PICK n \in Parts : run' = [run EXCEPT ![s].at = "put", ![s].part = n]
    BY <1>7 DEF UploadPart
  <2>2. Follows(s, "put") BY <1>0, <2>1 DEF Follows, Heading, RunState
  <2>3. QED BY <2>2
<1>8. CASE UploadStops(s) \/ Complete(s)
  <2>1. (\E e \in Errors : Fails(s, e)) \/ Goto(s, "complete") \/ Goto(s, "sent")
    BY <1>8 DEF UploadStops, Complete, ContextError
  <2>2. QED BY <1>0, <2>1, Went, Failed
<1>9. CASE UploadDone(s)
  <2>1. Goto(s, "turn") \/ Goto(s, "complete") BY <1>9 DEF UploadDone
  <2>2. QED BY <1>0, <2>1, Went
<1>10. CASE PutAcknowledged(s)
  <2>1. run' = [run EXCEPT ![s].at = "upload", ![s].part = 1] BY <1>10 DEF PutAcknowledged
  <2>2. Follows(s, "upload") BY <1>0, <2>1 DEF Follows, Heading, RunState
  <2>3. QED BY <2>2
<1>11. CASE CompleteAcknowledged(s) \/ Remove(s)
  <2>1. Saving(s, "discard") \/ Saving(s, "finish") BY <1>11 DEF CompleteAcknowledged, Remove
  <2>2. QED BY <1>0, <2>1, Went
<1>12. CASE CompleteFails(s)
  <2>1. \E e \in Errors : Fails(s, e) BY <1>12 DEF CompleteFails, TransportError
  <2>2. QED BY <1>0, <2>1, Failed
<1>13. CASE Discard(s) \/ Finish(s)
  <2>1. Fails(s, "superseded") \/ Goto(s, "remove") \/ Goto(s, "settle")
    BY <1>13 DEF Discard, Finish
  <2>2. QED BY <1>0, <2>1, Went, Failed
<1>14. QED
  BY <1>1, <1>2, <1>3, <1>4, <1>5, <1>6, <1>7, <1>8, <1>9, <1>10, <1>11, <1>12, <1>13
  DEF Run, Register, Settle, Write, Release

\* ... and what they leave alone: of its own job a goroutine writes neither superseded nor
\* needs_reauth, and the journal only as the owner.
LEMMA StageFrame ==
  ASSUME TypeInv, NEW s \in Slots, Run(s),
         run[s].at \notin {"register", "settle", "write", "requeue", "release"}
  PROVE  /\ UNCHANGED <<current, cancels, queue, backoff, clientVars, history>>
         /\ run[s].at # "idle" /\ run[s].job \in Jobs
         /\ \A j \in Jobs \ {run[s].job} : job'[j] = job[j]
         /\ job'[run[s].job].needs_reauth = job[run[s].job].needs_reauth
         /\ job'[run[s].job].superseded = job[run[s].job].superseded
         /\ \/ journal' = journal
            \/ /\ OwnerIntact(run[s].job)
               /\ journal' = [job |-> run[s].job, data |-> job'[run[s].job]]
<1>1. run[s].at # "idle"
  BY DEF Run, Normalize, SessionMissing, Collect, CollectFails, CollectStops, PullMore, PullDone,
         PullFails, PullFatal, Drop, UploadMissing, UploadPart, UploadStops, UploadDone, Turn,
         PutAcknowledged, PutFails, Complete, CompleteAcknowledged, CompleteFails, Discard, Remove,
         Finish, Register, Settle, Write, Release
<1>2. run[s].job \in Jobs /\ job \in [Jobs -> JobState] /\ job[run[s].job] \in JobState
  BY <1>1 DEF TypeInv, TypeOK, RunsTyped
<1>3. UNCHANGED <<current, cancels, queue, backoff, clientVars, history>>
  BY DEF Run, Normalize, SessionMissing, Collect, CollectFails, CollectStops, PullMore, PullDone,
         PullFails, PullFatal, Drop, UploadMissing, UploadPart, UploadStops, UploadDone, Turn,
         PutAcknowledged, PutFails, Complete, CompleteAcknowledged, CompleteFails, Discard, Remove,
         Finish, Register, Settle, Write, Release
<1>4. \/ journal' = journal
      \/ /\ OwnerIntact(run[s].job)
         /\ journal' = [job |-> run[s].job, data |-> job'[run[s].job]]
  BY DEF Run, Normalize, SessionMissing, Collect, CollectFails, CollectStops, PullMore, PullDone,
         PullFails, PullFatal, Drop, UploadMissing, UploadPart, UploadStops, UploadDone, Turn,
         PutAcknowledged, PutFails, Complete, CompleteAcknowledged, CompleteFails, Discard, Remove,
         Finish, Register, Settle, Write, Release
<1> DEFINE Keeps == /\ \A j \in Jobs \ {run[s].job} : job'[j] = job[j]
                    /\ job'[run[s].job].needs_reauth = job[run[s].job].needs_reauth
                    /\ job'[run[s].job].superseded = job[run[s].job].superseded
<1>5. ASSUME NEW p \in Phases, job' = [job EXCEPT ![run[s].job].phase = p] PROVE Keeps
  BY <1>2, <1>5 DEF JobState
<1>6. ASSUME NEW n \in 0 .. Size, job' = [job EXCEPT ![run[s].job].pulled = n] PROVE Keeps
  BY <1>2, <1>6 DEF JobState
<1>7. Keeps
  <2>1. CASE UNCHANGED job BY <2>1
  <2>2. CASE Normalize(s)
    <3>1. CASE job' = [job EXCEPT ![run[s].job].phase = Normal(run[s].job)]
                 /\ ~Terminal(job[run[s].job].phase)
      BY <1>1, <1>5, <3>1, PhasesTyped DEF Phases
    <3>2. QED BY <2>1, <2>2, <3>1 DEF Normalize
  <2>3. CASE SessionMissing(s) BY <1>5, <2>3 DEF SessionMissing, Phases
  <2>4. CASE Collect(s) BY <1>5, <2>4 DEF Collect, Phases
  <2>5. CASE PullMore(s) \/ PullDone(s) BY <1>2, <2>5 DEF PullMore, PullDone, JobState
  <2>6. CASE PullFails(s) \/ PullFatal(s) BY <1>2, <2>6 DEF PullFails, PullFatal, JobState
  <2>7. CASE Drop(s) BY <1>2, <2>7 DEF Drop, JobState
  <2>8. CASE Turn(s) BY <1>5, <2>8 DEF Turn, Phases
  <2>9. CASE PutAcknowledged(s) BY <1>2, <2>9 DEF PutAcknowledged, JobState
  <2>10. CASE Finish(s) BY <1>5, <2>1, <2>10 DEF Finish, Phases
  <2>11. QED
    BY <2>1, <2>2, <2>3, <2>4, <2>5, <2>6, <2>7, <2>8, <2>9, <2>10
    DEF Run, CollectFails, CollectStops, UploadMissing, UploadPart, UploadStops, UploadDone,
        PutFails, Complete, CompleteAcknowledged, CompleteFails, Discard, Remove, Register, Settle,
        Write, Release
<1> HIDE DEF Keeps
<1>8. QED BY <1>1, <1>2, <1>3, <1>4, <1>7 DEF Keeps

\* The end of a round: its outcome is in the job, the run's context is forgotten.
LEMMA SettleStep ==
  ASSUME TypeInv, NEW s \in Slots, Settle(s)
  PROVE  /\ UNCHANGED <<current, cancels, queue, backoff, clientVars, journal, history>>
         /\ run[s].at = "settle" /\ run[s].job \in Jobs
         /\ \A t \in Slots \ {s} : run'[t] = run[t]
         /\ \A j \in Jobs \ {run[s].job} : job'[j] = job[j]
         /\ job'[run[s].job].superseded = job[run[s].job].superseded
         /\ job'[run[s].job].uploaded = job[run[s].job].uploaded
         /\ job'[run[s].job].phase = Outcome(s)
         /\ \E label \in {"requeue", "release"} :
              /\ run'[s].job = run[s].job /\ run'[s].then = label /\ Heading(s)' = label
              /\ run'[s].at \in {"write", label}
              /\ run'[s].at = "write" => OwnerIntact(run[s].job)
              /\ job'[run[s].job].needs_reauth => label = "release"
<1>0. run[s].at = "settle" BY DEF Settle
<1>1. /\ run[s].job \in Jobs /\ job \in [Jobs -> JobState] /\ run \in [Slots -> RunState]
      /\ Attempts(s) \in Nat /\ Outcome(s) \in Phases /\ Reauth(s) \in BOOLEAN
  BY <1>0, OutcomeTyped DEF TypeInv, TypeOK, RunsTyped
<1>2. /\ \A j \in Jobs \ {run[s].job} : job'[j] = job[j]
      /\ job'[run[s].job].superseded = job[run[s].job].superseded
      /\ job'[run[s].job].uploaded = job[run[s].job].uploaded
      /\ job'[run[s].job].phase = Outcome(s)
      /\ job'[run[s].job].needs_reauth = Reauth(s)
  <2> DEFINE out == Outcome(s)
             a   == Attempts(s)
             b   == Reauth(s)
  <2>1. job' = [job EXCEPT ![run[s].job].attempt = a, ![run[s].job].phase = out,
                           ![run[s].job].needs_reauth = b]
    BY DEF Settle
  <2> HIDE DEF out, a, b
  <2>2. /\ \A j \in Jobs \ {run[s].job} : job'[j] = job[j]
        /\ job'[run[s].job].superseded = job[run[s].job].superseded
        /\ job'[run[s].job].uploaded = job[run[s].job].uploaded
        /\ job'[run[s].job].phase = out
        /\ job'[run[s].job].needs_reauth = b
    BY <1>1, <2>1 DEF JobState
  <2>3. QED BY <2>2 DEF out, b
<1> DEFINE label == IF run[s].err # "none" /\ ~Reauth(s) /\ Attempts(s) < Budget(run[s].err)
                    THEN "requeue" ELSE "release"
           at    == IF OwnerIntact(run[s].job) THEN "write" ELSE label
           r     == [Idle EXCEPT !.job = run[s].job, !.then = label, !.at = at]
<1>3. run' = [run EXCEPT ![s] = r] BY DEF Settle
<1>4. label \in {"requeue", "release"} /\ (Reauth(s) => label = "release")
  OBVIOUS
<1>5. at \in {"write", label} /\ (at = "write" => OwnerIntact(run[s].job))
  OBVIOUS
<1> HIDE DEF label, at
<1>6. r.job = run[s].job /\ r.at = at /\ r.then = label BY IdleTyped DEF RunState
<1> HIDE DEF r
<1>7. run'[s] = r /\ \A t \in Slots \ {s} : run'[t] = run[t] BY <1>1, <1>3
<1>8. Heading(s)' = label BY <1>5, <1>6, <1>7 DEF Heading
<1>9. UNCHANGED <<current, cancels, queue, backoff, clientVars, journal, history>> BY DEF Settle
<1>10. QED BY <1>0, <1>1, <1>2, <1>4, <1>5, <1>6, <1>7, <1>8, <1>9

--------------------------------------------------------------------------------
(***************************************************************************)
(* One job, one flow                                                       *)
(***************************************************************************)
\* Where a write of the journal leads.
Directed == \A s \in Slots : run[s].at = "write" => run[s].then \in Stages \cup {"requeue", "release"}

Sent(j) == submit[j] \notin {"new", "signed"}

\* The jobs the bridge knows are those whose delivery was handed to it.
Known ==
  /\ current # None => Sent(current)
  /\ journal.job # None => Sent(journal.job)
  /\ user.at \in {"fail", "write", "enqueue"} => Sent(user.job)
  /\ \A s \in Slots : run[s].at # "idle" => Sent(run[s].job)
  /\ \A j \in Jobs : stale[j].job # None => Sent(stale[j].job)
  /\ \A j \in doubled : Sent(j)

\* As long as no job stands for the task, nothing goes on for it.
Owned ==
  current = None =>
    /\ queue = <<>> /\ backoff = {} /\ user.at \in {"none", "done"}
    /\ \A s \in Slots : run[s].at = "idle"
    /\ \A j \in Jobs : submit[j] \notin {"stop", "save"}

Queued(j)   == \E n \in DOMAIN queue : queue[n] = j
Runs(j)     == \E s \in Slots : Works(s) /\ run[s].job = j
Resuming(j) ==
  user.job = j /\ (user.at = "enqueue" \/ (user.at = "write" /\ user.then = "enqueue"))
Unqueued(j) == submit[j] \in {"new", "signed", "stop", "save"}

\* A job is in one place: not yet queued, in the queue, with a goroutine, asleep, on its
\* way back from a resume, or waiting for credentials.  A job that a user resumed on its way
\* is excepted, until the bridge starts again.
Apart(j) ==
  /\ Unqueued(j) => ~Queued(j) /\ ~Runs(j) /\ j \notin backoff /\ ~Resuming(j) /\ ~job[j].needs_reauth
  /\ Queued(j) => ~Runs(j) /\ j \notin backoff /\ ~Resuming(j) /\ ~job[j].needs_reauth
  /\ Runs(j) => j \notin backoff /\ ~Resuming(j) /\ ~job[j].needs_reauth
  /\ j \in backoff => ~Resuming(j) /\ ~job[j].needs_reauth
  /\ Resuming(j) => ~job[j].needs_reauth

Distinct == \A m, n \in DOMAIN queue : queue[m] = queue[n] => m = n \/ queue[m] \in doubled
Single   ==
  \A s, t \in Slots :
    Works(s) /\ Works(t) /\ run[s].job = run[t].job => s = t \/ run[s].job \in doubled

OnePlace == Distinct /\ Single /\ \A j \in Jobs \ doubled : Apart(j)

OneInv == Directed /\ Known /\ Owned /\ OnePlace

\* Nobody works at first, and no job is anywhere.
LEMMA OneInit == Init => OneInv
BY DEF Init, OneInv, Directed, Known, Owned, OnePlace, Distinct, Single, Apart, Unqueued, Queued, Runs, Works, Heading,
       Resuming, Idle, NoOne, Fresh

\* Outside the stages a goroutine registers, settles, writes or is released.
LEMMA RunEnds ==
  ASSUME NEW s \in Slots, Run(s),
         run[s].at \in {"register", "settle", "write", "requeue", "release"}
  PROVE  Register(s) \/ Settle(s) \/ Write(s) \/ Release(s)
BY DEF Run, Normalize, SessionMissing, Collect, CollectFails, CollectStops, PullMore, PullDone,
       PullFails, PullFatal, Drop, UploadMissing, UploadPart, UploadStops, UploadDone, Turn,
       PutAcknowledged, PutFails, Complete, CompleteAcknowledged, CompleteFails, Discard, Remove,
       Finish

\* The steps of a goroutine as the other parts see them.
LEMMA RunStep ==
  ASSUME TypeInv, Directed, NEW s \in Slots, Run(s)
  PROVE  /\ UNCHANGED <<current, queue, submit, user, history>>
         /\ run[s].at # "idle" /\ run[s].job \in Jobs
         /\ \A j \in Jobs : stale'[j].job = stale[j].job
         /\ journal'.job \in {journal.job, run[s].job}
         /\ \A t \in Slots \ {s} : run'[t] = run[t]
         /\ run'[s].at # "idle" => run'[s].job = run[s].job
         /\ run'[s].at = "write" => run'[s].then \in Stages \cup {"requeue", "release"}
         /\ \A j \in Jobs \ {run[s].job} : job'[j] = job[j]
<1>0. /\ run \in [Slots -> RunState] /\ run[s] \in RunState /\ job \in [Jobs -> JobState]
      /\ run[s].at # "idle" => run[s].job \in Jobs
      /\ stale \in [Jobs -> [job : Jobs \cup {None}, func : Slots \cup {None}]]
  BY DEF TypeInv, TypeOK, RunsTyped
<1>1. CASE run[s].at \notin {"register", "settle", "write", "requeue", "release"}
  <2>1. PICK label \in Stages : Follows(s, label) BY <1>1, StageFollows
  <2>2. run'[s].at = "write" => run'[s].then = label BY <2>1 DEF Follows, Heading
  <2>3. QED BY <1>1, <2>1, <2>2, StageFrame DEF Follows
<1>2. CASE Register(s)
  <2>1. UNCHANGED <<job, current, queue, submit, user, history, stale, journal>>
        /\ run[s].at = "register"
    BY <1>2 DEF Register
  <2>2. CASE run' = [run EXCEPT ![s] = Idle] BY <1>0, <2>1, <2>2 DEF Idle
  <2>3. CASE run' = [run EXCEPT ![s].at = "normalize",
                                ![s].uploaded = Cardinality(job[run[s].job].uploaded),
                                ![s].pulled = job[run[s].job].pulled]
    BY <1>0, <2>1, <2>3 DEF RunState
  <2>4. QED BY <1>2, <2>2, <2>3 DEF Register
<1>3. CASE Settle(s) BY <1>0, <1>3, SettleStep
<1>4. CASE Write(s)
  <2>1. /\ UNCHANGED <<job, current, queue, submit, user, history, stale>>
        /\ run[s].at = "write" /\ journal'.job = run[s].job
        /\ run' = [run EXCEPT ![s].at = run[s].then, ![s].then = "idle"]
    BY <1>4 DEF Write
  <2>2. run[s].then \notin {"idle", "write"} BY <2>1 DEF Directed, Stages
  <2>3. QED BY <1>0, <2>1, <2>2 DEF RunState
<1>5. CASE Release(s) BY <1>0, <1>5 DEF Release, Idle
<1>6. run[s].at \in {"register", "settle", "write", "requeue", "release"} =>
        Register(s) \/ Settle(s) \/ Write(s) \/ Release(s)
  BY RunEnds
<1>7. QED BY <1>1, <1>2, <1>3, <1>4, <1>5, <1>6

\* What else happens to the goroutines.
Still(t) == run'[t].at = run[t].at /\ run'[t].then = run[t].then /\ run'[t].job = run[t].job

\* A cancelled context moves no goroutine.
LEMMA CancelStill ==
  ASSUME TypeInv, NEW f, Cancel(f)
  PROVE  \A t \in Slots : Still(t)
<1>1. run \in [Slots -> RunState] BY DEF TypeInv, TypeOK
<1>2. QED BY <1>1 DEF Cancel, RunState, Still

\* Nobody but the scheduler, the goroutines and a crash moves a goroutine.
LEMMA OthersStill ==
  ASSUME TypeInv,
         \/ \E j \in Jobs : Sign(j) \/ Submit(j) \/ Wake(j)
         \/ \E s \in Slots : Interrupt(s)
         \/ CancelStop \/ Resume \/ User \/ Vanish
  PROVE  \A t \in Slots : Still(t)
<1>1. CASE UNCHANGED run BY <1>1 DEF Still
<1>2. ASSUME NEW j \in Jobs, SubmitStop(j) PROVE \A t \in Slots : Still(t)
  BY <1>2, CancelStill DEF SubmitStop
<1>3. CASE CancelStop BY <1>3, CancelStill DEF CancelStop
<1>4. ASSUME NEW s \in Slots, Interrupt(s) PROVE \A t \in Slots : Still(t)
  <2>1. run \in [Slots -> RunState] BY DEF TypeInv, TypeOK
  <2>2. QED BY <1>4, <2>1 DEF Interrupt, RunState, Still
<1>5. QED
  BY <1>1, <1>2, <1>3, <1>4
  DEF Sign, Submit, SubmitSwitch, SubmitSave, Wake, Resume, User, CancelFail, UserWrite,
      ResumeEnqueue, Vanish

\* What the scheduler does when it takes a job from the queue.
LEMMA PopStep ==
  ASSUME TypeInv, NEW s \in Slots, Pop(s)
  PROVE  /\ UNCHANGED <<job, current, backoff, submit, stale, user, journal, history>>
         /\ queue # <<>> /\ Head(queue) \in Jobs /\ queue' = Tail(queue)
         /\ run[s].at = "idle"
         /\ \A t \in Slots \ {s} : run'[t] = run[t]
         /\ run'[s].at = "register" /\ run'[s].job = Head(queue) /\ run'[s].ctx = run[s].ctx
<1>1. run \in [Slots -> RunState] /\ queue \in Seq(Jobs) BY DEF TypeInv, TypeOK
<1>2. QED BY <1>1 DEF Pop, RunState

\* A goroutine that writes the journal always knows where it goes on.
LEMMA DirectedNext == TypeInv /\ Directed /\ [Next]_vars => Directed'
<1> SUFFICES ASSUME TypeInv, Directed, [Next]_vars PROVE Directed' OBVIOUS
<1> USE DEF Directed
<1>1. CASE UNCHANGED vars BY <1>1
<1>2. ASSUME NEW s \in Slots, Run(s) PROVE Directed' BY <1>2, RunStep
<1>3. ASSUME NEW s \in Slots, Pop(s) PROVE Directed' BY <1>3, PopStep
<1>4. CASE \A t \in Slots : Still(t) BY <1>4 DEF Still
<1>5. CASE Crash BY <1>5 DEF Crash, Idle
<1>6. QED BY <1>1, <1>2, <1>3, <1>4, <1>5, OthersStill DEF Next, Bridge

\* Submit handlers never take a delivery back.
LEMMA SentStays ==
  ASSUME TypeInv, [Next]_vars, NEW j \in Jobs, Sent(j)
  PROVE  Sent(j)'
<1> USE DEF Sent
<1>0. submit \in [Jobs -> {"new", "signed", "stop", "save", "accepted", "lost"}]
  BY DEF TypeInv, TypeOK
<1>1. CASE UNCHANGED submit BY <1>1
<1>2. ASSUME NEW i \in Jobs, Sign(i) \/ Submit(i) PROVE Sent(j)'
  BY <1>0, <1>2 DEF Sign, Submit, SubmitSwitch, SubmitStop, SubmitSave, Submitting
<1>3. CASE Crash BY <1>0, <1>3 DEF Crash
<1>4. ASSUME NEW s \in Slots, Run(s) \/ Pop(s) \/ Interrupt(s) PROVE UNCHANGED submit
  BY <1>4
  DEF Run, Normalize, SessionMissing, Collect, CollectFails, CollectStops, PullMore, PullDone,
      PullFails, PullFatal, Drop, UploadMissing, UploadPart, UploadStops, UploadDone, Turn,
      PutAcknowledged, PutFails, Complete, CompleteAcknowledged, CompleteFails, Discard, Remove,
      Finish, Register, Settle, Write, Release, Pop, Interrupt
<1>5. CASE (\E i \in Jobs : Wake(i)) \/ CancelStop \/ Resume \/ User \/ Vanish
  BY <1>1, <1>5 DEF Wake, CancelStop, Resume, User, CancelFail, UserWrite, ResumeEnqueue, Vanish
<1>6. QED BY <1>1, <1>2, <1>3, <1>4, <1>5 DEF Next, Bridge

\* No job is called none.
LEMMA NoneNoJob == None \notin Jobs
BY RunnerConstants DEF Jobs

\* Only a resume adds a job that is resumed on its way, and only a new start forgets it.
LEMMA DoubledStep ==
  ASSUME \/ \E j \in Jobs : Sign(j) \/ Submit(j) \/ Wake(j)
         \/ \E s \in Slots : Pop(s) \/ Run(s) \/ Interrupt(s)
         \/ CancelStop \/ User \/ Vanish
  PROVE  UNCHANGED <<doubled, torn>>
<1>1. ASSUME NEW s \in Slots, Run(s) \/ Pop(s) \/ Interrupt(s) PROVE UNCHANGED <<doubled, torn>>
  BY <1>1
  DEF Run, Normalize, SessionMissing, Collect, CollectFails, CollectStops, PullMore, PullDone,
      PullFails, PullFatal, Drop, UploadMissing, UploadPart, UploadStops, UploadDone, Turn,
      PutAcknowledged, PutFails, Complete, CompleteAcknowledged, CompleteFails, Discard, Remove,
      Finish, Register, Settle, Write, Release, Pop, Interrupt
<1>2. ASSUME NEW j \in Jobs, Sign(j) \/ Submit(j) \/ Wake(j) PROVE UNCHANGED <<doubled, torn>>
  BY <1>2 DEF Sign, Submit, SubmitSwitch, SubmitSave, SubmitStop, Wake
<1>3. CASE CancelStop \/ User \/ Vanish
  BY <1>3 DEF CancelStop, User, CancelFail, UserWrite, ResumeEnqueue, Vanish
<1>4. QED BY <1>1, <1>2, <1>3

\* What is anywhere in the bridge was submitted, after every step.
LEMMA KnownNext == TypeInv /\ OneInv /\ [Next]_vars => Known'
<1> SUFFICES ASSUME TypeInv, OneInv, [Next]_vars PROVE Known' OBVIOUS
<1>0. /\ Known /\ Directed /\ None \notin Jobs /\ \A j \in Jobs : Sent(j) => Sent(j)'
      /\ current \in Jobs \cup {None} /\ journal.job \in Jobs \cup {None}
      /\ user.at \in {"fail", "write", "enqueue"} => user.job \in Jobs
      /\ \A s \in Slots : run[s].at # "idle" => run[s].job \in Jobs
      /\ stale \in [Jobs -> [job : Jobs \cup {None}, func : Slots \cup {None}]]
      /\ submit \in [Jobs -> {"new", "signed", "stop", "save", "accepted", "lost"}]
      /\ doubled \subseteq Jobs
  BY SentStays, NoneNoJob DEF OneInv, TypeInv, TypeOK, RunsTyped
<1>0a. \A j \in doubled' : Sent(j)'
  <2>1. CASE UNCHANGED <<doubled, submit>> BY <1>0, <2>1 DEF Known, Sent
  <2>2. CASE UNCHANGED doubled BY <1>0, <2>2 DEF Known
  <2>3. CASE Crash BY <2>3 DEF Crash
  <2>4. CASE Resume
    <3>1. current \in Jobs /\ Sent(current) BY <1>0, <2>4 DEF Resume, Known
    <3>2. \A j \in doubled' : j \in doubled \/ j = current BY <2>4 DEF Resume
    <3>3. QED BY <1>0, <3>1, <3>2 DEF Known
  <2>5. QED BY <2>1, <2>2, <2>3, <2>4, DoubledStep DEF Next, Bridge, vars, history, clientVars
<1> USE DEF Known, Sent
<1>1. CASE UNCHANGED vars BY <1>0, <1>1 DEF Sent
<1>2. ASSUME NEW s \in Slots, Run(s) PROVE Known'
  <2>1. \A t \in Slots : run'[t].at # "idle" => run[t].at # "idle" /\ run'[t].job = run[t].job
    BY <1>0, <1>2, RunStep
  <2>2. UNCHANGED <<current, user>> /\ journal'.job \in {journal.job, run[s].job}
        /\ run[s].at # "idle" /\ \A j \in Jobs : stale'[j].job = stale[j].job
    BY <1>0, <1>2, RunStep
  <2>3. QED BY <1>0, <1>0a, <2>1, <2>2
<1>3. ASSUME NEW s \in Slots, Pop(s) PROVE Known'
  <2>1. Queued(Head(queue)) /\ Head(queue) \in Jobs
    <3>1. queue \in Seq(Jobs) /\ queue # <<>> BY <1>3 DEF TypeInv, TypeOK, Pop
    <3>2. 1 \in DOMAIN queue /\ Head(queue) = queue[1] BY <3>1
    <3>3. QED BY <1>3, <3>2, PopStep DEF Queued
  <2>2. Sent(Head(queue))
    <3>1. CASE Head(queue) \in doubled BY <1>0, <3>1
    <3>2. CASE Head(queue) \notin doubled BY <2>1, <3>2 DEF OneInv, OnePlace, Apart, Unqueued, Sent
    <3>3. QED BY <3>1, <3>2
  <2>3. QED BY <1>0, <1>0a, <1>3, <2>1, <2>2, PopStep
<1>4. ASSUME \A t \in Slots : Still(t)
      PROVE  \A s \in Slots : run'[s].at # "idle" => Sent(run[s].job)'
  BY <1>0, <1>4 DEF Still
<1>5. ASSUME NEW j \in Jobs, SubmitSwitch(j) PROVE Known'
  <2>1. Sent(j)' BY <1>0, <1>5 DEF SubmitSwitch, Submitting, Sent
  <2>2. \A i \in Jobs : stale'[i].job \in {stale[i].job, current}
    BY <1>0, <1>5 DEF SubmitSwitch
  <2>3. \A i \in Jobs : stale'[i].job # None => Sent(stale[i].job)'
    BY <1>0, <2>2
  <2>4. current' = j /\ UNCHANGED <<user, journal>> BY <1>5 DEF SubmitSwitch
  <2>5. \A s \in Slots : run'[s].at # "idle" => Sent(run[s].job)'
    BY <1>4, <1>5, OthersStill DEF Submit
  <2>6. QED BY <1>0, <1>0a, <2>1, <2>3, <2>4, <2>5
<1>6. ASSUME NEW j \in Jobs, SubmitSave(j) PROVE Known'
  <2>1. Sent(j)' BY <1>0, <1>6 DEF SubmitSave, Submitting, Sent
  <2>2. QED BY <1>0, <1>0a, <1>6, <2>1 DEF SubmitSave, NoOne
<1>7. ASSUME NEW j \in Jobs, Sign(j) \/ SubmitStop(j) \/ Wake(j) PROVE Known'
  <2>1. UNCHANGED <<current, user, journal, stale>> BY <1>7 DEF Sign, SubmitStop, Wake
  <2>2. \A s \in Slots : run'[s].at # "idle" => Sent(run[s].job)'
    BY <1>4, <1>7, OthersStill DEF Submit
  <2>3. QED BY <1>0, <1>0a, <2>1, <2>2
<1>8. CASE CancelStop \/ Resume \/ User
  <2>1. user'.at \in {"fail", "write", "enqueue"} =>
          \/ user'.job = user.job /\ user.at \in {"fail", "write", "enqueue"}
          \/ user'.job = current /\ current # None
    <3>1. CASE CancelStop BY <3>1 DEF CancelStop, TypeInv, TypeOK, UserState
    <3>2. CASE Resume BY <3>2 DEF Resume, UserSaving, UserGoes
    <3>3. CASE CancelFail BY <3>3 DEF CancelFail, UserSaving, UserGoes
    <3>4. CASE UserWrite BY <3>4 DEF UserWrite, UserGoes
    <3>5. CASE ResumeEnqueue BY <3>5 DEF ResumeEnqueue, UserGoes
    <3>6. QED BY <1>8, <3>1, <3>2, <3>3, <3>4, <3>5 DEF User
  <2>2. UNCHANGED <<current, stale>>
    BY <1>8 DEF CancelStop, Resume, User, CancelFail, UserWrite, ResumeEnqueue
  <2>3. journal'.job # journal.job => journal'.job = user.job /\ user.at = "write"
    BY <1>8 DEF CancelStop, Resume, User, CancelFail, UserWrite, ResumeEnqueue
  <2>4. \A s \in Slots : run'[s].at # "idle" => Sent(run[s].job)'
    BY <1>4, <1>8, OthersStill
  <2>5. QED BY <1>0, <1>0a, <2>1, <2>2, <2>3, <2>4
<1>9. CASE Vanish \/ \E s \in Slots : Interrupt(s)
  <2>1. UNCHANGED <<current, user, journal, stale>> BY <1>9 DEF Vanish, Interrupt
  <2>2. \A s \in Slots : run'[s].at # "idle" => Sent(run[s].job)'
    BY <1>4, <1>9, OthersStill
  <2>3. QED BY <1>0, <1>0a, <2>1, <2>2
<1>10. CASE Crash
  <2>1. current' \in {None, journal.job} /\ UNCHANGED journal BY <1>10 DEF Crash
  <2>2. user'.at \in {"none", "done"} /\ (\A s \in Slots : run'[s].at = "idle")
        /\ \A j \in Jobs : stale'[j].job = None
    BY <1>10 DEF Crash, UserGoes, Idle, NoOne
  <2>3. QED BY <1>0, <1>0a, <2>1, <2>2
<1>11. QED
  BY <1>1, <1>2, <1>3, <1>5, <1>6, <1>7, <1>8, <1>9, <1>10 DEF Next, Bridge, Submit

\* With no job for the task, nothing goes on: only a crash takes the last one away.
LEMMA OwnedNext == TypeInv /\ OneInv /\ [Next]_vars => Owned'
<1> SUFFICES ASSUME TypeInv, OneInv, [Next]_vars, current' = None PROVE Owned' BY DEF Owned
<1>0. /\ Owned /\ Directed /\ current \in Jobs \cup {None}
      /\ submit \in [Jobs -> {"new", "signed", "stop", "save", "accepted", "lost"}]
  BY DEF OneInv, TypeInv, TypeOK
<1> USE DEF Owned
<1>1. CASE UNCHANGED vars BY <1>0, <1>1
<1>2. ASSUME NEW s \in Slots, Run(s) PROVE FALSE BY <1>0, <1>2, RunStep
<1>3. ASSUME NEW s \in Slots, Pop(s) PROVE FALSE BY <1>0, <1>3, PopStep
<1>4. ASSUME NEW j \in Jobs, Submit(j) \/ Wake(j) PROVE FALSE
  BY <1>0, <1>4, NoneNoJob DEF Submit, SubmitSwitch, SubmitStop, SubmitSave, Wake
<1>5. ASSUME NEW j \in Jobs, Sign(j) PROVE Owned'
  BY <1>0, <1>5 DEF Sign, Submitting
<1>6. CASE CancelStop \/ Resume \/ User
  BY <1>0, <1>6 DEF CancelStop, Resume, User, CancelFail, UserWrite, ResumeEnqueue
<1>7. ASSUME NEW s \in Slots, Interrupt(s) PROVE FALSE BY <1>0, <1>7 DEF Interrupt
<1>8. CASE Vanish BY <1>0, <1>8 DEF Vanish
<1>9. CASE Crash
  <2> DEFINE recovered == {j \in Jobs : journal.job = j /\ ~Terminal(journal.data.phase)}
  <2>1. current' = (IF recovered = {} THEN None ELSE journal.job)
        /\ (recovered = {} => queue' = <<>>)
    BY <1>9 DEF Crash
  <2>2. recovered = {} BY <2>1, NoneNoJob
  <2>3. user'.at \in {"none", "done"} BY <1>9 DEF Crash, UserGoes
  <2>4. backoff' = {} /\ \A s \in Slots : run'[s].at = "idle" BY <1>9 DEF Crash, Idle
  <2>5. \A j \in Jobs : submit'[j] \notin {"stop", "save"} BY <1>0, <1>9 DEF Crash
  <2>6. QED BY <2>1, <2>2, <2>3, <2>4, <2>5
<1>10. QED BY <1>1, <1>2, <1>3, <1>4, <1>5, <1>6, <1>7, <1>8, <1>9 DEF Next, Bridge

\* A step that takes the job j nowhere new.
Fewer(j) ==
  /\ Unqueued(j)' => Unqueued(j)
  /\ Queued(j)' => Queued(j)
  /\ Runs(j)' => Runs(j)
  /\ j \in backoff' => j \in backoff
  /\ Resuming(j)' => Resuming(j)
  /\ job'[j].needs_reauth => job[j].needs_reauth

\* Leaving places keeps a job in one place.
LEMMA FewerApart ==
  ASSUME NEW j \in Jobs, Apart(j), Fewer(j)
  PROVE  Apart(j)'
BY DEF Apart, Fewer

\* It is enough to look at the one job that a step moves.
LEMMA OnePlaceKept ==
  ASSUME OnePlace, Distinct', Single', doubled \subseteq doubled', NEW k \in Jobs,
         \A j \in Jobs \ {k} : Fewer(j), k \in doubled' \/ Apart(k)'
  PROVE  OnePlace'
<1>1. \A j \in Jobs \ doubled' : Apart(j)'
  <2>1. SUFFICES ASSUME NEW j \in Jobs, j \notin doubled' PROVE Apart(j)' OBVIOUS
  <2>2. CASE j = k BY <2>1, <2>2
  <2>3. CASE j # k
    <3>1. Apart(j) /\ Fewer(j) BY <2>1, <2>3 DEF OnePlace
    <3>2. QED BY <3>1, FewerApart
  <2>4. QED BY <2>2, <2>3
<1>2. QED BY <1>1 DEF OnePlace

\* A step that moves no job anywhere.
LEMMA NoneMoved ==
  ASSUME OnePlace, Distinct', Single', doubled \subseteq doubled', \A j \in Jobs : Fewer(j)
  PROVE  OnePlace'
<1>1. \A j \in Jobs \ doubled' : Apart(j)'
  <2>1. SUFFICES ASSUME NEW j \in Jobs, j \notin doubled' PROVE Apart(j)' OBVIOUS
  <2>2. Apart(j) /\ Fewer(j) BY <2>1 DEF OnePlace
  <2>3. QED BY <2>2, FewerApart
<1>2. QED BY <1>1 DEF OnePlace

\* Queueing a job that is not queued, or may be queued twice.
LEMMA EnqueueStep ==
  ASSUME queue \in Seq(Jobs), Distinct, NEW j \in Jobs, ~Queued(j) \/ j \in doubled, Enqueue(j),
         doubled' = doubled
  PROVE  Distinct' /\ \A i \in Jobs : Queued(i)' => Queued(i) \/ i = j
<1> USE DEF Distinct, Queued
<1>1. CASE queue' = queue BY <1>1
<1>2. CASE queue' = Append(queue, j)
  <2>1. /\ Len(queue) \in Nat /\ DOMAIN queue = 1 .. Len(queue)
        /\ DOMAIN queue' = 1 .. Len(queue) + 1
        /\ \A n \in 1 .. Len(queue) : queue'[n] = queue[n]
        /\ queue'[Len(queue) + 1] = j
    BY <1>2, AppendProperties
  <2>2. QED BY <2>1
<1>3. QED BY <1>1, <1>2 DEF Enqueue

\* Taking the first job of the queue.
LEMMA TailStep ==
  ASSUME queue \in Seq(Jobs), Distinct, queue # <<>>, queue' = Tail(queue), doubled' = doubled
  PROVE  /\ Distinct' /\ Queued(Head(queue))
         /\ \A i \in Jobs : Queued(i)' => Queued(i) /\ (i # Head(queue) \/ i \in doubled)
<1> USE DEF Distinct, Queued
<1>1. /\ Len(queue) \in Nat \ {0} /\ DOMAIN queue = 1 .. Len(queue)
      /\ DOMAIN queue' = 1 .. Len(queue) - 1
      /\ \A n \in 1 .. Len(queue) - 1 : queue'[n] = queue[n + 1]
      /\ Head(queue) = queue[1]
  BY HeadTailProperties, LenProperties, EmptySeq
<1>2. QED BY <1>1

\* Goroutines that do not move work for whom they worked.
LEMMA StillRuns ==
  ASSUME \A t \in Slots : Still(t), doubled \subseteq doubled'
  PROVE  /\ \A t \in Slots : Works(t)' <=> Works(t)
         /\ \A j \in Jobs : Runs(j)' <=> Runs(j)
         /\ Single => Single'
BY DEF Still, Works, Heading, Runs, Single

\* Submit handlers.
LEMMA OneSubmit ==
  ASSUME TypeInv, OneInv, NEW k \in Jobs, Sign(k) \/ Submit(k)
  PROVE  OnePlace'
<1>0. /\ OnePlace /\ Distinct /\ Single /\ queue \in Seq(Jobs)
      /\ submit \in [Jobs -> {"new", "signed", "stop", "save", "accepted", "lost"}]
      /\ job \in [Jobs -> JobState] /\ doubled' = doubled /\ \A j \in doubled : Sent(j)
  BY DoubledStep DEF OneInv, OnePlace, Known, TypeInv, TypeOK
<1>1. \A t \in Slots : Still(t) BY OthersStill
<1>2. Single' /\ \A j \in Jobs : Runs(j)' <=> Runs(j) BY <1>0, <1>1, StillRuns
<1>3. (k \in doubled \/ Apart(k)) /\ Unqueued(k)
  BY <1>0 DEF OnePlace, Sign, Submit, SubmitSwitch, SubmitStop, SubmitSave, Unqueued
<1>4. UNCHANGED <<backoff, user>> /\ \A j \in Jobs : Resuming(j)' <=> Resuming(j)
  BY DEF Sign, Submit, SubmitSwitch, SubmitStop, SubmitSave, Resuming
<1>5. \A j \in Jobs : job'[j].needs_reauth = job[j].needs_reauth
  <2>1. CASE UNCHANGED job BY <2>1
  <2>2. CASE job' = [job EXCEPT ![current].phase = "failed", ![current].superseded = TRUE]
    BY <1>0, <2>2 DEF JobState
  <2>3. QED BY <2>1, <2>2 DEF Sign, Submit, SubmitSwitch, SubmitStop, SubmitSave
<1>6. \A j \in Jobs \ {k} : Unqueued(j)' <=> Unqueued(j)
  BY <1>0 DEF Sign, Submit, SubmitSwitch, SubmitStop, SubmitSave, Submitting, Unqueued
<1>7. CASE Sign(k) \/ SubmitSwitch(k) \/ SubmitStop(k)
  <2>1. UNCHANGED queue BY <1>7 DEF Sign, SubmitSwitch, SubmitStop
  <2>2. Distinct' /\ \A j \in Jobs : Queued(j)' <=> Queued(j)
    BY <1>0, <2>1 DEF Distinct, Queued
  <2>3. \A j \in Jobs : Fewer(j) BY <1>2, <1>3, <1>4, <1>5, <1>6, <2>2 DEF Fewer
  <2>4. QED BY <1>0, <1>2, <2>2, <2>3, NoneMoved
<1>8. CASE SubmitSave(k)
  <2>1. ~Queued(k) \/ k \in doubled BY <1>3 DEF Apart
  <2>2. Distinct' /\ \A j \in Jobs : Queued(j)' => Queued(j) \/ j = k
    BY <1>0, <1>8, <2>1, EnqueueStep DEF SubmitSave
  <2>3. \A j \in Jobs \ {k} : Fewer(j) BY <1>2, <1>4, <1>5, <1>6, <2>2 DEF Fewer
  <2>4. ~Unqueued(k)' BY <1>0, <1>8 DEF SubmitSave, Submitting, Unqueued
  <2>5. k \in doubled' \/ Apart(k)' BY <1>0, <1>2, <1>3, <1>4, <1>5, <2>4 DEF Apart
  <2>6. QED BY <1>0, <1>2, <2>2, <2>3, <2>5, OnePlaceKept
<1>9. QED BY <1>7, <1>8 DEF Submit

\* A user, the watchdog, the temporary directory.
LEMMA OneUser ==
  ASSUME TypeInv, OneInv,
         CancelStop \/ Resume \/ User \/ Vanish \/ \E s \in Slots : Interrupt(s)
  PROVE  OnePlace'
<1>0. /\ OnePlace /\ Distinct /\ Single /\ queue \in Seq(Jobs)
      /\ job \in [Jobs -> JobState] /\ current \in Jobs \cup {None} /\ user \in UserState
      /\ user.at \in {"fail", "write", "enqueue"} => user.job \in Jobs
  BY DEF OneInv, OnePlace, TypeInv, TypeOK
<1>1. (\A t \in Slots : Still(t)) /\ doubled \subseteq doubled'
  BY OthersStill, DoubledStep DEF Resume
<1>2. Single' /\ \A j \in Jobs : Runs(j)' <=> Runs(j) BY <1>0, <1>1, StillRuns
<1>3. UNCHANGED <<backoff, submit>> /\ \A j \in Jobs : Unqueued(j)' <=> Unqueued(j)
  BY DEF CancelStop, Resume, User, CancelFail, UserWrite, ResumeEnqueue, Vanish, Interrupt, Unqueued
<1>4. CASE Resume
  <2>1. PICK k \in Jobs : k = current /\ Sent(k)
    BY <1>0, <1>4 DEF Resume, OneInv, Known
  <2>2. \A j \in Jobs : job'[j].needs_reauth = (job[j].needs_reauth /\ j # k)
    BY <1>0, <1>4, <2>1 DEF Resume, JobState
  <2>3. \A j \in Jobs \ {k} : ~Resuming(j)'
    BY <1>0, <1>4, <2>1 DEF Resume, UserSaving, UserGoes, Resuming
  <2>4. UNCHANGED queue BY <1>4 DEF Resume
  <2>5. Distinct' /\ \A j \in Jobs : Queued(j)' <=> Queued(j)
    BY <1>0, <1>1, <2>4 DEF Distinct, Queued
  <2>6. \A j \in Jobs \ {k} : Fewer(j) BY <1>2, <1>3, <2>2, <2>3, <2>5 DEF Fewer
  <2>7. UnderWay(k) => k \in doubled' BY <1>4, <2>1 DEF Resume
  <2>8. ASSUME ~UnderWay(k) PROVE Apart(k)'
    <3>1. ~Unqueued(k) /\ ~Queued(k) /\ ~Runs(k) /\ k \notin backoff
      BY <2>1, <2>8 DEF UnderWay, Sent, Unqueued, Queued, Runs
    <3>2. QED BY <1>2, <1>3, <2>2, <2>5, <3>1 DEF Apart
  <2>9. QED BY <1>0, <1>1, <1>2, <2>1, <2>5, <2>6, <2>7, <2>8, OnePlaceKept
<1>5. CASE ResumeEnqueue
  <2>0. PICK k \in Jobs : k = user.job BY <1>0, <1>5 DEF ResumeEnqueue
  <2>1. k \in Jobs /\ Resuming(k) /\ UNCHANGED job BY <1>0, <1>5, <2>0 DEF ResumeEnqueue, Resuming
  <2>2. k \in doubled \/ (Apart(k) /\ ~Queued(k)) BY <1>0, <2>1 DEF OnePlace, Apart
  <2>3. doubled' = doubled /\ Distinct' /\ \A j \in Jobs : Queued(j)' => Queued(j) \/ j = k
    BY <1>0, <1>5, <2>0, <2>2, EnqueueStep DEF ResumeEnqueue
  <2>4. \A j \in Jobs : ~Resuming(j)' BY <1>5 DEF ResumeEnqueue, UserGoes, Resuming
  <2>5. \A j \in Jobs \ {k} : Fewer(j) BY <1>2, <1>3, <2>1, <2>3, <2>4 DEF Fewer
  <2>6. k \in doubled' \/ Apart(k)' BY <1>2, <1>3, <2>1, <2>2, <2>3, <2>4 DEF Apart
  <2>7. QED BY <1>0, <1>1, <1>2, <2>1, <2>3, <2>5, <2>6, OnePlaceKept
<1>6. CASE CancelStop \/ CancelFail \/ UserWrite \/ Vanish \/ \E s \in Slots : Interrupt(s)
  <2>1. UNCHANGED queue BY <1>6 DEF CancelStop, CancelFail, UserWrite, Vanish, Interrupt
  <2>2. Distinct' /\ \A j \in Jobs : Queued(j)' <=> Queued(j)
    BY <1>0, <1>1, <2>1 DEF Distinct, Queued
  <2>3. \A j \in Jobs : job'[j].needs_reauth = job[j].needs_reauth
    <3>1. CASE UNCHANGED job BY <3>1
    <3>2. CASE CancelFail
      <4>1. user.job \in Jobs /\ job' = [job EXCEPT ![user.job].phase = "failed"]
        BY <1>0, <3>2 DEF CancelFail
      <4>2. QED BY <1>0, <4>1 DEF JobState
    <3>3. QED BY <1>6, <3>1, <3>2 DEF CancelStop, UserWrite, Vanish, Interrupt
  <2>4. \A j \in Jobs : Resuming(j)' => Resuming(j)
    <3>1. CASE CancelStop BY <1>0, <3>1 DEF CancelStop, Resuming, UserState
    <3>2. CASE CancelFail BY <3>2 DEF CancelFail, UserSaving, UserGoes, Resuming
    <3>3. CASE UserWrite BY <1>0, <3>3 DEF UserWrite, UserGoes, Resuming
    <3>4. CASE UNCHANGED user BY <3>4 DEF Resuming
    <3>5. QED BY <1>6, <3>1, <3>2, <3>3, <3>4 DEF Vanish, Interrupt
  <2>5. \A j \in Jobs : Fewer(j) BY <1>2, <1>3, <2>2, <2>3, <2>4 DEF Fewer
  <2>6. QED BY <1>0, <1>1, <1>2, <2>2, <2>5, NoneMoved
<1>7. QED BY <1>4, <1>5, <1>6 DEF User

\* A step after which no goroutine works that did not work for the same job before.
LEMMA FewerRuns ==
  ASSUME Single, doubled \subseteq doubled',
         \A t \in Slots : Works(t)' => Works(t) /\ run'[t].job = run[t].job
  PROVE  Single' /\ \A j \in Jobs : Runs(j)' => Runs(j)
<1>1. \A j \in Jobs : Runs(j)' => Runs(j)
  <2>1. SUFFICES ASSUME NEW j \in Jobs, NEW t \in Slots, Works(t)', run'[t].job = j PROVE Runs(j)
    BY DEF Runs
  <2>2. QED BY <2>1 DEF Runs
<1>2. Single' BY DEF Single
<1>3. QED BY <1>1, <1>2

\* Goroutines.
LEMMA OneRun ==
  ASSUME TypeInv, OneInv, NEW s \in Slots, Run(s)
  PROVE  OnePlace'
<1>0. /\ OnePlace /\ Distinct /\ Single /\ Directed
      /\ job \in [Jobs -> JobState] /\ run \in [Slots -> RunState] /\ doubled' = doubled
  BY DoubledStep DEF OneInv, OnePlace, TypeInv, TypeOK
<1>1. PICK k \in Jobs : k = run[s].job BY <1>0, RunStep
<1>2. UNCHANGED <<queue, submit, user>> BY <1>0, RunStep
<1>3. /\ Distinct' /\ \A j \in Jobs : Queued(j)' <=> Queued(j)
      /\ \A j \in Jobs : Unqueued(j)' <=> Unqueued(j)
      /\ \A j \in Jobs : Resuming(j)' <=> Resuming(j)
  BY <1>0, <1>2 DEF Distinct, Queued, Unqueued, Resuming
<1>4. ASSUME \A t \in Slots : Works(t)' => Works(t) /\ run'[t].job = run[t].job,
             \A j \in Jobs : job'[j].needs_reauth => job[j].needs_reauth,
             backoff' = backoff
      PROVE  OnePlace'
  <2>1. Single' /\ \A j \in Jobs : Runs(j)' => Runs(j) BY <1>0, <1>4, FewerRuns
  <2>2. \A j \in Jobs : Fewer(j) BY <1>3, <1>4, <2>1 DEF Fewer
  <2>3. QED BY <1>0, <1>3, <2>1, <2>2, NoneMoved
<1>5. CASE run[s].at \notin {"register", "settle", "write", "requeue", "release"}
  <2>1. PICK label \in Stages : Follows(s, label) BY <1>5, StageFollows
  <2>2. Works(s) BY <1>5, StageFrame DEF Works, Heading
  <2>3. \A t \in Slots : Works(t)' => Works(t) /\ run'[t].job = run[t].job
    BY <2>1, <2>2 DEF Follows, Works, Heading
  <2>4. QED BY <1>4, <1>5, <2>3, StageFrame
<1>6. CASE Register(s)
  <2>1. run[s].at = "register" /\ UNCHANGED <<job, backoff>> BY <1>6 DEF Register
  <2>2. Works(s) BY <2>1 DEF Works, Heading
  <2>3. \A t \in Slots : Works(t)' => Works(t) /\ run'[t].job = run[t].job
    <3>1. \A t \in Slots \ {s} : Works(t)' <=> Works(t) BY <1>0, RunStep DEF Works, Heading
    <3>2. Works(s)' => run'[s].at # "idle"
      <4>1. run'[s].at # "write" BY <1>0, <1>6 DEF Register, Idle, RunState
      <4>2. QED BY <4>1 DEF Works, Heading
    <3>3. QED BY <1>0, <2>2, <3>1, <3>2, RunStep
  <2>4. QED BY <1>4, <2>1, <2>3
<1>7. CASE Write(s)
  <2>1. run[s].at = "write" /\ UNCHANGED <<job, backoff>>
        /\ run' = [run EXCEPT ![s].at = run[s].then, ![s].then = "idle"]
    BY <1>7 DEF Write
  <2>2. run[s].then # "write" BY <1>0, <2>1 DEF Directed, Stages
  <2>3. \A t \in Slots : Works(t)' => Works(t) /\ run'[t].job = run[t].job
    BY <1>0, <2>1, <2>2 DEF Works, Heading, RunState
  <2>4. QED BY <1>4, <2>1, <2>3
<1>8. CASE Settle(s)
  <2>1. PICK label \in {"requeue", "release"} :
          /\ run'[s].job = run[s].job /\ Heading(s)' = label
          /\ job'[run[s].job].needs_reauth => label = "release"
    BY <1>8, SettleStep
  <2>2. run[s].at = "settle" /\ (\A t \in Slots \ {s} : run'[t] = run[t])
        /\ (\A j \in Jobs \ {k} : job'[j] = job[j]) /\ backoff' = backoff
    BY <1>1, <1>8, SettleStep
  <2>3. Works(s) BY <2>2 DEF Works, Heading
  <2>4. \A t \in Slots : Works(t)' => Works(t) /\ run'[t].job = run[t].job
    BY <2>1, <2>2, <2>3 DEF Works, Heading
  <2>5. CASE ~job'[k].needs_reauth BY <1>4, <2>2, <2>4, <2>5
  <2>6. CASE job'[k].needs_reauth
    <3>1. ~Works(s)' BY <1>1, <2>1, <2>6 DEF Works
    <3>2. Runs(k) /\ (k \in doubled \/ Apart(k)) BY <1>0, <1>1, <2>3 DEF Runs, OnePlace
    <3>3. k \in doubled \/ ~Runs(k)'
      <4>1. k \in doubled \/ \A t \in Slots \ {s} : Works(t) => run[t].job # k
        BY <1>0, <1>1, <2>3 DEF Single
      <4>2. QED BY <2>4, <3>1, <4>1 DEF Runs
    <3>4. Single' /\ \A j \in Jobs : Runs(j)' => Runs(j) BY <1>0, <2>4, FewerRuns
    <3>5. \A j \in Jobs \ {k} : Fewer(j) BY <1>3, <2>2, <3>4 DEF Fewer
    <3>6. k \in doubled' \/ Apart(k)' BY <1>0, <1>3, <2>2, <3>2, <3>3 DEF Apart
    <3>7. QED BY <1>0, <1>3, <3>4, <3>5, <3>6, OnePlaceKept
  <2>7. QED BY <2>5, <2>6
<1>9. CASE Release(s)
  <2>1. UNCHANGED job /\ run' = [run EXCEPT ![s] = Idle]
        /\ run[s].at \in {"requeue", "release"}
        /\ backoff' = IF run[s].at = "requeue" THEN backoff \cup {k} ELSE backoff
    BY <1>1, <1>9 DEF Release
  <2>2. ~Works(s)' BY <1>0, <2>1 DEF Works, Heading, Idle
  <2>3. \A t \in Slots : Works(t)' => Works(t) /\ run'[t].job = run[t].job
    BY <1>0, <2>1, <2>2 DEF Works, Heading
  <2>4. CASE run[s].at = "release" BY <1>4, <2>1, <2>3, <2>4
  <2>5. CASE run[s].at = "requeue"
    <3>1. Works(s) BY <2>5 DEF Works, Heading
    <3>2. Runs(k) /\ (k \in doubled \/ Apart(k)) BY <1>0, <1>1, <3>1 DEF Runs, OnePlace
    <3>3. k \in doubled \/ ~Runs(k)'
      <4>1. k \in doubled \/ \A t \in Slots \ {s} : Works(t) => run[t].job # k
        BY <1>0, <1>1, <3>1 DEF Single
      <4>2. QED BY <2>2, <2>3, <4>1 DEF Runs
    <3>4. Single' /\ \A j \in Jobs : Runs(j)' => Runs(j) BY <1>0, <2>3, FewerRuns
    <3>5. \A j \in Jobs \ {k} : Fewer(j) BY <1>3, <2>1, <3>4 DEF Fewer
    <3>6. k \in doubled' \/ Apart(k)' BY <1>0, <1>3, <2>1, <3>2, <3>3 DEF Apart
    <3>7. QED BY <1>0, <1>3, <3>4, <3>5, <3>6, OnePlaceKept
  <2>6. QED BY <2>1, <2>4, <2>5
<1>10. run[s].at \in {"register", "settle", "write", "requeue", "release"} =>
         Register(s) \/ Settle(s) \/ Write(s) \/ Release(s)
  BY RunEnds
<1>11. QED BY <1>5, <1>6, <1>7, <1>8, <1>9, <1>10

\* The scheduler, a backoff that is over, a restart.
LEMMA OneRest ==
  ASSUME TypeInv, OneInv,
         (\E s \in Slots : Pop(s)) \/ (\E j \in Jobs : Wake(j)) \/ Crash
  PROVE  OnePlace'
<1>0. /\ OnePlace /\ Distinct /\ Single /\ queue \in Seq(Jobs)
      /\ job \in [Jobs -> JobState] /\ run \in [Slots -> RunState]
  BY DEF OneInv, OnePlace, TypeInv, TypeOK
<1>1. ASSUME NEW s \in Slots, Pop(s) PROVE OnePlace'
  <2>1. PICK k \in Jobs : k = Head(queue) BY <1>1, PopStep
  <2>2. UNCHANGED <<job, backoff, submit, user, doubled>> /\ queue # <<>> /\ queue' = Tail(queue)
    BY <1>1, PopStep
  <2>3. /\ Distinct' /\ Queued(k)
        /\ \A i \in Jobs : Queued(i)' => Queued(i) /\ (i # k \/ i \in doubled)
    BY <1>0, <2>1, <2>2, TailStep
  <2>4. k \in doubled \/ (Apart(k) /\ ~Runs(k)) BY <1>0, <2>3 DEF OnePlace, Apart
  <2>5. /\ \A t \in Slots \ {s} : Works(t)' <=> Works(t)
        /\ \A t \in Slots \ {s} : run'[t].job = run[t].job
        /\ run'[s].job = k
    BY <1>1, <2>1, PopStep DEF Works, Heading
  <2>6. Single'
    <3>1. k \in doubled \/ \A t \in Slots \ {s} : Works(t) => run[t].job # k BY <2>4 DEF Runs
    <3>2. QED BY <1>0, <2>2, <2>5, <3>1 DEF Single
  <2>7. \A j \in Jobs \ {k} : Runs(j)' => Runs(j) BY <2>5 DEF Runs
  <2>8. \A j \in Jobs : (Unqueued(j)' <=> Unqueued(j)) /\ (Resuming(j)' <=> Resuming(j))
    BY <2>2 DEF Unqueued, Resuming
  <2>9. \A j \in Jobs \ {k} : Fewer(j) BY <2>2, <2>3, <2>7, <2>8 DEF Fewer
  <2>10. k \in doubled' \/ Apart(k)' BY <2>2, <2>3, <2>4, <2>8 DEF Apart
  <2>11. QED BY <1>0, <2>2, <2>3, <2>6, <2>9, <2>10, OnePlaceKept
<1>2. ASSUME NEW k \in Jobs, Wake(k) PROVE OnePlace'
  <2>1. UNCHANGED <<job, submit, user, doubled>> /\ k \in backoff /\ backoff' = backoff \ {k}
    BY <1>2 DEF Wake
  <2>2. k \in doubled \/ (Apart(k) /\ ~Queued(k)) BY <1>0, <2>1 DEF OnePlace, Apart
  <2>3. Distinct' /\ \A j \in Jobs : Queued(j)' => Queued(j) \/ j = k
    <3>1. CASE UNCHANGED queue BY <1>0, <2>1, <3>1 DEF Distinct, Queued
    <3>2. CASE Enqueue(k) BY <1>0, <2>1, <2>2, <3>2, EnqueueStep
    <3>3. QED BY <1>2, <3>1, <3>2 DEF Wake
  <2>4. Single' /\ \A j \in Jobs : Runs(j)' <=> Runs(j)
    BY <1>0, <1>2, <2>1, OthersStill, StillRuns
  <2>5. \A j \in Jobs : (Unqueued(j)' <=> Unqueued(j)) /\ (Resuming(j)' <=> Resuming(j))
    BY <2>1 DEF Unqueued, Resuming
  <2>6. \A j \in Jobs \ {k} : Fewer(j) BY <2>1, <2>3, <2>4, <2>5 DEF Fewer
  <2>7. k \in doubled' \/ Apart(k)' BY <2>1, <2>2, <2>4, <2>5 DEF Apart
  <2>8. QED BY <1>0, <2>1, <2>3, <2>4, <2>6, <2>7, OnePlaceKept
<1>3. CASE Crash
  <2> DEFINE recovered == {j \in Jobs : journal.job = j /\ ~Terminal(journal.data.phase)}
  <2>1. /\ job' = [j \in Jobs |-> IF j \in recovered THEN journal.data ELSE Fresh]
        /\ queue' = (IF recovered = {} \/ journal.data.needs_reauth THEN <<>> ELSE <<journal.job>>)
        /\ backoff' = {} /\ run' = [s \in Slots |-> Idle]
        /\ submit' = [j \in Jobs |-> IF submit[j] \in {"stop", "save"} THEN "lost" ELSE submit[j]]
    BY <1>3 DEF Crash
  <2>2. Distinct' BY <2>1 DEF Distinct
  <2>3. \A j \in Jobs : Queued(j)' => j \in recovered /\ ~journal.data.needs_reauth
    BY <2>1 DEF Queued
  <2>4. Single' /\ \A j \in Jobs : ~Runs(j)' BY <2>1 DEF Single, Runs, Works, Heading, Idle
  <2>5. \A j \in Jobs : ~Resuming(j)' BY <1>3 DEF Crash, UserGoes, Resuming
  <2>6. \A j \in recovered : ~Unqueued(j)'
    <3>1. \A j \in recovered : Sent(j) BY NoneNoJob DEF OneInv, Known
    <3>2. QED BY <2>1, <3>1 DEF Sent, Unqueued
  <2>7. \A j \in Jobs : job'[j].needs_reauth => j \in recovered /\ journal.data.needs_reauth
    BY <2>1 DEF Fresh
  <2> HIDE DEF recovered
  <2>8. \A j \in Jobs : Apart(j)' BY <2>1, <2>3, <2>4, <2>5, <2>6, <2>7 DEF Apart
  <2>9. QED BY <2>2, <2>4, <2>8 DEF OnePlace
<1>4. QED BY <1>1, <1>2, <1>3

\* OneInv is inductive.
LEMMA OneNext == TypeInv /\ OneInv /\ [Next]_vars => OneInv'
<1> SUFFICES ASSUME TypeInv, OneInv, [Next]_vars PROVE OneInv' OBVIOUS
<1>1. Directed' /\ Known' /\ Owned' BY DirectedNext, KnownNext, OwnedNext DEF OneInv
<1>2. OnePlace'
  <2>1. CASE UNCHANGED vars
    BY <2>1
    DEF OneInv, OnePlace, Distinct, Single, Apart, Unqueued, Queued, Runs, Works, Heading, Resuming
  <2>2. QED BY <2>1, OneSubmit, OneUser, OneRun, OneRest DEF Next, Bridge
<1>3. QED BY <1>1, <1>2 DEF OneInv

\* However the steps of submit, cancel, resume, the backoffs and restarts interleave, one
\* goroutine at most is inside advance() for the job that stands for the task, up to the next
\* start of the bridge after a user resumed that very job while it was on its way (resume).
THEOREM OneFlow == Spec => []OneActs
<1>1. Spec => []TypeInv BY InitTyped, NextTyped, PTL DEF Spec
<1>2. Spec => []OneInv BY <1>1, OneInit, OneNext, PTL DEF Spec
<1>3. TypeInv /\ OneInv => OneActs
  <2> SUFFICES ASSUME TypeInv, OneInv, NEW s \in Slots, NEW t \in Slots, Acts(s), Acts(t)
               PROVE  s = t \/ run[s].job \in doubled
    BY DEF OneActs
  <2>1. current # None BY DEF Acts, OneInv, Owned
  <2>2. run[s].job = current /\ run[t].job = current BY <2>1 DEF Acts, OwnerIntact
  <2>3. Works(s) /\ Works(t) BY DEF Acts, Works, Heading, OneInv, Directed, Stages
  <2>4. QED BY <2>2, <2>3 DEF OneInv, OnePlace, Single
<1>4. QED BY <1>1, <1>2, <1>3, PTL

--------------------------------------------------------------------------------
(***************************************************************************)
(* complete() and the parts                                                *)
(***************************************************************************)
Whole(j) == job[j].uploaded = Parts

\* How sure a goroutine may be that the package is on the platform.
SlotWhole(s) ==
  /\ Heading(s) \in {"turn", "sent"} => Whole(run[s].job)
  /\ Heading(s) = "complete" => Whole(run[s].job) \/ Stopped(s)
  /\ Heading(s) \in {"pull", "drop"} => job[run[s].job].phase # "completing"

\* Two flows wrote what the job, or the journal it was recovered from, says of its progress.
Mixed == doubled \cup torn

WholeInv ==
  /\ \A j \in Jobs \ Mixed : job[j].phase = "completing" => Whole(j)
  /\ journal.job \in Jobs \ Mixed /\ journal.data.phase = "completing" => journal.data.uploaded = Parts
  /\ \A s \in Slots : run[s].job \in Mixed \/ SlotWhole(s)

\* No job has got as far as completing at first.
LEMMA WholeInit == Init => WholeInv
BY DEF Init, WholeInv, SlotWhole, Heading, Fresh, Idle

\* A step that writes no parts, and completing in no job, and leaves the goroutines where
\* they are.
LEMMA WholeKept ==
  ASSUME WholeInv, Mixed \subseteq Mixed', \A t \in Slots : Still(t) /\ (Stopped(t) => Stopped(t)'),
         \A j \in Jobs : /\ job'[j].uploaded = job[j].uploaded
                         /\ job'[j].phase = "completing" => job[j].phase = "completing",
         \A t \in Slots : run[t].at # "idle" => run[t].job \in Jobs,
         journal' = journal \/ \E j \in Jobs : journal' = [job |-> j, data |-> job'[j]]
  PROVE  WholeInv'
<1>1. \A j \in Jobs \ Mixed' : job'[j].phase = "completing" => job'[j].uploaded = Parts
  BY DEF WholeInv, Whole
<1>2. journal'.job \in Jobs \ Mixed' /\ journal'.data.phase = "completing"
        => journal'.data.uploaded = Parts
  BY <1>1 DEF WholeInv
<1>3. ASSUME NEW t \in Slots, run'[t].job \notin Mixed' PROVE SlotWhole(t)'
  <2>0. run'[t].job = run[t].job BY DEF Still
  <2>1. SlotWhole(t) /\ Heading(t)' = Heading(t) /\ run'[t].job = run[t].job
    BY <1>3, <2>0 DEF WholeInv, Still, Heading
  <2>2. CASE run[t].at = "idle" BY <2>1, <2>2 DEF SlotWhole, Heading
  <2>3. CASE run[t].job \in Jobs BY <2>1, <2>3 DEF SlotWhole, Whole
  <2>4. QED BY <2>2, <2>3
<1>4. QED BY <1>1, <1>2, <1>3 DEF WholeInv, Whole

\* A goroutine that was stopped stays so, whatever others do.
LEMMA CtxStays ==
  ASSUME TypeInv, NEW t \in Slots, Stopped(t),
         \/ \E j \in Jobs : Sign(j) \/ Submit(j) \/ Wake(j)
         \/ \E s \in Slots : Interrupt(s)
         \/ CancelStop \/ Resume \/ User \/ Vanish
  PROVE  Stopped(t)'
<1> USE DEF Stopped
<1>0. run \in [Slots -> RunState] BY DEF TypeInv, TypeOK
<1>1. CASE UNCHANGED run BY <1>1
<1>2. ASSUME NEW f, Cancel(f) PROVE Stopped(t)' BY <1>0, <1>2 DEF Cancel
<1>3. ASSUME NEW s \in Slots, Interrupt(s) PROVE Stopped(t)'
  BY <1>0, <1>3 DEF Interrupt, RunState
<1>4. QED
  BY <1>1, <1>2, <1>3
  DEF Sign, Submit, SubmitSwitch, SubmitSave, SubmitStop, CancelStop, Wake, Resume, User,
      CancelFail, UserWrite, ResumeEnqueue, Vanish

\* Steps outside the goroutines take no parts from a job that completes.
LEMMA WholeOthers ==
  ASSUME TypeInv, OneInv, WholeInv,
         \/ \E j \in Jobs : Sign(j) \/ Submit(j) \/ Wake(j)
         \/ \E s \in Slots : Interrupt(s)
         \/ CancelStop \/ Resume \/ User \/ Vanish
  PROVE  WholeInv'
<1>0. /\ job \in [Jobs -> JobState] /\ current \in Jobs \cup {None} /\ Directed
      /\ \A t \in Slots : run[t].at # "idle" => run[t].job \in Jobs
      /\ user.at \in {"fail", "write", "enqueue"} => user.job \in Jobs
  BY DEF TypeInv, TypeOK, RunsTyped, OneInv
<1>1. \A t \in Slots : Still(t) /\ (Stopped(t) => Stopped(t)') BY OthersStill, CtxStays
<1>2. \A j \in Jobs : /\ job'[j].uploaded = job[j].uploaded
                      /\ job'[j].phase = "completing" => job[j].phase = "completing"
  <2>1. CASE UNCHANGED job BY <2>1
  <2>2. CASE /\ Unfinished
             /\ job' = [job EXCEPT ![current].phase = "failed", ![current].superseded = TRUE]
    BY <1>0, <2>2 DEF JobState, Unfinished
  <2>3. CASE CancelFail BY <1>0, <2>3 DEF CancelFail, JobState
  <2>4. CASE Resume BY <1>0, <2>4 DEF Resume, JobState
  <2>5. QED
    BY <2>1, <2>2, <2>3, <2>4
    DEF Sign, Submit, SubmitSwitch, SubmitSave, SubmitStop, CancelStop, Wake, User, UserWrite,
        ResumeEnqueue, Vanish, Interrupt
<1>3. journal' = journal \/ \E j \in Jobs : journal' = [job |-> j, data |-> job'[j]]
  <2>1. CASE UNCHANGED journal BY <2>1
  <2>2. ASSUME NEW j \in Jobs, SubmitSave(j) PROVE journal' = [job |-> j, data |-> job'[j]]
    BY <2>2 DEF SubmitSave
  <2>3. CASE UserWrite
    <3>1. user.job \in Jobs /\ journal' = [job |-> user.job, data |-> job'[user.job]]
      BY <1>0, <2>3 DEF UserWrite
    <3>2. QED BY <3>1
  <2>4. QED
    BY <2>1, <2>2, <2>3
    DEF Sign, Submit, SubmitSwitch, SubmitStop, CancelStop, Wake, User, ResumeEnqueue, Vanish,
        Interrupt, CancelFail, Resume
<1>4. Mixed \subseteq Mixed' BY DoubledStep DEF Mixed, Resume
<1>5. QED BY <1>0, <1>1, <1>2, <1>3, <1>4, WholeKept

\* The steps of a goroutine: it writes its own job, for which no other works, unless the job
\* was resumed on its way.
LEMMA WholeOwn ==
  ASSUME TypeInv, OneInv, WholeInv, NEW s \in Slots, NEW k \in Jobs, Works(s) \/ job' = job,
         run[s].job = k, \A t \in Slots \ {s} : run'[t] = run[t], Mixed' = Mixed,
         \A j \in Jobs \ {k} : job'[j] = job[j],
         k \in Mixed \/ (job'[k].phase = "completing" => job'[k].uploaded = Parts),
         journal' = journal \/ journal' = [job |-> k, data |-> job'[k]],
         (k \in Mixed /\ run'[s].job = k) \/ SlotWhole(s)'
  PROVE  WholeInv'
<1>1. ASSUME NEW t \in Slots \ {s}, run'[t].job \notin Mixed' PROVE SlotWhole(t)'
  <2>0. run[t].job \notin Mixed BY <1>1
  <2>1. SlotWhole(t) /\ Heading(t)' = Heading(t) /\ (Stopped(t) <=> Stopped(t)')
    BY <2>0 DEF WholeInv, Heading, Stopped
  <2>2. CASE ~Works(t) BY <2>1, <2>2 DEF SlotWhole, Works
  <2>3. CASE Works(t)
    <3>1. run[t].job \in Jobs
      <4>1. run[t].at # "idle" BY <2>3 DEF Works, Heading
      <4>2. QED BY <4>1 DEF TypeInv, RunsTyped
    <3>2. job'[run[t].job] = job[run[t].job]
      <4>1. Works(s) => run[t].job # k BY <2>0, <2>3 DEF OneInv, OnePlace, Single, Mixed
      <4>2. QED BY <3>1, <4>1
    <3>3. QED BY <2>1, <3>1, <3>2 DEF SlotWhole, Whole
  <2>4. QED BY <2>2, <2>3
<1>2. \A j \in Jobs \ Mixed' : job'[j].phase = "completing" => job'[j].uploaded = Parts
  BY DEF WholeInv, Whole
<1>3. journal'.job \in Jobs \ Mixed' /\ journal'.data.phase = "completing"
        => journal'.data.uploaded = Parts
  BY DEF WholeInv
<1>4. run'[s].job \in Mixed' \/ SlotWhole(s)' OBVIOUS
<1>5. QED BY <1>1, <1>2, <1>3, <1>4 DEF WholeInv, Whole

\* completing is written by a goroutine that has all parts acknowledged, or was there before.
LEMMA WholeJob ==
  ASSUME TypeInv, WholeInv, NEW s \in Slots, Run(s), run[s].job \notin Mixed,
         run[s].at \notin {"register", "settle", "write", "requeue", "release"}
  PROVE  job'[run[s].job].phase = "completing" => job'[run[s].job].uploaded = Parts
<1> DEFINE k == run[s].job
<1>0. /\ k \in Jobs /\ run[s].at # "idle" /\ job \in [Jobs -> JobState] /\ job[k] \in JobState
      /\ run[s] \in RunState
      /\ job[k].phase = "completing" => job[k].uploaded = Parts
      /\ SlotWhole(s)
  BY StageFrame DEF TypeInv, TypeOK, WholeInv, Whole
<1>1. CASE UNCHANGED job BY <1>0, <1>1
<1>2. CASE Normalize(s)
  <2>1. CASE job' = [job EXCEPT ![run[s].job].phase = Normal(run[s].job)]
             /\ ~Terminal(job[run[s].job].phase)
    <3>1. job'[k].phase = Normal(k) /\ job'[k].uploaded = job[k].uploaded
      BY <1>0, <2>1, PhasesTyped DEF JobState
    <3>2. Normal(k) = "completing" => job[k].phase = "completing" BY DEF Normal
    <3>3. QED BY <1>0, <3>1, <3>2
  <2>2. QED BY <1>1, <1>2, <2>1 DEF Normalize
<1>3. CASE SessionMissing(s) BY <1>0, <1>3 DEF SessionMissing, JobState
<1>4. CASE Collect(s) BY <1>0, <1>4 DEF Collect, JobState
<1>5. CASE PullMore(s) \/ PullDone(s) BY <1>0, <1>5 DEF PullMore, PullDone, JobState
<1>6. CASE PullFails(s) \/ PullFatal(s) BY <1>0, <1>6 DEF PullFails, PullFatal, JobState
<1>7. CASE Drop(s) BY <1>0, <1>7 DEF Drop, JobState, SlotWhole, Heading
<1>8. CASE Turn(s) BY <1>0, <1>8 DEF Turn, JobState, SlotWhole, Heading, Whole
<1>9. CASE PutAcknowledged(s) BY <1>0, <1>9 DEF PutAcknowledged, JobState, RunState
<1>10. CASE Finish(s) BY <1>0, <1>1, <1>10 DEF Finish, JobState
<1>11. QED
  BY <1>1, <1>2, <1>3, <1>4, <1>5, <1>6, <1>7, <1>8, <1>9, <1>10
  DEF Run, CollectFails, CollectStops, UploadMissing, UploadPart, UploadStops, UploadDone, PutFails,
      Complete, CompleteAcknowledged, CompleteFails, Discard, Remove, Register, Settle, Write, Release

\* Where a step goes on with the package: what it knows of the parts by then.
LEMMA WholeStage ==
  ASSUME TypeInv, WholeInv, NEW s \in Slots, Run(s), run[s].job \notin Mixed,
         run[s].at \notin {"register", "settle", "write", "requeue", "release"}
  PROVE  SlotWhole(s)'
<1> USE DEF Labels, Errors, Stages
<1> DEFINE k == run[s].job
<1>0. /\ k \in Jobs /\ run[s].at # "idle" /\ job \in [Jobs -> JobState] /\ job[k] \in JobState
      /\ RunsTyped /\ run \in [Slots -> RunState] /\ run[s] \in RunState
      /\ job[k].phase = "completing" => job[k].uploaded = Parts
      /\ SlotWhole(s)
  BY StageFrame DEF TypeInv, TypeOK, WholeInv, Whole, RunsTyped
<1>1. ASSUME NEW label \in Stages, Follows(s, label),
             label \in {"turn", "sent"} => job'[k].uploaded = Parts,
             label = "complete" => job'[k].uploaded = Parts \/ Stopped(s),
             label \in {"pull", "drop"} => job'[k].phase # "completing"
      PROVE  SlotWhole(s)'
  BY <1>1 DEF Follows, SlotWhole, Whole, Stopped
<1>2. ASSUME NEW e \in Errors, Fails(s, e) \/ FailsSaving(s, e) PROVE SlotWhole(s)'
  BY <1>0, <1>1, <1>2, Failed
<1>3. CASE Normalize(s)
  <2>1. CASE /\ job' = [job EXCEPT ![k].phase = Normal(k)] /\ Goto(s, Entry[Normal(k)])
             /\ ~Terminal(job[k].phase)
    <3>1. job'[k].phase = Normal(k) /\ job'[k].uploaded = job[k].uploaded
      BY <1>0, <2>1 DEF JobState
    <3>2. Normal(k) \in {"waiting_collect", "pulling", "uploading", "completing"}
      BY <1>0, <2>1, PhasesTyped
    <3>3. Normal(k) = "completing" => job[k].phase = "completing" BY DEF Normal
    <3>4. PICK label \in {"collect", "pull", "upload", "complete"} :
            /\ Entry[Normal(k)] = label
            /\ label = "complete" => Normal(k) = "completing"
            /\ label = "pull" => Normal(k) # "completing"
      BY <3>2 DEF Entry
    <3>5. Follows(s, label) BY <1>0, <2>1, <3>4, Went
    <3>6. QED BY <1>0, <1>1, <3>1, <3>3, <3>4, <3>5
  <2>2. QED BY <1>2, <1>3, <2>1 DEF Normalize, ContextError
<1>4. CASE SessionMissing(s) \/ CollectFails(s) \/ CollectStops(s)
  BY <1>2, <1>4 DEF SessionMissing, CollectFails, CollectStops, ContextError
<1>5. CASE Collect(s)
  <2>1. Follows(s, "pull") BY <1>0, <1>5, Went DEF Collect
  <2>2. job'[k].phase # "completing" BY <1>0, <1>5 DEF Collect, JobState
  <2>3. QED BY <1>1, <2>1, <2>2
<1>6. CASE PullMore(s)
  <2>1. Follows(s, "pull") BY <1>0, <1>6, Went DEF PullMore
  <2>2. job'[k].phase # "completing" BY <1>0, <1>6 DEF PullMore, JobState, SlotWhole, Heading
  <2>3. QED BY <1>1, <2>1, <2>2
<1>7. CASE PullDone(s)
  <2>1. Follows(s, "upload") BY <1>0, <1>7, Went DEF PullDone
  <2>2. QED BY <1>1, <2>1
<1>8. CASE PullFails(s) BY <1>2, <1>8 DEF PullFails, ContextError
<1>9. CASE PullFatal(s)
  <2>1. CASE run' = [run EXCEPT ![s].at = "drop", ![s].err = "fatal"]
    <3>1. Follows(s, "drop") BY <1>0, <2>1 DEF Follows, Heading, RunState
    <3>2. job'[k].phase # "completing" BY <1>0, <1>9 DEF PullFatal, JobState, SlotWhole, Heading
    <3>3. QED BY <1>1, <3>1, <3>2
  <2>2. QED BY <1>2, <1>9, <2>1 DEF PullFatal
<1>10. CASE Drop(s)
  <2>1. Follows(s, "settle") BY <1>0, <1>10, Went DEF Drop
  <2>2. QED BY <1>1, <2>1
<1>11. CASE UploadMissing(s) \/ PutFails(s) \/ CompleteFails(s)
  BY <1>2, <1>11 DEF UploadMissing, PutFails, CompleteFails, TransportError
<1>12. CASE UploadPart(s)
  <2>1. PICK n \in Parts : run' = [run EXCEPT ![s].at = "put", ![s].part = n]
    BY <1>12 DEF UploadPart
  <2>2. Follows(s, "put") BY <1>0, <2>1 DEF Follows, Heading, RunState
  <2>3. QED BY <1>1, <2>2
<1>13. CASE UploadStops(s)
  <2>1. CASE Stopped(s) /\ Goto(s, "complete")
    <3>1. Follows(s, "complete") BY <1>0, <2>1, Went
    <3>2. QED BY <1>1, <2>1, <3>1
  <2>2. QED BY <1>2, <1>13, <2>1 DEF UploadStops, ContextError
<1>14. CASE UploadDone(s)
  <2>1. job' = job /\ job[k].uploaded = Parts BY <1>14 DEF UploadDone
  <2>2. PICK label \in {"turn", "complete"} : Goto(s, label) BY <1>14 DEF UploadDone
  <2>3. Follows(s, label) BY <1>0, <2>2, Went
  <2>4. QED BY <1>1, <2>1, <2>2, <2>3
<1>15. CASE Turn(s)
  <2>1. Follows(s, "complete") BY <1>0, <1>15, Went DEF Turn
  <2>2. job'[k].uploaded = Parts BY <1>0, <1>15 DEF Turn, JobState, SlotWhole, Heading, Whole
  <2>3. QED BY <1>1, <2>1, <2>2
<1>16. CASE PutAcknowledged(s)
  <2>1. run' = [run EXCEPT ![s].at = "upload", ![s].part = 1] BY <1>16 DEF PutAcknowledged
  <2>2. Follows(s, "upload") BY <1>0, <2>1 DEF Follows, Heading, RunState
  <2>3. QED BY <1>1, <2>2
<1>17. CASE Complete(s)
  <2>1. CASE ~Stopped(s) /\ Goto(s, "sent")
    <3>1. Follows(s, "sent") BY <1>0, <2>1, Went
    <3>2. job'[k].uploaded = Parts BY <1>0, <1>17, <2>1 DEF Complete, SlotWhole, Heading, Whole
    <3>3. QED BY <1>1, <3>1, <3>2
  <2>2. QED BY <1>2, <1>17, <2>1 DEF Complete, ContextError
<1>18. CASE CompleteAcknowledged(s) \/ Remove(s) \/ Discard(s) \/ Finish(s)
  <2>1. \/ \E e \in Errors : Fails(s, e)
        \/ \E label \in {"discard", "finish", "remove", "settle"} : Saving(s, label) \/ Goto(s, label)
    BY <1>18 DEF CompleteAcknowledged, Remove, Discard, Finish
  <2>2. ASSUME NEW label \in {"discard", "finish", "remove", "settle"},
               Saving(s, label) \/ Goto(s, label)
        PROVE  SlotWhole(s)'
    <3>1. Follows(s, label) BY <1>0, <2>2, Went
    <3>2. QED BY <1>1, <3>1
  <2>3. QED BY <1>2, <2>1, <2>2
<1>19. QED
  BY <1>3, <1>4, <1>5, <1>6, <1>7, <1>8, <1>9, <1>10, <1>11, <1>12, <1>13, <1>14, <1>15, <1>16,
     <1>17, <1>18
  DEF Run, Register, Settle, Write, Release

\* WholeInv is inductive, given that a job is in one place.
LEMMA WholeNext == TypeInv /\ OneInv /\ WholeInv /\ [Next]_vars => WholeInv'
<1> SUFFICES ASSUME TypeInv, OneInv, WholeInv, [Next]_vars PROVE WholeInv' OBVIOUS
<1>0. /\ job \in [Jobs -> JobState] /\ run \in [Slots -> RunState] /\ Directed
  BY DEF TypeInv, TypeOK, OneInv
<1>1. CASE UNCHANGED vars BY <1>1 DEF WholeInv, SlotWhole, Whole, Heading, Stopped, Mixed
<1>2. ASSUME NEW s \in Slots, Run(s) PROVE WholeInv'
  <2>0. PICK k \in Jobs : k = run[s].job BY <1>0, <1>2, RunStep
  <2>1. run[s].at # "idle" /\ (\A t \in Slots \ {s} : run'[t] = run[t])
        /\ (\A j \in Jobs \ {k} : job'[j] = job[j]) /\ Mixed' = Mixed
        /\ (run'[s].at # "idle" => run'[s].job = k)
    BY <1>0, <1>2, <2>0, RunStep DEF Mixed
  <2>2. k \in Mixed \/ (job[k].phase = "completing" => job[k].uploaded = Parts)
    BY DEF WholeInv, Whole
  <2>3. CASE run[s].at \notin {"register", "settle", "write", "requeue", "release"}
    <3>1. Works(s) BY <2>1, <2>3 DEF Works, Heading
    <3>2. journal' = journal \/ journal' = [job |-> k, data |-> job'[k]]
      BY <1>2, <2>0, <2>3, StageFrame
    <3>3. run'[s].job = k BY <1>2, <2>0, <2>3, StageFollows DEF Follows
    <3>4. k \in Mixed \/ (job'[k].phase = "completing" => job'[k].uploaded = Parts)
      BY <1>2, <2>0, <2>3, WholeJob
    <3>5. k \in Mixed \/ SlotWhole(s)' BY <1>2, <2>0, <2>3, WholeStage
    <3>6. QED BY <2>0, <2>1, <3>1, <3>2, <3>3, <3>4, <3>5, WholeOwn
  <2>4. CASE Settle(s)
    <3>1. /\ UNCHANGED journal /\ run[s].at = "settle" /\ Heading(s)' \in {"requeue", "release"}
          /\ job'[k].uploaded = job[k].uploaded /\ job'[k].phase = Outcome(s)
      BY <2>0, <2>4, SettleStep
    <3>2. Outcome(s) = "completing" => job[k].phase = "completing" BY <2>0 DEF Outcome
    <3>3. Works(s) BY <3>1 DEF Works, Heading
    <3>4. SlotWhole(s)' BY <3>1 DEF SlotWhole
    <3>5. QED BY <2>0, <2>1, <2>2, <3>1, <3>2, <3>3, <3>4, WholeOwn
  <2>5. CASE Register(s) \/ Release(s)
    <3>1. UNCHANGED <<job, journal>> BY <2>5 DEF Register, Release
    <3>2. Heading(s)' \in {"normalize", "idle"}
      BY <1>0, <2>5 DEF Register, Release, Heading, Idle, RunState
    <3>3. SlotWhole(s)' BY <3>2 DEF SlotWhole
    <3>4. QED BY <2>0, <2>1, <2>2, <3>1, <3>3, WholeOwn
  <2>6. CASE Write(s)
    <3>1. run[s].at = "write" /\ UNCHANGED job /\ journal' = [job |-> k, data |-> job'[k]]
          /\ run' = [run EXCEPT ![s].at = run[s].then, ![s].then = "idle"]
      BY <2>0, <2>6 DEF Write
    <3>2. run[s].then # "write" BY <1>0, <3>1 DEF Directed, Stages
    <3>3. Heading(s)' = Heading(s) /\ run'[s].job = run[s].job /\ run'[s].ctx = run[s].ctx
      BY <1>0, <3>1, <3>2 DEF Heading, RunState
    <3>4. k \in Mixed \/ SlotWhole(s)' BY <2>0, <3>1, <3>3 DEF SlotWhole, WholeInv, Whole, Stopped
    <3>5. QED BY <2>0, <2>1, <2>2, <3>1, <3>3, <3>4, WholeOwn
  <2>7. QED BY <1>2, <2>3, <2>4, <2>5, <2>6, RunEnds
<1>3. ASSUME NEW s \in Slots, Pop(s) PROVE WholeInv'
  <2>1. /\ UNCHANGED <<job, journal>> /\ run'[s].at = "register" /\ Mixed' = Mixed
        /\ Head(queue) \in Jobs
        /\ \A t \in Slots \ {s} : run'[t] = run[t]
    BY <1>3, PopStep DEF Mixed
  <2>2. SlotWhole(s)' BY <2>1 DEF SlotWhole, Heading
  <2>3. \A t \in Slots \ {s} : run'[t].job \in Mixed' \/ SlotWhole(t)'
    BY <2>1 DEF SlotWhole, Heading, Whole, Stopped, WholeInv
  <2>4. QED BY <2>1, <2>2, <2>3 DEF WholeInv, Whole
<1>4. CASE Crash
  <2>1. /\ UNCHANGED journal /\ run' = [s \in Slots |-> Idle]
        /\ \A j \in Jobs : job'[j] = Fresh \/ (job'[j] = journal.data /\ journal.job = j)
        /\ Mixed' = Mixed
    BY <1>4 DEF Crash, Mixed
  <2>2. \A s \in Slots : SlotWhole(s)' BY <2>1 DEF SlotWhole, Heading, Idle
  <2>3. QED BY <2>1, <2>2 DEF WholeInv, Whole, Fresh
<1>5. QED BY <1>1, <1>2, <1>3, <1>4, WholeOthers DEF Next, Bridge

\* A round that is canceled, stalled or superseded in mid-upload ends like one that is through;
\* still the fences of upload and complete keep a package with parts missing from being
\* completed, unless two flows wrote what is known of its progress (CompleteIsWhole).
THEOREM CompletedIsWhole == Spec => []CompleteIsWhole
<1>1. Spec => []TypeInv BY InitTyped, NextTyped, PTL DEF Spec
<1>2. Spec => []OneInv BY <1>1, OneInit, OneNext, PTL DEF Spec
<1>3. Spec => []WholeInv BY <1>1, <1>2, WholeInit, WholeNext, PTL DEF Spec
<1>4. WholeInv => CompleteIsWhole
  BY DEF WholeInv, SlotWhole, Heading, Whole, CompleteIsWhole, Mixed
<1>5. QED BY <1>3, <1>4, PTL

--------------------------------------------------------------------------------
(***************************************************************************)
(* A delivery that was replaced                                            *)
(***************************************************************************)
\* Replaced, or about to be: a submit handler has it for its predecessor.
Displaced(k) == k \in gone \/ \E j \in Jobs : stale[j].job = k

Standing ==
  /\ current \notin gone
  /\ \A j \in Jobs : stale[j].job # None => stale[j].job # current

GoneEnded ==
  /\ \A k \in gone : Sent(k)
  /\ journal.job \in gone => Terminal(journal.data.phase)

\* A delivery that was overtaken while it was being submitted has ended.
SubmitEnded == \A j \in Jobs : submit[j] \in {"stop", "save"} /\ j # current => Terminal(job[j].phase)

\* A goroutine has its job for itself, until it is idle again.
Separate ==
  /\ \A s, t \in Slots : run[s].at # "idle" /\ run[t].at # "idle" /\ run[s].job = run[t].job => s = t
  /\ \A s \in Slots, j \in Jobs :
       run[s].at # "idle" /\ run[s].job = j =>
         ~Queued(j) /\ j \notin backoff /\ submit[j] \notin {"stop", "save"}

\* A write of the journal that is late writes a job that has ended.
WritesEnded ==
  \A s \in Slots : run[s].at = "write" /\ Displaced(run[s].job) => Terminal(job[run[s].job].phase)

GoneInv ==
  /\ user.at = "write" => user.then # "none"
  /\ user.at = "none" =>
       Standing /\ GoneEnded /\ SubmitEnded /\ Separate /\ WritesEnded /\ doubled = {}

\* Nothing is replaced at first.
LEMMA GoneInit == Init => GoneInv
BY NoneNoJob DEF Init, GoneInv, Standing, GoneEnded, SubmitEnded, Separate, WritesEnded, Idle, NoOne, Queued

\* Without a cancel or resume, the steps that may be taken; a user's request never ends in none.
LEMMA NoUser ==
  ASSUME TypeInv, GoneInv, [Next]_vars
  PROVE  /\ user'.at = "write" => user'.then # "none"
         /\ user'.at = "none" =>
              /\ user.at = "none"
              /\ \/ UNCHANGED vars
                 \/ \E j \in Jobs : Sign(j) \/ Submit(j) \/ Wake(j)
                 \/ \E s \in Slots : Pop(s) \/ Run(s) \/ Interrupt(s)
                 \/ Vanish \/ Crash
<1>0. user.at = "write" => user.then \in {"enqueue", "done"} BY DEF GoneInv, TypeInv, TypeOK, UserState
<1>1. CASE UNCHANGED user /\ ~(CancelStop \/ Resume \/ User) BY <1>0, <1>1 DEF Next, Bridge
<1>2. CASE CancelStop BY <1>2 DEF CancelStop, TypeInv, TypeOK, UserState
<1>3. CASE Resume BY <1>3 DEF Resume, UserSaving, UserGoes
<1>4. CASE CancelFail BY <1>4 DEF CancelFail, UserSaving, UserGoes
<1>5. CASE UserWrite BY <1>0, <1>5 DEF UserWrite, UserGoes
<1>6. CASE ResumeEnqueue BY <1>6 DEF ResumeEnqueue, UserGoes
<1>7. CASE Crash BY <1>7 DEF Crash, UserGoes
<1>8. ASSUME NEW s \in Slots, Run(s) \/ Pop(s) \/ Interrupt(s) PROVE UNCHANGED user
  BY <1>8
  DEF Run, Normalize, SessionMissing, Collect, CollectFails, CollectStops, PullMore, PullDone,
      PullFails, PullFatal, Drop, UploadMissing, UploadPart, UploadStops, UploadDone, Turn,
      PutAcknowledged, PutFails, Complete, CompleteAcknowledged, CompleteFails, Discard, Remove,
      Finish, Register, Settle, Write, Release, Pop, Interrupt
<1>9. ASSUME NEW j \in Jobs, Sign(j) \/ Submit(j) \/ Wake(j) PROVE UNCHANGED user
  BY <1>9 DEF Sign, Submit, SubmitSwitch, SubmitSave, SubmitStop, Wake
<1>10. QED
  BY <1>0, <1>1, <1>2, <1>3, <1>4, <1>5, <1>6, <1>7, <1>8, <1>9 DEF Next, Bridge, User, Vanish

\* What Separate says of the goroutines that were not idle before.
LEMMA StillSeparate ==
  ASSUME TypeInv, Separate, \A t \in Slots : run'[t].at # "idle" => run[t].at # "idle" /\ run'[t].job = run[t].job,
         \A t \in Slots, j \in Jobs : run'[t].at # "idle" /\ run[t].job = j =>
           /\ Queued(j)' => Queued(j)
           /\ j \in backoff' => j \in backoff
           /\ submit'[j] \in {"stop", "save"} => submit[j] \in {"stop", "save"}
  PROVE  Separate'
BY DEF Separate

\* The handlers of submit: the old job ends before the new one stands for the task.
LEMMA GoneSubmit ==
  ASSUME TypeInv, OneInv, GoneInv, user.at = "none", NEW k \in Jobs, Sign(k) \/ Submit(k) \/ Wake(k)
  PROVE  Standing' /\ GoneEnded' /\ SubmitEnded' /\ Separate' /\ WritesEnded'
<1>0. /\ Standing /\ GoneEnded /\ SubmitEnded /\ Separate /\ WritesEnded /\ Known /\ OnePlace /\ Owned
      /\ doubled = {} /\ doubled' = {}
      /\ submit \in [Jobs -> {"new", "signed", "stop", "save", "accepted", "lost"}]
      /\ stale \in [Jobs -> [job : Jobs \cup {None}, func : Slots \cup {None}]]
      /\ queue \in Seq(Jobs) /\ job \in [Jobs -> JobState] /\ gone \subseteq Jobs
      /\ current \in Jobs \cup {None}
      /\ \A t \in Slots : run[t].at # "idle" => run[t].job \in Jobs
  BY DoubledStep DEF GoneInv, OneInv, TypeInv, TypeOK, RunsTyped
<1>1. \A t \in Slots : run'[t].at = run[t].at /\ run'[t].job = run[t].job BY OthersStill DEF Still
<1>2. None \notin Jobs BY NoneNoJob
<1>3. CASE Sign(k)
  <2>1. UNCHANGED <<job, current, queue, backoff, stale, journal, gone>> BY <1>3 DEF Sign
  <2>2. \A j \in Jobs : /\ submit'[j] \in {"stop", "save"} <=> submit[j] \in {"stop", "save"}
                        /\ submit[j] \notin {"new", "signed"} => submit'[j] \notin {"new", "signed"}
    BY <1>0, <1>3 DEF Sign, Submitting
  <2>3. Standing' /\ GoneEnded' BY <1>0, <2>1, <2>2 DEF Standing, GoneEnded, Sent
  <2>4. SubmitEnded' /\ WritesEnded'
    BY <1>0, <1>1, <2>1, <2>2 DEF SubmitEnded, WritesEnded, Displaced
  <2>5. Separate' BY <1>0, <1>1, <2>1, <2>2, StillSeparate DEF Queued
  <2>6. QED BY <2>3, <2>4, <2>5
<1>4. CASE SubmitSwitch(k)
  <2>1. /\ UNCHANGED <<queue, backoff, journal, gone>> /\ current' = k /\ submit[k] = "signed"
        /\ submit'[k] \in {"stop", "save"}
        /\ \A j \in Jobs \ {k} : submit'[j] = submit[j] /\ stale'[j] = stale[j]
        /\ stale'[k].job = current
    BY <1>0, <1>4 DEF SubmitSwitch, Submitting
  <2>2. \A j \in Jobs : /\ j # current => job'[j] = job[j]
                        /\ Terminal(job[j].phase) \/ j = current => Terminal(job'[j].phase)
    <3>1. CASE Unfinished /\ job' = [job EXCEPT ![current].phase = "failed", ![current].superseded = TRUE]
      BY <1>0, <3>1 DEF JobState, Terminal, Unfinished
    <3>2. CASE ~Unfinished /\ UNCHANGED job BY <1>0, <1>2, <3>2 DEF Unfinished
    <3>3. QED BY <1>4, <3>1, <3>2 DEF SubmitSwitch
  <2>3. Standing'
    <3>1. k \notin gone BY <1>0, <2>1 DEF GoneEnded, Sent
    <3>2. \A j \in Jobs : stale[j].job # k BY <1>0, <1>2, <2>1 DEF Known, Sent
    <3>3. current # k BY <1>0, <1>2, <2>1 DEF Known, Sent
    <3>4. QED BY <2>1, <3>1, <3>2, <3>3 DEF Standing
  <2>4. GoneEnded' BY <1>0, <2>1 DEF GoneEnded, Sent
  <2>5. SubmitEnded' BY <1>0, <2>1, <2>2 DEF SubmitEnded
  <2>6. Separate'
    <3>1. \A t \in Slots : run[t].at # "idle" => run[t].job # k BY <1>0, <2>1 DEF Known, Sent
    <3>2. QED BY <1>0, <1>1, <2>1, <3>1, StillSeparate DEF Queued
  <2>7. WritesEnded'
    <3>1. \A j \in Jobs : Displaced(j)' => Displaced(j) \/ j = current BY <2>1 DEF Displaced
    <3>2. ASSUME NEW t \in Slots, run'[t].at = "write", Displaced(run[t].job)'
          PROVE  Terminal(job'[run[t].job].phase)
      <4>1. run[t].at = "write" /\ run[t].job \in Jobs /\ run'[t].job = run[t].job
        BY <1>0, <1>1, <3>2
      <4>2. Displaced(run[t].job) \/ run[t].job = current
        BY <2>1, <3>2, <4>1 DEF Displaced
      <4>3. QED BY <1>0, <2>2, <4>1, <4>2 DEF WritesEnded
    <3>3. QED BY <1>1, <3>2 DEF WritesEnded
  <2>8. QED BY <2>3, <2>4, <2>5, <2>6, <2>7
<1>5. CASE SubmitStop(k)
  <2>1. UNCHANGED <<job, current, queue, backoff, stale, journal, gone>> BY <1>5 DEF SubmitStop
  <2>2. \A j \in Jobs : /\ submit'[j] \in {"stop", "save"} <=> submit[j] \in {"stop", "save"}
                        /\ submit[j] \notin {"new", "signed"} => submit'[j] \notin {"new", "signed"}
    BY <1>0, <1>5 DEF SubmitStop, Submitting
  <2>3. Standing' /\ GoneEnded' BY <1>0, <2>1, <2>2 DEF Standing, GoneEnded, Sent
  <2>4. SubmitEnded' /\ WritesEnded'
    BY <1>0, <1>1, <2>1, <2>2 DEF SubmitEnded, WritesEnded, Displaced
  <2>5. Separate' BY <1>0, <1>1, <2>1, <2>2, StillSeparate DEF Queued
  <2>6. QED BY <2>3, <2>4, <2>5
<1>6. CASE SubmitSave(k)
  <2>1. /\ UNCHANGED <<job, current, backoff>> /\ submit[k] = "save" /\ submit'[k] = "accepted"
        /\ \A j \in Jobs \ {k} : submit'[j] = submit[j]
        /\ journal' = [job |-> k, data |-> job[k]]
        /\ gone' = gone \cup ({stale[k].job} \ {None})
        /\ \A j \in Jobs : stale'[j].job \in {stale[j].job, None}
        /\ Enqueue(k)
    BY <1>0, <1>6 DEF SubmitSave, Submitting, NoOne
  <2>2. \A j \in Jobs : Displaced(j)' => Displaced(j) BY <1>2, <2>1 DEF Displaced
  <2>3. Standing' BY <1>0, <2>1 DEF Standing
  <2>4. GoneEnded'
    <3>1. \A j \in gone' : Sent(j) BY <1>0, <2>1 DEF GoneEnded, Known
    <3>2. \A j \in gone' : Sent(j)' BY <1>0, <2>1, <3>1 DEF Sent
    <3>3. k \in gone' => k # current BY <1>0, <2>1, <2>3 DEF Standing
    <3>4. k # current => Terminal(job[k].phase) BY <1>0, <2>1 DEF SubmitEnded
    <3>5. QED BY <2>1, <3>2, <3>3, <3>4 DEF GoneEnded
  <2>5. SubmitEnded' BY <1>0, <2>1 DEF SubmitEnded
  <2>6. Separate'
    <3>1. ~Queued(k) /\ Distinct BY <1>0, <2>1 DEF OnePlace, Apart, Unqueued, Distinct
    <3>2. \A j \in Jobs : Queued(j)' => Queued(j) \/ j = k BY <1>0, <2>1, <3>1, EnqueueStep
    <3>3. \A t \in Slots : run[t].at # "idle" => run[t].job # k BY <1>0, <2>1 DEF Separate
    <3>4. QED BY <1>0, <1>1, <2>1, <3>2, <3>3, StillSeparate
  <2>7. WritesEnded'
    <3>1. ASSUME NEW t \in Slots, run'[t].at = "write", Displaced(run[t].job)'
          PROVE  Terminal(job'[run[t].job].phase)
      <4>1. PICK j \in Jobs : j = run[t].job BY <1>0, <1>1, <3>1
      <4>2. Displaced(j)' BY <1>1, <3>1, <4>1 DEF Displaced
      <4>3. QED BY <1>0, <1>1, <2>1, <2>2, <3>1, <4>1, <4>2 DEF WritesEnded
    <3>2. QED BY <1>1, <3>1 DEF WritesEnded
  <2>8. QED BY <2>3, <2>4, <2>5, <2>6, <2>7
<1>7. CASE Wake(k)
  <2>1. /\ UNCHANGED <<job, current, submit, stale, journal, gone>> /\ k \in backoff
        /\ backoff' = backoff \ {k} /\ (Enqueue(k) \/ UNCHANGED queue)
    BY <1>7 DEF Wake
  <2>2. Standing' /\ GoneEnded' BY <1>0, <2>1 DEF Standing, GoneEnded, Sent
  <2>3. SubmitEnded' /\ WritesEnded' BY <1>0, <1>1, <2>1 DEF SubmitEnded, WritesEnded, Displaced
  <2>4. Separate'
    <3>1. ~Queued(k) /\ Distinct BY <1>0, <2>1 DEF OnePlace, Apart, Distinct
    <3>2. \A j \in Jobs : Queued(j)' => Queued(j) \/ j = k
      BY <1>0, <2>1, <3>1, EnqueueStep DEF Queued
    <3>3. \A t \in Slots : run[t].at # "idle" => run[t].job # k BY <1>0, <2>1 DEF Separate
    <3>4. QED BY <1>0, <1>1, <2>1, <3>2, <3>3, StillSeparate
  <2>5. QED BY <2>2, <2>3, <2>4
<1>8. QED BY <1>3, <1>4, <1>5, <1>6, <1>7 DEF Submit

\* A goroutine writes the journal as the owner, who is nobody's predecessor, or a while after
\* it asked.
LEMMA GoneRun ==
  ASSUME TypeInv, OneInv, GoneInv, user.at = "none", NEW s \in Slots, Run(s)
  PROVE  Standing' /\ GoneEnded' /\ SubmitEnded' /\ Separate' /\ WritesEnded'
<1>0. /\ Standing /\ GoneEnded /\ SubmitEnded /\ Separate /\ WritesEnded /\ Directed /\ Owned
      /\ run \in [Slots -> RunState] /\ job \in [Jobs -> JobState]
      /\ \A t \in Slots : run[t].at # "idle" => run[t].job \in Jobs
  BY DEF GoneInv, OneInv, TypeInv, TypeOK, RunsTyped
<1>1. PICK k \in Jobs : k = run[s].job BY <1>0, RunStep
<1>2. /\ UNCHANGED <<current, queue, submit, gone>> /\ run[s].at # "idle"
      /\ \A j \in Jobs : stale'[j].job = stale[j].job
      /\ \A t \in Slots \ {s} : run'[t] = run[t]
      /\ run'[s].at # "idle" => run'[s].job = k
      /\ \A j \in Jobs \ {k} : job'[j] = job[j]
  BY <1>0, <1>1, RunStep
<1>3. /\ ~Queued(k) /\ k \notin backoff /\ submit[k] \notin {"stop", "save"}
      /\ \A t \in Slots \ {s} : run[t].at # "idle" => run[t].job # k
  BY <1>0, <1>1, <1>2 DEF Separate
<1>4. OwnerIntact(k) => k = current /\ ~Displaced(k)
  BY <1>0, <1>1, <1>2, NoneNoJob DEF OwnerIntact, Owned, Standing, Displaced
<1>5. /\ run'[s].at = "write" => OwnerIntact(k)
      /\ \/ journal' = journal
         \/ /\ journal' = [job |-> k, data |-> job'[k]]
            /\ OwnerIntact(k) \/ (run[s].at = "write" /\ UNCHANGED job)
      /\ backoff' = backoff \/ (backoff' = backoff \cup {k} /\ run'[s].at = "idle")
  <2>1. CASE run[s].at \notin {"register", "settle", "write", "requeue", "release"}
    BY <1>1, <2>1, StageFollows, StageFrame DEF Follows
  <2>2. CASE Settle(s) BY <1>1, <2>2, SettleStep
  <2>3. CASE Register(s) BY <1>0, <2>3 DEF Register, Idle, RunState
  <2>4. CASE Write(s)
    <3>1. run[s].at = "write" /\ UNCHANGED <<job, backoff>>
          /\ journal' = [job |-> k, data |-> job'[k]]
          /\ run' = [run EXCEPT ![s].at = run[s].then, ![s].then = "idle"]
      BY <1>1, <2>4 DEF Write
    <3>2. run[s].then # "write" BY <1>0, <3>1 DEF Directed, Stages
    <3>3. run'[s].at # "write" BY <1>0, <3>1, <3>2 DEF RunState
    <3>4. QED BY <3>1, <3>3
  <2>5. CASE Release(s) BY <1>0, <1>1, <2>5 DEF Release, Idle
  <2>6. QED BY <2>1, <2>2, <2>3, <2>4, <2>5, RunEnds
<1>6. Standing' BY <1>0, <1>2 DEF Standing
<1>7. GoneEnded'
  <2>1. \A j \in gone : Sent(j)' BY <1>0, <1>2 DEF GoneEnded, Sent
  <2>2. CASE journal' = journal BY <1>0, <1>2, <2>1, <2>2 DEF GoneEnded
  <2>3. CASE journal' = [job |-> k, data |-> job'[k]] /\ OwnerIntact(k)
    BY <1>2, <1>4, <2>1, <2>3 DEF GoneEnded, Displaced
  <2>4. CASE journal' = [job |-> k, data |-> job'[k]] /\ run[s].at = "write" /\ UNCHANGED job
    BY <1>0, <1>1, <1>2, <2>1, <2>4 DEF GoneEnded, WritesEnded, Displaced
  <2>5. QED BY <1>5, <2>2, <2>3, <2>4
<1>8. SubmitEnded' BY <1>0, <1>2, <1>3 DEF SubmitEnded
<1>9. Separate'
  <2>1. \A j \in Jobs : Queued(j)' <=> Queued(j) BY <1>2 DEF Queued
  <2>2. \A t \in Slots : run'[t].at # "idle" => run[t].at # "idle" /\ run'[t].job = run[t].job
    BY <1>1, <1>2
  <2>3. \A t \in Slots, j \in Jobs :
          run'[t].at # "idle" /\ run[t].job = j /\ j \in backoff' => j \in backoff
    BY <1>2, <1>3, <1>5
  <2>4. QED BY <1>0, <1>2, <2>1, <2>2, <2>3, StillSeparate
<1>10. WritesEnded'
  <2>1. ASSUME NEW t \in Slots, run'[t].at = "write", NEW j, j = run'[t].job, Displaced(j)
        PROVE  Terminal(job'[j].phase)
    <3>1. CASE t = s BY <1>2, <1>4, <1>5, <2>1, <3>1
    <3>2. CASE t # s
      <4>1. run[t].at = "write" /\ run[t].job = j /\ j \in Jobs /\ j # k
        BY <1>0, <1>2, <1>3, <2>1, <3>2
      <4>2. QED BY <1>0, <1>2, <2>1, <4>1 DEF WritesEnded
    <3>3. QED BY <3>1, <3>2
  <2>2. QED BY <1>2, <2>1 DEF WritesEnded, Displaced
<1>11. QED BY <1>6, <1>7, <1>8, <1>9, <1>10

\* The scheduler, the interruptions and the computer.
LEMMA GoneRest ==
  ASSUME TypeInv, OneInv, GoneInv, user.at = "none",
         (\E s \in Slots : Pop(s) \/ Interrupt(s)) \/ Vanish \/ Crash
  PROVE  Standing' /\ GoneEnded' /\ SubmitEnded' /\ Separate' /\ WritesEnded'
<1>0. /\ Standing /\ GoneEnded /\ SubmitEnded /\ Separate /\ WritesEnded /\ OnePlace /\ Distinct
      /\ doubled = {}
      /\ queue \in Seq(Jobs) /\ gone \subseteq Jobs /\ journal.job \in Jobs \cup {None}
      /\ submit \in [Jobs -> {"new", "signed", "stop", "save", "accepted", "lost"}]
  BY DEF GoneInv, OneInv, OnePlace, Distinct, TypeInv, TypeOK
<1>1. ASSUME NEW s \in Slots, Pop(s)
      PROVE  Standing' /\ GoneEnded' /\ SubmitEnded' /\ Separate' /\ WritesEnded'
  <2>1. PICK k \in Jobs : k = Head(queue) BY <1>1, PopStep
  <2>2. /\ UNCHANGED <<job, current, backoff, submit, stale, journal, gone>>
        /\ queue # <<>> /\ queue' = Tail(queue) /\ run[s].at = "idle"
        /\ \A t \in Slots \ {s} : run'[t] = run[t]
        /\ run'[s].at = "register" /\ run'[s].job = k
    BY <1>1, <2>1, PopStep
  <2>3. Standing' /\ GoneEnded' /\ SubmitEnded'
    BY <1>0, <2>2 DEF Standing, GoneEnded, Sent, SubmitEnded
  <2>4. Separate'
    <3>1. Queued(k) /\ \A j \in Jobs : Queued(j)' => Queued(j) /\ j # k
      BY <1>0, <1>1, <2>1, <2>2, DoubledStep, TailStep
    <3>2. k \notin backoff /\ submit[k] \notin {"stop", "save"}
      BY <1>0, <3>1 DEF OnePlace, Apart, Unqueued
    <3>3. \A t \in Slots \ {s} : run[t].at # "idle" => run[t].job # k BY <1>0, <3>1 DEF Separate
    <3>4. QED BY <1>0, <2>2, <3>1, <3>2, <3>3 DEF Separate
  <2>5. WritesEnded' BY <1>0, <2>2 DEF WritesEnded, Displaced
  <2>6. QED BY <2>3, <2>4, <2>5
<1>2. CASE Vanish \/ \E s \in Slots : Interrupt(s)
  <2>1. UNCHANGED <<job, current, queue, backoff, submit, stale, journal, gone>>
    BY <1>2 DEF Vanish, Interrupt
  <2>2. \A t \in Slots : run'[t].at = run[t].at /\ run'[t].job = run[t].job
    BY <1>2, OthersStill DEF Still
  <2>3. Standing' /\ GoneEnded' /\ SubmitEnded'
    BY <1>0, <2>1 DEF Standing, GoneEnded, Sent, SubmitEnded
  <2>4. WritesEnded' BY <1>0, <2>1, <2>2 DEF WritesEnded, Displaced
  <2>5. Separate' BY <1>0, <2>1, <2>2, StillSeparate DEF Queued
  <2>6. QED BY <2>3, <2>4, <2>5
<1>3. CASE Crash
  <2> DEFINE recovered == {j \in Jobs : journal.job = j /\ ~Terminal(journal.data.phase)}
  <2>1. /\ current' = (IF recovered = {} THEN None ELSE journal.job)
        /\ UNCHANGED <<journal, gone>> /\ run' = [s \in Slots |-> Idle]
        /\ submit' = [j \in Jobs |-> IF submit[j] \in {"stop", "save"} THEN "lost" ELSE submit[j]]
        /\ \A j \in Jobs : stale'[j].job = None
    BY <1>3 DEF Crash, NoOne
  <2>2. current' \notin gone
    <3>1. CASE recovered = {} BY <1>0, <2>1, <3>1, NoneNoJob
    <3>2. CASE recovered # {} BY <1>0, <2>1, <3>2 DEF GoneEnded
    <3>3. QED BY <3>1, <3>2
  <2>3. Standing' BY <2>1, <2>2 DEF Standing
  <2>4. GoneEnded' BY <1>0, <2>1 DEF GoneEnded, Sent
  <2>5. SubmitEnded' BY <1>0, <2>1 DEF SubmitEnded
  <2>6. Separate' /\ WritesEnded' BY <2>1 DEF Separate, WritesEnded, Idle
  <2>7. QED BY <2>3, <2>4, <2>5, <2>6
<1>4. QED BY <1>1, <1>2, <1>3

\* GoneInv is inductive.
LEMMA GoneNext == TypeInv /\ OneInv /\ GoneInv /\ [Next]_vars => GoneInv'
<1> SUFFICES ASSUME TypeInv, OneInv, GoneInv, [Next]_vars PROVE GoneInv' OBVIOUS
<1>1. user'.at = "write" => user'.then # "none" BY NoUser
<1>1a. ASSUME user'.at = "none" PROVE doubled' = {}
  <2>1. user.at = "none" /\ doubled = {} BY <1>1a, NoUser DEF GoneInv
  <2>2. CASE UNCHANGED vars BY <2>1, <2>2 DEF vars, history
  <2>3. CASE Crash BY <2>3 DEF Crash
  <2>4. QED BY <1>1a, <2>1, <2>2, <2>3, NoUser, DoubledStep
<1>2. SUFFICES ASSUME user'.at = "none"
               PROVE  Standing' /\ GoneEnded' /\ SubmitEnded' /\ Separate' /\ WritesEnded'
  BY <1>1, <1>1a DEF GoneInv
<1>3. CASE UNCHANGED vars
  BY <1>2, <1>3
  DEF GoneInv, Standing, GoneEnded, Sent, SubmitEnded, Separate, Queued, WritesEnded, Displaced
<1>4. QED BY <1>2, <1>3, NoUser, GoneSubmit, GoneRun, GoneRest

\* As long as no user cancels or resumes, the delivery that a newer one has replaced never stands
\* for the task again, after no restart: the journal a late write of its goroutine leaves is that
\* of a job that has ended (submit, saveJob, ownerIntact, start).
THEOREM ReplacedForGood == Spec => []GoneStaysGone
<1>1. Spec => []TypeInv BY InitTyped, NextTyped, PTL DEF Spec
<1>2. Spec => []OneInv BY <1>1, OneInit, OneNext, PTL DEF Spec
<1>3. Spec => []GoneInv BY <1>1, <1>2, GoneInit, GoneNext, PTL DEF Spec
<1>4. GoneInv => GoneStaysGone BY DEF GoneInv, Standing, GoneStaysGone
<1>5. QED BY <1>3, <1>4, PTL

================================================================================
