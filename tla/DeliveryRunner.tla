----------------------------- MODULE DeliveryRunner -----------------------------
(***************************************************************************)
(* Delivery of a log package by the terminal bridge: delivery_runner.go    *)
(* and delivery_job.go.                                                    *)
(*                                                                         *)
(* One task.  Every delivery the panel signs is a job object of its own,   *)
(* but all of them have the id "dj-<task>": they share the entry of        *)
(* r.jobs, the entry of r.cancels, the journal file and the local copy of  *)
(* the package.  The scheduler hands queued jobs to at most `Slots'        *)
(* goroutines; a slot below is one of them.  A goroutine is a program cut  *)
(* where it leaves the mutex, calls the node or the platform, or touches a *)
(* file.                                                                   *)
(*                                                                         *)
(* Data: a package is `Size' units long and `PartCount' parts; what it     *)
(* holds is not told apart (a digest that differs is a fatal failure).     *)
(* The platform is external: it takes the token of the delivery it signed  *)
(* last, until that one is complete (log_collect_upload_service.py).       *)
(***************************************************************************)
EXTENDS Integers, FiniteSets, Sequences

CONSTANTS
  Deliveries,     \* bound: how often the panel has the task's delivery signed
  SlotCount,      \* deliveryConcurrency.Tasks: jobs that run at a time
  PartCount,      \* parts of a package
  Size,           \* units of a package: pulled and local bytes
  MaxAttempts,    \* maxDeliveryAttempts
  MaxTransient,   \* maxDeliveryTransientAttempts
  Troubles,       \* what goes wrong or is asked for in a behaviour
  MaxTroubles     \* bound: how often

AllTroubles == {"fail", "auth", "fatal", "disk", "stall", "expire", "lost", "vanish", "crash",
                "cancel", "resume"}

ASSUME RunnerConstants ==
  /\ Deliveries \in Nat /\ SlotCount \in Nat
  /\ PartCount \in Nat \ {0} /\ Size \in Nat \ {0}
  /\ MaxAttempts \in Nat \ {0} /\ MaxTransient \in Nat /\ MaxAttempts <= MaxTransient
  /\ Troubles \subseteq AllTroubles
  /\ MaxTroubles \in Nat

Jobs          == 1 .. Deliveries        \* in the order they are signed
Slots         == 1 .. SlotCount
None          == 0                      \* no job, no run
Parts         == 1 .. PartCount
QueueCapacity == 16
Phases        == {"waiting_collect", "pulling", "uploading", "completing", "retrying", "done", "failed"}
Errors        == {"none", "plain", "transient", "disk", "auth", "fatal", "canceled", "superseded"}

VARIABLES
  \* --- the bridge process: the job objects, r.jobs and r.cancels of the task's id,
  \*     the queue, the goroutines and those that sleep a backoff
  job, current, cancels, queue, run, backoff,
  \* --- submit handlers, by job; a user's cancel or resume
  submit, stale, user,
  \* --- the disk: dj-<task>.json, the local copy
  journal, copy,
  \* --- the platform: the delivery whose token it takes, the deliveries it has
  session, delivered,
  \* --- history: deliveries that an accepted one has displaced; jobs that a user resumed
  \*     while they were still on their way, in this process and in earlier ones
  gone, doubled, torn,
  troubles

jobVars      == <<job, current, cancels, queue, backoff>>
clientVars   == <<submit, stale, user>>
diskVars     == <<journal, copy>>
platformVars == <<session, delivered>>
history      == <<gone, doubled, torn>>
vars == <<jobVars, run, clientVars, diskVars, platformVars, history, troubles>>

JobState ==
  [phase : Phases, uploaded : SUBSET Parts, pulled : 0 .. Size, attempt : Nat,
   needs_reauth : BOOLEAN, superseded : BOOLEAN]

\* Where a goroutine is; where it goes on after it has written the journal.
Labels ==
  {"idle", "register", "normalize", "collect", "pull", "drop", "upload", "put", "turn",
   "complete", "sent", "discard", "remove", "finish", "settle", "write", "requeue", "release"}

RunState ==
  [job : Jobs \cup {None}, at : Labels, then : Labels,
   err : Errors, ctx : {"live", "canceled", "expired"}, stalled : BOOLEAN,
   part : Parts, uploaded : 0 .. PartCount, pulled : 0 .. Size]

UserState ==
  [at : {"none", "fail", "write", "enqueue", "done"},
   then : {"none", "enqueue", "done"}, job : Jobs \cup {None}]

TypeOK ==
  /\ job \in [Jobs -> JobState]
  /\ current \in Jobs \cup {None}
  /\ cancels \in Slots \cup {None}
  /\ queue \in Seq(Jobs)
  /\ run \in [Slots -> RunState]
  /\ backoff \subseteq Jobs
  /\ submit \in [Jobs -> {"new", "signed", "stop", "save", "accepted", "lost"}]
  /\ stale \in [Jobs -> [job : Jobs \cup {None}, func : Slots \cup {None}]]
  /\ user \in UserState
  /\ journal \in [job : Jobs \cup {None}, data : JobState]
  /\ copy \in 0 .. Size
  /\ session \in Jobs \cup {None}
  /\ delivered \subseteq Jobs
  /\ gone \subseteq Jobs /\ doubled \subseteq Jobs /\ torn \subseteq Jobs
  /\ troubles \in 0 .. MaxTroubles

Fresh == [phase |-> "waiting_collect", uploaded |-> {}, pulled |-> 0, attempt |-> 0,
          needs_reauth |-> FALSE, superseded |-> FALSE]
Idle  == [job |-> None, at |-> "idle", then |-> "idle", err |-> "none", ctx |-> "live",
          stalled |-> FALSE, part |-> 1, uploaded |-> 0, pulled |-> 0]
NoOne == [job |-> None, func |-> None]

Init ==
  /\ job = [j \in Jobs |-> Fresh]
  /\ current = None /\ cancels = None /\ queue = <<>> /\ backoff = {}
  /\ run = [s \in Slots |-> Idle]
  /\ submit = [j \in Jobs |-> "new"]
  /\ stale = [j \in Jobs |-> NoOne]
  /\ user = [at |-> "none", then |-> "none", job |-> None]
  /\ journal = [job |-> None, data |-> Fresh]
  /\ copy = 0
  /\ session = None /\ delivered = {}
  /\ gone = {} /\ doubled = {} /\ torn = {}
  /\ troubles = 0

Trouble(t) == t \in Troubles /\ troubles < MaxTroubles /\ troubles' = troubles + 1

Terminal(phase) == phase \in {"done", "failed"}

\* Mutant of OwnerIntact: the entry of the task is not compared.
OwnerUnlessTold(j) == ~job[j].superseded

\* ownerIntact(): is this still the job that stands for the task?
OwnerIntact(j) == ~job[j].superseded /\ current \in {None, j}

\* A full queue keeps the job for the next start of the bridge.
Enqueue(j) == queue' = IF Len(queue) < QueueCapacity THEN Append(queue, j) ELSE queue

\* Calling the cancel function f; that of a run that has ended does nothing.
Cancel(f) == run' = [s \in Slots |-> IF s = f /\ run[s].ctx = "live"
                                     THEN [run[s] EXCEPT !.ctx = "canceled"] ELSE run[s]]

--------------------------------------------------------------------------------
(***************************************************************************)
(* submit(), after the panel has had a delivery signed.                    *)
(***************************************************************************)
Submitting(j, label) == submit' = [submit EXCEPT ![j] = label]

\* POST .../deliver: the platform rebuilds its session for the new delivery, and the
\* tokens of the older ones are no longer valid.
Sign(j) ==
  /\ submit[j] = "new"
  /\ \A i \in Jobs : i < j => submit[i] # "new"
  /\ Submitting(j, "signed")
  /\ session' = j
  /\ UNCHANGED <<jobVars, run, stale, user, diskVars, delivered, history, troubles>>

Unfinished == current # None /\ ~Terminal(job[current].phase)

\* Under the mutex: a job that has not ended is superseded, one that has ended is
\* just replaced.
SubmitSwitch(j) ==
  /\ submit[j] = "signed"
  /\ current' = j
  /\ \/ /\ Unfinished
        /\ job' = [job EXCEPT ![current].phase = "failed", ![current].superseded = TRUE]
        /\ stale' = [stale EXCEPT ![j] = [job |-> current, func |-> cancels]]
        /\ cancels' = None
        /\ Submitting(j, IF cancels = None THEN "save" ELSE "stop")
     \/ /\ ~Unfinished
        /\ stale' = [stale EXCEPT ![j].job = current]
        /\ Submitting(j, "save")
        /\ UNCHANGED <<job, cancels>>
  /\ UNCHANGED <<queue, run, backoff, user, diskVars, platformVars, history, troubles>>

SubmitStop(j) ==
  /\ submit[j] = "stop"
  /\ Cancel(stale[j].func)
  /\ Submitting(j, "save")
  /\ UNCHANGED <<jobVars, stale, user, diskVars, platformVars, history, troubles>>

\* store.save() itself asks for no ownership.  Then the job is queued and the panel has
\* its answer.
SubmitSave(j) ==
  /\ submit[j] = "save"
  /\ journal' = [job |-> j, data |-> job[j]]
  /\ Enqueue(j)
  /\ Submitting(j, "accepted")
  /\ gone' = gone \cup ({stale[j].job} \ {None})
  /\ stale' = [stale EXCEPT ![j] = NoOne]
  /\ UNCHANGED <<job, current, cancels, run, backoff, user, copy, platformVars, doubled, torn, troubles>>

Submit(j) == SubmitSwitch(j) \/ SubmitStop(j) \/ SubmitSave(j)

--------------------------------------------------------------------------------
(***************************************************************************)
(* cancel() and resume(): one request after the other.                     *)
(***************************************************************************)
UserFree == user.at \in {"none", "done"}

\* The function is called as soon as it is read: the call of one whose run ends in between
\* does nothing, and so does a cancel of that run at its end.
CancelStop ==
  /\ UserFree
  /\ current # None
  /\ Trouble("cancel")
  /\ Cancel(cancels)
  /\ user' = [user EXCEPT !.at = "fail", !.job = current]
  /\ UNCHANGED <<jobVars, submit, stale, diskVars, platformVars, history>>

\* The request goes on with the job j; one that is over has forgotten it.
UserGoes(label, j) ==
  user' = IF label = "done" THEN [at |-> "done", then |-> "none", job |-> None]
                            ELSE [at |-> label, then |-> "none", job |-> j]

\* saveJob() of a user's request: the job is written if it still stands for the task,
\* as it is by the time it is written.
UserSaving(j, label) ==
  IF OwnerIntact(j) THEN user' = [at |-> "write", then |-> label, job |-> j]
                    ELSE UserGoes(label, j)

\* The phase is written without the mutex, whatever it is by then.
CancelFail ==
  /\ user.at = "fail"
  /\ job' = [job EXCEPT ![user.job].phase = "failed"]
  /\ UserSaving(user.job, "done")
  /\ UNCHANGED <<current, cancels, queue, backoff, run, submit, stale, diskVars, platformVars,
                 history, troubles>>

\* The goroutine works on its job, or will, once the journal is written.
Heading(s) == IF run[s].at = "write" THEN run[s].then ELSE run[s].at
Works(s)   == Heading(s) \notin {"idle", "release"}

\* On its way: about to be queued by its submit handler, queued, with a goroutine, or asleep.
UnderWay(j) ==
  \/ submit[j] \in {"stop", "save"}
  \/ \E n \in DOMAIN queue : queue[n] = j
  \/ \E s \in Slots : Works(s) /\ run[s].job = j
  \/ j \in backoff

\* Any job in r.jobs is queued again, one that is still on its way too.
Resume ==
  /\ UserFree
  /\ current # None
  /\ Trouble("resume")
  /\ job' = [job EXCEPT ![current].needs_reauth = FALSE, ![current].phase = "retrying"]
  /\ UserSaving(current, "enqueue")
  /\ doubled' = IF UnderWay(current) THEN doubled \cup {current} ELSE doubled
  /\ UNCHANGED <<current, cancels, queue, backoff, run, submit, stale, diskVars, platformVars, gone, torn>>

UserWrite ==
  /\ user.at = "write"
  /\ journal' = [job |-> user.job, data |-> job[user.job]]
  /\ UserGoes(user.then, user.job)
  /\ UNCHANGED <<jobVars, run, submit, stale, copy, platformVars, history, troubles>>

ResumeEnqueue ==
  /\ user.at = "enqueue"
  /\ Enqueue(user.job)
  /\ UserGoes("done", None)
  /\ UNCHANGED <<job, current, cancels, backoff, run, submit, stale, diskVars, platformVars,
                 history, troubles>>

User == CancelFail \/ UserWrite \/ ResumeEnqueue

--------------------------------------------------------------------------------
(***************************************************************************)
(* schedule() and runJob()                                                 *)
(***************************************************************************)
Goto(s, label) == run' = [run EXCEPT ![s].at = label]

\* Mutant of Saving: the journal is written whoever owns the task.
SavingAnyway(s, label) == run' = [run EXCEPT ![s].at = "write", ![s].then = label]

\* saveJob(), then on to label: who owns the task is asked here, the file is written in
\* a step of its own, of the job as it is by then.
Saving(s, label) ==
  run' = [run EXCEPT ![s].at = IF OwnerIntact(run[s].job) THEN "write" ELSE label,
                     ![s].then = label]

\* advance() returns an error.
Fails(s, e) == run' = [run EXCEPT ![s].at = "settle", ![s].err = e]
FailsSaving(s, e) ==
  run' = [run EXCEPT ![s].at = IF OwnerIntact(run[s].job) THEN "write" ELSE "settle",
                     ![s].then = "settle", ![s].err = e]

\* ctx.Err(): the end of the time limit is not context.Canceled, so it counts as an
\* ordinary failure, or as the platform's when a request was out.
Stopped(s)        == run[s].ctx # "live"
ContextError(s)   == IF run[s].ctx = "canceled" THEN "canceled" ELSE "plain"
TransportError(s) == IF run[s].ctx = "canceled" THEN "canceled" ELSE "transient"

Pop(s) ==
  /\ run[s].at = "idle"
  /\ \A t \in Slots : t < s => run[t].at # "idle"
  /\ queue # <<>>
  /\ run' = [run EXCEPT ![s].at = "register", ![s].job = Head(queue)]
  /\ queue' = Tail(queue)
  /\ UNCHANGED <<job, current, cancels, backoff, clientVars, diskVars, platformVars, history, troubles>>

\* Under the mutex: the job still stands for the task, and can be canceled from here on.
Register(s) ==
  /\ run[s].at = "register"
  /\ LET j == run[s].job
     IN  \/ /\ OwnerIntact(j)
            /\ cancels' = s
            /\ run' = [run EXCEPT ![s].at = "normalize",
                                  ![s].uploaded = Cardinality(job[j].uploaded),
                                  ![s].pulled = job[j].pulled]
         \/ /\ ~OwnerIntact(j)
            /\ run' = [run EXCEPT ![s] = Idle]
            /\ UNCHANGED cancels
  /\ UNCHANGED <<job, current, queue, backoff, clientVars, diskVars, platformVars, history, troubles>>

\* normalizeDeliveryPhase(): a retry goes on from the progress there is.
Normal(j) ==
  IF job[j].phase # "retrying" THEN job[j].phase
  ELSE IF job[j].uploaded # {} \/ job[j].pulled = Size THEN "uploading"
  ELSE IF job[j].pulled > 0 THEN "pulling"
  ELSE "waiting_collect"

Entry == [waiting_collect |-> "collect", pulling |-> "pull", uploading |-> "upload",
          completing |-> "complete"]

\* Mutant of Normalize: a job that has ended falls through to the end of advance().
NormalizeEnded(s) ==
  /\ run[s].at = "normalize"
  /\ LET j == run[s].job
     IN  IF Stopped(s) THEN Fails(s, ContextError(s)) /\ UNCHANGED job
         ELSE IF Terminal(job[j].phase) THEN Goto(s, "finish") /\ UNCHANGED job
         ELSE Goto(s, Entry[Normal(j)]) /\ job' = [job EXCEPT ![j].phase = Normal(j)]
  /\ UNCHANGED <<current, cancels, queue, backoff, clientVars, diskVars, platformVars, history, troubles>>

\* advance() asks whether it was told to stop; then a job that has ended is refused, by
\* an error like any other.
Normalize(s) ==
  /\ run[s].at = "normalize"
  /\ LET j == run[s].job
     IN  \/ /\ Stopped(s)
            /\ Fails(s, ContextError(s))
            /\ UNCHANGED job
         \/ /\ Terminal(job[j].phase)
            /\ Fails(s, "plain")
            /\ UNCHANGED job
         \/ /\ ~Terminal(job[j].phase)
            /\ job' = [job EXCEPT ![j].phase = Normal(j)]
            /\ Goto(s, Entry[Normal(j)])
  /\ UNCHANGED <<current, cancels, queue, backoff, clientVars, diskVars, platformVars, history, troubles>>

\* requireSessionForPhase(): the node is needed and cannot be reached without the user.
SessionMissing(s) ==
  /\ run[s].at = "normalize"
  /\ LET j == run[s].job
     IN  /\ ~Terminal(job[j].phase)
         /\ Normal(j) \in {"waiting_collect", "pulling"}
         /\ job' = [job EXCEPT ![j].phase = Normal(j)]
  /\ Trouble("auth")
  /\ Fails(s, "auth")
  /\ UNCHANGED <<current, cancels, queue, backoff, clientVars, diskVars, platformVars, history>>

\* waitCollect() or prepareDirect(): the package is complete on the node.
Collect(s) ==
  /\ run[s].at = "collect"
  /\ job' = [job EXCEPT ![run[s].job].phase = "pulling"]
  /\ Saving(s, "pull")
  /\ UNCHANGED <<current, cancels, queue, backoff, clientVars, diskVars, platformVars, history, troubles>>

CollectFails(s) ==
  /\ run[s].at = "collect"
  /\ \/ Trouble("fail") /\ Fails(s, "plain")
     \/ Trouble("fatal") /\ Fails(s, "fatal")
  /\ UNCHANGED <<jobVars, clientVars, diskVars, platformVars, history>>

\* prepareDirect() says of a canceled probe only that the state of the package is unknown.
CollectStops(s) ==
  /\ run[s].at = "collect"
  /\ Stopped(s)
  /\ \E e \in {ContextError(s), "plain"} : Fails(s, e)
  /\ UNCHANGED <<jobVars, clientVars, diskVars, platformVars, history, troubles>>

--------------------------------------------------------------------------------
(***************************************************************************)
(* pull(): from where the local copy ends.                                 *)
(***************************************************************************)
\* Mutant of PullMore: the bytes are appended to a copy that has them all.
PullAppends(s) ==
  /\ run[s].at = "pull"
  /\ copy' = copy + 1
  /\ job' = [job EXCEPT ![run[s].job].pulled = copy + 1]
  /\ Saving(s, "pull")
  /\ UNCHANGED <<current, cancels, queue, backoff, clientVars, journal, platformVars, history, troubles>>

PullMore(s) ==
  /\ run[s].at = "pull"
  /\ copy < Size
  /\ copy' = copy + 1
  /\ job' = [job EXCEPT ![run[s].job].pulled = copy + 1]
  /\ Saving(s, "pull")
  /\ UNCHANGED <<current, cancels, queue, backoff, clientVars, journal, platformVars, history, troubles>>

PullDone(s) ==
  /\ run[s].at = "pull"
  /\ copy = Size
  /\ job' = [job EXCEPT ![run[s].job].pulled = Size, ![run[s].job].phase = "uploading"]
  /\ Saving(s, "upload")
  /\ UNCHANGED <<current, cancels, queue, backoff, clientVars, diskVars, platformVars, history, troubles>>

PullFails(s) ==
  /\ run[s].at = "pull"
  /\ \/ Trouble("fail") /\ FailsSaving(s, "plain")
     \/ Trouble("disk") /\ FailsSaving(s, "disk")
     \/ Stopped(s) /\ FailsSaving(s, ContextError(s)) /\ UNCHANGED troubles
  /\ job' = [job EXCEPT ![run[s].job].pulled = copy]
  /\ UNCHANGED <<current, cancels, queue, backoff, clientVars, diskVars, platformVars, history>>

\* The source has changed or the digest differs: discardLocalCopy(), if this job still
\* stands for the task when it asks.  The copy of a source that was replaced is kept.
PullFatal(s) ==
  /\ run[s].at = "pull"
  /\ Trouble("fatal")
  /\ job' = [job EXCEPT ![run[s].job].pulled = copy]
  /\ \/ OwnerIntact(run[s].job) /\ run' = [run EXCEPT ![s].at = "drop", ![s].err = "fatal"]
     \/ FailsSaving(s, "fatal")
  /\ UNCHANGED <<current, cancels, queue, backoff, clientVars, diskVars, platformVars, history>>

Drop(s) ==
  /\ run[s].at = "drop"
  /\ job' = [job EXCEPT ![run[s].job].pulled = 0, ![run[s].job].uploaded = {}]
  /\ copy' = 0
  /\ Saving(s, "settle")
  /\ UNCHANGED <<current, cancels, queue, backoff, clientVars, journal, platformVars, history, troubles>>

--------------------------------------------------------------------------------
(***************************************************************************)
(* upload(): the parts not yet acknowledged, each behind the fence.        *)
(***************************************************************************)
UploadMissing(s) ==
  /\ run[s].at = "upload"
  /\ copy # Size
  /\ Fails(s, IF copy = 0 THEN "plain" ELSE "fatal")
  /\ UNCHANGED <<jobVars, clientVars, diskVars, platformVars, history, troubles>>

\* Parts are interchangeable: the first one missing is sent.
UploadPart(s) ==
  /\ run[s].at = "upload"
  /\ copy = Size
  /\ OwnerIntact(run[s].job) /\ ~Stopped(s)
  /\ LET missing == Parts \ job[run[s].job].uploaded
     IN  \E n \in missing :
           /\ \A k \in missing : n <= k
           /\ run' = [run EXCEPT ![s].at = "put", ![s].part = n]
  /\ UNCHANGED <<jobVars, clientVars, diskVars, platformVars, history, troubles>>

\* A worker meets the fence; or the loop ends before a worker has taken a part, which
\* is no error.
UploadStops(s) ==
  /\ run[s].at = "upload"
  /\ copy = Size
  /\ job[run[s].job].uploaded # Parts
  /\ \/ ~OwnerIntact(run[s].job) /\ Fails(s, "superseded")
     \/ Stopped(s) /\ Fails(s, ContextError(s))
     \/ Stopped(s) /\ Goto(s, "complete")
  /\ UNCHANGED <<jobVars, clientVars, diskVars, platformVars, history, troubles>>

\* Only a round that was not canceled under its own job ends in completing: asked here,
\* written in the next step.
UploadDone(s) ==
  /\ run[s].at = "upload"
  /\ copy = Size
  /\ job[run[s].job].uploaded = Parts
  /\ Goto(s, IF OwnerIntact(run[s].job) /\ ~Stopped(s) THEN "turn" ELSE "complete")
  /\ UNCHANGED <<jobVars, clientVars, diskVars, platformVars, history, troubles>>

Turn(s) ==
  /\ run[s].at = "turn"
  /\ job' = [job EXCEPT ![run[s].job].phase = "completing"]
  /\ Saving(s, "complete")
  /\ UNCHANGED <<current, cancels, queue, backoff, clientVars, diskVars, platformVars, history, troubles>>

\* The part is recorded, and the job saved under the same mutex every so many parts.
PutAcknowledged(s) ==
  /\ run[s].at = "put"
  /\ LET j == run[s].job
     IN  /\ session = j
         /\ job' = [job EXCEPT ![j].uploaded = @ \cup {run[s].part}]
         /\ \/ OwnerIntact(j) /\ journal' = [job |-> j, data |-> job'[j]]
            \/ UNCHANGED journal
  /\ run' = [run EXCEPT ![s].at = "upload", ![s].part = 1]
  /\ UNCHANGED <<current, cancels, queue, backoff, clientVars, copy, platformVars, history, troubles>>

\* 401: the token is not that of the session the platform has.
PutFails(s) ==
  /\ run[s].at = "put"
  /\ \/ session # run[s].job /\ Fails(s, "auth") /\ UNCHANGED troubles
     \/ Trouble("fail") /\ Fails(s, "transient")
     \/ Stopped(s) /\ Fails(s, TransportError(s)) /\ UNCHANGED troubles
  /\ UNCHANGED <<jobVars, clientVars, diskVars, platformVars, history>>

--------------------------------------------------------------------------------
(***************************************************************************)
(* complete() and the end of advance()                                     *)
(***************************************************************************)
\* Mutant of Complete: the fence asks for the owner alone.
CompleteOwned(s) ==
  /\ run[s].at = "complete"
  /\ IF OwnerIntact(run[s].job) THEN Goto(s, "sent") ELSE Fails(s, "superseded")
  /\ UNCHANGED <<jobVars, clientVars, diskVars, platformVars, history, troubles>>

Complete(s) ==
  /\ run[s].at = "complete"
  /\ IF ~OwnerIntact(run[s].job) THEN Fails(s, "superseded")
     ELSE IF Stopped(s) THEN Fails(s, ContextError(s))
     ELSE Goto(s, "sent")
  /\ UNCHANGED <<jobVars, clientVars, diskVars, platformVars, history, troubles>>

\* The platform merges the parts and deletes the session.
Merge(j) ==
  /\ session = j
  /\ delivered' = delivered \cup {j}
  /\ session' = None

CompleteAcknowledged(s) ==
  /\ run[s].at = "sent"
  /\ job[run[s].job].uploaded = Parts
  /\ Merge(run[s].job)
  /\ Saving(s, "discard")
  /\ UNCHANGED <<jobVars, clientVars, diskVars, history, troubles>>

\* The token of a delivery that is merged, or is not the last one, is refused (401),
\* one without all parts is too (400).  An answer may be lost.
CompleteFails(s) ==
  /\ run[s].at = "sent"
  /\ \/ session # run[s].job /\ Fails(s, "auth") /\ UNCHANGED <<platformVars, troubles>>
     \/ /\ session = run[s].job /\ job[run[s].job].uploaded # Parts
        /\ Fails(s, "fatal")
        /\ UNCHANGED <<platformVars, troubles>>
     \/ Trouble("fail") /\ Fails(s, "transient") /\ UNCHANGED platformVars
     \/ Trouble("lost") /\ Fails(s, "transient") /\ Merge(run[s].job)
     \/ /\ Stopped(s) /\ Fails(s, TransportError(s))
        /\ Merge(run[s].job) \/ UNCHANGED platformVars
        /\ UNCHANGED troubles
  /\ UNCHANGED <<jobVars, clientVars, diskVars, history>>

\* The copy is shared with newer deliveries: whose is it?  Asked here ...
Discard(s) ==
  /\ run[s].at = "discard"
  /\ IF OwnerIntact(run[s].job) THEN Goto(s, "remove") ELSE Fails(s, "superseded")
  /\ UNCHANGED <<jobVars, clientVars, diskVars, platformVars, history, troubles>>

\* ... and removed here.
Remove(s) ==
  /\ run[s].at = "remove"
  /\ copy' = 0
  /\ Saving(s, "finish")
  /\ UNCHANGED <<jobVars, clientVars, journal, platformVars, history, troubles>>

Finish(s) ==
  /\ run[s].at = "finish"
  /\ LET j == run[s].job
     IN  \/ /\ job[j].superseded
            /\ Fails(s, "superseded")
            /\ UNCHANGED job
         \/ /\ ~job[j].superseded
            /\ job' = [job EXCEPT ![j].phase = "done"]
            /\ Goto(s, "settle")
  /\ UNCHANGED <<current, cancels, queue, backoff, clientVars, diskVars, platformVars, history, troubles>>

--------------------------------------------------------------------------------
(***************************************************************************)
(* The end of runJob()                                                     *)
(***************************************************************************)
Budget(e) == IF e = "transient" THEN MaxTransient ELSE IF e = "disk" THEN 1 ELSE MaxAttempts

\* Mutant of Attempts: a round that moved nothing has made progress too.
AttemptsOfNone(s) ==
  LET j == run[s].job
  IN  IF run[s].err = "none" \/ run[s].stalled
         \/ Cardinality(job[j].uploaded) >= run[s].uploaded \/ job[j].pulled >= run[s].pulled
      THEN 0
      ELSE job[j].attempt + 1

\* A round that moved parts or bytes does not count as an attempt, nor does a stalled one.
Attempts(s) ==
  LET j == run[s].job
  IN  IF run[s].err = "none" \/ run[s].stalled
         \/ Cardinality(job[j].uploaded) > run[s].uploaded \/ job[j].pulled > run[s].pulled
      THEN 0
      ELSE job[j].attempt + 1

\* Stalled before all else, then superseded, canceled, without credentials, hopeless.
Outcome(s) ==
  LET j == run[s].job
      e == run[s].err
  IN  IF e = "none" THEN job[j].phase
      ELSE IF run[s].stalled THEN "retrying"
      ELSE IF job[j].superseded \/ e \in {"superseded", "canceled", "auth", "fatal"} THEN "failed"
      ELSE IF Attempts(s) < Budget(e) THEN "retrying"
      ELSE "failed"

Reauth(s) ==
  \/ job[run[s].job].needs_reauth
  \/ run[s].err = "auth" /\ ~run[s].stalled /\ ~job[run[s].job].superseded

Settle(s) ==
  /\ run[s].at = "settle"
  /\ job' = [job EXCEPT ![run[s].job].attempt = Attempts(s),
                        ![run[s].job].phase = Outcome(s),
                        ![run[s].job].needs_reauth = Reauth(s)]
  /\ LET label == IF run[s].err # "none" /\ ~Reauth(s) /\ Attempts(s) < Budget(run[s].err)
                  THEN "requeue" ELSE "release"
         own   == OwnerIntact(run[s].job)
     IN  run' = [run EXCEPT ![s] = [Idle EXCEPT !.job = run[s].job, !.then = label,
                                                !.at = IF own THEN "write" ELSE label]]
  /\ UNCHANGED <<current, cancels, queue, backoff, clientVars, diskVars, platformVars, history, troubles>>

Write(s) ==
  /\ run[s].at = "write"
  /\ journal' = [job |-> run[s].job, data |-> job[run[s].job]]
  /\ run' = [run EXCEPT ![s].at = run[s].then, ![s].then = "idle"]
  /\ UNCHANGED <<jobVars, clientVars, copy, platformVars, history, troubles>>

\* The deferred delete takes out whatever cancel function the id has by now.
Release(s) ==
  /\ run[s].at \in {"requeue", "release"}
  /\ backoff' = IF run[s].at = "requeue" THEN backoff \cup {run[s].job} ELSE backoff
  /\ cancels' = None
  /\ run' = [run EXCEPT ![s] = Idle]
  /\ stale' = [j \in Jobs |-> IF stale[j].func = s THEN [stale[j] EXCEPT !.func = None] ELSE stale[j]]
  /\ UNCHANGED <<job, current, queue, submit, user, diskVars, platformVars, history, troubles>>

\* requeueEligible(), when the backoff is over.
Wake(j) ==
  /\ j \in backoff
  /\ backoff' = backoff \ {j}
  /\ IF job[j].phase = "retrying" /\ ~job[j].needs_reauth /\ ~job[j].superseded /\ current = j
     THEN Enqueue(j) ELSE UNCHANGED queue
  /\ UNCHANGED <<job, current, cancels, run, clientVars, diskVars, platformVars, history, troubles>>

\* watchStall(): no progress for too long while bytes should move; and the time limit.
Interrupt(s) ==
  /\ run[s].at \notin {"idle", "register", "requeue", "release"}
  /\ run[s].then \notin {"requeue", "release"}
  /\ ~Stopped(s)
  /\ \/ /\ job[run[s].job].phase \in {"pulling", "uploading"}
        /\ Trouble("stall")
        /\ run' = [run EXCEPT ![s].ctx = "canceled", ![s].stalled = TRUE]
     \/ Trouble("expire") /\ run' = [run EXCEPT ![s].ctx = "expired"]
  /\ UNCHANGED <<jobVars, clientVars, diskVars, platformVars, history>>

--------------------------------------------------------------------------------
(***************************************************************************)
(* The computer the bridge runs on                                         *)
(***************************************************************************)
\* Something else clears the temporary directory.
Vanish ==
  /\ copy > 0
  /\ Trouble("vanish")
  /\ copy' = 0
  /\ UNCHANGED <<jobVars, run, clientVars, journal, platformVars, history>>

\* The bridge dies and starts again: start() takes up a journal that has not ended.
Crash ==
  /\ Trouble("crash")
  /\ LET recovered == {j \in Jobs : journal.job = j /\ ~Terminal(journal.data.phase)}
     IN  /\ job' = [j \in Jobs |-> IF j \in recovered THEN journal.data ELSE Fresh]
         /\ current' = IF recovered = {} THEN None ELSE journal.job
         /\ queue' = IF recovered = {} \/ journal.data.needs_reauth THEN <<>> ELSE <<journal.job>>
  /\ cancels' = None /\ backoff' = {}
  /\ run' = [s \in Slots |-> Idle]
  /\ submit' = [j \in Jobs |-> IF submit[j] \in {"stop", "save"} THEN "lost" ELSE submit[j]]
  /\ stale' = [j \in Jobs |-> NoOne]
  /\ IF user.at = "none" THEN UNCHANGED user ELSE UserGoes("done", None)
  /\ doubled' = {} /\ torn' = torn \cup doubled
  /\ UNCHANGED <<diskVars, platformVars, gone>>

--------------------------------------------------------------------------------
Run(s) ==
  \/ Register(s) \/ Normalize(s) \/ SessionMissing(s)
  \/ Collect(s) \/ CollectFails(s) \/ CollectStops(s)
  \/ PullMore(s) \/ PullDone(s) \/ PullFails(s) \/ PullFatal(s) \/ Drop(s)
  \/ UploadMissing(s) \/ UploadPart(s) \/ UploadStops(s) \/ UploadDone(s) \/ Turn(s)
  \/ PutAcknowledged(s) \/ PutFails(s)
  \/ Complete(s) \/ CompleteAcknowledged(s) \/ CompleteFails(s)
  \/ Discard(s) \/ Remove(s) \/ Finish(s)
  \/ Settle(s) \/ Write(s) \/ Release(s)

\* What the bridge does by itself; what else happens.
Bridge ==
  \/ \E j \in Jobs : Submit(j) \/ Wake(j)
  \/ \E s \in Slots : Pop(s) \/ Run(s)
  \/ User

Next ==
  \/ Bridge
  \/ \E j \in Jobs : Sign(j)
  \/ \E s \in Slots : Interrupt(s)
  \/ CancelStop \/ Resume
  \/ Vanish \/ Crash

Spec == Init /\ [][Next]_vars

\* As long as some handler, goroutine or backoff can go on, one does: no goroutine is owed
\* its turn before another, and nothing is owed by the panel, a user or the troubles.
FairSpec == Spec /\ WF_vars(Bridge)

--------------------------------------------------------------------------------
\* The goroutine is inside advance(), for the job that stands for the task, and not told to stop.
Acts(s) ==
  /\ run[s].at \notin {"idle", "register", "settle", "requeue", "release"}
  /\ run[s].at = "write" => run[s].then \notin {"settle", "requeue", "release"}
  /\ OwnerIntact(run[s].job)
  /\ ~Stopped(s)

\* However the steps of submit, of the backoffs, of a crash and of a resume interleave, at
\* most one goroutine pulls, uploads and completes for the task ("the same job advanced by
\* two flows" is what requeueEligible() is there to prevent), up to the next start of the
\* bridge after a user resumed the very job while it was still on its way: resume() asks
\* for nothing.  A job resumed after it ended, once or more often, has one flow.
OneActs == \A s, t \in Slots : Acts(s) /\ Acts(t) => s = t \/ run[s].job \in doubled

\* A round that is canceled, stalled or superseded in mid-upload ends like one that is
\* through; still complete() is never sent for a package with parts missing, unless two
\* flows wrote what the job, or the journal it was recovered from, says of its progress.
CompleteIsWhole ==
  \A s \in Slots : run[s].at = "sent" =>
    job[run[s].job].uploaded = Parts \/ run[s].job \in doubled \cup torn

\* A job that is called done, in memory or on disk, is merged on the platform: a retry of a
\* job that ended, or a restart, does not fall through to done (normalizeDeliveryPhase).
DoneIsDelivered ==
  /\ \A j \in Jobs : job[j].phase = "done" => j \in delivered
  /\ journal.data.phase = "done" => journal.job \in delivered

\* The delivery a newer one has replaced never stands for the task again: no late write of
\* its goroutine brings it back at the next start (saveJob).  A user's cancel can: README.md.
GoneStaysGone == user.at = "none" => current \notin gone

\* status(): the job in memory, or else the journal.
Answer == IF current # None THEN job[current].phase
          ELSE IF journal.job # None THEN journal.data.phase ELSE "missing"

\* Of two flows of the job one asked for credentials and ended; what the other one said
\* after it is left standing, and the job is not queued again before a user resumes it.
LeftWaiting == current \in doubled \cup torn /\ job[current].needs_reauth

\* Whatever goes wrong, the panel that asks for the status of a delivery it submitted gets
\* to see the end of it: no job stays in a phase that nobody works on, unless two flows of
\* it disagreed on the credentials.
StatusSettles ==
  <>[]((\E j \in Jobs : submit[j] = "accepted") => Terminal(Answer) \/ LeftWaiting)

--------------------------------------------------------------------------------
(***************************************************************************)
(* A promise of the comments that the code does not keep (README.md,       *)
(* section 3).                                                             *)
(***************************************************************************)
\* "Otherwise the same job would be advanced by two flows": delivery_runner.go:514.
NeverTwoFlows == \A s, t \in Slots : Acts(s) /\ Acts(t) => s = t

================================================================================
