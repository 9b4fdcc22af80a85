# Verification of the HCI troubleshooting platform

TLA+ models, model-checking runs and machine-checked proofs for four parts of
the repository where several processes, database rows, stored objects and servers
must agree, and where tests reach least:

- *log collection* (`src/backend/case-service`): a log package is collected on a
  customer's node (a *task*), sent in parts to the platform (an *upload*), and
  sent on in chunks to the log server on port 5888 (a *relay*);
  the client of the upload is the *delivery runner* of the terminal bridge
  (`src/terminal_bridge`), a Go program on the customer's computer;
- *the HCI simulator's control plane* (`src/hci_sim`): fixture *bundles* are
  reviewed, published and activated in a running server, and test *runs* are
  created, leased, ended and reported through an outbox;
- *diagnosis evidence* (`src/backend/diagnosis-service`): evidence packages are
  uploaded, processed by workers, analysed, held and deleted;
- *the scheduler* (`src/backend/scheduler-service`): assistants run in *pods* of the
  cluster, kept warm in pools, given to cases and taken back.

## 1. Inventory of the system

| component | code | state | operations | hard behaviour | what makes it correct |
|---|---|---|---|---|---|
| Log collection task | `services/log_collect_service.py`, `repositories/log_collect_repo.py`, `schemas/log_collect.py` | table `log_collect_task` | create, PATCH, cancel, attest, verify-archive, begin_delivery | requests compute on stale rows, a commit writes changed columns only, partial unique index | one active task per case; an end has its time; a delivery rests on something; delivery facts are not undone or contradicted |
| Upload to the platform | `services/log_collect_upload_service.py`, `services/log_collect_storage.py` | `multipart/<task>/` (meta.json, parts, temporaries), object file, row | deliver, uploads, abort, part, complete | sessions rebuilt under running parts and merges, crashes between merge, commit and clean-up, fencing tokens | recorded package is one whole package; a signed delivery ends delivered; generations do not mix |
| Relay to the log server | `services/log_collect_relay_service.py`, relay part of `routes/log_collect.py`, `main.py` | `relay_*` columns, in-process coroutines, sessions on 5888 | trigger, heartbeat, claim_stale, release, run, _finish, shutdown | leases, several pods, crashes, stalls, resumed uploads, lost answers | one executor; break point backed by the server; success means archived; nothing is left unattended |
| Shared database session | `src/backend/shared/database/postgres.py` | one session per request | commit or rollback at the end | lost updates, exceptions at commit | part of every model |
| Bridge delivery runner | `src/terminal_bridge/delivery_*.go` | job and cancel tables, queue, goroutines, journal files, local copies | submit, status, cancel, resume; collect, pull, upload, complete; retry, watch, recover | jobs replaced under their goroutines, which share a journal and a copy; retries from where the progress ends; stalls, cancels, lost answers, a crash at any step | one goroutine acts; complete is sent for whole packages; done means merged; a replaced job stays replaced; every job ends |
| Bridge terminal, SFTP, collection | `src/terminal_bridge/{main,lifecycle,sftp,log_collect*}.go` | SSH and websocket sessions | open, route input, probe, take over | two bridges, port recovery | one live bridge; input reaches its session |
| Scheduler and pod pool | `scheduler_service.py`, `pod_pool.py`, `k8s_client.py` of `src/backend/scheduler-service` | pools in memory, allocations in Redis, pods and their annotations in the cluster | allocate, release, warm up, start, reconcile | a request is cut at its awaits of Redis, tasks nobody waits for, a restart that finds again what it knew, calls that take effect and fail | a pod serves one case; what is terminated belongs to nobody; limits of the cluster; a pool is filled up |
| Simulator: bundles | `internal/database/bundle_registry.go`, `run_repository.go` (activation), `cmd/hci-sim/activation.go`, `controlplane_api.go`, `internal/fixture/pool.go` | tables `fixture.bundle`, `approval`, `bundle_activation`; routers in memory | compile, revise, retire, validate, approve, publish, activate, roll back, restore, reconcile | each call a transaction, none held across an activation; overtaking activations, lost answers, restarts | what the pointer names is published and loaded; published means reviewed; a request is settled |
| Simulator: runs and outbox | `run_repository.go`, `internal/reconciler`, `cmd/hci-sim/main.go` | tables `run`, `run_attempt`, `run_result`, `outbox` | create, lease, bind, prepare, result, expire; claim, post, complete, recover | handlers on stale rows, late results, dying and stalled reconcilers | an end is final and agrees with its result; an event is delivered at least once, or failed visibly |
| Simulator: leases, SSH server, artifacts | `internal/lease`, `internal/server`, `artifact_repository.go` | lease tracker in memory, jobs of shells, artifact rows | acquire, bind, release, run | expiry against use | a lease serves one run at a time |
| Dynamic resource cache | `src/backend/shared/dynamic_resource` | TTL cache per process | get, invalidate, publish | invalidation during a load | a value older than its invalidation is not served |
| Diagnosis evidence | `services/evidence_upload_service.py`, `bundle_processor.py`, `deletion_service.py`, `worker.py`, parts of `offline_analysis_service.py`, `diagnosis_management_service.py`, `offline_governance_service.py` | tables of session, upload, bundle, job, evidence, run, deletion; object store | create, part, complete, abort, expire; claim, stages, analyse, recover; terminate, retry, hold, delete | duplicates, killed requests and workers, retries, holds and deletions between two commits | one processor; completed means queued; ready means all items; held evidence is kept; jobs and uploads end |
| Diagnosis plans, collectors, resources | `services/diagnosis_session_service.py`, `collection_*`, `collector_*`, `offline_resource_sync_service.py` | sessions, plans, artifacts, releases | create, sign, publish, synchronise | one transaction per request | signed artifacts match their plan |
| Conversation, agent, gateway, auth, knowledge base | `src/backend/*-service` | conversations, prompts, documents | stages S0 to S6, tool calls, CRUD, search | streamed answers | content, not protocol |
| Frontends, pipeline, tools, deployment | `src/frontend`, `src/data-pipeline`, `src/tools`, `src/deploy` | none shared | user interface, batch | none | clients of the above |

How they interact. *Log collection*: the panel (`LogCollectPanel.vue`) creates a task, polls the
bridge and PATCHes what it saw. On `POST /deliver` the service signs an upload
session and counts a delivery epoch; the panel submits it to the bridge, whose runner
pulls the package from the node, PUTs parts and POSTs `complete`
with the session's token. `complete` merges, commits the package into the row and
triggers the relay, whose coroutine writes the same row from sessions of its own
while PATCHes, further deliveries, other pods and the reconcile loop do. The only
synchronisation between them is conditional UPDATEs, one partial unique index and
tokens that carry the epoch: that is where the hazards are.

*Simulator*: an activation, started by a publication, a roll-back, a request or
the retry loop, reads the bundle's object, writes the durable pointer, swaps the
router in memory and confirms in the pointer, four steps with nothing held
between them; the registry looks at the pointer before it retires a bundle, and
the boot restores the router from it. A run's handlers and the reconciler share
rows through version checks, and commit events together with the state they
tell of; the reconciler posts them to a webhook.

*Diagnosis*: the request that completes an upload, the workers, the maintenance
loop and the administrators act on the same session. They lock the session row
within a transaction only; jobs, stages and items are committed one by one, and
objects are removed outside the database.

*Scheduler*: a request reads and writes its case's allocation in Redis and takes pods
from the pool of a type, which has tasks of the same process fill it up; at the start
the pools are sorted from what the cluster lists, and the allocations are reconciled
with the pods while requests are served already.

`PROJECT.json` lists each hazard at its line, with the property that covers it or
why none does yet.

## 2. Modules

| module | models |
|---|---|
| `LogCollectRelay` | one task's row, object file, relay coroutines of several pods, sessions of the log server |
| `LogCollectUpload` | one task's row, upload directory, object file, deliveries with their part and complete requests |
| `LogCollectTask` | the tasks of a case and the requests that read and write them |
| `BundleActivation` | the bundles of one support id, the pointer, the runtime and its activations |
| `EventDelivery` | abstract: what an outbox promises of its events |
| `SimRuns` | runs, results, outbox, the requests and the reconcilers; implements `EventDelivery` |
| `DeliveryRunner` | the jobs of one task in the bridge: submissions, queue, goroutines, journal, local copy, and the platform as its client sees it |
| `DiagnosisEvidence` | one diagnosis session: uploads, bundles, jobs, workers, runs, hold, deletion |
| `PodPool` | the scheduler: allocations, pools of every type, requests, the start with its reconciliation, and the pods of the cluster |
| `MC...` | one per module that is run: the instance, and the symmetry sets of its runs |
| `LogCollectRelayProofs`, `LogCollectUploadProofs`, `LogCollectTaskProofs`, `BundleActivationProofs`, `SimRunsProofs`, `DiagnosisEvidenceProofs`, `DeliveryRunnerProofs`, `PodPoolProofs` | the theorems |

The log collection modules follow one convention: a request or coroutine is a program cut where
the code awaits. What runs between two awaits is one action; a variable per
process says where it is (`pc` in the relay, `deliver`, `put` and `complete` in
the upload, `request.op` in the task), and what it read before an await is kept
in a variable of its own (`loaded`, `seen`, `buffer`, `digest`, `request.row`),
so that it may be stale when used.

**LogCollectRelay.** `relay_*`, `archive_path`, `object_sha256` and `delivery_*`
are the columns; `lease` says that `relay_updated_at` is younger than
`stale_after`. `Trigger`, `StartRelay`, `ReconcileRelays`, `Release`,
`GateTimeout` and `Heartbeat` are the conditional UPDATEs of the service.
`BeginAttempt` to `SaveChunk` are the awaits of `_run_with_retry` and `_run`,
`AwaitArchive` and `AwaitTimeout` those of `_await_archive`, `FinishSuccess` and
`FinishFailed` the two forms of `_finish`. `CancelRelay` and `ReleaseCancelled`
are `shutdown_relays`; `KillPod` is its absence. `MergePackage`, `CommitPackage`
and `TriggerAfterComplete` are what an upload does to the row and the file,
reduced to what a relay can see. The log server is code outside the repository:
its actions (`Receive`, `ArchiveSession`, `FailSession`, `ExpireSession`) follow
the rules in the header of the relay service and how the client uses the answers.

**LogCollectUpload.** `session` is the epoch in meta.json (-1: no directory, 0:
a session without an epoch), `parts` and `merged` the part files and the marker,
`file` the object. `DeliverLoad` to `DeliverBegin` are `deliver_task` with
`init()`, `InitUpload` is the older `/uploads` route, `PutStart`, `PutOpen` and
`PutReplace` are the part request, and `CompleteStart` to `CompleteCleanup` the
complete request with `merge()`. `DeleteMultipart` also turns a writing part
request into an orphan whose rename fails.

**LogCollectTask.** Each handler is a `Load` and an action that computes with the
operators of `update_task` (`Admitted`, `Accepted`, `Overlay`, `WithEvidence`,
`WithOutcome`) and commits. `Merge` is SQLAlchemy's unit of work: only columns
that differ from the loaded row, or were given a new timestamp or a new `detail`,
are written. `Unique` is the partial index, and a row that breaks it rolls back.
What other components write into the row is here too: `ArriveLoad` and `Arrive` are
`complete()` of an upload, by whoever holds a token of the task, whatever mode and
delivery the row has (`object` says that the platform has the package); `RelayEnds` is
`_finish()` of a relay, one UPDATE computed from no row. `Update` is a PATCH by a
client, with any status, progress, mode and error code; of `detail`, which a PATCH may also write,
only the key of the evidence is modelled, and a client may only take it away (a client
that writes the key itself is not told from the check that should have).

**DeliveryRunner.** All jobs of a task have the id `dj-<task>`; what they share is
`current` (the entry of `r.jobs`), `cancels` (that of `r.cancels`), `journal`,
`copy` and the platform's `session`. A goroutine of the scheduler is a record in
`run`: `at` says where it is and `then` where it goes on after writing the journal,
since `saveJob` asks who owns the task in one step (`Saving`) and writes in
another (`Write`). `Sign` and `Submit` are the panel and `submit()`; `Pop` and
`Register` the scheduler and the start of `runJob`; `Normalize` to `Finish` the
stages of `advance()`, each with its fence; `Settle` to `Wake` the end of
`runJob` with its budgets and backoff; `Interrupt` the watchdog and the time
limit; `CancelStop`, `CancelFail` and `Resume` to `ResumeEnqueue` the user's
requests, any number of them, one after another. `Resume` asks for nothing, like `resume()`: the
job may wait for credentials, have ended, or still be on its way (`UnderWay`). In the last case two
flows may work on it from now on, which a history variable keeps (`doubled`, and `torn` for
the jobs of an earlier process, which read what those flows wrote). `Bridge` is what the process does by itself. `Crash` ends the process and starts it again from the journal.

**BundleActivation.** `bundles` is the table with its approvals, `pointer` the
row of `bundle_activation`, `routers` and `served` the pool in memory. Each
transaction of the registry is an action (`Compile` to `PublishInternalFast`);
an activation is a process that goes through `GetPublished`,
`RequestBundleActivation`, `Activate` and `AckBundleActivation` or
`FailBundleActivation`, whether a request started it or the loop
(`ReconcilePending`). `CallFails` is a statement that fails, or commits and loses
its answer. `Crash`, `RestoreActive` and `BecomeReady` are the end and the boot
of the runtime.

**SimRuns.** A handler is a process: build is `Create`, `RecordLease`,
`AppendEvent`; test-runs is `GetRun`, `BindCase`, `Refresh`, `Prepare`
(`UpdateStatusCAS`), `AppendEvent`. It keeps the version and status it read
(`Knows`), so that it writes on what may be stale. `RecordResult` and `ExpireRuns`
are one transaction each. A reconciler claims a row, posts it, and completes it;
`RecoverProcessingOutbox` gives back what is claimed too long, also from one that
only stalls. `Delivery == INSTANCE EventDelivery` maps the outbox's statuses to
`none`, `accepted`, `acknowledged` and `abandoned`.

**DiagnosisEvidence.** `Create` to `Expire` are the upload service, with the
completing request cut at its commits and at the read of the hold
(`ClaimUpload`, `Merge`, `ReadHold`, `Insert`). A worker goes through `NextTask`,
`ClaimJob`, `EnterStage` (once per stage), `PersistEvidence` (once per item),
`BundleReady` and `Analyse`, each a transaction of `BundleProcessor.process`;
`Reject` and `Fail` end any of them, `KillWorker` and `KillHandler` stop a
process anywhere. `AssessAndDiagnose` is what a run of the analysis changes.
`RecoverStuckTasks` changes no job: its update is rolled back (section 3).

**PodPool.** `phase` and `annotation` are what the cluster knows of a pod,
`allocation` is the hash in Redis, `idle`, `active` and `warming` (the tasks that
wait to run `ensure_warm_pool`) are in memory. A request is a record in `request`: `Allocate`,
`Decide`, `Forget`, `Acquire`, `Store` are `allocate_pod()` between its awaits,
`Release`, `Delete`, `Terminate` are `release_pod()`; `RequestFails` ends either at
an await. `Start` is `start()` up to its first await: what is found is `Sorted`,
what is not well is deleted, the pools are filled (`Warmed`, `Missing`). A pod that is deleted
while it runs is `ending`: it is Running for whoever asks, and for a `Start` too, until its grace
period is over (`Deletion`, `Running`, `PodStops`). The history variable `outlived` has
the pods that were created warm and that a case had when a process ended (`Crash`).
`ReconcileList` to `ReconcileFails` are `reconcile_allocations()`. `Crash` ends the process,
`PodStops` is the cluster's. Calls of the cluster are synchronous and block the event
loop, also while they retry (`k8s_client.py:209`), so that what a pool does under its
lock is one action and the lock is always free when it is asked for.

### Abstractions

- Bytes are who produced them: an epoch in the relay, a job in the upload. A
  package is the function from part to job, its digest is the package.
- Packages have equal sizes, so only contents tell them apart; every complete
  declares a digest, as the bridge does (`delivery_runner.go:1576`).
- The runner's package is `Size` units to pull and `PartCount` parts to send; a
  digest that differs is a fatal failure. A goroutine has one part in flight, the
  first one missing. A user's cancel calls the function it has read in the same
  step; if the run ends in between, the call does nothing. A
  platform whose certificate is not trusted is a transient failure. The panel
  submits and asks for the status only; a user's cancels and resumes come one after
  another, not two at once.
- A lease is fresh or expired, not a time; progress is `0 .. Full`; `finished`
  stands for `finished_at`.
- Deleting an upload directory is one step, and so are the flush and the commit
  at the end of a request, and the select and the conditional UPDATE of
  `claim_stale` (the UPDATE decides alone).
- A bundle is its digest; the object store and the compiler always agree on it.
  One support id: pointers and pools of two do not share anything.
- A run has one attempt and its lease one JTI; deadlines pass, and rows become
  due, at any time. The reconciler's back-off is left out: any pending row may be
  claimed next.
- A package is the pair of type and SHA-256; the parts of an upload arrive
  together, the items of a package are numbered. What an analysis finds is a
  choice between asking for a supplement and a report for review.
- A pod is its name: the type is part of it and no name is used twice. `live` is
  Pending or Running, `ending` the same of a pod that is being deleted, for a grace
  period that lasts as long as it likes, `dead` any other phase, `gone` a pod the cluster
  does not list any more. A dead pod does not live again. The order of the idle pods
  is left out: any of them may be taken.
- One scheduler process: the chart refuses a second replica (`replica-guards.yaml`).
  The registry shipped with the service keeps no pods at all (both sizes 0); that of
  `.env.example:154` keeps two of at most ten. The model has any sizes.
- Times to live, retention and lock time-outs end at any moment.
- Wording, logging, audit texts, sizes, ticket and path handling are left out.

## 3. Runs

| run | asks | result |
|---|---|---|
| `RelaySafety` | all troubles at once: forced restarts, graceful exits, corrections, stalled leases, crashes, redelivery. Are types kept, is the persisted break point backed by the server (`PersistedIndexBacked`), does success mean a whole package was archived (`SuccessWasArchived`)? | holds |
| `RelayHandover` | crashes and network errors only, fair. Is there one executor (`AtMostOneExecutor`), and is a relay left by a dead pod taken over (`AbandonedRelayIsPickedUp`)? | holds |
| `RelayEnds` | no fault at all, fair. Does a running relay end (`EveryRelayEnds`)? | violated, see below |
| `UploadSafety` | two deliveries with an abort and a crash at any await, fair. Is the recorded digest that of one whole package (`RecordedIsWhole`)? Does a signed delivery whose session is not taken from it become delivered (`SignedIsDelivered`)? | holds |
| `TaskRaces` | two requests on two tasks: creations, patches, uploads that arrive, relays that end. One active task (`OneActiveTask`), and an end time with every end (`TerminalIsFinished`)? | holds |
| `TaskSerial` | every operation, one request at a time, on a task whose mode clients change at will. Is no active task stamped as ended (`ActiveIsUnfinished`), does a direct delivery rest on a package the platform has, or on evidence in the row (`DirectDeliveryHasBasis`)? | holds |
| `BundleLifecycle` | two bundles, three people, overlapping activations, a failed call or a restart, fair. Does what the pointer names stay published (`ReferencedIsPublished`) and, once active, loaded (`ActiveIsLoaded`)? Is a published bundle reviewed by two others (`PublishedWasReviewed`)? Is a request settled (`RequestIsSettled`)? | holds |
| `SimRuns` | two requests, results, expiry, a reconciler that dies or stalls, fair. Is an end final (`TerminalIsFinal`) and in agreement with its result (`ResultIsEnd`)? Does the outbox implement `EventDelivery` (`ImplementsDelivery`), and is every event settled (`EventsSettle`)? | holds |
| `EvidenceRaces` | two uploads of one package, two workers, every administrative operation, a fault. One processor (`OneProcessor`), completed means queued (`CompletedIsQueued`), ready means every item (`ReadyIsComplete`), nothing held disappears (`HeldIsKept`)? | holds |
| `EvidenceProgress` | a package and a supplement, failures, retries, a kill, fair. Do jobs end (`JobsEnd`) and uploads leave completion (`UploadsSettle`), and does success mean a run used the bundle (`SucceededIsDiagnosed`)? | holds |
| `DeliveryRunner` | two deliveries of a task, two goroutines, and one of eleven troubles at any step: a failure of each class, a stall, the time limit, a lost answer, a copy that vanishes, a crash, a cancel, a resume; fair. Does one goroutine act (`OneActs`) and is complete sent for whole packages (`CompleteIsWhole`), but for a job resumed while it was on its way, does done mean merged (`DoneIsDelivered`), does a replaced delivery stay so (`GoneStaysGone`), does the status come to an end (`StatusSettles`)? | holds |
| `PodHandout` | two requests for two cases of one type, a pod kept warm of at most two, the reconciliation, a restart, a failed call, pods that stop at any step. Does a pod stand for one case (`PodServesOneCase`), is what a release terminates nobody's (`TerminatedIsForgotten`), each but for warm pods that a case had when the process ended, and is a pool that lacks warm pods going to be looked at (`PoolIsReplenished`)? | holds |

### Finding

`_finish` (`log_collect_relay_service.py:655`) attaches its guard to the wrong
outcome: the success of every normal relay matches no row, since the upload
has already written `delivered`. The row stays running until its lease
expires, and the package is relayed again.

### Further disagreements

Each of these formulas stands in its module and states what a comment or document
promises; each fails, within seconds, with the constants given. They have no run
of their own.

| formula | constants | what the code does |
|---|---|---|
| `LogCollectRelay!AtMostOneExecutor` | `RelayHandover.cfg` with `Spec`, `MaxAttempts = 1`, `Troubles = {"graceful"}`, `MaxFaults = 2` | `shutdown_relays` (`routes/log_collect.py:295`) gives back rows by status alone, also those another pod has taken over, so that two coroutines send the same package |
| `LogCollectUpload!DeliveredIsCurrent` | `UploadSafety.cfg` with `MaxAborts = 0`, `MaxCrashes = 0` | a `complete` that verified its token before a newer delivery was signed commits the old package into the new generation (`log_collect_upload_service.py:530`; the design 2026-11-06, F3, asks for fencing) |
| `LogCollectUpload!SessionIsPure` | the same | a part request verifies its token, then opens its file by path; a session rebuilt in between takes the old package's part (`routes/log_collect.py:1051`, comment at 871) |
| `LogCollectTask!DeliveredNeverFails` | `TaskSerial.cfg` with two `Requests` and `Operations = {"create", "update", "arrive"}` | the guard for delivered tasks reads a row loaded before the delivery was recorded (`log_collect_service.py:220`) |
| `LogCollectTask!EvidenceRecorded` | `TaskSerial.cfg` with `Operations = {"create", "arrive"}` | `complete()` marks any task delivered, also one of mode `acli_direct`, and writes no `delivery_evidence`, which `log_collect_service.py:261` wants of every direct delivery. `DirectDeliveryHasBasis` is what is left: then the platform has the package |
| `LogCollectTask!DeliveredHasNoStaleError` | `TaskSerial.cfg` with `Operations = {"create", "update", "verify"}` | a verify-archive that fails and then succeeds skips the branch that clears the failure code (`log_collect_service.py:267`) |
| `DiagnosisEvidence!RunningIsRecovered` | `EvidenceProgress.cfg` | `recover_stuck_tasks` (`worker.py:48`) returns from inside `async for session in database.get_session()`: the generator never gets past its `yield` to the commit, and its UPDATE is rolled back. A job whose worker was killed stays `running`, which no other statement takes up, against `worker.py:30` and `desired_schema.sql:851`. `JobsEnd` excepts such jobs |
| `PodPool!OnePodOneCase` | `PodHandout.cfg` with `MaxFaults = 0` | `initialize()` (`pod_pool.py:69`) takes a pod for free if its annotation names no case. A warm pod is created without one, and nobody annotates it when it is acquired: after a restart it is handed out again, while its first case still has it in Redis (`scheduler_service.py:6` promises that a restart restores the allocations). `PodServesOneCase` and `TerminatedIsForgotten` except such pods (`outlived`), no other: neither the warm pods that were free when the process ended nor those a later process creates |
| `PodPool!RunningBounded` | `PodHandout.cfg` with `MaxFaults = 0` and a limit of one pod (`MaxPoolSize`) | a released pod is deleted with a grace period (`k8s_client.py:222`), and its replacement is created without waiting for it (`pod_pool.py:158`): more than `max_pool_size` pods run (`架构设计.md:836` calls it the limit). `ClusterBounded` counts those that are not being deleted |
| `PodPool!NormalAllocationsStay` | `PodHandout.cfg` with `MaxFaults = 0`, with `MaxRestarts = 0`, without symmetry | `reconcile_allocations()` (`scheduler_service.py:66`) lists all allocations, then deletes by case those whose listed pod is gone: a case that got a new pod in between loses its allocation (line 48: normal allocations stay untouched), and the pod stays active for nobody |
| `DeliveryRunner!NeverTwoFlows` | `DeliveryRunner.cfg` with `Spec` | `resume()` (`delivery_runner.go:340`) sets any job of the table to retrying and queues it, one that is queued or running too: two goroutines pull and upload the same job, against the comment at `delivery_runner.go:514`. `OneActs` excepts a job resumed while it was on its way, and so does `CompleteIsWhole` |
| `BundleActivation!SettledIsServed` | `BundleLifecycle.cfg` | of two activations that overtake each other, the router swapped last is served though the other one is confirmed, and nothing reconciles an active row (`activation.go:100`) |
| `BundleActivation!NoSilentFallback` | `BundleLifecycle.cfg` with `MaxFaults = 2` | a restart while an activation is pending restores nothing; if the retry before Ready fails it is logged, and the GitOps bundle is served (`activation.go:111` promises the contrary) |

The second and third row (of the upload) do not contradict `RecordedIsWhole`: a mixture is found by
the digest that `complete` compares, and costs a retry; a whole package of an
older generation is not found.

Of the delivery runner, met while modelling; the model has each of them unless it
says otherwise, and the properties are stated so as to leave them out:

- A cancel of a job that waits in the queue is undone: its goroutine gets a plain
  error from `normalizeDeliveryPhase`, calls the job retrying and goes on with it
  (`delivery_runner.go:513`, `delivery_job.go:67` promise the contrary). So does a
  cancel that `runJob` overwrites with retrying, and one that meets
  `prepareDirect`, which reports a plain error.
- `saveJob` asks for the owner and writes in two steps (`delivery_runner.go:205`):
  an old job may overwrite the journal of the new one. A crash then loses the new
  delivery and, after a user's cancel, may bring the old one back. Hence
  `user.at = "none"` in `GoneStaysGone`.
- A complete whose answer is lost, or a crash right after it, is sent again and
  refused (401): the delivery is failed and waits for credentials although it
  has arrived. `delivery_job.go:15` promises to ask the platform first.
- `list()` recovers no failed job, and a job that waits for credentials is always
  failed: the case the comment at `delivery_runner.go:131` is about cannot occur.
- The time limit ends a context with `DeadlineExceeded`, not `Canceled`: a job over
  the limit is retried (comment at 468). A job that stalled and was superseded is
  called retrying (comment at 462); it is not queued again.
- A local copy lost while uploading is never pulled again (`delivery_job.go:16`).
- With two goroutines, the deferred delete of an old one takes out the cancel
  function of the new one (line 417), and `discardDeliveredCopy` may remove the
  copy a new delivery has begun to use between its check and `os.Remove`.
- Two flows of one job (`NeverTwoFlows`) share its progress: one asks for credentials
  and ends, the other then calls the job retrying, which is left waiting for a user
  in a phase that is not an end (`LeftWaiting`, which `StatusSettles` excepts); one may
  send complete after the other has dropped the copy and the progress with it; and what they wrote of it is recovered
  after a crash (`torn`).
- Outside the model: the cleaner trusts the phase on disk over the one in
  memory and may remove the copy of a running job (`delivery_local_store.go:205`);
  a job that finds the queue full waits for the next start.

Of the scheduler: slots are not conserved. That every active pod is allocated to a case or held
by a request fails at once: two requests for the same case both find none and the
second overwrites the first (`scheduler_service.py:117`); a dead pod's allocation is
deleted, but not its place in the pool (line 127); a write to Redis that fails leaves
the pod active (line 138). Such pods count against the limit until the service is
restarted, and the living ones, if annotated, after that too. `ClusterBounded` is not
affected: such a pod counts; a pool that is full of them can only answer 503.

### Bounds

| bound | value | why it is enough |
|---|---|---|
| `Pods` | 2 | a claim, a takeover and a release need an old and a new executor |
| `ChunkTotal` | 3 (safety), 2 (liveness) | first, middle and last chunk; index 0 restarts at 0 by the code's `or -1`, index 1 does not |
| `MaxAttempts` | 2 | one retry, then giving up (3 in the code) |
| `MaxUploads` | 2 | a session and the one that replaces it; a coroutine that would need a third waits in front of `InitUpload` |
| `MaxEpoch` | 2 (safety), 1 | a package replaced under its relay |
| `MaxFaults` of the relay | 1 in `RelaySafety`, 3 in `RelayHandover` | every kind of fault at every step; several in a row where the state space allows |
| upload `Jobs` | 2 | an old and a new delivery |
| `PartCount` | 2 | a mixture, and an upload that is begun and not whole, need two parts |
| `MaxAborts`, `MaxCrashes` | 1 and 1 | a user's abort and a crash at every await |
| `Tasks`, `Requests` | 2 and 2; 1 and 1 | two requests race on one task, or on two of a case. `TaskRaces` has creations, patches, uploads and relays; the other operations write an end as a patch does, and `EndIsStamped` and `OneActive` are proved for all of them |
| `Full` | 1 or 2 | progress that falls, stays and rises |
| `Digests`, `Actors`, `Authors` | 2, 3, 1 | a bundle and the one it replaces or is revised into; an author and two reviewers |
| bundle `Requests`, `MaxRequests` | 1 at a time beside the loop, 3 in all | two activations overlap (request and loop); two activations and the roll-back that follows them |
| bundle `MaxFaults` | 1 | a failed call, a lost answer or a restart at every step |
| `Runs`, `Handlers` | 1, 2 | runs share nothing but the reconciler; a handler on a stale row and the one that overtook it |
| `Cases`, `Outcomes` | 1, 1 | a case or none; outcomes are interchangeable, a second result is refused because there is one |
| `MaxVersion` | 2 | a run is bound once before it is leased; leases, results and expiries add versions of their own |
| `Reconcilers`, outbox `MaxAttempts`, `MaxFaults` | 2, 2, 1 | a stalled claimer completes a row that was recovered and claimed by the other; a first and a last attempt, between which the recovery tells |
| `Kinds` | 2 of 4 | an event that may be committed again (`lease.created`) and one that ends the run (`run.result`); the other two are committed by the same operator |
| `Uploads`, `Contents` | 2 and 1; 2 and 2 | two uploads of the same package; a package and its supplement |
| `Workers` | 2; 1 | two workers pick the same job |
| `Items`, job `MaxAttempts` | 2 and 2; 1 and 2; 2 and 3 | a worker stops between two items; a job fails, is tried again and gives up |
| `Deliveries`, `SlotCount` | 2 and 2 | a delivery and the one that replaces it, each on a goroutine of its own (`maxDeliveryTasks` is 2) |
| runner `PartCount`, `Size` | 1 and 1 | a package not sent and one sent, a copy not there and one that is whole: what a resume of a job on its way adds (two flows beside a second delivery) leaves no room for more with the liveness property. With 2 and 2, a package sent in part and a copy that is begun, the safety properties were explored apart (`Spec`, 1.6 million states, a minute, no violation), and the theorems have any number |
| runner `MaxAttempts`, `MaxTransient` | 2 and 2 | a retry and a last attempt (5 and 8 in the code); a disk failure has one |
| runner `MaxTroubles` | 1 | each kind at every step; one delivery of one part and one unit was also explored with three troubles, which a resume of a job on its way and what follows need (safety: 1.9 million states, no violation; `StatusSettles` with failures, lost credentials, crashes, cancels and resumes: 1.8 million) |
| `Cases`, `Types`, `Pods` of the scheduler | 2, 1, 2 | two cases compete for a warm pod and one on demand, and for the place a release makes; types share nothing but requests |
| `WarmPoolSize`, `MaxPoolSize` | 1, 2 | a pool that lacks warm pods with and without room |
| scheduler `Requests`, `MaxRestarts`, `MaxFaults` | 2, 1, 1 | two requests, or a request and the reconciliation, overlap at every await; a restart and a failed call at every step |
| evidence `MaxFaults` | 1 | a killed request, a killed worker or an interrupted deletion at every step |

Deadlock is not checked: a system whose deliveries, runs or jobs are done, or
whose bounds are used up, may stop (pods have names that are used once: their number
bounds what the scheduler does). The proofs below do not depend on any of these values.
Symmetry is used in safety runs only.

### Fairness

- Relay: weak fairness of the coroutine's own steps (the event loop runs every
  ready coroutine), of the gate (granted or timed out), of the heartbeat, of the
  reconcile loop (every minute, in every pod), of the lease's expiry (clocks
  advance), of the log server's assembly once dispatched, and of an upload that
  has merged. None of a user's clicks, of a delivery or of a fault.
- Upload: weak fairness of part and complete requests: the bridge retries a
  delivery it holds a token for until it is told to stop, and the event loop goes
  on with every request. None of deliveries, aborts or crashes.
  `SignedIsDelivered` asks nothing for a delivery whose session was taken by a
  newer one or an abort: it may rightly end undelivered.
- Runner: weak fairness of `Bridge`: as long as a submit handler, a goroutine, the
  scheduler, a backoff that ends or the handler of a user's request can go on, one of
  them does. Go's scheduler promises more (every runnable goroutine gets its turn);
  this is enough. None of the panel, of a user or of a trouble.
- Bundles: weak fairness of the boot (the runtime is restarted by its
  orchestrator), of the retry loop's tick and of the steps of an activation. None
  of requests, reviews or faults.
- Runs: weak fairness of recovery and of each reconciler's steps (the loop ticks
  every two seconds), and *strong* fairness of the acceptance of a post: an
  assumption about the webhook, that it does not refuse for ever all that it is
  posted. Without it an event may stay pending: retries have no
  limit until a reconciler dies. `ImplementsDelivery` and the other properties do
  not use it.
- Evidence: weak fairness of completing requests, of every worker (start, claim,
  work, in any outcome) and of the expiry of uploads (the maintenance loop). None
  of users, administrators, deletions or kills.
- `AbandonedRelayIsPickedUp` is therefore a statement on platforms with at least
  one live pod.

## 4. Theorems

Proved with TLAPS for every value of the constants that the assumptions of the
modules allow (`RelayConstants`, `UploadConstants`, `TaskConstants`,
`InputConstants`, `BundleConstants`, `RunConstants`, `EvidenceConstants`,
`RunnerConstants`, `PoolConstants`: sizes
are naturals, input sets are sets of known values).

| theorem | states | further assumption |
|---|---|---|
| `LogCollectRelayProofs!TypeCorrect` | `Spec => []TypeOK` | none |
| `LogCollectRelayProofs!BreakPointSound` | `Spec => []PersistedIndexBacked` | none |
| `LogCollectRelayProofs!LeaseExcludes` | `Spec => []AtMostOneExecutor` | `Troubles = {}` |
| `LogCollectRelayProofs!SuccessSound` | `Spec => []SuccessWasArchived` | `DigestServer = TRUE` |
| `LogCollectUploadProofs!TypeCorrect` | `Spec => []TypeOK` | none |
| `LogCollectUploadProofs!RecordSound` | `Spec => []RecordedIsWhole` | none |
| `LogCollectTaskProofs!TypeCorrect` | `Spec => []TypeOK` | none |
| `LogCollectTaskProofs!OneActive` | `Spec => []OneActiveTask` | none |
| `LogCollectTaskProofs!EndIsStamped` | `Spec => []TerminalIsFinished` | none |
| `LogCollectTaskProofs!RevivedHasNoEnd` | `Spec /\ []OneAtATime => []ActiveIsUnfinished` | requests do not overlap on a task |
| `LogCollectTaskProofs!DeliveryRestsOnSomething` | `Spec /\ []OneAtATime => []DirectDeliveryHasBasis` | requests do not overlap on a task |
| `BundleActivationProofs!TypeCorrect` | `Spec => []TypeOK` | none |
| `BundleActivationProofs!ReviewHolds` | `Spec => []PublishedWasReviewed` | none |
| `BundleActivationProofs!ReferencesHold` | `Spec => []ReferencedIsPublished` | none |
| `BundleActivationProofs!LoadedHolds` | `Spec => []ActiveIsLoaded` | none |
| `SimRunsProofs!TypeCorrect` | `Spec => []TypeOK` | none |
| `SimRunsProofs!EndsAreFinal` | `Spec => TerminalIsFinal` | none |
| `SimRunsProofs!ResultsHold` | `Spec => []ResultIsEnd` | none |
| `SimRunsProofs!OutboxDelivers` | `Spec => ImplementsDelivery` | none |
| `DiagnosisEvidenceProofs!TypeCorrect` | `Spec => []TypeOK` | none |
| `DiagnosisEvidenceProofs!ProcessorIsAlone` | `Spec => []OneProcessor` | none |
| `DiagnosisEvidenceProofs!CompletionsAreQueued` | `Spec => []CompletedIsQueued` | none |
| `DiagnosisEvidenceProofs!HoldKeeps` | `Spec => HeldIsKept` | none |
| `DiagnosisEvidenceProofs!ReadyBundlesAreComplete` | `Spec => []ReadyIsComplete` | none |
| `DiagnosisEvidenceProofs!SuccessIsDiagnosed` | `Spec => []SucceededIsDiagnosed` | none |
| `DeliveryRunnerProofs!TypeCorrect` | `Spec => []TypeOK` | none |
| `DeliveryRunnerProofs!DoneWasDelivered` | `Spec => []DoneIsDelivered` | none |
| `DeliveryRunnerProofs!OneFlow` | `Spec => []OneActs` | none |
| `DeliveryRunnerProofs!CompletedIsWhole` | `Spec => []CompleteIsWhole` | none |
| `DeliveryRunnerProofs!ReplacedForGood` | `Spec => []GoneStaysGone` | none |
| `PodPoolProofs!TypeCorrect` | `Spec => []TypeOK` | none |
| `PodPoolProofs!OnePodForACase` | `Spec => []PodServesOneCase` | none |
| `PodPoolProofs!ReleasedIsForgotten` | `Spec => []TerminatedIsForgotten` | none |
| `PodPoolProofs!ClusterStaysBounded` | `Spec => []ClusterBounded` | none |
| `PodPoolProofs!PoolsAreReplenished` | `Spec => []PoolIsReplenished` | none |

The arguments:

- *Break point.* The row's index is written by whichever coroutine saves next,
  so the property is not inductive. `BackedInv` says it of the row and of every
  coroutine: the chunks below the index it will send, or has sent and will save,
  are with the server in the session it names. `SaveInit` may not keep the old
  session's index, and the server never loses a chunk of a live session
  (`ServerKeeps`). `Positions` carries the types: who sends has a session and a
  chunk left.
- *One executor.* `Lock`: whoever is queued or at work holds a running row and a
  fresh lease, somebody keeps that lease from ageing (the queue timeout or the
  heartbeat), and nobody else holds. Each trouble breaks it: force and stalls by
  claiming a live lease, graceful exits by a release that asks for the status
  alone, corrections by taking the
  row from its coroutine. The theorem therefore assumes there is none; crashes,
  network errors, lost answers and redeliveries are allowed in any number.
- *Success.* `ArchivedInv`: a session the server assembles has every chunk and
  is not opened again, and a coroutine waits only for such a session. With a
  server that deletes its sessions instead of reporting a digest
  (`DigestServer = FALSE`), an assembled mixture is taken for success, as the
  code says itself (`_await_archive`'s comment on old versions).
- *Recorded package.* `WholeInv`: a complete request about to record holds a
  buffer equal to its own package: the digest compared is that of the bytes the
  merge wrote, not of the part files, so later changes of these do not matter.
- *Task.* `TaskInv`: for the index, every commit passes `Unique`, whatever it
  writes. For the end time, the argument goes by columns: a commit that writes an
  end writes `finished_at` with it, and one that clears it writes `collecting`
  with it, so that merging two requests' columns cannot part them. `CreatesAnew`
  says that a creation started from an absent row.

- *Bundles.* No write takes `published` away from a bundle or drops its approvals
  (`BundlesFollow`), which is what revising and retiring must get right; so what
  the pointer named when it was published stays so (`PointerMoves`: it only moves
  to a published digest or among those it has). The review needs more: `Sound`
  carries that approvals are of different people in different roles, none the
  author's, and `Awaiting` that a publication under way was of a reviewed bundle,
  since `Publish` does not look again. `LoadedInv`: an activation that is about to
  confirm has loaded its router, and the confirmation is for what the row awaits;
  a runtime that is down has no activation.
- *Runs.* `ReadInv`: what a handler read is no newer than the row, and if the
  version is the same, so is the status; every change of status raises the
  version (`Moves`). A handler about to write `preparing` read `requested`, so
  that its version check fails once the run has ended. `ResultIsEnd` follows from
  the insertion and the update being one transaction (`ResultMoves`).
- *Outbox.* `DeliveryInv`: a reconciler at work holds a committed event, and one
  that saw a 2xx holds a delivered one. Then each step maps: committing to
  `Accept`, a post to `Deliver`, a completion to `Acknowledge` (or a stutter, if
  the row is not being processed any more), a recovery to `Abandon` of the events
  over their budget.
- *Evidence.* `Owned`: a package is processed only while its job runs, and by one
  worker, since a claim asks for the status in the same statement. `Stored`: a
  bundle's upload is completed and no request works on it any more; with
  `WorkMoves` and `UploadMoves`, what a step may do to a job and an upload, this
  gives `CompletedIsQueued` and, as only a deletion removes the object of a
  bundle, `HeldIsKept`. `Kept`: short of a deletion a worker past item *n* has
  written the first *n* items (`Written`), and no other worker takes them back.
- *Runner.* `TypeInv` adds to the types that a goroutine that is not idle, a
  submission that replaces a job and a user's request have a job. `DoneInv`: a
  goroutine past the platform's answer (`Certain`: discarding, removing, finishing,
  or writing on the way there) has a job that is delivered. A job becomes done in
  `Finish` only, and the journal is always written from a job of the table or
  recovered into it, so that it is no more done than the table; the argument does
  not need to know who owns the task.
- *Runner, one goroutine acts.* `OneInv`: a job is in one place only (`Apart`): not
  yet queued, in the queue (once), with one goroutine that works, asleep in a backoff,
  on its way back from a user's resume, or waiting for credentials. The exception is a
  job that a user resumed while it was in one of them (`doubled`), until the bridge starts
  again. A step moves at most one job, and the others leave places only (`Fewer`,
  `OnePlaceKept`). Of two goroutines that act, both act for the current job, hence they
  are one. `Known` says that only submitted jobs are anywhere, and `Owned` that
  without a current job there are none: a crash leaves what the journal holds.
- *Runner, complete is whole.* `WholeInv`: a job whose phase is `completing` has all
  parts, also in the journal, from which a crash takes it up; a goroutine on its way
  to `complete` either saw that no part was missing or has been stopped, and then its
  request fails before it is sent (`SlotWhole`). It needs the job for itself, so that the
  jobs of two flows are excepted, and their recovered journals too (`Mixed`).
- *Runner, replaced for good.* `GoneInv`: the job that stands for the task was never
  replaced, and nor was any a late write of the journal would bring back; a job that
  was replaced has ended, since `submit` ends it before it stores the new one, and a goroutine
  (`Separate`: it has its job to itself) that writes the journal for one that was displaced
  writes it as ended. All of it as long as no user has cancelled or resumed,
  since such a request may overwrite the journal of a newer delivery (section 3).
- *Upload, types.* `TypeInv`: what is not obvious is that epochs stay bounded. A
  request counts `delivery_attempts` up from a row it read before an await, so
  that the invariant compares with the number of deliveries signed (`Counted`), and a
  merge starts at part 1 and stops at the last (`Reading`).
- *Task, one request at a time.* `ActiveIsUnfinished` and `DirectDeliveryHasBasis` fail when
  requests race, so the theorems are about behaviours in which no two requests hold
  the row of the same task (`OneAtATime`); on different tasks they may overlap, in any
  number. The end of an upload and of a relay count among the requests.
  `SerialInv`: a row agrees with itself (`Recorded`), and the row a request
  holds is the one in the table (`Holds`). Then a commit writes what was computed (`MergeRecorded`), and what
  `update_task` computes from such a row is such a row (`UpdatedRecorded`).
- *Scheduler, who has a pod.* `Handing`. `Resting` says where pods are that nobody works with:
  a pod that is not created is nowhere, a free one was created warm and nobody has it, and
  what a start will find without an annotation nobody has either (`DownIsRecorded`), each
  but for pods that outlived a process with a case. `Taking` says who has one: the request about to store a pod is the only
  one that knows it (`StoreIsFirst`), and requests that read it work on the case it is allocated
  for (`ReadersAgree`), so that a deletion before `Terminate` is of the allocation that names
  the pod. Most steps only forget (`Forgetting`); what takes a pod takes one nobody has, unless
  it is one of those that a restart took for free (`Sure` excepts them, and no others).
- *Scheduler, sizes of pools.* `Filling` adds that, without failed calls, the process knows every
  pod that lives and is not being deleted (`LiveAreKnown`); what `ensure_warm_pool` creates fits
  beside what the process knows (`MissingFits`). A pool that lacks
  warm pods and has room has lost one to a request or regained a place by a release, and each
  of them has left a task; the counting is done with the library's facts on cardinality.

Only model-checked: the liveness properties (`AbandonedRelayIsPickedUp`,
`SignedIsDelivered`, `RequestIsSettled`, `EventsSettle`, `JobsEnd`,
`UploadsSettle`, `StatusSettles`), out of the prover's reach. Every invariant and
every action property that a passing run checks is proved. `ClusterBounded` of the
scheduler and its type invariant are proved and have no run of their own; `ClusterBounded` was explored
with a limit of one pod, two pods, a restart and no fault (0.5 million states).

## 5. Not modelled

Within log collection: progress write-back of part uploads, short parts left on
disk, token expiry by time, quota and purge of old objects, the ticket of the P1
path, resource trees, the read-only routes. The delivery statuses `pulling`,
`uploading` and `relaying` are never written by the service and are left out.

Within the delivery runner: the cleaner of local copies and its limits, the pace
and the number of parallel parts, the relaxing of certificate checks, the snapshot
file of a replaced job (it is superseded, so that it never runs again), the replay of a
submission with the same token (it returns the job there is), the wording of errors. Races of unlocked
fields at the level of Go's memory model are left out: a field is read or written
whole.

Within the simulator: the bundles GitOps mounts and `SyncPublishedBundles`, which
writes their rows at boot (they are the digest `GitOps` here, which no request can
activate); `MarkStale`, which has no caller; two runtimes that overlap in a
roll-over; the events of SSH commands; the lease tracker, the SSH server, the
artifact and asset registries. The store of bundle objects is taken to hold what
was compiled.

Within the scheduler: routes that only read, the endpoint of a pod, the list of
assistants with its availability, entries of Redis that are not JSON (deleted when
read), types disabled or taken out of the registry between two starts, the manifest of a
pod, the metrics, two processes at once.

Within diagnosis: what an analysis computes, reports and their revisions, the
review of bundles' security results, the content checks of a manifest (they are
the choice between going on and `Reject`), tokens of parts, the janitor of work
directories. `transition()` of a session has no caller and its table of
transitions is not enforced by any statement. Plans, collectors and the
synchronisation of resources are components of their own.

The other components are listed in section 1 and in `PROJECT.json` with the
reason; the conversation, agent and knowledge-base services, most of the lines of
the repository, drive language models and search, and keep little state that a
second process writes.

## 6. Plan

Done: the relay, the upload and the task; the simulator's bundles, runs and
outbox, with its abstract delivery; diagnosis evidence; the bridge's delivery
runner; the scheduler; their runs and theorems.
Next, in order of importance:

1. *Abstract delivery of a package.* What task, upload and relay promise together
   (a package is offered, accepted whole by the platform, archived whole by the
   log server; facts are not undone), with `LogCollectUpload` and
   `LogCollectRelay` as the two halves of its implementation.
2. *Composition* of upload and relay on one row: late failures of old relays,
   redelivery after success, the object replaced under a relay, the crash between
   commit and trigger.
3. *Bridge*: the cleaner of local copies, user requests that overlap, and the runner
   composed with `LogCollectUpload` in place of its reduced client.
4. *Simulator leases*: acquire, bind, expire and release beside the runs.
5. *Conversation streams* (cancellation against a running answer), *offline
   resource releases*, *dynamic resource cache*.

## 7. Running the checks

    tlc -workers 2 -config RelaySafety.cfg MCLogCollectRelay
    tlapm LogCollectRelayProofs.tla

and likewise for the other runs (the module of a run is in `PROJECT.json`) and
proof modules.
