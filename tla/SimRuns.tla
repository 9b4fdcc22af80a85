-------------------------------- MODULE SimRuns --------------------------------
(***************************************************************************)
(* Test runs of the HCI simulator: run_repository.go, the handlers of      *)
(* cmd/hci-sim/main.go that call it, and reconciler.go, which delivers the *)
(* events of the outbox to a webhook.                                      *)
(*                                                                         *)
(* A handler is a sequence of transactions on one run; between them other  *)
(* handlers and the reconcilers act.  A request may stop after any of them *)
(* (its client is gone), and a reconciler may die or stall with a row.     *)
(*                                                                         *)
(* Data: the lease of a run has the same JTI whoever signs it, so a lease  *)
(* is leased or not; a run has one attempt; a deadline passes at any time; *)
(* available_at and ids are left out: any pending row may be the next.     *)
(***************************************************************************)
EXTENDS Naturals, FiniteSets

CONSTANTS
  Runs,         \* test runs, one per idempotency key
  Handlers,     \* requests served at a time
  Cases,        \* cases a run may be bound to
  Outcomes,     \* what an oracle reports
  Reconcilers,  \* two while a deployment rolls over
  Kinds,        \* kinds of events whose delivery is followed
  None,         \* no case, no event
  MaxAttempts,  \* HCI_SIM_OUTBOX_MAX_ATTEMPTS
  MaxVersion,   \* bound: versions of a run that bindings may reach
  MaxFaults     \* bound: deaths and stalls of a reconciler

ASSUME RunConstants ==
  /\ Runs # {}
  /\ Outcomes \subseteq {"passed", "failed", "inconclusive"}
  /\ Kinds \subseteq {"lease.created", "test_run.created", "run.result", "run.expired"}
  /\ None \notin Cases /\ None \notin Outcomes
  /\ MaxAttempts \in Nat \ {0} /\ MaxVersion \in Nat \ {0} /\ MaxFaults \in Nat

Terminal == {"passed", "failed", "inconclusive", "cancelled", "expired"}
Open     == {"requested", "preparing", "leased", "running"}
Events   == Runs \X Kinds

VARIABLES
  runs,       \* table run: status, version, case of the context; attempt
  results,    \* table run_result: the outcome of each run, or None
  outbox,     \* table outbox: status and attempts of each event
  handler,    \* each request: what it does next, to which run, the row it read
  reconciler, \* each reconciler: what it does with which event
  received,   \* events the webhook has received
  faults      \* deaths and stalls so far

vars == <<runs, results, outbox, handler, reconciler, received, faults>>

Run == [status : {"absent"} \cup Open \cup Terminal, version : Nat, case : Cases \cup {None},
        attempt : {"none", "leased"} \cup Outcomes]

Row == [status : {"none", "pending", "processing", "processed", "failed"},
        attempts : 0 .. MaxAttempts]

Idle == [pc |-> "idle", run |-> CHOOSE r \in Runs : TRUE, status |-> "absent", version |-> 0]

TypeOK ==
  /\ runs \in [Runs -> Run]
  /\ results \in [Runs -> Outcomes \cup {None}]
  /\ outbox \in [Events -> Row]
  /\ handler \in [Handlers -> [pc : {"idle", "lease", "leaseEvent", "bind", "refresh",
                                     "prepare", "testEvent"},
                               run : Runs, status : {"absent"} \cup Open \cup Terminal,
                               version : Nat]]
  /\ reconciler \in [Reconcilers -> [pc : {"idle", "post", "ok", "refused"},
                                     event : Events \cup {None}]]
  /\ received \subseteq Events
  /\ faults \in 0 .. MaxFaults

NoReconciliation == [pc |-> "idle", event |-> None]

Init ==
  /\ runs = [r \in Runs |-> [status |-> "absent", version |-> 0, case |-> None,
                             attempt |-> "none"]]
  /\ results = [r \in Runs |-> None]
  /\ outbox = [e \in Events |-> [status |-> "none", attempts |-> 0]]
  /\ handler = [h \in Handlers |-> Idle]
  /\ reconciler = [c \in Reconcilers |-> NoReconciliation]
  /\ received = {}
  /\ faults = 0

--------------------------------------------------------------------------------
(***************************************************************************)
(* Requests                                                                *)
(***************************************************************************)
At(h, pc) == handler[h].pc = pc
Goto(h, pc) == handler' = [handler EXCEPT ![h].pc = pc]
Answer(h) == handler' = [handler EXCEPT ![h] = Idle]

\* From here on the row it read is of no use to the request.
Emit(h, pc) == handler' = [handler EXCEPT ![h] = [Idle EXCEPT !.pc = pc, !.run = handler[h].run]]

\* What a request knows of the run: the row as it read it last.
Knows(h, r, pc) ==
  handler' = [handler EXCEPT ![h] = [pc |-> pc, run |-> r, status |-> runs'[r].status,
                                     version |-> runs'[r].version]]

delivery == <<outbox, reconciler, received, faults>>

\* An event is committed with the state it tells of; a known one is not repeated.
Enqueued(S) ==
  [e \in Events |-> IF e \in S /\ outbox[e].status = "none"
                    THEN [status |-> "pending", attempts |-> 0] ELSE outbox[e]]

\* build: it may name the case; a request with a known idempotency key continues the
\* run it finds.
Create(h, r, case) ==
  /\ At(h, "idle")
  /\ runs' = IF runs[r].status = "absent"
             THEN [runs EXCEPT ![r].status = "requested", ![r].version = 1, ![r].case = case]
             ELSE runs
  /\ Knows(h, r, "lease")
  /\ UNCHANGED <<results, delivery>>

Leasable(h) ==
  LET r == handler[h].run
  IN  runs[r].status = "requested" /\ runs[r].version = handler[h].version

RecordLease(h) ==
  LET r == handler[h].run
  IN  /\ At(h, "lease")
      /\ \/ runs[r].status = "leased" /\ Emit(h, "leaseEvent") /\ UNCHANGED runs
         \/ /\ Leasable(h) /\ Emit(h, "leaseEvent")
            /\ runs' = [runs EXCEPT ![r].status = "leased", ![r].attempt = "leased",
                                    ![r].version = @ + 1]
         \/ runs[r].status # "leased" /\ ~Leasable(h) /\ Answer(h) /\ UNCHANGED runs
      /\ UNCHANGED <<results, delivery>>

AppendEvent(h, pc, kind) ==
  /\ At(h, pc)
  /\ outbox' = Enqueued({<<handler[h].run, kind>>})
  /\ Answer(h)
  /\ UNCHANGED <<runs, results, reconciler, received, faults>>

\* test-runs: the run is read, bound to the case, read again and prepared.
GetRun(h, r) ==
  /\ At(h, "idle") /\ runs[r].status # "absent"
  /\ UNCHANGED runs
  /\ Knows(h, r, "bind")
  /\ UNCHANGED <<results, delivery>>

BindCase(h, case) ==
  LET r == handler[h].run
  IN  /\ At(h, "bind") /\ runs[r].version < MaxVersion
      /\ IF runs[r].case \in {None, case}
         THEN /\ runs' = [runs EXCEPT ![r].case = case, ![r].version = @ + 1]
              /\ Goto(h, "refresh")
         ELSE Answer(h) /\ UNCHANGED runs
      /\ UNCHANGED <<results, delivery>>

\* A second read that fails leaves the first one in use.
Refresh(h) ==
  LET r == handler[h].run
  IN  /\ At(h, "refresh")
      /\ UNCHANGED runs
      /\ \/ runs[r].status = "requested" /\ Knows(h, r, "prepare")
         \/ runs[r].status # "requested" /\ Emit(h, "testEvent")
         \/ handler[h].status = "requested" /\ Goto(h, "prepare")
         \/ handler[h].status # "requested" /\ Emit(h, "testEvent")
      /\ UNCHANGED <<results, delivery>>

\* Mutant of UpdateStatusCAS: the version is not compared.
UpdateStatus(h, status) ==
  /\ runs' = [runs EXCEPT ![handler[h].run].status = status, ![handler[h].run].version = @ + 1]
  /\ Emit(h, "testEvent")

UpdateStatusCAS(h, status) ==
  LET r == handler[h].run
  IN  IF runs[r].version = handler[h].version
      THEN /\ runs' = [runs EXCEPT ![r].status = status, ![r].version = @ + 1]
           /\ Emit(h, "testEvent")
      ELSE Answer(h) /\ UNCHANGED runs

Prepare(h) ==
  /\ At(h, "prepare")
  /\ UpdateStatusCAS(h, "preparing")
  /\ UNCHANGED <<results, delivery>>

\* The client is gone, or a statement failed.
Drop(h) ==
  /\ ~At(h, "idle") /\ Answer(h)
  /\ UNCHANGED <<runs, results, delivery>>

\* Mutant of RecordResult: the status the run had goes into the result.
RecordResultOfRun(r, outcome) ==
  /\ runs[r].attempt # "none" /\ results[r] = None
  /\ results' = [results EXCEPT ![r] = runs[r].status]
  /\ UNCHANGED <<runs, handler, delivery>>

\* Mutant of RecordResult: the update that matches no row does not undo the insertion.
RecordResultAnyway(r, outcome) ==
  /\ runs[r].attempt # "none" /\ results[r] = None
  /\ results' = [results EXCEPT ![r] = outcome]
  /\ runs' = IF runs[r].status \in Terminal THEN runs
             ELSE [runs EXCEPT ![r].attempt = outcome, ![r].status = outcome, ![r].version = @ + 1]
  /\ outbox' = Enqueued({<<r, "run.result">>})
  /\ UNCHANGED <<handler, reconciler, received, faults>>

\* result: one transaction; a repeated result changes nothing, another one is refused,
\* and so is one for a run that has come to another end.
RecordResult(r, outcome) ==
  /\ runs[r].attempt # "none" /\ results[r] = None
  /\ runs[r].status \notin Terminal \/ runs[r].status = outcome
  /\ results' = [results EXCEPT ![r] = outcome]
  /\ runs' = [runs EXCEPT ![r].attempt = outcome, ![r].status = outcome,
                          ![r].version = IF runs[r].status \in Terminal THEN @ ELSE @ + 1]
  /\ outbox' = Enqueued({<<r, "run.result">>})
  /\ UNCHANGED <<handler, reconciler, received, faults>>

--------------------------------------------------------------------------------
(***************************************************************************)
(* The reconciler: recover, expire, then claim, post and complete          *)
(***************************************************************************)
requests == <<runs, results, handler>>

Fault == faults < MaxFaults /\ faults' = faults + 1

\* The runs of S are past their deadline.
ExpireRuns(S) ==
  /\ S # {} /\ \A r \in S : runs[r].status \in Open
  /\ runs' = [r \in Runs |-> IF r \in S
                             THEN [runs[r] EXCEPT !.status = "expired", !.version = @ + 1]
                             ELSE runs[r]]
  /\ outbox' = Enqueued(S \X {"run.expired"})
  /\ UNCHANGED <<results, handler, reconciler, received, faults>>

\* Mutant of Processing: rows over the attempt budget are left alone.
ProcessingInBudget ==
  {e \in Events : outbox[e].status = "processing" /\ outbox[e].attempts < MaxAttempts}

Processing == {e \in Events : outbox[e].status = "processing"}
Held == {reconciler[c].event : c \in Reconcilers} \ {None}

Recovered(row) ==
  [row EXCEPT !.status = IF row.attempts >= MaxAttempts THEN "failed" ELSE "pending"]

\* Rows claimed more than a minute ago: those of a dead reconciler, and of one that stalls.
RecoverProcessingOutbox(S) ==
  /\ S # {} /\ S \subseteq Processing
  /\ IF S \cap Held = {} THEN UNCHANGED faults ELSE Fault
  /\ outbox' = [e \in Events |-> IF e \in S THEN Recovered(outbox[e]) ELSE outbox[e]]
  /\ UNCHANGED <<requests, reconciler, received>>

Working(c, pc) == reconciler[c].pc = pc
Proceed(c, pc) == reconciler' = [reconciler EXCEPT ![c].pc = pc]

ClaimOutbox(c, e) ==
  /\ Working(c, "idle") /\ outbox[e].status = "pending"
  /\ outbox' = [outbox EXCEPT
       ![e] = [status |-> "processing",
               attempts |-> IF @.attempts < MaxAttempts THEN @.attempts + 1 ELSE MaxAttempts]]
  /\ reconciler' = [reconciler EXCEPT ![c] = [pc |-> "post", event |-> e]]
  /\ UNCHANGED <<requests, received, faults>>

Post(c) == Working(c, "post") /\ UNCHANGED <<requests, outbox, faults>>

PostAccepted(c) ==
  /\ Post(c) /\ Proceed(c, "ok")
  /\ received' = received \cup {reconciler[c].event}

\* The webhook is down, answers an error, or its answer is lost.
PostRefused(c) ==
  /\ Post(c) /\ Proceed(c, "refused")
  /\ \/ UNCHANGED received
     \/ received' = received \cup {reconciler[c].event}

\* Mutant of CompleteOutbox: the update does not ask for the status.
CompleteAnyOutbox(c) ==
  /\ reconciler[c].pc \in {"ok", "refused"}
  /\ outbox' = [outbox EXCEPT ![reconciler[c].event].status =
                   IF Working(c, "ok") THEN "processed" ELSE "pending"]
  /\ reconciler' = [reconciler EXCEPT ![c] = NoReconciliation]
  /\ UNCHANGED <<requests, received, faults>>

\* The update asks only that the row is being processed, by whomever.
CompleteOutbox(c) ==
  LET e == reconciler[c].event
  IN  /\ reconciler[c].pc \in {"ok", "refused"}
      /\ outbox' = IF outbox[e].status = "processing"
                   THEN [outbox EXCEPT ![e].status =
                           IF Working(c, "ok") THEN "processed" ELSE "pending"]
                   ELSE outbox
      /\ reconciler' = [reconciler EXCEPT ![c] = NoReconciliation]
      /\ UNCHANGED <<requests, received, faults>>

\* The process dies, or the completing statement fails: the row stays as it was claimed.
Die(c) ==
  /\ ~Working(c, "idle") /\ Fault
  /\ reconciler' = [reconciler EXCEPT ![c] = NoReconciliation]
  /\ UNCHANGED <<requests, outbox, received>>

--------------------------------------------------------------------------------
Serve(h) ==
  \/ \E r \in Runs, case \in Cases \cup {None} : Create(h, r, case)
  \/ \E r \in Runs : GetRun(h, r)
  \/ RecordLease(h) \/ AppendEvent(h, "leaseEvent", "lease.created")
  \/ \E case \in Cases : BindCase(h, case)
  \/ Refresh(h) \/ Prepare(h) \/ AppendEvent(h, "testEvent", "test_run.created")
  \/ Drop(h)

Deliver(c) ==
  \/ \E e \in Events : ClaimOutbox(c, e)
  \/ PostAccepted(c) \/ PostRefused(c) \/ CompleteOutbox(c)

Next ==
  \/ \E h \in Handlers : Serve(h)
  \/ \E r \in Runs, outcome \in Outcomes : RecordResult(r, outcome)
  \/ \E S \in SUBSET Runs : ExpireRuns(S)
  \/ \E S \in SUBSET Processing : RecoverProcessingOutbox(S)
  \/ \E c \in Reconcilers : Deliver(c) \/ Die(c)

Spec == Init /\ [][Next]_vars

\* The loop ticks; a webhook that is posted events again and again accepts one at last.
FairSpec ==
  /\ Spec
  /\ WF_vars(RecoverProcessingOutbox(Processing \ Held))
  /\ \A c \in Reconcilers : WF_vars(Deliver(c))
  /\ SF_vars(\E c \in Reconcilers : PostAccepted(c))

--------------------------------------------------------------------------------
Over(r) == runs[r].status \in Terminal

\* A run that is over keeps its end: no handler that read the row earlier, no late result
\* and no expiry writes another one.
TerminalIsFinal == [][\A r \in Runs : Over(r) => runs'[r].status = runs[r].status]_vars

\* A recorded result is the end of its run, and an end that is an outcome has its result.
ResultIsEnd ==
  \A r \in Runs : (results[r] # None \/ runs[r].status \in Outcomes) =>
                    runs[r].status = results[r]

\* Every committed event is delivered, or failed for an operator to see, at last.
EventsSettle == <>[](\A e \in Events : outbox[e].status \in {"none", "processed", "failed"})

\* The outbox implements the promise of at-least-once delivery.
DeliveryState == [none |-> "none", pending |-> "accepted", processing |-> "accepted",
                  processed |-> "acknowledged", failed |-> "abandoned"]

Delivery == INSTANCE EventDelivery WITH
  state <- [e \in Events |-> DeliveryState[outbox[e].status]],
  delivered <- received

ImplementsDelivery == Delivery!Spec

================================================================================
