----------------------------- MODULE SimRunsProofs -----------------------------
(***************************************************************************)
(* What holds of test runs and their events for any number of runs,        *)
(* requests, reconcilers and faults.                                       *)
(*                                                                         *)
(* Every write that changes the status of a run raises its version, and a  *)
(* request that read a run compares the version when it writes: if it is   *)
(* the one that was read, so is the status, and the run is not over.       *)
(***************************************************************************)
EXTENDS SimRuns, TLAPS

USE DEF vars

\* A reconciler that is at work has an event.
TypeInv ==
  /\ TypeOK
  /\ \A c \in Reconcilers : reconciler[c].pc # "idle" => reconciler[c].event \in Events

--------------------------------------------------------------------------------
(***************************************************************************)
(* Types                                                                   *)
(***************************************************************************)
LEMMA IdleForm ==
  \E r \in Runs : Idle = [pc |-> "idle", run |-> r, status |-> "absent", version |-> 0]
<1>1. (CHOOSE r \in Runs : TRUE) \in Runs BY RunConstants
<1>2. QED BY <1>1 DEF Idle

LEMMA IdleTyped ==
  /\ Idle.pc = "idle" /\ Idle.run \in Runs /\ Idle.status = "absent" /\ Idle.version = 0
  /\ Idle \in [pc : {"idle"}, run : Runs, status : {"absent"}, version : {0}]
BY RunConstants DEF Idle

LEMMA InitTyped == Init => TypeInv
<1> SUFFICES ASSUME Init PROVE TypeInv OBVIOUS
<1>1. handler = [h \in Handlers |-> Idle] BY DEF Init
<1>2. handler \in [Handlers -> [pc : {"idle", "lease", "leaseEvent", "bind", "refresh",
                                     "prepare", "testEvent"},
                               run : Runs, status : {"absent"} \cup Open \cup Terminal,
                               version : Nat]]
  BY <1>1, IdleTyped
<1>3. QED BY <1>2, RunConstants DEF Init, TypeInv, TypeOK, Run, Row, NoReconciliation

LEMMA EnqueuedTyped ==
  ASSUME TypeOK, NEW S
  PROVE  Enqueued(S) \in [Events -> Row]
BY RunConstants DEF TypeOK, Enqueued, Row

\* What a request may leave behind of itself.
LEMMA HandlerTyped ==
  ASSUME TypeOK, NEW h \in Handlers, runs' \in [Runs -> Run], NEW r \in Runs,
         NEW pc \in {"idle", "lease", "leaseEvent", "bind", "refresh", "prepare", "testEvent"},
         Knows(h, r, pc) \/ Emit(h, pc) \/ Goto(h, pc) \/ Answer(h)
  PROVE  handler' \in [Handlers -> [pc : {"idle", "lease", "leaseEvent", "bind", "refresh",
                                          "prepare", "testEvent"},
                                    run : Runs, status : {"absent"} \cup Open \cup Terminal,
                                    version : Nat]]
<1>1. CASE Knows(h, r, pc) BY <1>1 DEF Knows, TypeOK, Run
<1>2. CASE Emit(h, pc)
  <2>1. PICK r0 \in Runs :
          Idle = [pc |-> "idle", run |-> r0, status |-> "absent", version |-> 0]
    BY IdleForm
  <2> DEFINE left == [Idle EXCEPT !.pc = pc, !.run = handler[h].run]
  <2>2. left = [pc |-> pc, run |-> handler[h].run, status |-> "absent", version |-> 0]
    <3>1. left = [[pc |-> "idle", run |-> r0, status |-> "absent", version |-> 0]
                    EXCEPT !.pc = pc, !.run = handler[h].run]
      BY <2>1, Zenon
    <3> HIDE DEF left
    <3>2. QED BY <3>1
  <2>3. handler' = [handler EXCEPT ![h] = left] BY <1>2 DEF Emit
  <2> HIDE DEF left
  <2>4. QED BY <2>2, <2>3 DEF TypeOK
<1>3. CASE Goto(h, pc) BY <1>3 DEF Goto, TypeOK
<1>4. CASE Answer(h) BY <1>4, IdleTyped DEF Answer, TypeOK
<1>5. QED BY <1>1, <1>2, <1>3, <1>4

LEMMA ServeTyped ==
  ASSUME TypeInv, NEW h \in Handlers, Serve(h)
  PROVE  TypeInv'
<1> USE DEF TypeInv, delivery
<1>0. handler[h].run \in Runs /\ runs[handler[h].run] \in Run BY DEF TypeOK
<1>1. ASSUME runs' \in [Runs -> Run], outbox' \in [Events -> Row],
             UNCHANGED <<results, reconciler, received, faults>>,
             NEW r \in Runs,
             NEW pc \in {"idle", "lease", "leaseEvent", "bind", "refresh", "prepare",
                         "testEvent"},
             Knows(h, r, pc) \/ Emit(h, pc) \/ Goto(h, pc) \/ Answer(h)
      PROVE  TypeInv'
  BY <1>1, HandlerTyped DEF TypeOK
<1>2. ASSUME NEW r \in Runs, NEW case \in Cases \cup {None}, Create(h, r, case) \/ GetRun(h, r)
      PROVE  TypeInv'
  <2>1. runs' \in [Runs -> Run]
    <3>1. CASE UNCHANGED runs BY <3>1 DEF TypeOK
    <3>2. CASE runs' = [runs EXCEPT ![r].status = "requested", ![r].version = 1, ![r].case = case]
      <4> DEFINE n == [runs[r] EXCEPT !.status = "requested", !.version = 1, !.case = case]
      <4>1. runs' = [runs EXCEPT ![r] = n] BY <3>2 DEF TypeOK, Run
      <4>2. n \in Run
        <5>1. runs[r] \in Run BY DEF TypeOK
        <5>2. QED BY <5>1 DEF Run, Open
      <4>3. QED BY <4>1, <4>2 DEF TypeOK
    <3>3. QED BY <1>2, <3>1, <3>2 DEF Create, GetRun
  <2>2. QED BY <1>1, <1>2, <2>1 DEF Create, GetRun, TypeOK
<1>3. CASE RecordLease(h)
  <2>1. runs' \in [Runs -> Run] BY <1>0, <1>3 DEF RecordLease, TypeOK, Run, Open
  <2>2. QED BY <1>0, <1>1, <1>3, <2>1 DEF RecordLease, TypeOK
<1>4. ASSUME NEW pc, NEW kind, AppendEvent(h, pc, kind) PROVE TypeInv'
  <2>1. outbox' \in [Events -> Row] BY <1>4, EnqueuedTyped DEF AppendEvent
  <2>2. QED BY <1>0, <1>1, <1>4, <2>1 DEF AppendEvent, TypeOK
<1>5. ASSUME NEW case \in Cases, BindCase(h, case) PROVE TypeInv'
  <2>1. runs' \in [Runs -> Run] BY <1>0, <1>5 DEF BindCase, TypeOK, Run
  <2>2. QED BY <1>0, <1>1, <1>5, <2>1 DEF BindCase, TypeOK
<1>6. CASE Refresh(h) BY <1>0, <1>1, <1>6 DEF Refresh, TypeOK
<1>7. CASE Prepare(h)
  <2>1. runs' \in [Runs -> Run]
    BY <1>0, <1>7 DEF Prepare, UpdateStatusCAS, TypeOK, Run, Open
  <2>2. QED BY <1>0, <1>1, <1>7, <2>1 DEF Prepare, UpdateStatusCAS, TypeOK
<1>8. CASE Drop(h) BY <1>0, <1>1, <1>8 DEF Drop, TypeOK
<1>9. QED BY <1>2, <1>3, <1>4, <1>5, <1>6, <1>7, <1>8 DEF Serve

LEMMA DeliverTyped ==
  ASSUME TypeInv, NEW c \in Reconcilers, Deliver(c) \/ Die(c)
  PROVE  TypeInv'
<1> USE DEF TypeInv, TypeOK, requests, Working, Proceed, NoReconciliation
<1>1. ASSUME NEW e \in Events, ClaimOutbox(c, e) PROVE TypeInv'
  BY <1>1, RunConstants DEF ClaimOutbox, Row
<1>2. CASE PostAccepted(c) BY <1>2 DEF PostAccepted, Post
<1>3. CASE PostRefused(c) BY <1>3 DEF PostRefused, Post
<1>4. CASE CompleteOutbox(c) BY <1>4 DEF CompleteOutbox, Row
<1>5. CASE Die(c) BY <1>5, RunConstants DEF Die, Fault
<1>6. QED BY <1>1, <1>2, <1>3, <1>4, <1>5 DEF Deliver

LEMMA NextTyped == TypeInv /\ [Next]_vars => TypeInv'
<1> SUFFICES ASSUME TypeInv, [Next]_vars PROVE TypeInv' OBVIOUS
<1>1. ASSUME NEW h \in Handlers, Serve(h) PROVE TypeInv' BY <1>1, ServeTyped
<1>2. ASSUME NEW r \in Runs, NEW outcome \in Outcomes, RecordResult(r, outcome) PROVE TypeInv'
  <2>1. runs' \in [Runs -> Run]
    <3> DEFINE v == IF runs[r].status \in Terminal THEN runs[r].version ELSE runs[r].version + 1
               n == [runs[r] EXCEPT !.attempt = outcome, !.status = outcome, !.version = v]
    <3>1. runs' = [runs EXCEPT ![r] = n]
      BY <1>2 DEF RecordResult, TypeInv, TypeOK, Run
    <3>2. outcome \in Terminal BY RunConstants DEF Terminal
    <3>3. runs[r] \in Run BY DEF TypeInv, TypeOK
    <3>4. n \in Run
      <4>1. v \in Nat BY <3>3 DEF Run
      <4> HIDE DEF v
      <4>2. QED BY <3>2, <3>3, <4>1 DEF Run
    <3>5. QED BY <3>1, <3>4 DEF TypeInv, TypeOK
  <2>2. outbox' \in [Events -> Row] BY <1>2, EnqueuedTyped DEF RecordResult, TypeInv
  <2>3. results' \in [Runs -> Outcomes \cup {None}]
    BY <1>2 DEF RecordResult, TypeInv, TypeOK
  <2>4. QED BY <1>2, <2>1, <2>2, <2>3 DEF RecordResult, TypeInv, TypeOK
<1>3. ASSUME NEW S \in SUBSET Runs, ExpireRuns(S) PROVE TypeInv'
  <2>1. runs' \in [Runs -> Run]
    <3>1. \A r \in Runs : runs[r] \in Run BY DEF TypeInv, TypeOK
    <3>2. ASSUME NEW r \in Runs
          PROVE  [runs[r] EXCEPT !.status = "expired", !.version = @ + 1] \in Run
      <4> DEFINE v == runs[r].version + 1
      <4>1. runs[r] \in Run /\ v \in Nat BY <3>1 DEF Run
      <4> HIDE DEF v
      <4>2. [runs[r] EXCEPT !.status = "expired", !.version = v] \in Run
        BY <4>1 DEF Run, Terminal
      <4>3. QED BY <4>2 DEF v
    <3>3. QED BY <1>3, <3>1, <3>2 DEF ExpireRuns
  <2>2. outbox' \in [Events -> Row] BY <1>3, EnqueuedTyped DEF ExpireRuns, TypeInv
  <2>3. QED BY <1>3, <2>1, <2>2 DEF ExpireRuns, TypeInv, TypeOK
<1>4. ASSUME NEW S \in SUBSET Processing, RecoverProcessingOutbox(S) PROVE TypeInv'
  <2>1. outbox' \in [Events -> Row]
    BY <1>4 DEF RecoverProcessingOutbox, Recovered, TypeInv, TypeOK, Row
  <2>2. faults' \in 0 .. MaxFaults
    BY <1>4, RunConstants DEF RecoverProcessingOutbox, Fault, TypeInv, TypeOK
  <2>3. QED BY <1>4, <2>1, <2>2 DEF RecoverProcessingOutbox, requests, TypeInv, TypeOK
<1>5. ASSUME NEW c \in Reconcilers, Deliver(c) \/ Die(c) PROVE TypeInv'
  BY <1>5, DeliverTyped
<1>6. CASE UNCHANGED vars BY <1>6 DEF TypeInv, TypeOK
<1>7. QED BY <1>1, <1>2, <1>3, <1>4, <1>5, <1>6 DEF Next

LEMMA TypeInvariant == Spec => []TypeInv
BY InitTyped, NextTyped, PTL DEF Spec

\* Runs, results, events, requests and reconcilers keep their types.
THEOREM TypeCorrect == Spec => []TypeOK
BY TypeInvariant, PTL DEF TypeInv

--------------------------------------------------------------------------------
(***************************************************************************)
(* What a request read, and what became of it                              *)
(***************************************************************************)
Reads(h) == handler[h].pc \in {"lease", "bind", "refresh", "prepare"}

\* The row a request read is not newer than the run, and is the run if the version is.
Current(h) ==
  LET r == handler[h].run
  IN  /\ 0 < handler[h].version /\ handler[h].version <= runs[r].version
      /\ handler[h].version = runs[r].version => handler[h].status = runs[r].status
      /\ At(h, "prepare") => handler[h].status = "requested"

ReadInv ==
  /\ TypeInv
  /\ \A r \in Runs : runs[r].status = "absent" <=> runs[r].version = 0
  /\ \A h \in Handlers : Reads(h) => Current(h)

\* A step leaves a run alone, or raises its version; it ends a run once.
Moves(r) ==
  /\ runs'[r].status = runs[r].status \/ runs'[r].version > runs[r].version
  /\ runs'[r].version >= runs[r].version
  /\ Over(r) => runs'[r].status = runs[r].status
  /\ runs[r].version > 0 => runs'[r].status # "absent"
  /\ runs'[r].version > 0 => runs'[r].status # "absent"

LEMMA Untouched ==
  ASSUME ReadInv, NEW r \in Runs, runs'[r] = runs[r]
  PROVE  Moves(r)
BY DEF Moves, ReadInv, TypeInv, TypeOK, Run

\* A handler that writes "preparing" read "requested" in the version the run still has.
LEMMA ServeMoves ==
  ASSUME ReadInv, NEW h \in Handlers, Serve(h), NEW r \in Runs
  PROVE  Moves(r)
<1> USE DEF ReadInv, TypeInv, TypeOK, Run, Open, Terminal, Over
<1>0. handler[h].run \in Runs OBVIOUS
<1>1. CASE runs'[r] = runs[r] BY <1>1, Untouched
<1>2. ASSUME NEW q \in Runs, NEW case \in Cases \cup {None}, Create(h, q, case) PROVE Moves(r)
  <2>1. CASE runs[q].status = "absent" /\ q = r
    <3>1. runs' = [runs EXCEPT ![r].status = "requested", ![r].version = 1, ![r].case = case]
      BY <1>2, <2>1 DEF Create
    <3>2. runs'[r].status = "requested" /\ runs'[r].version = 1 BY <3>1
    <3>3. QED BY <2>1, <3>2 DEF Moves
  <2>2. CASE ~(runs[q].status = "absent" /\ q = r)
    <3>1. runs'[r] = runs[r] BY <1>2, <2>2 DEF Create
    <3>2. QED BY <1>1, <3>1
  <2>3. QED BY <2>1, <2>2
<1>3. CASE RecordLease(h)
  <2> DEFINE q == handler[h].run
  <2>1. CASE runs' = runs BY <1>1, <2>1
  <2>2. CASE /\ Leasable(h)
             /\ runs' = [runs EXCEPT ![q].status = "leased", ![q].attempt = "leased",
                                     ![q].version = @ + 1]
    <3>1. CASE q = r
      <4>1. runs'[r].status = "leased" /\ runs'[r].version = runs[r].version + 1
        BY <1>0, <2>2, <3>1
      <4>2. QED BY <2>2, <3>1, <4>1 DEF Leasable, Moves
    <3>2. CASE q # r
      <4>1. runs'[r] = runs[r] BY <1>0, <2>2, <3>2
      <4>2. QED BY <1>1, <4>1
    <3>3. QED BY <3>1, <3>2
  <2>3. QED BY <1>3, <2>1, <2>2 DEF RecordLease
<1>4. ASSUME NEW case \in Cases, BindCase(h, case) PROVE Moves(r)
  <2> DEFINE q == handler[h].run
  <2>1. CASE runs' = runs BY <1>1, <2>1
  <2>2. CASE runs' = [runs EXCEPT ![q].case = case, ![q].version = @ + 1] /\ q = r
    <3>1. runs'[r].status = runs[r].status /\ runs'[r].version = runs[r].version + 1
      BY <1>0, <2>2
    <3>2. Reads(h) BY <1>4 DEF BindCase, Reads, At
    <3>3. QED BY <2>2, <3>1, <3>2 DEF Current, Moves
  <2>3. CASE runs' = [runs EXCEPT ![q].case = case, ![q].version = @ + 1] /\ q # r
    <3>1. runs'[r] = runs[r] BY <1>0, <2>3
    <3>2. QED BY <1>1, <3>1
  <2>4. QED BY <1>4, <2>1, <2>2, <2>3 DEF BindCase
<1>5. CASE Prepare(h)
  <2> DEFINE q == handler[h].run
  <2>1. CASE runs' = runs BY <1>1, <2>1
  <2>2. CASE /\ runs[q].version = handler[h].version
             /\ runs' = [runs EXCEPT ![q].status = "preparing", ![q].version = @ + 1]
    <3>1. CASE q = r
      <4>1. runs'[r].status = "preparing" /\ runs'[r].version = runs[r].version + 1
        BY <1>0, <2>2, <3>1
      <4>2. runs[r].status = "requested"
        BY <1>5, <2>2, <3>1 DEF Prepare, Reads, At, Current
      <4>3. QED BY <4>1, <4>2 DEF Moves
    <3>2. CASE q # r
      <4>1. runs'[r] = runs[r] BY <1>0, <2>2, <3>2
      <4>2. QED BY <1>1, <4>1
    <3>3. QED BY <3>1, <3>2
  <2>3. QED BY <1>5, <2>1, <2>2 DEF Prepare, UpdateStatusCAS
<1>6. CASE \/ \E q \in Runs : GetRun(h, q)
           \/ Refresh(h) \/ Drop(h)
           \/ AppendEvent(h, "leaseEvent", "lease.created")
           \/ AppendEvent(h, "testEvent", "test_run.created")
  BY <1>1, <1>6 DEF GetRun, Refresh, Drop, AppendEvent
<1>7. QED BY <1>2, <1>3, <1>4, <1>5, <1>6 DEF Serve

LEMMA NextMoves ==
  ASSUME ReadInv, [Next]_vars, NEW r \in Runs
  PROVE  Moves(r)
<1> USE DEF ReadInv, TypeInv, TypeOK, Run, Open, Terminal, Over
<1>1. CASE runs'[r] = runs[r] BY <1>1, Untouched
<1>2. ASSUME NEW h \in Handlers, Serve(h) PROVE Moves(r) BY <1>2, ServeMoves
<1>3. ASSUME NEW q \in Runs, NEW outcome \in Outcomes, RecordResult(q, outcome) PROVE Moves(r)
  <2>1. CASE q = r
    <3>1. /\ runs'[r].status = outcome
          /\ runs'[r].version = IF runs[r].status \in Terminal THEN runs[r].version
                                ELSE runs[r].version + 1
      BY <1>3, <2>1 DEF RecordResult
    <3>2. outcome # "absent" BY RunConstants
    <3>3. runs[r].status \notin Terminal \/ runs[r].status = outcome
      BY <1>3, <2>1 DEF RecordResult
    <3>4. QED BY <3>1, <3>2, <3>3 DEF Moves
  <2>2. CASE q # r
    <3>1. runs'[r] = runs[r] BY <1>3, <2>2 DEF RecordResult
    <3>2. QED BY <1>1, <3>1
  <2>3. QED BY <2>1, <2>2
<1>4. ASSUME NEW S \in SUBSET Runs, ExpireRuns(S) PROVE Moves(r)
  <2>1. CASE r \in S
    <3>1. /\ runs'[r].status = "expired" /\ runs'[r].version = runs[r].version + 1
          /\ runs[r].status \in Open
      <4>1. runs'[r] = [runs[r] EXCEPT !.status = "expired", !.version = @ + 1]
        BY <1>4, <2>1 DEF ExpireRuns
      <4>2. runs[r].status \in Open BY <1>4, <2>1 DEF ExpireRuns
      <4>3. QED BY <4>1, <4>2
    <3>2. QED BY <3>1 DEF Moves
  <2>2. CASE r \notin S
    <3>1. runs'[r] = runs[r] BY <1>4, <2>2 DEF ExpireRuns
    <3>2. QED BY <1>1, <3>1
  <2>3. QED BY <2>1, <2>2
<1>5. CASE \/ \E S \in SUBSET Processing : RecoverProcessingOutbox(S)
           \/ \E c \in Reconcilers : Deliver(c) \/ Die(c)
           \/ UNCHANGED vars
  BY <1>1, <1>5
  DEF RecoverProcessingOutbox, Deliver, Die, ClaimOutbox, PostAccepted, PostRefused, Post,
      CompleteOutbox, requests
<1>6. QED BY <1>2, <1>3, <1>4, <1>5 DEF Next

\* A step leaves a request alone, lets it read the run anew, or ends its use of the row.
LEMMA HandlerMoves ==
  ASSUME ReadInv, [Next]_vars, NEW h \in Handlers, Reads(h)'
  PROVE  \/ /\ handler'[h] = [handler[h] EXCEPT !.pc = handler'[h].pc] /\ Reads(h)
            /\ At(h, "prepare")' => At(h, "prepare") \/ handler[h].status = "requested"
         \/ \E r \in Runs :
              /\ handler'[h].run = r /\ handler'[h].status = runs'[r].status
              /\ handler'[h].version = runs'[r].version
              /\ runs'[r].version > 0
              /\ At(h, "prepare")' => handler'[h].status = "requested"
<1> DEFINE Kept == /\ handler'[h] = [handler[h] EXCEPT !.pc = handler'[h].pc] /\ Reads(h)
                   /\ At(h, "prepare")' => At(h, "prepare") \/ handler[h].status = "requested"
           Read == \E r \in Runs :
                     /\ handler'[h].run = r /\ handler'[h].status = runs'[r].status
                     /\ handler'[h].version = runs'[r].version
                     /\ runs'[r].version > 0
                     /\ At(h, "prepare")' => handler'[h].status = "requested"
<1> SUFFICES Kept \/ Read OBVIOUS
<1> USE DEF At, Reads
<1>0. handler[h].run \in Runs BY DEF ReadInv, TypeInv, TypeOK
<1>1. CASE handler'[h] = handler[h] BY <1>1 DEF ReadInv, TypeInv, TypeOK
<1>2. ASSUME NEW g \in Handlers, Serve(g), g # h PROVE handler'[h] = handler[h]
  BY <1>2
  DEF Serve, Create, GetRun, RecordLease, AppendEvent, BindCase, Refresh, Prepare,
      UpdateStatusCAS, Drop, Knows, Goto, Answer, Emit, ReadInv, TypeInv, TypeOK
<1>3. CASE Serve(h)
  <2>1. ASSUME NEW r \in Runs, NEW pc \in {"lease", "bind", "prepare"}, Knows(h, r, pc),
               runs'[r].version > 0, pc = "prepare" => runs'[r].status = "requested"
        PROVE  Read
    BY <2>1 DEF Knows, ReadInv, TypeInv, TypeOK
  <2>2. ASSUME NEW r \in Runs, NEW case \in Cases \cup {None}, Create(h, r, case) PROVE Read
    <3>1. runs'[r].version > 0 BY <2>2 DEF Create, ReadInv, TypeInv, TypeOK, Run
    <3>2. QED BY <2>1, <2>2, <3>1 DEF Create
  <2>3. ASSUME NEW r \in Runs, GetRun(h, r) PROVE Read
    BY <2>1, <2>3 DEF GetRun, ReadInv, TypeInv, TypeOK, Run
  <2>4. ASSUME Answer(h) PROVE FALSE
    BY <2>4, IdleTyped DEF Answer, ReadInv, TypeInv, TypeOK
  <2>5. ASSUME NEW pc \in {"leaseEvent", "testEvent"}, Emit(h, pc) PROVE FALSE
    <3>1. handler'[h].pc = pc
      <4>1. PICK r0 \in Runs :
              Idle = [pc |-> "idle", run |-> r0, status |-> "absent", version |-> 0]
        BY IdleForm
      <4>2. handler'[h] = [Idle EXCEPT !.pc = pc, !.run = handler[h].run]
        BY <2>5 DEF Emit, ReadInv, TypeInv, TypeOK
      <4>3. handler'[h] = [[pc |-> "idle", run |-> r0, status |-> "absent", version |-> 0]
                             EXCEPT !.pc = pc, !.run = handler[h].run]
        BY <4>1, <4>2, Zenon
      <4>4. QED BY <4>3
    <3>2. QED BY <3>1
  <2>6. ASSUME NEW case \in Cases, BindCase(h, case) PROVE Kept
    BY <2>4, <2>6 DEF BindCase, Goto, ReadInv, TypeInv, TypeOK
  <2>7. CASE Refresh(h)
    <3>1. CASE Knows(h, handler[h].run, "prepare") /\ runs[handler[h].run].status = "requested"
      <4>1. runs'[handler[h].run].version > 0 /\ UNCHANGED runs
        BY <1>0, <2>7, <3>1 DEF Refresh, ReadInv, TypeInv, TypeOK, Run
      <4>2. QED BY <1>0, <2>1, <3>1, <4>1
    <3>2. CASE Goto(h, "prepare") /\ handler[h].status = "requested"
      BY <2>7, <3>2 DEF Refresh, Goto, ReadInv, TypeInv, TypeOK
    <3>3. QED BY <2>5, <2>7, <3>1, <3>2 DEF Refresh
  <2>8. CASE RecordLease(h) BY <2>4, <2>5, <2>8 DEF RecordLease
  <2>9. CASE Prepare(h) BY <2>4, <2>5, <2>9 DEF Prepare, UpdateStatusCAS
  <2>10. CASE \/ Drop(h) \/ AppendEvent(h, "leaseEvent", "lease.created")
              \/ AppendEvent(h, "testEvent", "test_run.created")
    BY <2>4, <2>10 DEF Drop, AppendEvent
  <2>11. QED BY <1>3, <2>2, <2>3, <2>6, <2>7, <2>8, <2>9, <2>10 DEF Serve
<1>4. CASE ~(\E g \in Handlers : Serve(g))
  <2>1. UNCHANGED handler
    BY <1>4
    DEF Next, RecordResult, ExpireRuns, RecoverProcessingOutbox, Deliver, Die, ClaimOutbox,
        PostAccepted, PostRefused, Post, CompleteOutbox, requests
  <2>2. QED BY <1>1, <2>1
<1>5. QED BY <1>1, <1>2, <1>3, <1>4

LEMMA NextRead == ReadInv /\ [Next]_vars => ReadInv'
<1> SUFFICES ASSUME ReadInv, [Next]_vars PROVE ReadInv' OBVIOUS
<1>1. TypeInv' BY NextTyped DEF ReadInv
<1>2. ASSUME NEW r \in Runs PROVE runs'[r].status = "absent" <=> runs'[r].version = 0
  BY <1>1, NextMoves DEF Moves, ReadInv, TypeInv, TypeOK, Run
<1>3. ASSUME NEW h \in Handlers, Reads(h)' PROVE Current(h)'
  <2>1. CASE /\ handler'[h] = [handler[h] EXCEPT !.pc = handler'[h].pc] /\ Reads(h)
             /\ At(h, "prepare")' => At(h, "prepare") \/ handler[h].status = "requested"
    <3>1. /\ handler'[h].run = handler[h].run /\ handler'[h].version = handler[h].version
          /\ handler'[h].status = handler[h].status /\ handler[h].run \in Runs
      BY <2>1 DEF ReadInv, TypeInv, TypeOK
    <3>2. Moves(handler[h].run) BY <3>1, NextMoves
    <3>3. Current(h) BY <2>1 DEF ReadInv
    <3>4. QED
      BY <1>1, <2>1, <3>1, <3>2, <3>3 DEF Current, Moves, ReadInv, TypeInv, TypeOK, Run
  <2>2. CASE \E r \in Runs :
              /\ handler'[h].run = r /\ handler'[h].status = runs'[r].status
              /\ handler'[h].version = runs'[r].version
              /\ runs'[r].version > 0
              /\ At(h, "prepare")' => handler'[h].status = "requested"
    BY <1>1, <2>2 DEF Current, TypeInv, TypeOK, Run
  <2>3. QED BY <1>3, <2>1, <2>2, HandlerMoves
<1>4. QED BY <1>1, <1>2, <1>3 DEF ReadInv

LEMMA ReadInvariant == Spec => []ReadInv
<1>1. Init => ReadInv
  BY InitTyped, IdleTyped DEF Init, ReadInv, Reads
<1>2. QED BY <1>1, NextRead, PTL DEF Spec

\* A run that is over keeps its end, whatever a request read before.
THEOREM EndsAreFinal == Spec => TerminalIsFinal
<1>1. ReadInv /\ [Next]_vars => [\A r \in Runs : Over(r) => runs'[r].status = runs[r].status]_vars
  BY NextMoves DEF Moves
<1>2. QED BY <1>1, ReadInvariant, PTL DEF Spec, TerminalIsFinal

--------------------------------------------------------------------------------
(***************************************************************************)
(* Results                                                                 *)
(***************************************************************************)
\* Which steps write a result, and which make an outcome of a status.
LEMMA ResultMoves ==
  ASSUME ReadInv, [Next]_vars, NEW r \in Runs
  PROVE  \/ /\ results'[r] = results[r]
            /\ runs'[r].status = runs[r].status \/ runs'[r].status \notin Outcomes
         \/ results'[r] \in Outcomes /\ runs'[r].status = results'[r]
<1> DEFINE Kept == /\ results'[r] = results[r]
                   /\ runs'[r].status = runs[r].status \/ runs'[r].status \notin Outcomes
           Recorded == results'[r] \in Outcomes /\ runs'[r].status = results'[r]
<1> SUFFICES Kept \/ Recorded OBVIOUS
<1> USE RunConstants DEF ReadInv, TypeInv, TypeOK, Run
<1>1. CASE UNCHANGED <<runs, results>> BY <1>1
<1>2. ASSUME NEW q \in Runs, NEW outcome \in Outcomes, RecordResult(q, outcome)
      PROVE  Kept \/ Recorded
  <2>1. CASE q = r
    <3>1. results'[r] = outcome /\ runs'[r].status = outcome
      BY <1>2, <2>1 DEF RecordResult
    <3>2. QED BY <3>1
  <2>2. CASE q # r
    <3>1. results'[r] = results[r] /\ runs'[r] = runs[r] BY <1>2, <2>2 DEF RecordResult
    <3>2. QED BY <3>1
  <2>3. QED BY <2>1, <2>2
<1>3. ASSUME NEW S \in SUBSET Runs, ExpireRuns(S) PROVE Kept
  <2>1. runs'[r] = runs[r] \/ runs'[r] = [runs[r] EXCEPT !.status = "expired", !.version = @ + 1]
    BY <1>3 DEF ExpireRuns
  <2>2. results'[r] = results[r] BY <1>3 DEF ExpireRuns
  <2>3. CASE runs'[r] = runs[r] BY <2>2, <2>3
  <2>4. CASE runs'[r] = [runs[r] EXCEPT !.status = "expired", !.version = @ + 1]
    <3>1. runs'[r].status = "expired" BY <2>4
    <3>2. QED BY <2>2, <3>1
  <2>5. QED BY <2>1, <2>3, <2>4
<1>4. ASSUME NEW h \in Handlers, Serve(h) PROVE Kept
  <2>1. UNCHANGED results
    BY <1>4 DEF Serve, Create, GetRun, RecordLease, AppendEvent, BindCase, Refresh, Prepare,
                UpdateStatusCAS, Drop
  <2>2. handler[h].run \in Runs OBVIOUS
  <2>3. ASSUME NEW q \in Runs, NEW status \in {"requested", "leased", "preparing"},
               \/ \E case \in Cases \cup {None} :
                    runs' = [runs EXCEPT ![q].status = status, ![q].version = 1, ![q].case = case]
               \/ runs' = [runs EXCEPT ![q].status = status, ![q].version = @ + 1]
               \/ runs' = [runs EXCEPT ![q].status = status, ![q].attempt = "leased",
                                       ![q].version = @ + 1]
        PROVE  runs'[r].status = runs[r].status \/ runs'[r].status \notin Outcomes
    <3>1. CASE q = r
      <4>1. runs'[r].status = status BY <2>3, <3>1
      <4>2. QED BY <4>1
    <3>2. CASE q # r
      <4>1. runs'[r] = runs[r] BY <2>3, <3>2
      <4>2. QED BY <4>1
    <3>3. QED BY <3>1, <3>2
  <2>4. ASSUME NEW q \in Runs, NEW case,
               runs' = [runs EXCEPT ![q].case = case, ![q].version = @ + 1]
        PROVE  runs'[r].status = runs[r].status
    <3>1. CASE q = r BY <2>4, <3>1
    <3>2. CASE q # r
      <4>1. runs'[r] = runs[r] BY <2>4, <3>2
      <4>2. QED BY <4>1
    <3>3. QED BY <3>1, <3>2
  <2>5. runs'[r].status = runs[r].status \/ runs'[r].status \notin Outcomes
    <3>1. CASE UNCHANGED runs BY <3>1
    <3>2. CASE ~UNCHANGED runs
      <4>1. \/ \E q \in Runs, case \in Cases \cup {None} :
                 runs' = [runs EXCEPT ![q].status = "requested", ![q].version = 1, ![q].case = case]
            \/ runs' = [runs EXCEPT ![handler[h].run].status = "preparing",
                                    ![handler[h].run].version = @ + 1]
            \/ runs' = [runs EXCEPT ![handler[h].run].status = "leased",
                                    ![handler[h].run].attempt = "leased",
                                    ![handler[h].run].version = @ + 1]
            \/ \E case \in Cases : runs' = [runs EXCEPT ![handler[h].run].case = case,
                                                       ![handler[h].run].version = @ + 1]
        BY <1>4, <3>2
        DEF Serve, Create, GetRun, RecordLease, AppendEvent, BindCase, Refresh, Prepare,
            UpdateStatusCAS, Drop
      <4>2. QED BY <2>2, <2>3, <2>4, <4>1
    <3>3. QED BY <3>1, <3>2
  <2>6. QED BY <2>1, <2>5
<1>5. CASE \/ \E S \in SUBSET Processing : RecoverProcessingOutbox(S)
           \/ \E c \in Reconcilers : Deliver(c) \/ Die(c)
           \/ UNCHANGED vars
  BY <1>1, <1>5
  DEF RecoverProcessingOutbox, Deliver, Die, ClaimOutbox, PostAccepted, PostRefused, Post,
      CompleteOutbox, requests
<1>6. QED BY <1>2, <1>3, <1>4, <1>5 DEF Next

\* A result, once recorded, is the end of its run, and no run ends as one without it.
THEOREM ResultsHold == Spec => []ResultIsEnd
<1>1. Init => ResultIsEnd BY RunConstants DEF Init, ResultIsEnd
<1>2. ReadInv /\ ResultIsEnd /\ [Next]_vars => ResultIsEnd'
  <2> SUFFICES ASSUME ReadInv, ResultIsEnd, [Next]_vars, NEW r \in Runs,
                      results'[r] # None \/ runs'[r].status \in Outcomes
               PROVE  runs'[r].status = results'[r]
    BY DEF ResultIsEnd
  <2>1. CASE results'[r] \in Outcomes /\ runs'[r].status = results'[r] BY <2>1
  <2>2. CASE /\ results'[r] = results[r]
             /\ runs'[r].status = runs[r].status \/ runs'[r].status \notin Outcomes
    <3>1. runs[r].status = results[r] \/ (results[r] = None /\ runs[r].status \notin Outcomes)
      BY DEF ResultIsEnd
    <3>2. CASE results[r] = None /\ runs[r].status \notin Outcomes BY <2>2, <3>2
    <3>3. CASE results[r] # None
      <4>1. runs[r].status = results[r] /\ results[r] \in Outcomes
        BY <3>3 DEF ResultIsEnd, ReadInv, TypeInv, TypeOK
      <4>2. Over(r) BY <4>1, RunConstants DEF Over, Terminal
      <4>3. QED BY <2>2, <4>1, <4>2, NextMoves DEF Moves
    <3>4. CASE runs[r].status = results[r] /\ results[r] = None
      BY <2>2, <3>4, RunConstants DEF ReadInv, TypeInv, TypeOK
    <3>5. QED BY <3>1, <3>2, <3>3, <3>4
  <2>3. QED BY <2>1, <2>2, ResultMoves
<1>3. QED BY <1>1, <1>2, ReadInvariant, PTL DEF Spec

--------------------------------------------------------------------------------
(***************************************************************************)
(* The outbox implements at-least-once delivery                            *)
(***************************************************************************)
\* A reconciler is at work with a committed event, and says "ok" of a delivered one.
DeliveryInv ==
  /\ TypeInv
  /\ \A c \in Reconcilers :
       /\ reconciler[c].pc # "idle" => outbox[reconciler[c].event].status # "none"
       /\ reconciler[c].pc = "ok" => reconciler[c].event \in received

\* What may happen to events: each step is one of these, or leaves outbox and sink alone.
Moved ==
  \/ \E S \in SUBSET Events : outbox' = Enqueued(S) /\ UNCHANGED <<reconciler, received>>
  \/ /\ \E S \in SUBSET Processing :
          outbox' = [e \in Events |-> IF e \in S THEN Recovered(outbox[e]) ELSE outbox[e]]
     /\ UNCHANGED <<reconciler, received>>
  \/ \E c \in Reconcilers : Deliver(c) \/ Die(c)
  \/ UNCHANGED <<outbox, reconciler, received>>

\* Events that are not followed have no row.
LEMMA EnqueuedFollowed == ASSUME NEW S PROVE \E F \in SUBSET Events : Enqueued(S) = Enqueued(F)
<1>1. Enqueued(S) = Enqueued(S \cap Events) BY DEF Enqueued
<1>2. S \cap Events \in SUBSET Events OBVIOUS
<1>3. QED BY <1>1, <1>2

LEMMA NextMoved == TypeInv /\ [Next]_vars => Moved
<1> SUFFICES ASSUME TypeInv, [Next]_vars PROVE Moved OBVIOUS
<1>1. ASSUME NEW h \in Handlers, Serve(h) PROVE Moved
  <2>1. ASSUME NEW pc, NEW kind, AppendEvent(h, pc, kind) PROVE Moved
    BY <2>1, EnqueuedFollowed DEF AppendEvent, Moved
  <2>2. CASE \/ AppendEvent(h, "leaseEvent", "lease.created")
             \/ AppendEvent(h, "testEvent", "test_run.created")
    BY <2>1, <2>2
  <2>3. CASE UNCHANGED delivery BY <2>3 DEF delivery, Moved
  <2>4. QED
    BY <1>1, <2>2, <2>3 DEF Serve, Create, GetRun, RecordLease, BindCase, Refresh, Prepare, Drop
<1>2. ASSUME NEW r \in Runs, NEW outcome \in Outcomes, RecordResult(r, outcome) PROVE Moved
  BY <1>2, EnqueuedFollowed DEF RecordResult, Moved
<1>3. ASSUME NEW S \in SUBSET Runs, ExpireRuns(S) PROVE Moved
  BY <1>3, EnqueuedFollowed DEF ExpireRuns, Moved
<1>4. ASSUME NEW S \in SUBSET Processing, RecoverProcessingOutbox(S) PROVE Moved
  BY <1>4 DEF RecoverProcessingOutbox, Moved
<1>5. CASE UNCHANGED vars \/ \E c \in Reconcilers : Deliver(c) \/ Die(c)
  BY <1>5 DEF Moved
<1>6. QED BY <1>1, <1>2, <1>3, <1>4, <1>5 DEF Next

LEMMA NextDelivery == DeliveryInv /\ [Next]_vars => DeliveryInv'
<1> SUFFICES ASSUME DeliveryInv, [Next]_vars PROVE DeliveryInv' OBVIOUS
<1> USE DEF DeliveryInv, TypeInv, TypeOK, Row, Working, Proceed, NoReconciliation
<1>0. TypeInv' BY NextTyped
<1>1. ASSUME NEW S \in SUBSET Events, outbox' = Enqueued(S), UNCHANGED <<reconciler, received>>
      PROVE  DeliveryInv'
  BY <1>0, <1>1 DEF Enqueued
<1>2. ASSUME NEW S \in SUBSET Processing, UNCHANGED <<reconciler, received>>,
             outbox' = [e \in Events |-> IF e \in S THEN Recovered(outbox[e]) ELSE outbox[e]]
      PROVE  DeliveryInv'
  BY <1>0, <1>2 DEF Recovered, Processing
<1>3. ASSUME NEW c \in Reconcilers, NEW e \in Events, ClaimOutbox(c, e) PROVE DeliveryInv'
  BY <1>0, <1>3 DEF ClaimOutbox
<1>4. ASSUME NEW c \in Reconcilers, PostAccepted(c) PROVE DeliveryInv'
  BY <1>0, <1>4 DEF PostAccepted, Post
<1>5. ASSUME NEW c \in Reconcilers, PostRefused(c) PROVE DeliveryInv'
  BY <1>0, <1>5 DEF PostRefused, Post
<1>6. ASSUME NEW c \in Reconcilers, CompleteOutbox(c) PROVE DeliveryInv'
  <2>1. \A e \in Events : outbox[e].status # "none" => outbox'[e].status # "none"
    BY <1>6 DEF CompleteOutbox
  <2>2. QED BY <1>0, <1>6, <2>1 DEF CompleteOutbox
<1>7. ASSUME NEW c \in Reconcilers, Die(c) PROVE DeliveryInv'
  BY <1>0, <1>7 DEF Die, requests
<1>8. CASE UNCHANGED <<outbox, reconciler, received>> BY <1>0, <1>8
<1>9. Moved BY NextMoved
<1>10. QED
  BY <1>1, <1>2, <1>3, <1>4, <1>5, <1>6, <1>7, <1>8, <1>9 DEF Moved, Deliver

\* The state of the abstract specification.
State == [e \in Events |-> DeliveryState[outbox[e].status]]

LEMMA StateOf ==
  ASSUME TypeInv, NEW e \in Events
  PROVE  /\ State[e] = "none" <=> outbox[e].status = "none"
         /\ State[e] = "accepted" <=> outbox[e].status \in {"pending", "processing"}
         /\ State[e] = "acknowledged" <=> outbox[e].status = "processed"
         /\ State[e] = "abandoned" <=> outbox[e].status = "failed"
BY DEF State, DeliveryState, TypeInv, TypeOK, Row

\* A step that moves no event to another abstract state leaves the abstract state alone.
LEMMA StateSame ==
  ASSUME \A e \in Events : DeliveryState[outbox'[e].status] = DeliveryState[outbox[e].status]
  PROVE  State' = State
BY DEF State

LEMMA EnqueueAccepts ==
  ASSUME TypeInv, NEW S \in SUBSET Events, outbox' = Enqueued(S), UNCHANGED received
  PROVE  Delivery!Next
<1>0. PICK new \in SUBSET Events : new = {e \in S : outbox[e].status = "none"} OBVIOUS
<1>1. \A e \in new : State[e] = "none" BY <1>0, StateOf
<1>2. State' = [e \in Events |-> IF e \in new THEN "accepted" ELSE State[e]]
  BY <1>0 DEF State, DeliveryState, Enqueued, TypeInv, TypeOK, Row
<1>3. Delivery!Accept(new) BY <1>1, <1>2 DEF Delivery!Accept, State
<1>4. QED BY <1>3 DEF Delivery!Next

LEMMA RecoverAbandons ==
  ASSUME TypeInv, NEW S \in SUBSET Processing, UNCHANGED received,
         outbox' = [e \in Events |-> IF e \in S THEN Recovered(outbox[e]) ELSE outbox[e]]
  PROVE  Delivery!Next
<1>1. PICK over \in SUBSET Events : over = {e \in S : outbox[e].attempts >= MaxAttempts}
  BY DEF Processing
<1>2. \A e \in over : State[e] = "accepted" BY <1>1, StateOf DEF Processing
<1>3. State' = [e \in Events |-> IF e \in over THEN "abandoned" ELSE State[e]]
  <2>1. ASSUME NEW e \in Events
        PROVE  State'[e] = IF e \in over THEN "abandoned" ELSE State[e]
    BY <1>1 DEF State, DeliveryState, Recovered, Processing, TypeInv, TypeOK, Row
  <2>2. QED BY <2>1 DEF State
<1>4. Delivery!Abandon(over) BY <1>2, <1>3 DEF Delivery!Abandon, State
<1>5. QED BY <1>4 DEF Delivery!Next

LEMMA DeliverImplements ==
  ASSUME DeliveryInv, NEW c \in Reconcilers, Deliver(c) \/ Die(c)
  PROVE  [Delivery!Next]_(Delivery!vars)
<1> USE DEF Working
<1> DEFINE d == reconciler[c].event
<1>1. ASSUME NEW e \in Events, ClaimOutbox(c, e) PROVE UNCHANGED Delivery!vars
  <2>1. State' = State
    BY <1>1, StateSame DEF ClaimOutbox, DeliveryState, DeliveryInv, TypeInv, TypeOK
  <2>2. QED BY <1>1, <2>1 DEF ClaimOutbox, Delivery!vars, State
<1>2. ASSUME UNCHANGED outbox, received' = received \cup {d}, reconciler[c].pc = "post"
      PROVE  Delivery!Next
  <2>1. d \in Events /\ State[d] # "none"
    BY <1>2, StateOf DEF DeliveryInv, TypeInv
  <2>2. State' = State BY <1>2 DEF State
  <2>3. Delivery!Deliver(d) BY <1>2, <2>1, <2>2 DEF Delivery!Deliver, State
  <2>4. QED BY <2>1, <2>3 DEF Delivery!Next
<1>3. ASSUME UNCHANGED <<outbox, received>> PROVE UNCHANGED Delivery!vars
  BY <1>3 DEF Delivery!vars
<1>4. CASE PostAccepted(c) BY <1>2, <1>4 DEF PostAccepted, Post
<1>5. CASE PostRefused(c) BY <1>2, <1>3, <1>5 DEF PostRefused, Post
<1>6. CASE CompleteOutbox(c)
  <2>1. CASE outbox[d].status = "processing" /\ reconciler[c].pc = "ok"
    <3>0. PICK e \in Events : e = d BY <2>1 DEF DeliveryInv, TypeInv
    <3>1. e \in received /\ State[e] = "accepted"
      BY <2>1, <3>0, StateOf DEF DeliveryInv, TypeInv
    <3>2. State' = [State EXCEPT ![e] = "acknowledged"]
      <4>1. outbox' = [outbox EXCEPT ![e].status = "processed"]
        BY <1>6, <2>1, <3>0 DEF CompleteOutbox
      <4>2. \A f \in Events :
              DeliveryState[outbox'[f].status]
                = IF f = e THEN "acknowledged" ELSE DeliveryState[outbox[f].status]
        BY <4>1 DEF DeliveryState, DeliveryInv, TypeInv, TypeOK, Row
      <4>3. QED BY <4>2 DEF State
    <3>3. Delivery!Acknowledge(e)
      BY <1>6, <3>1, <3>2 DEF CompleteOutbox, Delivery!Acknowledge, State
    <3>4. QED BY <3>3 DEF Delivery!Next
  <2>2. CASE ~(outbox[d].status = "processing" /\ reconciler[c].pc = "ok")
    <3>1. State' = State
      BY <1>6, <2>2, StateSame DEF CompleteOutbox, DeliveryState, DeliveryInv, TypeInv, TypeOK
    <3>2. QED BY <1>6, <3>1 DEF CompleteOutbox, Delivery!vars, State
  <2>3. QED BY <2>1, <2>2
<1>7. CASE Die(c) BY <1>3, <1>7 DEF Die
<1>8. QED BY <1>1, <1>4, <1>5, <1>6, <1>7 DEF Deliver

\* Events are delivered at least once, acknowledged only when they were, and dropped only
\* as failed: the outbox with its reconcilers implements EventDelivery.
THEOREM OutboxDelivers == Spec => ImplementsDelivery
<1>1. Init => DeliveryInv
  BY InitTyped DEF Init, DeliveryInv, NoReconciliation
<1>2. Spec => []DeliveryInv BY <1>1, NextDelivery, PTL DEF Spec
<1>3. Init => Delivery!Init
  BY DEF Init, Delivery!Init, DeliveryState
<1>4. DeliveryInv /\ [Next]_vars => [Delivery!Next]_(Delivery!vars)
  <2> SUFFICES ASSUME DeliveryInv, [Next]_vars PROVE [Delivery!Next]_(Delivery!vars) OBVIOUS
  <2>1. ASSUME UNCHANGED <<outbox, received>> PROVE UNCHANGED Delivery!vars
    BY <2>1 DEF Delivery!vars
  <2>2. Moved BY NextMoved DEF DeliveryInv
  <2>3. QED
    BY <2>1, <2>2, EnqueueAccepts, RecoverAbandons, DeliverImplements DEF Moved, DeliveryInv
<1>5. QED BY <1>2, <1>3, <1>4, PTL DEF Spec, ImplementsDelivery, Delivery!Spec

================================================================================
