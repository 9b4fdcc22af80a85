----------------------------- MODULE PodPoolProofs -----------------------------
(***************************************************************************)
(* What holds of the scheduler for every set of cases, types, requests and *)
(* pods, every size of the pools and every number of restarts and faults.  *)
(***************************************************************************)
EXTENDS PodPool, FiniteSetTheorems, TLAPS

USE DEF ends

--------------------------------------------------------------------------------
(***************************************************************************)
(* Types                                                                   *)
(***************************************************************************)

\* Creating and deleting pods keeps the types of what the cluster knows.
LEMMA ChangedTypes ==
  ASSUME TypeOK, NEW made, NEW deleted, NEW case \in Cases \cup {None}, Changed(made, deleted, case)
  PROVE  phase' \in [Pods -> Phases] /\ annotation' \in [Pods -> Cases \cup {None}]
BY DEF TypeOK, Changed, Deletion, Phases

\* Filling up pools leaves pods in them, and the number of faults within its bound.
LEMMA WarmedTypes ==
  ASSUME TypeOK, NEW made \in SUBSET Pods, NEW lost, NEW ts, NEW free \in SUBSET Pods, NEW used,
         Warmed(made, lost, ts, free, used)
  PROVE  idle' \subseteq Pods /\ faults' \in 0 .. MaxFaults
BY PoolConstants DEF TypeOK, Warmed, Fault

\* A call that fails leaves the number of faults within its bound.
LEMMA FaultTypes ==
  ASSUME TypeOK, Fault
  PROVE  faults' \in 0 .. MaxFaults
BY PoolConstants DEF TypeOK, Fault

\* What a request may be.
RequestType == [at : Steps, case : Cases \cup {None}, type : Types \cup {None}, pod : Pods \cup {None}]

\* What a reconciliation may be.
ScanType == [at : {"none", "list", "each", "drop"}, listed : SUBSET (Cases \X Pods),
             drop : Cases \cup {None}]

\* A request and a reconciliation that are not under way.
LEMMA IdleTypes == Free \in RequestType /\ NoScan \in ScanType
BY DEF Free, NoScan, RequestType, ScanType, Steps

\* A request that gets a pod is still a request.
LEMMA HoldsTypes ==
  ASSUME TypeOK, NEW r \in Requests, NEW p \in Pods, Holds(r, p)
  PROVE  request' \in [Requests -> RequestType]
<1>1. request \in [Requests -> RequestType]
  BY DEF TypeOK, RequestType
<1>2. [request[r] EXCEPT !.at = "store", !.pod = p] \in RequestType
  BY <1>1 DEF RequestType, Steps
<1> QED BY <1>1, <1>2 DEF Holds

\* One warm-up task more, of a type of the registry or none.
LEMMA WarmUpTypes ==
  ASSUME TypeOK, NEW t, WarmUp(t)
  PROVE  warming' \in [Types -> Nat]
<1>1. warming \in [Types -> Nat]
  BY DEF TypeOK
<1>2. CASE t \in Types
  BY <1>1, <1>2 DEF WarmUp
<1>3. CASE t \notin Types
  <2>1. warming' = warming
    BY <1>1, <1>3, Zenon DEF WarmUp
  <2> QED BY <1>1, <2>1
<1> QED BY <1>2, <1>3

\* A request that goes to another step, or is answered, is still a request.
LEMMA GoesTypes ==
  ASSUME TypeOK, NEW r \in Requests,
         Answer(r) \/ \E label \in Steps : Goes(r, label)
  PROVE  request' \in [Requests -> RequestType]
<1>1. request \in [Requests -> RequestType]
  BY DEF TypeOK, RequestType
<1>2. CASE Answer(r)
  BY <1>1, <1>2, IdleTypes DEF Answer
<1>3. ASSUME NEW label \in Steps, Goes(r, label) PROVE request' \in [Requests -> RequestType]
  <2>1. [request[r] EXCEPT !.at = label] \in RequestType
    BY <1>1 DEF RequestType
  <2> QED BY <1>1, <1>3, <2>1 DEF Goes
<1> QED BY <1>2, <1>3

\* Writing an allocation, or none, keeps the type of the allocations.
LEMMA AllocationTypes ==
  ASSUME TypeOK, NEW c, NEW p \in Pods \cup {None}, allocation' = [allocation EXCEPT ![c] = p]
  PROVE  allocation' \in [Cases -> Pods \cup {None}]
BY DEF TypeOK

\* The steps of a request.
LEMMA ServeTypes ==
  ASSUME TypeOK, NEW r \in Requests, Serve(r)
  PROVE  TypeOK'
<1>p. request[r].pod \in Pods \cup {None}
  BY DEF TypeOK
<1>1. CASE Decide(r)
  <2>1. request' \in [Requests -> RequestType]
    BY <1>1, GoesTypes DEF Decide, Steps
  <2>2. faults' \in 0 .. MaxFaults
    BY <1>1, FaultTypes DEF TypeOK, Decide
  <2> QED BY <1>1, <2>1, <2>2 DEF TypeOK, Decide, RequestType, cluster, pools
<1>2. CASE Forget(r)
  <2>1. request' \in [Requests -> RequestType] /\ allocation' \in [Cases -> Pods \cup {None}]
    BY <1>2, GoesTypes, AllocationTypes DEF Forget, Steps
  <2> QED BY <1>2, <2>1 DEF TypeOK, Forget, RequestType, cluster, pools, bounds
<1>3. CASE Acquire(r)
  <2>1. CASE AcquireWarm(r)
    <3>1. request' \in [Requests -> RequestType] /\ idle' \subseteq Pods /\ active' \subseteq Pods
      <4>1. PICK p \in Of(idle, request[r].type) :
              idle' = idle \ {p} /\ active' = active \cup {p} /\ Holds(r, p)
        BY <2>1 DEF AcquireWarm
      <4>2. p \in Pods
        BY DEF TypeOK, Of
      <4> QED BY <4>1, <4>2, HoldsTypes DEF TypeOK
    <3>2. warming' \in [Types -> Nat]
      BY <2>1, WarmUpTypes DEF AcquireWarm
    <3> QED BY <1>3, <2>1, <3>1, <3>2 DEF TypeOK, Acquire, AcquireWarm, RequestType, cluster
  <2>2. CASE AcquireOnDemand(r)
    <3>1. ASSUME NEW p \in Of(In("new"), request[r].type), Changed({p}, {}, request[r].case),
                 active' = active \cup {p}, Holds(r, p), UNCHANGED faults
          PROVE  TypeOK'
      <4>1. p \in Pods /\ request[r].case \in Cases \cup {None}
        BY DEF TypeOK, Of, In
      <4>2. /\ request' \in [Requests -> RequestType] /\ active' \subseteq Pods
            /\ phase' \in [Pods -> Phases] /\ annotation' \in [Pods -> Cases \cup {None}]
        BY <3>1, <4>1, HoldsTypes, ChangedTypes DEF TypeOK
      <4> QED BY <1>3, <2>2, <3>1, <4>2 DEF TypeOK, Acquire, AcquireOnDemand, RequestType
    <3>2. ASSUME NEW lost, Changed(lost, {}, request[r].case), Fault, Answer(r), UNCHANGED active
          PROVE  TypeOK'
      <4>1. request[r].case \in Cases \cup {None}
        BY DEF TypeOK
      <4>2. /\ request' \in [Requests -> RequestType] /\ faults' \in 0 .. MaxFaults
            /\ phase' \in [Pods -> Phases] /\ annotation' \in [Pods -> Cases \cup {None}]
        BY <3>2, <4>1, GoesTypes, ChangedTypes, FaultTypes
      <4> QED BY <1>3, <2>2, <3>2, <4>2 DEF TypeOK, Acquire, AcquireOnDemand, RequestType
    <3>3. CASE Answer(r) /\ UNCHANGED <<cluster, active, faults>>
      <4>1. request' \in [Requests -> RequestType]
        BY <3>3, GoesTypes
      <4> QED BY <1>3, <2>2, <3>3, <4>1 DEF TypeOK, Acquire, AcquireOnDemand, RequestType, cluster
    <3> QED BY <2>2, <3>1, <3>2, <3>3 DEF AcquireOnDemand
  <2> QED BY <1>3, <2>1, <2>2 DEF Acquire
<1>4. CASE Store(r)
  <2>1. request' \in [Requests -> RequestType] /\ allocation' \in [Cases -> Pods \cup {None}]
    BY <1>4, <1>p, GoesTypes, AllocationTypes DEF Store
  <2> QED BY <1>4, <2>1 DEF TypeOK, Store, RequestType, cluster, pools, bounds
<1>5. CASE Delete(r)
  <2>1. request' \in [Requests -> RequestType] /\ allocation' \in [Cases -> Pods \cup {None}]
    BY <1>5, GoesTypes, AllocationTypes DEF Delete, Steps
  <2> QED BY <1>5, <2>1 DEF TypeOK, Delete, RequestType, cluster, pools, bounds
<1>6. CASE Terminate(r)
  <2>1. phase' \in [Pods -> Phases] /\ annotation' \in [Pods -> Cases \cup {None}]
    BY <1>6, ChangedTypes DEF Terminate
  <2>2. warming' \in [Types -> Nat] /\ faults' \in 0 .. MaxFaults
    BY <1>6, FaultTypes, WarmUpTypes DEF TypeOK, Terminate
  <2>3. request' \in [Requests -> RequestType]
    BY <1>6, GoesTypes DEF Terminate
  <2> QED BY <1>6, <2>1, <2>2, <2>3 DEF TypeOK, Terminate, RequestType
<1>7. CASE RequestFails(r)
  <2>1. request' \in [Requests -> RequestType] /\ faults' \in 0 .. MaxFaults
    BY <1>7, GoesTypes, FaultTypes DEF RequestFails
  <2>2. allocation' \in [Cases -> Pods \cup {None}]
    BY <1>7, <1>p, AllocationTypes DEF RequestFails, TypeOK
  <2> QED BY <1>7, <2>1, <2>2 DEF TypeOK, RequestFails, RequestType, cluster, pools
<1> QED BY <1>1, <1>2, <1>3, <1>4, <1>5, <1>6, <1>7 DEF Serve

\* Every other step.
LEMMA NextTypes ==
  ASSUME TypeOK, [Next]_vars
  PROVE  TypeOK'
<1>1. ASSUME NEW r \in Requests, NEW c \in Cases, Receive(r, c) PROVE TypeOK'
  <2>1. CASE Release(r, c)
    BY <2>1, PoolConstants DEF TypeOK, Steps, Release, cluster, pools, bounds
  <2>2. ASSUME NEW t \in Types, Allocate(r, c, t) PROVE TypeOK'
    BY <2>2 DEF TypeOK, Steps, Allocate, cluster, pools, bounds
  <2> QED BY <1>1, <2>1, <2>2 DEF Receive
<1>2. ASSUME NEW t \in Types, ensure_warm_pool(t) PROVE TypeOK'
  <2>1. warming' \in [Types -> Nat]
    BY <1>2 DEF TypeOK, ensure_warm_pool
  <2>2. /\ phase' \in [Pods -> Phases] /\ annotation' \in [Pods -> Cases \cup {None}]
        /\ idle' \subseteq Pods /\ faults' \in 0 .. MaxFaults
    <3>1. PICK made, lost \in SUBSET In("new") :
            Warmed(made, lost, {t}, idle, active) /\ Changed(made, {}, None)
      BY <1>2 DEF ensure_warm_pool
    <3> QED BY <3>1, ChangedTypes, WarmedTypes DEF TypeOK, In
  <2> QED BY <1>2, <2>1, <2>2 DEF TypeOK, ensure_warm_pool
<1>3. CASE Reconcile
  <2>1. scan' \in ScanType
    <3>1. CASE ReconcileList
      <4>1. {<<c, allocation[c]>> : c \in {d \in Cases : allocation[d] # None}}
              \in SUBSET (Cases \X Pods)
        BY DEF TypeOK
      <4>2. scan \in ScanType
        BY DEF TypeOK, ScanType
      <4> QED BY <3>1, <4>1, <4>2 DEF ReconcileList, ScanType
    <3>2. CASE ReconcileOrphan
      <4>1. PICK e \in scan.listed, kept \in SUBSET scan.listed :
              scan' = [at |-> "drop", listed |-> scan.listed \ (kept \cup {e}), drop |-> e[1]]
        BY <3>2 DEF ReconcileOrphan
      <4>2. e \in Cases \X Pods /\ scan.listed \in SUBSET (Cases \X Pods)
        BY DEF TypeOK
      <4>3. e[1] \in Cases /\ scan.listed \ (kept \cup {e}) \in SUBSET (Cases \X Pods)
        BY <4>2
      <4>4. [at |-> "drop", listed |-> scan.listed \ (kept \cup {e}), drop |-> e[1]] \in ScanType
        BY <4>3 DEF ScanType
      <4> QED BY <4>1, <4>4
    <3>3. CASE ReconcileDrop
      <4>1. scan \in ScanType
        BY DEF TypeOK, ScanType
      <4>2. [scan EXCEPT !.at = "each", !.drop = None] \in ScanType
        BY <4>1 DEF ScanType
      <4> QED BY <3>3, <4>2 DEF ReconcileDrop
    <3>4. CASE ReconcileDone \/ ReconcileFails
      BY <3>4, IdleTypes DEF ReconcileDone, ReconcileFails
    <3> QED BY <1>3, <3>1, <3>2, <3>3, <3>4 DEF Reconcile
  <2>2. allocation' \in [Cases -> Pods \cup {None}] /\ faults' \in 0 .. MaxFaults
    BY <1>3, FaultTypes DEF TypeOK, Reconcile, ReconcileList, ReconcileOrphan, ReconcileDrop,
       ReconcileDone, ReconcileFails, cluster, pools, bounds
  <2>3. UNCHANGED <<phase, annotation, up, idle, active, warming, request, ends>>
    BY <1>3 DEF Reconcile, ReconcileList, ReconcileOrphan, ReconcileDrop,
       ReconcileDone, ReconcileFails, cluster, pools, bounds
  <2> QED BY <2>1, <2>2, <2>3 DEF TypeOK, ScanType
<1>4. CASE Start
  <2>1. /\ phase' \in [Pods -> Phases] /\ annotation' \in [Pods -> Cases \cup {None}]
        /\ idle' \subseteq Pods /\ active' \subseteq Pods /\ faults' \in 0 .. MaxFaults
    <3>1. PICK found \in SUBSET Running, unwell \in SUBSET In("dead"),
               made, lost \in SUBSET In("new") :
            /\ active' = found \ Sorted(found)
            /\ Warmed(made, lost, Types, Sorted(found), found \ Sorted(found))
            /\ Changed(made, unwell, None)
      BY <1>4 DEF Start
    <3> QED BY <3>1, ChangedTypes, WarmedTypes DEF TypeOK, In, Running, Sorted
  <2>2. scan' \in ScanType
    BY <1>4, IdleTypes DEF Start, ScanType
  <2> QED BY <1>4, <2>1, <2>2 DEF TypeOK, Start, ScanType
<1>5. CASE Crash
  <2>1. request' \in [Requests -> RequestType] /\ scan' \in ScanType
    BY <1>5, IdleTypes DEF Crash
  <2>2. restarts' \in 0 .. MaxRestarts /\ outlived' \subseteq Pods
    BY <1>5, PoolConstants DEF TypeOK, Crash, Running, In
  <2> QED BY <1>5, <2>1, <2>2 DEF TypeOK, Crash, RequestType, ScanType, cluster
<1>6. ASSUME NEW p \in Pods, PodStops(p) PROVE TypeOK'
  BY <1>6 DEF TypeOK, Phases, PodStops, pools, bounds
<1>7. CASE UNCHANGED vars
  BY <1>7 DEF TypeOK, vars
<1> QED BY <1>1, <1>2, <1>3, <1>4, <1>5, <1>6, <1>7, ServeTypes DEF Next

\* A cluster without pods, and a process that has not started.
LEMMA InitTypes ==
  ASSUME Init
  PROVE  TypeOK
<1>1. request \in [Requests -> RequestType] /\ scan \in ScanType
  BY IdleTypes DEF Init
<1>2. restarts \in 0 .. MaxRestarts /\ faults \in 0 .. MaxFaults
  BY PoolConstants DEF Init
<1> QED BY <1>1, <1>2 DEF Init, TypeOK, RequestType, ScanType, Phases

\* Pods, pools, allocations, requests and the reconciliation keep their types: whatever call
\* fails, an allocation in Redis names a pod (_set_allocation, release_pod, reconcile_allocations).
THEOREM TypeCorrect == Spec => []TypeOK
<1>1. Init => TypeOK
  BY InitTypes
<1>2. TypeOK /\ [Next]_vars => TypeOK'
  BY NextTypes
<1> QED BY <1>1, <1>2, PTL DEF Spec

--------------------------------------------------------------------------------
(***************************************************************************)
(* Who has a pod                                                           *)
(***************************************************************************)
\* No case and no request has the pod.
Unheld(p) == (\A c \in Cases : allocation[c] # p) /\ (\A r \in Requests : request[r].pod # p)

\* A restart cannot have taken the pod for a free one.
Sure(p) == p \notin outlived

\* A request that is not under way is empty, and so is a process that is down.
NothingWhenDown ==
  /\ \A r \in Requests : request[r].at = "idle" => request[r].pod = None
  /\ ~up => idle = {} /\ active = {} /\ \A r \in Requests : request[r].at = "idle"

\* What a start will sort among the free pods has no case, or is known to have outlived the process.
DownIsRecorded ==
  ~up => \A p \in Running : annotation[p] = None /\ Sure(p) => Unheld(p)

\* A pod that is not created yet is nowhere.
NewIsUnused ==
  \A p \in Pods : phase[p] = "new" =>
    annotation[p] = None /\ p \notin idle /\ p \notin active /\ Unheld(p)

\* A release knows its pod, and the pool of the pod.
ReleaseIsTyped ==
  \A r \in Requests : request[r].at \in {"delete", "terminate"} =>
    request[r].pod \in Pods /\ request[r].type = TypeOf[request[r].pod]

\* A free pod was created warm and, unless it has outlived the process with a case, nobody has it.
IdleIsFree == \A p \in idle : annotation[p] = None /\ (Sure(p) => Unheld(p))

\* The request that is about to store a pod is the only one that knows it.
StoreIsFirst ==
  \A r \in Requests, p \in Pods : request[r].at = "store" /\ request[r].pod = p /\ Sure(p) =>
    (\A c \in Cases : allocation[c] # p) /\ (\A s \in Requests : s # r => request[s].pod # p)

\* The requests that have read a pod work on the case that it is allocated for.
ReadersAgree ==
  \A r \in Requests, c \in Cases, p \in Pods :
    request[r].pod = p /\ allocation[c] = p /\ Sure(p) => request[r].case = c

Resting == ReleaseIsTyped /\ NothingWhenDown /\ DownIsRecorded /\ NewIsUnused /\ IdleIsFree
Taking  == StoreIsFirst /\ ReadersAgree /\ PodServesOneCase /\ TerminatedIsForgotten

Handing == TypeOK /\ Resting /\ Taking

\* Nobody gets to know a pod: allocations and requests only forget theirs.
Forgetting ==
  /\ UNCHANGED outlived
  /\ \A c \in Cases : allocation'[c] \in {allocation[c], None}
  /\ \A r \in Requests :
       /\ request'[r].pod \in {request[r].pod, None}
       /\ request'[r].pod # None => request'[r].case = request[r].case
       /\ request'[r].pod # None /\ request'[r].at = "store" => request[r].at = "store"
       /\ request'[r].pod # None /\ request'[r].at = "terminate" =>
            request[r].at = "terminate" \/ allocation'[request[r].case] = None

\* Who forgets a pod takes none: what holds of who has which pod stays.
LEMMA ForgettingKeeps ==
  ASSUME Handing, TypeOK', Resting', Forgetting
  PROVE  Taking'
<1>1. /\ \A p \in Pods : Sure(p)' <=> Sure(p)
      /\ \A c \in Cases, p \in Pods : allocation'[c] = p => allocation[c] = p
      /\ \A r \in Requests, p \in Pods : request'[r].pod = p =>
           /\ request[r].pod = p /\ request'[r].case = request[r].case
           /\ request'[r].at = "store" => request[r].at = "store"
           /\ request'[r].at = "terminate" =>
                request[r].at = "terminate" \/ allocation'[request[r].case] = None
  BY PoolConstants DEF Forgetting, Sure
<1>2. StoreIsFirst'
  BY <1>1 DEF Handing, Taking, StoreIsFirst
<1>3. ReadersAgree'
  BY <1>1 DEF Handing, Taking, ReadersAgree
<1>4. PodServesOneCase'
  BY <1>1 DEF Handing, TypeOK, Taking, Forgetting, PodServesOneCase
<1>5. TerminatedIsForgotten'
  <2> SUFFICES ASSUME NEW r \in Requests, NEW c \in Cases, request'[r].at = "terminate",
                      allocation'[c] = request'[r].pod
               PROVE  request'[r].pod \in outlived'
    BY DEF TerminatedIsForgotten
  <2>1. request'[r].pod \in Pods
    BY DEF Resting, ReleaseIsTyped
  <2>2. PICK p \in Pods : p = request'[r].pod
    BY <2>1
  <2>3. allocation[c] = p /\ request[r].pod = p
    BY <1>1, <2>2
  <2>4. CASE request[r].at = "terminate"
    BY <2>2, <2>3, <2>4 DEF Handing, Taking, TerminatedIsForgotten, Forgetting
  <2>5. CASE allocation'[request[r].case] = None
    BY <2>2, <2>3, <2>5, PoolConstants DEF Handing, TypeOK, Taking, ReadersAgree, Sure, Forgetting
  <2> QED BY <1>1, <2>2, <2>4, <2>5
<1> QED BY <1>2, <1>3, <1>4, <1>5 DEF Taking

\* The request that is the first to have a pod stores it, and ends.
LEMMA StoringKeeps ==
  ASSUME Handing, NEW r \in Requests, request[r].at = "store", UNCHANGED outlived,
         allocation' = [allocation EXCEPT ![request[r].case] = request[r].pod], Answer(r)
  PROVE  Taking'
<1>1. \A p \in Pods : Sure(p)' <=> Sure(p)
  BY DEF Sure
<1>2. /\ \A s \in Requests : s # r => request'[s] = request[s]
      /\ request'[r].at = "idle" /\ request'[r].pod = None
      /\ \A c \in Cases : allocation'[c] = IF c = request[r].case THEN request[r].pod ELSE allocation[c]
  BY DEF Answer, Free, Handing, TypeOK
<1>3. StoreIsFirst'
  BY <1>1, <1>2, PoolConstants DEF Handing, Taking, StoreIsFirst
<1>4. ReadersAgree'
  BY <1>1, <1>2, PoolConstants DEF Handing, Taking, StoreIsFirst, ReadersAgree
<1>5. PodServesOneCase'
  <2> SUFFICES ASSUME NEW c \in Cases, NEW d \in Cases, c # d, allocation'[c] # None,
                      allocation'[c] = allocation'[d]
               PROVE  allocation'[c] \in outlived'
    BY DEF PodServesOneCase
  <2>1. PICK p \in Pods : p = allocation'[c]
    BY <1>2 DEF Handing, TypeOK
  <2>2. CASE request[r].pod = p
    <3>1. \A e \in Cases : Sure(p) => allocation[e] # p
      BY <2>2 DEF Handing, Taking, StoreIsFirst
    <3>2. ~Sure(p)
      BY <1>2, <2>1, <3>1
    <3> QED BY <2>1, <3>2 DEF Sure
  <2>3. CASE request[r].pod # p
    BY <1>2, <2>1, <2>3 DEF Handing, Taking, PodServesOneCase
  <2> QED BY <2>2, <2>3
<1>6. TerminatedIsForgotten'
  <2> SUFFICES ASSUME NEW s \in Requests, NEW c \in Cases, request'[s].at = "terminate",
                      allocation'[c] = request'[s].pod
               PROVE  request'[s].pod \in outlived'
    BY DEF TerminatedIsForgotten
  <2>1. s # r /\ request[s].at = "terminate" /\ request'[s].pod = request[s].pod
    BY <1>2
  <2>2. PICK p \in Pods : p = request[s].pod
    BY <2>1 DEF Handing, Resting, ReleaseIsTyped
  <2>3. CASE c = request[r].case
    BY <1>2, <2>1, <2>2, <2>3 DEF Handing, TypeOK, Taking, StoreIsFirst, Sure
  <2>4. CASE c # request[r].case
    BY <1>2, <2>1, <2>4 DEF Handing, Taking, TerminatedIsForgotten
  <2> QED BY <2>3, <2>4
<1> QED BY <1>3, <1>4, <1>5, <1>6 DEF Taking

\* A request gets a pod that nobody has.
LEMMA HoldingKeeps ==
  ASSUME Handing, NEW r \in Requests, NEW p \in Pods, Holds(r, p),
         Sure(p) => Unheld(p), UNCHANGED <<allocation, outlived>>
  PROVE  Taking'
<1>1. \A q \in Pods : Sure(q)' <=> Sure(q)
  BY DEF Sure
<1>2. /\ \A s \in Requests : s # r => request'[s] = request[s]
      /\ request'[r].at = "store" /\ request'[r].pod = p /\ request'[r].case = request[r].case
  BY DEF Holds, Handing, TypeOK
<1>3. StoreIsFirst'
  BY <1>1, <1>2 DEF Handing, Taking, StoreIsFirst, Unheld
<1>4. ReadersAgree'
  BY <1>1, <1>2 DEF Handing, Taking, ReadersAgree, Unheld
<1>5. PodServesOneCase'
  BY DEF Handing, Taking, PodServesOneCase
<1>6. TerminatedIsForgotten'
  BY <1>2 DEF Handing, Taking, TerminatedIsForgotten
<1> QED BY <1>3, <1>4, <1>5, <1>6 DEF Taking

\* A request begins with the pod that its case has.
LEMMA ReadingKeeps ==
  ASSUME Handing, NEW r \in Requests, NEW c \in Cases, NEW label \in {"decide", "delete"}, NEW type,
         request' = [request EXCEPT ![r] = [at |-> label, case |-> c, type |-> type,
                                            pod |-> allocation[c]]],
         UNCHANGED <<outlived, allocation>>
  PROVE  Taking'
<1>1. \A p \in Pods : Sure(p)' <=> Sure(p)
  BY DEF Sure
<1>2. /\ \A s \in Requests : s # r => request'[s] = request[s]
      /\ request'[r].at \in {"decide", "delete"} /\ request'[r].pod = allocation[c] /\ request'[r].case = c
  BY DEF Handing, TypeOK
<1>3. StoreIsFirst'
  BY <1>1, <1>2 DEF Handing, Taking, StoreIsFirst
<1>4. ReadersAgree'
  <2> SUFFICES ASSUME NEW s \in Requests, NEW d \in Cases, NEW p \in Pods,
                      request'[s].pod = p, allocation'[d] = p, Sure(p)'
               PROVE  request'[s].case = d
    BY DEF ReadersAgree
  <2>1. CASE s = r
    BY <1>1, <1>2, <2>1, PoolConstants DEF Handing, Taking, PodServesOneCase, Sure
  <2>2. CASE s # r
    BY <1>1, <1>2, <2>2 DEF Handing, Taking, ReadersAgree
  <2> QED BY <2>1, <2>2
<1>5. PodServesOneCase'
  BY DEF Handing, Taking, PodServesOneCase
<1>6. TerminatedIsForgotten'
  BY <1>2 DEF Handing, Taking, TerminatedIsForgotten
<1> QED BY <1>3, <1>4, <1>5, <1>6 DEF Taking


\* A request that goes on with the pod it has, or without, leaves at rest what is at rest.
GoesOn(r) ==
  /\ request[r].at # "idle"
  /\ UNCHANGED <<annotation, idle, up, outlived>> /\ active' \subseteq active
  /\ \A p \in Pods : phase'[p] = "new" <=> phase[p] = "new"
  /\ \A c \in Cases : allocation'[c] \in {allocation[c], request[r].pod, None}
  /\ \A s \in Requests : s # r => request'[s] = request[s]
  /\ request'[r].pod \in {request[r].pod, None}
  /\ request'[r].at = "idle" => request'[r].pod = None
  /\ request'[r].at \in {"delete", "terminate"} =>
       /\ request[r].at \in {"delete", "terminate"}
       /\ request'[r].pod = request[r].pod /\ request'[r].type = request[r].type

\* Such a step of a request disturbs no conjunct of Resting.
LEMMA GoingOnRests ==
  ASSUME Handing, NEW r \in Requests, GoesOn(r)
  PROVE  Resting'
<1>1. ReleaseIsTyped'
  BY DEF GoesOn, Handing, Resting, ReleaseIsTyped
<1>2. up /\ NothingWhenDown' /\ DownIsRecorded'
  BY DEF GoesOn, Handing, Resting, NothingWhenDown, DownIsRecorded
<1>3. \A p \in Pods : Unheld(p) => Unheld(p)'
  BY PoolConstants DEF GoesOn, Unheld
<1>4. NewIsUnused'
  BY <1>3 DEF GoesOn, Handing, Resting, NewIsUnused
<1>5. IdleIsFree'
  BY <1>3 DEF GoesOn, Handing, TypeOK, Resting, IdleIsFree, Sure
<1> QED BY <1>1, <1>2, <1>4, <1>5 DEF Resting

\* In every life of a request, what rests stays so.
LEMMA ServingRests ==
  ASSUME Handing, NEW r \in Requests, Serve(r)
  PROVE  Resting'
<1>t. /\ request[r] \in RequestType /\ request \in [Requests -> RequestType]
      /\ allocation \in [Cases -> Pods \cup {None}] /\ phase \in [Pods -> Phases]
  BY DEF Handing, TypeOK, RequestType
<1>g. ASSUME NEW label \in Steps, Goes(r, label)
      PROVE  /\ \A s \in Requests : s # r => request'[s] = request[s]
             /\ request'[r].at = label /\ request'[r].pod = request[r].pod
             /\ request'[r].type = request[r].type
  BY <1>t, <1>g DEF Goes, RequestType
<1>a. Answer(r) => /\ \A s \in Requests : s # r => request'[s] = request[s]
                   /\ request'[r].at = "idle" /\ request'[r].pod = None
  BY <1>t DEF Answer, Free
<1>1. CASE Decide(r)
  <2>1. Goes(r, "forget") \/ Answer(r)
    BY <1>1 DEF Decide
  <2>2. ASSUME Goes(r, "forget") PROVE GoesOn(r)
    <3>1. request'[r].at = "forget" /\ request'[r].pod = request[r].pod
      BY <1>g, <2>2 DEF Steps
    <3>2. \A s \in Requests : s # r => request'[s] = request[s]
      BY <1>g, <2>2 DEF Steps
    <3> QED BY <1>1, <1>t, <3>1, <3>2 DEF Decide, GoesOn, cluster, pools
  <2>3. ASSUME Answer(r) PROVE GoesOn(r)
    BY <1>1, <1>a, <1>t, <2>3 DEF Decide, GoesOn, cluster, pools
  <2>4. GoesOn(r)
    BY <2>1, <2>2, <2>3
  <2> QED BY <2>4, GoingOnRests
<1>2. CASE Forget(r)
  <2>1. Goes(r, "acquire")
    BY <1>2 DEF Forget
  <2>2. /\ request'[r].at = "acquire" /\ request'[r].pod = request[r].pod
        /\ request'[r].type = request[r].type
        /\ \A s \in Requests : s # r => request'[s] = request[s]
    BY <1>g, <2>1 DEF Steps
  <2>3. GoesOn(r)
    BY <1>2, <1>t, <2>2 DEF Forget, GoesOn, cluster, pools, bounds
  <2> QED BY <2>3, GoingOnRests
<1>3. CASE Store(r)
  <2>1. GoesOn(r)
    BY <1>3, <1>a, <1>t DEF Store, GoesOn, cluster, pools, bounds
  <2> QED BY <2>1, GoingOnRests
<1>4. CASE Delete(r)
  <2>1. Goes(r, "terminate")
    BY <1>4 DEF Delete
  <2>2. /\ request'[r].at = "terminate" /\ request'[r].pod = request[r].pod
        /\ request'[r].type = request[r].type
        /\ \A s \in Requests : s # r => request'[s] = request[s]
    BY <1>g, <2>1 DEF Steps
  <2>3. GoesOn(r)
    BY <1>4, <1>t, <2>2 DEF Delete, GoesOn, cluster, pools, bounds
  <2> QED BY <2>3, GoingOnRests
<1>5. CASE Terminate(r)
  <2>1. phase[request[r].pod] # "new"
    BY <1>5 DEF Handing, Resting, ReleaseIsTyped, NewIsUnused, Unheld, Terminate
  <2>2. UNCHANGED annotation /\ \A p \in Pods : phase'[p] = "new" <=> phase[p] = "new"
    BY <1>5, <1>t, <2>1 DEF Terminate, Changed, Deletion, Handing, TypeOK
  <2>3. GoesOn(r)
    BY <1>5, <1>a, <1>t, <2>2 DEF Terminate, GoesOn
  <2> QED BY <2>3, GoingOnRests
<1>6. CASE RequestFails(r)
  <2>1. GoesOn(r)
    BY <1>6, <1>a, <1>t DEF RequestFails, GoesOn, cluster, pools
  <2> QED BY <2>1, GoingOnRests
<1> USE PoolConstants DEF Handing, TypeOK, Resting, ReleaseIsTyped, NothingWhenDown, DownIsRecorded,
                          NewIsUnused, IdleIsFree, Unheld, Sure
<1>7. CASE Acquire(r)
  <2>1. CASE AcquireWarm(r)
    <3>1. PICK p \in Of(idle, request[r].type) :
            idle' = idle \ {p} /\ active' = active \cup {p} /\ Holds(r, p)
      BY <2>1 DEF AcquireWarm
    <3>2. /\ p \in Pods /\ p \in idle
          /\ \A s \in Requests : s # r => request'[s] = request[s]
          /\ request'[r].at = "store" /\ request'[r].pod = p
      BY <3>1 DEF Of, Holds
    <3>3. UNCHANGED <<phase, annotation, allocation, up, outlived>>
      BY <1>7, <2>1 DEF Acquire, AcquireWarm, cluster
    <3>4. phase[p] # "new" /\ up
      BY <3>2
    <3>5. ReleaseIsTyped' /\ NothingWhenDown' /\ DownIsRecorded'
      BY <3>2, <3>3, <3>4
    <3>6. NewIsUnused'
      BY <3>1, <3>2, <3>3, <3>4
    <3>7. IdleIsFree'
      BY <3>1, <3>2, <3>3
    <3> QED BY <3>5, <3>6, <3>7
  <2>2. CASE AcquireOnDemand(r)
    <3>1. /\ UNCHANGED <<idle, allocation, up, outlived>> /\ up
      BY <1>7, <2>2 DEF Acquire, AcquireOnDemand
    <3>2. ASSUME NEW p \in Of(In("new"), request[r].type), Changed({p}, {}, request[r].case),
                 active' = active \cup {p}, Holds(r, p)
          PROVE  Resting'
      <4>1. /\ p \in Pods /\ phase[p] = "new" /\ Unheld(p) /\ p \notin idle /\ phase'[p] = "live"
            /\ \A q \in Pods : q # p => phase'[q] = phase[q] /\ annotation'[q] = annotation[q]
            /\ \A s \in Requests : s # r => request'[s] = request[s]
            /\ request'[r].at = "store" /\ request'[r].pod = p
        BY <3>2 DEF Of, In, Changed, Holds
      <4> QED BY <3>1, <3>2, <4>1
    <3>3. ASSUME NEW lost \in {{}} \cup {{p} : p \in Of(In("new"), request[r].type)},
                 Changed(lost, {}, request[r].case), Answer(r), UNCHANGED active
          PROVE  Resting'
      <4>1. \A q \in Pods : q \notin lost => phase'[q] = phase[q] /\ annotation'[q] = annotation[q]
        BY <3>3 DEF Changed
      <4>2. \A q \in Pods : q \in lost => phase[q] = "new" /\ phase'[q] = "live"
        BY <3>3 DEF Of, In, Changed
      <4>3. /\ \A s \in Requests : s # r => request'[s] = request[s]
            /\ request'[r].at = "idle" /\ request'[r].pod = None
        BY <3>3 DEF Answer, Free
      <4>4. ReleaseIsTyped' /\ NothingWhenDown' /\ DownIsRecorded'
        BY <3>1, <4>3
      <4>5. NewIsUnused'
        BY <3>1, <3>3, <4>1, <4>2, <4>3
      <4>6. IdleIsFree'
        BY <3>1, <4>1, <4>2, <4>3
      <4> QED BY <4>4, <4>5, <4>6
    <3>4. CASE Answer(r) /\ UNCHANGED <<cluster, active, faults>>
      BY <3>1, <3>4 DEF Answer, Free, cluster
    <3> QED BY <2>2, <3>2, <3>3, <3>4 DEF AcquireOnDemand
  <2> QED BY <1>7, <2>1, <2>2 DEF Acquire
<1> QED BY <1>1, <1>2, <1>3, <1>4, <1>5, <1>6, <1>7 DEF Serve

\* The steps of a request keep apart who has which pod.
LEMMA ServingTakes ==
  ASSUME Handing, TypeOK', Resting', NEW r \in Requests, Serve(r)
  PROVE  Taking'
<1>1. CASE Store(r) \/ (RequestFails(r) /\ request[r].at = "store" /\ allocation' # allocation)
  <2>1. /\ request[r].at = "store" /\ UNCHANGED outlived /\ Answer(r)
        /\ allocation' = [allocation EXCEPT ![request[r].case] = request[r].pod]
    BY <1>1 DEF Store, RequestFails, cluster, bounds
  <2> QED BY <2>1, StoringKeeps
<1>2. CASE Acquire(r) /\ AcquireWarm(r)
  <2>1. PICK p \in Of(idle, request[r].type) : Holds(r, p)
    BY <1>2 DEF AcquireWarm
  <2>2. p \in Pods /\ UNCHANGED <<allocation, outlived>> /\ (Sure(p) => Unheld(p))
    BY <1>2 DEF Acquire, AcquireWarm, Of, Handing, TypeOK, Resting, IdleIsFree, cluster
  <2> QED BY <2>1, <2>2, HoldingKeeps
<1>3. CASE Acquire(r) /\ AcquireOnDemand(r)
  <2>1. UNCHANGED <<allocation, outlived>>
    BY <1>3 DEF Acquire
  <2>2. ASSUME NEW p \in Of(In("new"), request[r].type), Holds(r, p) PROVE Taking'
    <3>1. p \in Pods /\ Unheld(p)
      BY DEF Of, In, Handing, Resting, NewIsUnused
    <3> QED BY <2>1, <2>2, <3>1, HoldingKeeps
  <2>3. CASE Answer(r)
    <3>1. Forgetting
      BY <2>1, <2>3 DEF Answer, Free, Forgetting, Handing, TypeOK
    <3> QED BY <3>1, ForgettingKeeps
  <2> QED BY <1>3, <2>2, <2>3 DEF AcquireOnDemand
<1>4. CASE Decide(r) \/ Forget(r) \/ Delete(r)
  <2>1. Decide(r) => Forgetting
    BY DEF Decide, Answer, Goes, Free, Forgetting, Handing, TypeOK, cluster
  <2>2. Forget(r) => Forgetting
    BY DEF Forget, Goes, Forgetting, Handing, TypeOK, cluster, bounds
  <2>3. Delete(r) => Forgetting
    BY DEF Delete, Goes, Forgetting, Handing, TypeOK, cluster, bounds
  <2>4. Forgetting
    BY <1>4, <2>1, <2>2, <2>3
  <2> QED BY <2>4, ForgettingKeeps
<1>5. CASE Terminate(r)
  <2>1. Forgetting
    BY <1>5 DEF Terminate, Answer, Free, Forgetting, Handing, TypeOK
  <2> QED BY <2>1, ForgettingKeeps
<1>6. CASE RequestFails(r) /\ ~(request[r].at = "store" /\ allocation' # allocation)
  <2>1. Forgetting
    BY <1>6 DEF RequestFails, Answer, Free, Forgetting, Handing, TypeOK, cluster
  <2> QED BY <2>1, ForgettingKeeps
<1>7. Acquire(r) => AcquireWarm(r) \/ AcquireOnDemand(r)
  BY DEF Acquire
<1> QED BY <1>1, <1>2, <1>3, <1>4, <1>5, <1>6, <1>7 DEF Serve

\* Requests that come in.
LEMMA ReceiveHands ==
  ASSUME Handing, TypeOK', NEW r \in Requests, NEW c \in Cases, Receive(r, c)
  PROVE  Handing'
<1>1. CASE Release(r, c)
  <2>1. Resting'
    BY <1>1, PoolConstants DEF Handing, TypeOK, Resting, ReleaseIsTyped, NothingWhenDown, DownIsRecorded,
       NewIsUnused, IdleIsFree, Unheld, Sure, Release, cluster, pools, bounds
  <2>2. Taking'
    BY <1>1, ReadingKeeps DEF Release, cluster, bounds
  <2> QED BY <2>1, <2>2 DEF Handing
<1>2. ASSUME NEW t \in Types, Allocate(r, c, t) PROVE Handing'
  <2>1. Resting'
    BY <1>2, PoolConstants DEF Handing, TypeOK, Resting, ReleaseIsTyped, NothingWhenDown, DownIsRecorded,
       NewIsUnused, IdleIsFree, Unheld, Sure, Allocate, cluster, pools, bounds
  <2>2. Taking'
    BY <1>2, ReadingKeeps DEF Allocate, cluster, bounds
  <2> QED BY <2>1, <2>2 DEF Handing
<1> QED BY <1>1, <1>2 DEF Receive

\* A pod that may be among the free ones.
Spare(p) == phase[p] # "new" /\ annotation[p] = None /\ (Sure(p) => Unheld(p))

\* Pods that are created warm, and others that are deleted, change nothing of who has which.
LEMMA WarmingHands ==
  ASSUME Handing, TypeOK', NEW made \in SUBSET In("new"), NEW deleted, Changed(made, deleted, None),
         UNCHANGED <<allocation, request, outlived>>, up',
         \A p \in Pods : p \in active' => phase[p] # "new",
         \A p \in idle' : p \in made \/ (p \in Pods /\ Spare(p))
  PROVE  Handing'
<1>1. /\ UNCHANGED annotation
      /\ \A p \in Pods : phase'[p] = "new" => phase[p] = "new" /\ p \notin made
      /\ \A p \in made : p \in Pods /\ phase[p] = "new"
  BY DEF Changed, Deletion, In, Handing, TypeOK, Resting, NewIsUnused
<1>2. ReleaseIsTyped' /\ NothingWhenDown' /\ DownIsRecorded'
  BY DEF Handing, Resting, ReleaseIsTyped, NothingWhenDown, DownIsRecorded
<1>3. NewIsUnused'
  BY <1>1 DEF Handing, TypeOK, Resting, NewIsUnused, Unheld, Spare
<1>4. IdleIsFree'
  BY <1>1 DEF Handing, Resting, NewIsUnused, IdleIsFree, Unheld, Sure, Spare
<1>5. Resting'
  BY <1>2, <1>3, <1>4 DEF Resting
<1>6. Forgetting
  BY <1>1 DEF Forgetting, Handing, TypeOK
<1> QED BY <1>5, <1>6, ForgettingKeeps DEF Handing

\* A start sorts pods that a case has among the free ones only if they have outlived the process.
LEMMA StartHands ==
  ASSUME Handing, TypeOK', Start
  PROVE  Handing'
<1>1. PICK found \in SUBSET Running, unwell \in SUBSET In("dead"), made, lost \in SUBSET In("new") :
        /\ active' = found \ Sorted(found)
        /\ Warmed(made, lost, Types, Sorted(found), found \ Sorted(found))
        /\ Changed(made, unwell, None)
  BY DEF Start
<1>2. \A p \in Pods : p \in active' => phase[p] # "new"
  BY <1>1 DEF In, Running
<1>3. \A p \in idle' : p \in made \/ (p \in Running /\ annotation[p] = None)
  BY <1>1 DEF Sorted, Warmed
<1>4. \A p \in idle' : p \in made \/ (p \in Pods /\ Spare(p))
  BY <1>3 DEF Start, Handing, Resting, DownIsRecorded, Running, In, Spare
<1> QED BY <1>1, <1>2, <1>4, WarmingHands DEF Start

\* A task that fills up a pool puts pods there that nobody knows.
LEMMA EnsureHands ==
  ASSUME Handing, TypeOK', NEW t \in Types, ensure_warm_pool(t)
  PROVE  Handing'
<1>1. PICK made, lost \in SUBSET In("new") :
        Warmed(made, lost, {t}, idle, active) /\ Changed(made, {}, None)
  BY DEF ensure_warm_pool
<1>2. \A p \in Pods : p \in active' => phase[p] # "new"
  BY DEF ensure_warm_pool, Handing, Resting, NewIsUnused
<1>3. \A p \in idle' : p \in made \/ p \in idle
  BY <1>1 DEF Warmed
<1>4. \A p \in idle' : p \in made \/ (p \in Pods /\ Spare(p))
  BY <1>3 DEF Handing, TypeOK, Resting, NewIsUnused, IdleIsFree, Spare
<1> QED BY <1>1, <1>2, <1>4, WarmingHands DEF ensure_warm_pool

\* The end of the process, of a pod, and the reconciliation.
LEMMA OthersHand ==
  ASSUME Handing, TypeOK', Crash \/ Reconcile \/ (\E p \in Pods : PodStops(p)) \/ UNCHANGED vars
  PROVE  Handing'
<1>1. CASE Crash
  <2>1. /\ \A r \in Requests : request'[r].at = "idle" /\ request'[r].pod = None
        /\ UNCHANGED <<phase, annotation, allocation>> /\ idle' = {} /\ active' = {}
        /\ outlived' = outlived \cup {p \in Running : annotation[p] = None
                                                      /\ \E c \in Cases : allocation[c] = p}
    BY <1>1 DEF Crash, Free, cluster, Handing, TypeOK
  <2>2. DownIsRecorded'
    BY <2>1, PoolConstants DEF DownIsRecorded, Unheld, Sure, Running, In
  <2>3. Resting'
    BY <2>1, <2>2, PoolConstants DEF Handing, Resting, ReleaseIsTyped, NothingWhenDown, NewIsUnused,
       IdleIsFree, Unheld
  <2>4. Taking'
    BY <2>1, PoolConstants DEF Handing, Taking, StoreIsFirst, ReadersAgree, PodServesOneCase,
       TerminatedIsForgotten
  <2> QED BY <2>3, <2>4 DEF Handing
<1>2. CASE Reconcile
  <2>1. /\ UNCHANGED <<phase, annotation, up, idle, active, request, outlived>>
        /\ \A c \in Cases : allocation'[c] \in {allocation[c], None}
    BY <1>2 DEF Reconcile, ReconcileList, ReconcileOrphan, ReconcileDrop, ReconcileDone,
       ReconcileFails, cluster, pools, bounds, Handing, TypeOK
  <2>2. Resting'
    BY <2>1, PoolConstants DEF Handing, Resting, ReleaseIsTyped, NothingWhenDown, DownIsRecorded,
       NewIsUnused, IdleIsFree, Unheld, Sure, Running, In, TypeOK
  <2>3. Forgetting
    BY <2>1 DEF Forgetting, Handing, TypeOK
  <2> QED BY <2>2, <2>3, ForgettingKeeps DEF Handing
<1>3. ASSUME NEW p \in Pods, PodStops(p) PROVE Handing'
  <2>1. /\ UNCHANGED <<annotation, allocation, up, idle, active, request, outlived>>
        /\ phase[p] # "new" /\ phase'[p] # "new" /\ \A q \in Pods : q # p => phase'[q] = phase[q]
        /\ p \in Running' => p \in Running
    BY <1>3 DEF PodStops, pools, bounds, Running, In, Handing, TypeOK
  <2>2. Running' \subseteq Running
    BY <2>1 DEF Running, In
  <2>3. Resting'
    BY <2>1, <2>2 DEF Handing, Resting, ReleaseIsTyped, NothingWhenDown, DownIsRecorded, NewIsUnused,
       IdleIsFree, Unheld, Sure
  <2>4. Forgetting
    BY <2>1 DEF Forgetting, Handing, TypeOK
  <2> QED BY <2>3, <2>4, ForgettingKeeps DEF Handing
<1>4. CASE UNCHANGED vars
  BY <1>4 DEF vars, Handing, Resting, ReleaseIsTyped, NothingWhenDown, DownIsRecorded, NewIsUnused,
     IdleIsFree, Unheld, Running, In, Taking, StoreIsFirst, ReadersAgree, PodServesOneCase, TerminatedIsForgotten, Sure
<1> QED BY <1>1, <1>2, <1>3, <1>4

\* Every step of the service and of the cluster keeps who has which pod apart.
LEMMA NextHands ==
  ASSUME Handing, [Next]_vars
  PROVE  Handing'
<1>1. TypeOK'
  BY NextTypes DEF Handing
<1>2. ASSUME NEW r \in Requests, Serve(r) PROVE Handing'
  BY <1>1, <1>2, ServingRests, ServingTakes DEF Handing
<1> QED BY <1>1, <1>2, ReceiveHands, EnsureHands, StartHands, OthersHand DEF Next

\* At first nobody has a pod.
LEMMA InitHands ==
  ASSUME Init
  PROVE  Handing
<1>1. /\ \A r \in Requests : request[r].at = "idle" /\ request[r].pod = None
      /\ \A c \in Cases : allocation[c] = None
  BY DEF Init, Free
<1>2. Resting
  BY <1>1, PoolConstants DEF Init, Resting, ReleaseIsTyped, NothingWhenDown, DownIsRecorded, NewIsUnused,
     IdleIsFree, Unheld, Running, In
<1>3. Taking
  BY <1>1, PoolConstants DEF Taking, StoreIsFirst, ReadersAgree, PodServesOneCase, TerminatedIsForgotten
<1> QED BY <1>2, <1>3, InitTypes DEF Handing

\* The inductive invariant of pods that are handed out.
LEMMA HandingHolds == Spec => []Handing
<1>1. Init => Handing
  BY InitHands
<1>2. Handing /\ [Next]_vars => Handing'
  BY NextHands
<1> QED BY <1>1, <1>2, PTL DEF Spec

\* However allocate_pod, release_pod, ensure_warm_pool and reconcile_allocations are cut at their
\* awaits, and however long a deleted pod goes on running, no pod stands for two cases, unless it
\* was created warm and a case had it when a process ended; pods that a later process creates, or
\* finds without a case, are covered.
THEOREM OnePodForACase == Spec => []PodServesOneCase
<1>1. Handing => PodServesOneCase
  BY DEF Handing, Taking
<1> QED BY <1>1, HandingHolds, PTL

\* The pod that release_pod is about to have deleted no case has any more, nor gets it meanwhile
\* through a pool, with the same exception.
THEOREM ReleasedIsForgotten == Spec => []TerminatedIsForgotten
<1>1. Handing => TerminatedIsForgotten
  BY DEF Handing, Taking
<1> QED BY <1>1, HandingHolds, PTL

--------------------------------------------------------------------------------
(***************************************************************************)
(* How many pods there are                                                 *)
(***************************************************************************)
\* The pods of a type can be counted.
LEMMA OfIsFinite ==
  ASSUME NEW S \in SUBSET Pods, NEW t
  PROVE  IsFiniteSet(Of(S, t)) /\ Cardinality(Of(S, t)) \in Nat
<1>1. Of(S, t) \subseteq Pods
  BY DEF Of
<1> QED BY <1>1, PoolConstants, FS_Subset, FS_CardinalityType

\* Fewer pods have fewer of a type.
LEMMA OfIsMonotone ==
  ASSUME NEW S \in SUBSET Pods, NEW T \in SUBSET Pods, NEW t, S \subseteq T
  PROVE  Cardinality(Of(S, t)) <= Cardinality(Of(T, t))
<1>1. Of(S, t) \subseteq Of(T, t)
  BY DEF Of
<1> QED BY <1>1, OfIsFinite, FS_Subset

\* Counting the pods of two pools of a type.
LEMMA OfUnion ==
  ASSUME NEW S \in SUBSET Pods, NEW T \in SUBSET Pods, NEW t
  PROVE  /\ Cardinality(Of(S \cup T, t)) <= Cardinality(Of(S, t)) + Cardinality(Of(T, t))
         /\ S \cap T = {} =>
              Cardinality(Of(S \cup T, t)) = Cardinality(Of(S, t)) + Cardinality(Of(T, t))
<1>1. Of(S \cup T, t) = Of(S, t) \cup Of(T, t) /\ Of(S, t) \cap Of(T, t) = Of(S \cap T, t)
  BY DEF Of
<1>2. IsFiniteSet(Of(S, t)) /\ IsFiniteSet(Of(T, t)) /\ Cardinality(Of(S \cap T, t)) \in Nat
  BY OfIsFinite
<1>3. Cardinality(Of(S \cup T, t))
        = Cardinality(Of(S, t)) + Cardinality(Of(T, t)) - Cardinality(Of(S \cap T, t))
  <2>1. Cardinality(Of(S, t) \cup Of(T, t))
          = Cardinality(Of(S, t)) + Cardinality(Of(T, t)) - Cardinality(Of(S, t) \cap Of(T, t))
    BY <1>2, FS_Union
  <2> QED BY <1>1, <2>1
<1>4. S \cap T = {} => Cardinality(Of(S \cap T, t)) = 0
  BY FS_EmptySet DEF Of
<1> QED BY <1>2, <1>3, <1>4, OfIsFinite

\* One pod more, or one less, is one of its type.
LEMMA OfOne ==
  ASSUME NEW S \in SUBSET Pods, NEW p \in Pods, NEW t
  PROVE  /\ TypeOf[p] # t => Of(S \cup {p}, t) = Of(S, t) /\ Of(S \ {p}, t) = Of(S, t)
         /\ Cardinality(Of(S \cup {p}, t)) <= Cardinality(Of(S, t)) + 1
         /\ p \in S /\ TypeOf[p] = t => Cardinality(Of(S \ {p}, t)) = Cardinality(Of(S, t)) - 1
<1>1. TypeOf[p] # t => Of(S \cup {p}, t) = Of(S, t) /\ Of(S \ {p}, t) = Of(S, t)
  BY DEF Of
<1>2. TypeOf[p] = t => Of(S \cup {p}, t) = Of(S, t) \cup {p} /\ Of(S \ {p}, t) = Of(S, t) \ {p}
  BY DEF Of
<1>3. p \in S /\ TypeOf[p] = t => p \in Of(S, t)
  BY DEF Of
<1>4. IsFiniteSet(Of(S, t)) /\ Cardinality(Of(S, t)) \in Nat
  BY OfIsFinite
<1>5. Cardinality(Of(S, t) \cup {p}) \in {Cardinality(Of(S, t)), Cardinality(Of(S, t)) + 1}
  BY <1>4, FS_AddElement, Zenon
<1>6. p \in Of(S, t) => Cardinality(Of(S, t) \ {p}) = Cardinality(Of(S, t)) - 1
  BY <1>4, FS_RemoveElement
<1>7. Cardinality(Of(S \cup {p}, t)) <= Cardinality(Of(S, t)) + 1
  <2>1. Cardinality(Of(S \cup {p}, t)) \in {Cardinality(Of(S, t)), Cardinality(Of(S, t)) + 1}
    BY <1>1, <1>2, <1>5, Zenon
  <2> QED BY <1>4, <2>1
<1>8. p \in S /\ TypeOf[p] = t => Cardinality(Of(S \ {p}, t)) = Cardinality(Of(S, t)) - 1
  BY <1>2, <1>3, <1>6
<1> QED BY <1>1, <1>7, <1>8

\* What is missing, if anything is, fits into the pool, and makes it full or warm.
LEMMA MissingFits ==
  ASSUME NEW free \in SUBSET Pods, NEW used \in SUBSET Pods, NEW t \in Types
  PROVE  LET a == Cardinality(Of(free, t))
             b == Cardinality(Of(used, t))
             m == Missing(t, free, used)
         IN  /\ m \in Nat
             /\ m # 0 => a + m + b <= MaxPoolSize[t]
             /\ a + m >= WarmPoolSize[t] \/ a + m + b >= MaxPoolSize[t]
<1>1. Cardinality(Of(free, t)) \in Nat /\ Cardinality(Of(used, t)) \in Nat
  BY OfIsFinite
<1> QED BY <1>1, PoolConstants DEF Missing, Least

\* If no call fails, a pool that is filled up is full or warm, and no pod is lost.
LEMMA WarmedFills ==
  ASSUME TypeOK, faults' = 0, NEW made \in SUBSET Pods, NEW lost, NEW ts, NEW free \in SUBSET Pods,
         NEW used \in SUBSET Pods, made \cap free = {}, Warmed(made, lost, ts, free, used)
  PROVE  /\ idle' = free \cup made
         /\ \A t \in Types : t \in ts =>
              Cardinality(Of(idle', t)) = Cardinality(Of(free, t)) + Missing(t, free, used)
<1>1. ~Fault
  BY PoolConstants DEF Fault, TypeOK
<1>2. idle' = free \cup made /\ \A u \in ts : Cardinality(Of(made, u)) = Missing(u, free, used)
  BY <1>1 DEF Warmed
<1>3. ASSUME NEW t \in Types, t \in ts
      PROVE  Cardinality(Of(idle', t)) = Cardinality(Of(free, t)) + Missing(t, free, used)
  BY <1>2, <1>3, OfUnion
<1> QED BY <1>2, <1>3

\* As long as no call fails, the process knows the pods that live and are not being deleted.
LiveAreKnown == up /\ faults = 0 => In("live") \subseteq idle \cup active

Filling == Handing /\ LiveAreKnown /\ ClusterBounded /\ PoolIsReplenished

\* The pools bound what lives of a type.
LEMMA KnownIsBounded ==
  ASSUME NEW S \in SUBSET Pods, NEW T \in SUBSET Pods, NEW L \in SUBSET Pods, NEW t \in Types,
         Of(L, t) \subseteq S \cup T,
         Cardinality(Of(S, t)) + Cardinality(Of(T, t)) <= MaxPoolSize[t]
  PROVE  Cardinality(Of(L, t)) <= MaxPoolSize[t]
<1>1. Of(L, t) \subseteq Of(S \cup T, t) /\ Of(L, t) \in SUBSET Pods /\ Of(S \cup T, t) \in SUBSET Pods
  BY DEF Of
<1>2. IsFiniteSet(Of(S \cup T, t))
  BY OfIsFinite
<1>3. Cardinality(Of(L, t)) <= Cardinality(Of(S \cup T, t))
  BY <1>1, <1>2, FS_Subset
<1>4. Cardinality(Of(S \cup T, t)) <= Cardinality(Of(S, t)) + Cardinality(Of(T, t))
  BY OfUnion
<1>5. /\ Cardinality(Of(L, t)) \in Nat /\ Cardinality(Of(S \cup T, t)) \in Nat
      /\ Cardinality(Of(S, t)) \in Nat /\ Cardinality(Of(T, t)) \in Nat
  BY OfIsFinite
<1> QED BY <1>3, <1>4, <1>5, PoolConstants

\* Steps that create no pod, of a type or of any, leave it bounded.
LEMMA NothingCreated ==
  ASSUME ClusterBounded, faults = 0, NEW t \in Types,
         \A p \in Pods : TypeOf[p] = t /\ phase'[p] = "live" => phase[p] = "live"
  PROVE  Cardinality(Of(In("live")', t)) <= MaxPoolSize[t]
<1>1. Of(In("live")', t) \subseteq Of(In("live"), t) /\ In("live") \in SUBSET Pods
  BY DEF In, Of
<1>2. IsFiniteSet(Of(In("live"), t)) /\ Cardinality(Of(In("live"), t)) \in Nat
  BY <1>1, OfIsFinite
<1>3. /\ Cardinality(Of(In("live")', t)) <= Cardinality(Of(In("live"), t))
      /\ Cardinality(Of(In("live")', t)) \in Nat
  BY <1>1, <1>2, FS_Subset, FS_CardinalityType
<1>4. Cardinality(Of(In("live"), t)) <= MaxPoolSize[t]
  BY DEF ClusterBounded
<1> QED BY <1>2, <1>3, <1>4, PoolConstants

\* Steps that leave the pools alone, and create no pod.
LEMMA LeavingFills ==
  ASSUME Filling, Handing', up' => up, up' => UNCHANGED pools, faults' = 0 => faults = 0,
         \A p \in Pods : phase'[p] = "live" => phase[p] = "live"
  PROVE  Filling'
<1>1. In("live")' \subseteq In("live") /\ In("live") \in SUBSET Pods
  BY DEF In
<1>2. LiveAreKnown'
  BY <1>1 DEF Filling, LiveAreKnown, pools
<1>3. PoolIsReplenished'
  BY DEF Filling, PoolIsReplenished, pools
<1>4. ClusterBounded'
  BY NothingCreated DEF Filling, ClusterBounded, Of
<1> QED BY <1>2, <1>3, <1>4 DEF Filling

\* A warm pod is taken: it is in use, and the pool will be filled up.
LEMMA AcquireWarmFills ==
  ASSUME Filling, Handing', NEW r \in Requests, up, up', AcquireWarm(r)
  PROVE  Filling'
<1>1. PICK p \in Of(idle, request[r].type) : idle' = idle \ {p} /\ active' = active \cup {p}
  BY DEF AcquireWarm
<1>2. DEFINE u == TypeOf[p]
<1>3. /\ p \in Pods /\ p \in idle /\ request[r].type = u /\ u \in Types
      /\ idle \in SUBSET Pods /\ active \in SUBSET Pods /\ warming \in [Types -> Nat]
      /\ UNCHANGED <<phase, faults>> /\ warming' = [warming EXCEPT ![u] = @ + 1]
  BY PoolConstants DEF Of, AcquireWarm, WarmUp, cluster, Filling, Handing, TypeOK
<1>4. LiveAreKnown'
  BY <1>1, <1>3 DEF Filling, LiveAreKnown, In
<1>5. ClusterBounded'
  BY <1>3, NothingCreated DEF Filling, ClusterBounded, Of
<1>6. PoolIsReplenished'
  <2> SUFFICES ASSUME faults = 0, NEW t \in Types
               PROVE  \/ Cardinality(Of(idle', t)) >= WarmPoolSize[t]
                      \/ Cardinality(Of(idle', t)) + Cardinality(Of(active', t)) >= MaxPoolSize[t]
                      \/ warming'[t] > 0
    BY <1>3 DEF PoolIsReplenished, Of
  <2>1. CASE t = u
    BY <1>3, <2>1
  <2>2. CASE t # u
    <3>1. Of(idle', t) = Of(idle, t) /\ Of(active', t) = Of(active, t) /\ warming'[t] = warming[t]
      BY <1>1, <1>3, <2>2, OfOne
    <3> QED BY <3>1 DEF Filling, PoolIsReplenished
  <2> QED BY <2>1, <2>2
<1> QED BY <1>4, <1>5, <1>6 DEF Filling

\* A pod is created on demand, if there is room.
LEMMA AcquireOnDemandFills ==
  ASSUME Filling, Handing', NEW r \in Requests, up, up', faults' = 0, NEW p \in In("new"),
         TypeOf[p] = request[r].type, Of(idle, TypeOf[p]) = {},
         Cardinality(Of(active, TypeOf[p])) < MaxPoolSize[TypeOf[p]],
         Changed({p}, {}, request[r].case), active' = active \cup {p}, UNCHANGED <<idle, warming, faults>>
  PROVE  Filling'
<1>1. /\ p \in Pods /\ idle \in SUBSET Pods /\ active \in SUBSET Pods /\ active' \in SUBSET Pods
      /\ active \subseteq active'
  BY DEF In, Filling, Handing, TypeOK
<1>2. LiveAreKnown'
  BY <1>1 DEF Filling, LiveAreKnown, In, Changed
<1>3. ClusterBounded'
  <2> SUFFICES ASSUME NEW t \in Types PROVE Cardinality(Of(In("live")', t)) <= MaxPoolSize[t]
    BY DEF ClusterBounded, Of
  <2>1. CASE t = TypeOf[p]
    <3>1. Cardinality(Of(idle, t)) = 0
      BY <2>1, FS_EmptySet
    <3>2. Cardinality(Of(active', t)) <= Cardinality(Of(active, t)) + 1
      BY <1>1, OfOne
    <3>3. Cardinality(Of(active, t)) \in Nat /\ Cardinality(Of(active', t)) \in Nat
      BY <1>1, OfIsFinite
    <3>4. Cardinality(Of(idle, t)) + Cardinality(Of(active', t)) <= MaxPoolSize[t]
      BY <2>1, <3>1, <3>2, <3>3, PoolConstants
    <3>5. In("live")' \in SUBSET Pods /\ Of(In("live")', t) \subseteq idle \cup active'
      BY <1>2 DEF LiveAreKnown, In, Of
    <3> QED BY <1>1, <3>4, <3>5, KnownIsBounded
  <2>2. CASE t # TypeOf[p]
    BY <2>2, NothingCreated DEF Filling, Changed
  <2> QED BY <2>1, <2>2
<1>4. PoolIsReplenished'
  <2> SUFFICES ASSUME NEW t \in Types
               PROVE  \/ Cardinality(Of(idle, t)) >= WarmPoolSize[t]
                      \/ Cardinality(Of(idle, t)) + Cardinality(Of(active', t)) >= MaxPoolSize[t]
                      \/ warming[t] > 0
    BY DEF PoolIsReplenished, Of
  <2>1. \/ Cardinality(Of(idle, t)) >= WarmPoolSize[t]
        \/ Cardinality(Of(idle, t)) + Cardinality(Of(active, t)) >= MaxPoolSize[t]
        \/ warming[t] > 0
    BY DEF Filling, PoolIsReplenished
  <2>2. Cardinality(Of(active, t)) <= Cardinality(Of(active', t))
    BY <1>1, OfIsMonotone
  <2>3. /\ Cardinality(Of(idle, t)) \in Nat /\ Cardinality(Of(active, t)) \in Nat
        /\ Cardinality(Of(active', t)) \in Nat
    BY <1>1, OfIsFinite
  <2> QED BY <2>1, <2>2, <2>3, PoolConstants
<1> QED BY <1>2, <1>3, <1>4 DEF Filling

\* With a failed call nothing is said of the pools.
LEMMA FailingFills ==
  ASSUME Handing', faults' # 0
  PROVE  Filling'
BY DEF Filling, LiveAreKnown, ClusterBounded, PoolIsReplenished

\* A pod that is released makes room, and the pool will be filled up.
LEMMA TerminateFills ==
  ASSUME Filling, Handing', NEW r \in Requests, Terminate(r), up, up', faults' = 0
  PROVE  Filling'
<1>1. PICK p \in Pods : p = request[r].pod /\ request[r].type = TypeOf[p]
  BY DEF Terminate, Filling, Handing, Resting, ReleaseIsTyped
<1>2. DEFINE u == TypeOf[p]
<1>3. ~Fault
  BY PoolConstants DEF Fault, Filling, Handing, TypeOK
<1>4. /\ active' = active \ {p} /\ Changed({}, {p}, None) /\ UNCHANGED <<idle, faults>>
      /\ warming' = [warming EXCEPT ![u] = @ + 1] /\ u \in Types /\ warming \in [Types -> Nat]
      /\ idle \in SUBSET Pods /\ active \in SUBSET Pods /\ active' \in SUBSET Pods
  BY <1>1, <1>3, PoolConstants DEF Terminate, WarmUp, Filling, Handing, TypeOK
<1>5. LiveAreKnown'
  BY <1>1, <1>4 DEF Filling, LiveAreKnown, In, Changed, Deletion
<1>6. ClusterBounded'
  BY <1>4, NothingCreated DEF Filling, ClusterBounded, Of, Changed, Deletion
<1>7. PoolIsReplenished'
  <2> SUFFICES ASSUME NEW t \in Types
               PROVE  \/ Cardinality(Of(idle, t)) >= WarmPoolSize[t]
                      \/ Cardinality(Of(idle, t)) + Cardinality(Of(active', t)) >= MaxPoolSize[t]
                      \/ warming'[t] > 0
    BY <1>4 DEF PoolIsReplenished, Of
  <2>1. CASE t = u
    BY <1>4, <2>1
  <2>2. CASE t # u
    <3>1. Of(active', t) = Of(active, t) /\ warming'[t] = warming[t]
      BY <1>4, <2>2, OfOne
    <3> QED BY <1>4, <3>1 DEF Filling, PoolIsReplenished
  <2> QED BY <2>1, <2>2
<1> QED BY <1>5, <1>6, <1>7 DEF Filling

\* Every step of a request keeps the pools within their limits, or warm, or looked at.
LEMMA ServeFills ==
  ASSUME Filling, Handing', NEW r \in Requests, Serve(r)
  PROVE  Filling'
<1>1. up /\ up'
  <2>1. UNCHANGED up /\ request[r].at # "idle"
    BY DEF Serve, Decide, Forget, Acquire, Store, Delete, Terminate, RequestFails
  <2> QED BY <2>1 DEF Filling, Handing, Resting, NothingWhenDown
<1>2. CASE faults' # 0
  BY <1>2, FailingFills
<1>3. CASE faults' = 0 /\ faults = 0
  <2>1. CASE Decide(r) \/ Forget(r) \/ Store(r) \/ Delete(r) \/ RequestFails(r)
    <3>1. UNCHANGED <<phase, pools>>
      BY <2>1 DEF Decide, Forget, Store, Delete, RequestFails, cluster
    <3> QED BY <1>1, <1>3, <3>1, LeavingFills
  <2>2. CASE Acquire(r) /\ AcquireWarm(r)
    BY <1>1, <2>2, AcquireWarmFills
  <2>3. CASE Acquire(r) /\ AcquireOnDemand(r)
    <3>1. ~Fault
      BY <1>3 DEF Fault
    <3>2. CASE UNCHANGED <<cluster, active, faults>>
      <4>1. UNCHANGED <<phase, pools>>
        BY <2>3, <3>2 DEF AcquireOnDemand, cluster, pools
      <4> QED BY <1>1, <1>3, <4>1, LeavingFills
    <3>3. ASSUME NEW p \in Of(In("new"), request[r].type), Changed({p}, {}, request[r].case),
                 active' = active \cup {p}, UNCHANGED faults,
                 Cardinality(Of(active, request[r].type)) < MaxPoolSize[request[r].type]
          PROVE  Filling'
      <4>1. p \in In("new") /\ TypeOf[p] = request[r].type
        BY DEF Of
      <4>2. UNCHANGED <<idle, warming>> /\ Of(idle, request[r].type) = {}
        BY <2>3 DEF AcquireOnDemand
      <4> QED BY <1>1, <1>3, <3>3, <4>1, <4>2, AcquireOnDemandFills
    <3> QED BY <2>3, <3>1, <3>2, <3>3 DEF AcquireOnDemand
  <2>4. CASE Terminate(r)
    BY <1>1, <1>3, <2>4, TerminateFills
  <2>5. Acquire(r) => AcquireWarm(r) \/ AcquireOnDemand(r)
    BY DEF Acquire
  <2> QED BY <2>1, <2>2, <2>3, <2>4, <2>5 DEF Serve
<1>4. faults' = 0 => faults = 0
  <2>1. UNCHANGED faults \/ Fault
    BY DEF Serve, Decide, Forget, Acquire, AcquireWarm, AcquireOnDemand, Store, Delete, Terminate,
       RequestFails, bounds
  <2> QED BY <2>1, PoolConstants DEF Fault, Filling, Handing, TypeOK
<1> QED BY <1>2, <1>3, <1>4

\* Pods that are created warm fill the pools up, at the start all of them.
LEMMA WarmingFills ==
  ASSUME Handing, Handing', up', NEW made \in SUBSET In("new"), NEW lost, NEW deleted, NEW ts,
         NEW free \in SUBSET Pods, NEW used \in SUBSET Pods, active' = used, faults' = 0,
         Warmed(made, lost, ts, free, used), Changed(made, deleted, None),
         \A p \in free : phase[p] # "new",
         In("live") \subseteq free \cup used, ClusterBounded, faults = 0,
         \A t \in Types : t \notin ts =>
           \/ Cardinality(Of(free, t)) >= WarmPoolSize[t]
           \/ Cardinality(Of(free, t)) + Cardinality(Of(used, t)) >= MaxPoolSize[t]
           \/ warming'[t] > 0
  PROVE  Filling'
<1>1. made \in SUBSET Pods /\ made \cap free = {} /\ idle' \in SUBSET Pods
  BY DEF In, Handing, TypeOK
<1>2. /\ idle' = free \cup made
      /\ \A t \in Types : t \notin ts => Cardinality(Of(idle', t)) = Cardinality(Of(free, t))
      /\ \A t \in Types : t \in ts =>
           Cardinality(Of(idle', t)) = Cardinality(Of(free, t)) + Missing(t, free, used)
  <2>1. TypeOK
    BY DEF Handing
  <2>2. idle' = free \cup made
    BY <1>1, <2>1, WarmedFills
  <2>3. ASSUME NEW t \in Types, t \notin ts
        PROVE  Cardinality(Of(idle', t)) = Cardinality(Of(free, t))
    <3>1. Of(idle', t) = Of(free, t)
      BY <2>2, <2>3 DEF Warmed, Of
    <3> QED BY <3>1
  <2>4. \A t \in Types : t \in ts =>
          Cardinality(Of(idle', t)) = Cardinality(Of(free, t)) + Missing(t, free, used)
    BY <1>1, <2>1, WarmedFills
  <2> QED BY <2>2, <2>3, <2>4
<1>3. LiveAreKnown'
  BY <1>2 DEF LiveAreKnown, In, Changed, Deletion
<1>4. PoolIsReplenished'
  <2> SUFFICES ASSUME NEW t \in Types
               PROVE  \/ Cardinality(Of(idle', t)) >= WarmPoolSize[t]
                      \/ Cardinality(Of(idle', t)) + Cardinality(Of(active', t)) >= MaxPoolSize[t]
                      \/ warming'[t] > 0
    BY DEF PoolIsReplenished, Of
  <2>1. CASE t \notin ts
    BY <1>2, <2>1
  <2>2. CASE t \in ts
    <3>1. Cardinality(Of(idle', t)) = Cardinality(Of(free, t)) + Missing(t, free, used)
      BY <1>2, <2>2
    <3> QED BY <1>1, <3>1, MissingFits
  <2> QED BY <2>1, <2>2
<1>5. ClusterBounded'
  <2> SUFFICES ASSUME NEW t \in Types PROVE Cardinality(Of(In("live")', t)) <= MaxPoolSize[t]
    BY DEF ClusterBounded, Of
  <2>1. CASE \E p \in made : TypeOf[p] = t
    <3>1. t \in ts /\ Missing(t, free, used) # 0
      <4>1. Of(made, t) # {} /\ IsFiniteSet(Of(made, t)) /\ Cardinality(Of(made, t)) \in Nat
        BY <1>1, <2>1, OfIsFinite DEF Of
      <4>2. Cardinality(Of(made, t)) # 0
        BY <4>1, FS_EmptySet
      <4> QED BY <1>1, <4>1, <4>2, MissingFits DEF Warmed
    <3>2. Cardinality(Of(idle', t)) + Cardinality(Of(active', t)) <= MaxPoolSize[t]
      BY <1>1, <1>2, <3>1, MissingFits
    <3>3. In("live")' \in SUBSET Pods /\ Of(In("live")', t) \subseteq idle' \cup active'
      BY <1>3 DEF LiveAreKnown, In, Of
    <3> QED BY <1>1, <3>2, <3>3, KnownIsBounded
  <2>2. CASE ~\E p \in made : TypeOf[p] = t
    <3>1. \A p \in Pods : TypeOf[p] = t /\ phase'[p] = "live" => phase[p] = "live"
      BY <2>2 DEF Changed, Deletion
    <3> QED BY <3>1, NothingCreated
  <2> QED BY <2>1, <2>2
<1> QED BY <1>3, <1>4, <1>5 DEF Filling

\* So does the task that fills a pool up.
LEMMA EnsureFills ==
  ASSUME Filling, Handing', NEW t \in Types, ensure_warm_pool(t)
  PROVE  Filling'
<1>1. PICK made, lost \in SUBSET In("new") :
        Warmed(made, lost, {t}, idle, active) /\ Changed(made, {}, None)
  BY DEF ensure_warm_pool
<1>2. UNCHANGED <<active, up>> /\ up /\ idle \in SUBSET Pods /\ warming \in [Types -> Nat]
  BY DEF ensure_warm_pool, Filling, Handing, TypeOK
<1>3. CASE faults' # 0
  BY <1>3, FailingFills
<1>4. CASE faults' = 0
  <2>1. faults = 0
    BY <1>1, <1>4, PoolConstants DEF Warmed, Fault, Filling, Handing, TypeOK
  <2>2. \A p \in idle : phase[p] # "new"
    BY <1>2 DEF Filling, Handing, Resting, NewIsUnused
  <2>3. \A u \in Types : u \notin {t} => warming'[u] = warming[u]
    BY <1>2 DEF ensure_warm_pool
  <2>4. In("live") \subseteq idle \cup active
    BY <1>2, <2>1 DEF Filling, LiveAreKnown
  <2>6. \A u \in Types : u \notin {t} =>
          \/ Cardinality(Of(idle, u)) >= WarmPoolSize[u]
          \/ Cardinality(Of(idle, u)) + Cardinality(Of(active, u)) >= MaxPoolSize[u]
          \/ warming'[u] > 0
    BY <1>2, <2>1, <2>3 DEF Filling, PoolIsReplenished
  <2>7. active \in SUBSET Pods /\ active' = active /\ up' /\ Handing
    BY <1>2 DEF Filling, Handing, TypeOK
  <2> QED BY <1>1, <1>2, <1>4, <2>1, <2>2, <2>4, <2>6, <2>7, WarmingFills DEF Filling
<1> QED BY <1>3, <1>4

\* So does the start, which finds again what lives, and fills all pools up.
LEMMA StartFills ==
  ASSUME Filling, Handing', Start
  PROVE  Filling'
<1>1. PICK found \in SUBSET Running, unwell \in SUBSET In("dead"), made, lost \in SUBSET In("new") :
        /\ active' = found \ Sorted(found)
        /\ Warmed(made, lost, Types, Sorted(found), found \ Sorted(found))
        /\ Changed(made, unwell, None)
        /\ found # Running => faults' # faults
  BY DEF Start
<1>2. CASE faults' # 0
  BY <1>2, FailingFills
<1>3. CASE faults' = 0
  <2>1. faults = 0 /\ found = Running
    BY <1>1, <1>3, PoolConstants DEF Warmed, Fault, Filling, Handing, TypeOK
  <2> DEFINE rest == found \ Sorted(found)
  <2>2. /\ Sorted(found) \in SUBSET Pods /\ rest \in SUBSET Pods
        /\ In("live") \subseteq Sorted(found) \cup rest
    BY <2>1 DEF In, Running, Sorted
  <2>3. \A p \in Sorted(found) : phase[p] # "new"
    BY <2>1 DEF In, Running, Sorted
  <2>4. up' /\ Handing /\ ClusterBounded
    BY DEF Start, Filling
  <2> QED BY <1>1, <1>3, <2>1, <2>2, <2>3, <2>4, WarmingFills
<1> QED BY <1>2, <1>3

\* So does every other step: a crash forgets the pools, and pods that stop make room.
LEMMA NextFills ==
  ASSUME Filling, [Next]_vars
  PROVE  Filling'
<1>1. Handing'
  BY NextHands DEF Filling
<1>2. ASSUME NEW r \in Requests, NEW c \in Cases, Receive(r, c) PROVE Filling'
  <2>1. UNCHANGED <<phase, up, pools, faults>>
    BY <1>2 DEF Receive, Release, Allocate, cluster, bounds
  <2> QED BY <1>1, <2>1, LeavingFills
<1>3. CASE Reconcile
  <2>1. UNCHANGED <<phase, up, pools>> /\ (UNCHANGED faults \/ Fault)
    BY <1>3 DEF Reconcile, ReconcileList, ReconcileOrphan, ReconcileDrop, ReconcileDone,
       ReconcileFails, cluster, bounds
  <2>2. faults' = 0 => faults = 0
    BY <2>1, PoolConstants DEF Fault, Filling, Handing, TypeOK
  <2> QED BY <1>1, <2>1, <2>2, LeavingFills
<1>4. CASE Crash
  BY <1>1, <1>4, LeavingFills DEF Crash, cluster
<1>5. ASSUME NEW p \in Pods, PodStops(p) PROVE Filling'
  <2>1. UNCHANGED <<up, pools, faults>> /\ \A q \in Pods : phase'[q] = "live" => phase[q] = "live"
    BY <1>5 DEF PodStops, bounds, Filling, Handing, TypeOK
  <2> QED BY <1>1, <2>1, LeavingFills
<1>6. CASE UNCHANGED vars
  BY <1>1, <1>6, LeavingFills DEF vars, pools
<1> QED BY <1>1, <1>2, <1>3, <1>4, <1>5, <1>6, ServeFills, EnsureFills, StartFills DEF Next

\* Without pods all limits are kept.
LEMMA InitFills ==
  ASSUME Init
  PROVE  Filling
<1>1. ClusterBounded
  <2> SUFFICES ASSUME NEW t \in Types PROVE Cardinality(Of(In("live"), t)) <= MaxPoolSize[t]
    BY DEF ClusterBounded
  <2>1. Of(In("live"), t) = {}
    BY DEF Init, In, Of
  <2> QED BY <2>1, FS_EmptySet, PoolConstants
<1> QED BY <1>1, InitHands DEF Init, Filling, LiveAreKnown, PoolIsReplenished

\* The inductive invariant of the sizes of the pools.
LEMMA FillingHolds == Spec => []Filling
<1>1. Init => Filling
  BY InitFills
<1>2. Filling /\ [Next]_vars => Filling'
  BY NextFills
<1> QED BY <1>1, <1>2, PTL DEF Spec

\* Without failed calls no type has more pods in the cluster than max_pool_size beside those that
\* are being deleted, through any number of warm-up tasks that wait, creations on demand, pods that
\* stop and restarts that find pods in their grace period (ensure_warm_pool, acquire_pod).
THEOREM ClusterStaysBounded == Spec => []ClusterBounded
<1>1. Filling => ClusterBounded
  BY DEF Filling
<1> QED BY <1>1, FillingHolds, PTL

\* Without failed calls a pool that lacks warm pods, and has room, is going to be looked at: each
\* acquisition and release leaves a task behind (acquire_pod, release_pod, ensure_warm_pool).
THEOREM PoolsAreReplenished == Spec => []PoolIsReplenished
<1>1. Filling => PoolIsReplenished
  BY DEF Filling
<1> QED BY <1>1, FillingHolds, PTL

================================================================================
