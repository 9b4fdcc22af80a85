-------------------------------- MODULE PodPool --------------------------------
(***************************************************************************)
(* The scheduler-service: scheduler_service.py with its allocations in     *)
(* Redis, pod_pool.py with its pools in memory, and the pods of the        *)
(* cluster that k8s_client.py creates, asks for and deletes.               *)
(*                                                                         *)
(* One process serves requests and cuts them where it awaits Redis.  The   *)
(* calls to the cluster block, so what a pool does under its lock is one   *)
(* action; the lock is never held across an await.                         *)
(*                                                                         *)
(* Data: a pod is its name, which tells its type and is never used again   *)
(* (uuid4); live stands for the phases Pending and Running, and so does    *)
(* ending, of a pod that is deleted and has its grace period left; dead    *)
(* stands for the others, gone for a pod the cluster does not know any     *)
(* more.                                                                   *)
(***************************************************************************)
EXTENDS Integers, FiniteSets

CONSTANTS
  Cases,         \* cases that pods are allocated for
  Types,         \* assistant types of the registry
  Requests,      \* requests the service works on at a time
  Pods,          \* names of pods
  TypeOf,        \* the type in a pod's name
  WarmPoolSize,  \* warm_pool_size, of each type
  MaxPoolSize,   \* max_pool_size, of each type
  None,          \* no case, no pod
  MaxRestarts,   \* bound: ends of the process
  MaxFaults      \* bound: calls of the cluster or of Redis that fail

ASSUME PoolConstants ==
  /\ IsFiniteSet(Pods) /\ TypeOf \in [Pods -> Types]
  /\ WarmPoolSize \in [Types -> Nat] /\ MaxPoolSize \in [Types -> Nat]
  /\ None \notin Pods /\ None \notin Cases
  /\ MaxRestarts \in Nat /\ MaxFaults \in Nat

VARIABLES
  \* --- the cluster
  phase,        \* of each pod
  annotation,   \* the case a pod was created for, which is none for a warm pod
  \* --- Redis
  allocation,   \* scheduler:allocations, by case
  \* --- the process
  up, idle, active,
  warming,      \* ensure_warm_pool() tasks that wait for their turn, by type
  request,
  scan,         \* reconcile_allocations(): what it listed, and the case it deletes
  restarts, faults,
  \* --- history: pods that were created warm and that a case had when the process ended
  outlived

vars == <<phase, annotation, allocation, up, idle, active, warming, request, scan, restarts, faults,
          outlived>>
cluster   == <<phase, annotation>>
pools     == <<idle, active, warming>>
ends      == <<restarts, outlived>>
bounds    == <<ends, faults>>

Phases == {"new", "live", "ending", "dead", "gone"}
Steps  == {"idle", "decide", "forget", "acquire", "store", "delete", "terminate"}

Free    == [at |-> "idle", case |-> None, type |-> None, pod |-> None]
NoScan  == [at |-> "none", listed |-> {}, drop |-> None]

TypeOK ==
  /\ phase \in [Pods -> Phases]
  /\ annotation \in [Pods -> Cases \cup {None}]
  /\ allocation \in [Cases -> Pods \cup {None}]
  /\ up \in BOOLEAN
  /\ idle \subseteq Pods /\ active \subseteq Pods
  /\ warming \in [Types -> Nat]
  /\ request \in [Requests -> [at : Steps, case : Cases \cup {None}, type : Types \cup {None},
                               pod : Pods \cup {None}]]
  /\ scan \in [at : {"none", "list", "each", "drop"}, listed : SUBSET (Cases \X Pods),
               drop : Cases \cup {None}]
  /\ restarts \in 0 .. MaxRestarts
  /\ faults \in 0 .. MaxFaults
  /\ outlived \subseteq Pods

Init ==
  /\ phase = [p \in Pods |-> "new"]
  /\ annotation = [p \in Pods |-> None]
  /\ allocation = [c \in Cases |-> None]
  /\ up = FALSE
  /\ idle = {} /\ active = {} /\ warming = [t \in Types |-> 0]
  /\ request = [r \in Requests |-> Free]
  /\ scan = NoScan
  /\ restarts = 0 /\ faults = 0 /\ outlived = {}

--------------------------------------------------------------------------------
(***************************************************************************)
(* The cluster                                                             *)
(***************************************************************************)
Of(S, t) == {p \in S : TypeOf[p] = t}
In(ph)   == {p \in Pods : phase[p] = ph}

\* Pods that are Pending or Running for who asks: one that is deleted is so to its end.
Running  == In("live") \cup In("ending")

\* A call fails, as often as the bound allows.
Fault == faults < MaxFaults /\ faults' = faults + 1

\* delete_pod(): a pod that runs gets its grace period, any other goes.
Deletion(p) == IF p \in Running THEN "ending" ELSE "gone"

\* create_pod() of some, for the case if there is one, and delete_pod() of others.
Changed(made, deleted, case) ==
  /\ phase' = [p \in Pods |-> IF p \in made THEN "live"
                              ELSE IF p \in deleted THEN Deletion(p) ELSE phase[p]]
  /\ annotation' = [p \in Pods |-> IF p \in made THEN case ELSE annotation[p]]

\* A pod ends, at the latest with its grace period, is evicted or deleted by somebody else.
PodStops(p) ==
  /\ phase[p] \in {"live", "ending", "dead"}
  /\ \E ph \in {"ending", "dead", "gone"} :
       (ph = "ending" => phase[p] = "live") /\ phase' = [phase EXCEPT ![p] = ph]
  /\ UNCHANGED <<annotation, allocation, up, pools, request, scan, bounds>>

--------------------------------------------------------------------------------
(***************************************************************************)
(* Pools                                                                   *)
(***************************************************************************)
Least(m, n) == IF m <= n THEN m ELSE n

\* What ensure_warm_pool() creates: pods missing to warm_pool_size, within max_pool_size.
Missing(t, free, used) ==
  LET needed == Least(WarmPoolSize[t] - Cardinality(Of(free, t)),
                      MaxPoolSize[t] - Cardinality(Of(free, t)) - Cardinality(Of(used, t)))
  IN  IF needed > 0 THEN needed ELSE 0

\* Warm pods, of each type as many as missing, or fewer if creations fail; lost ones were
\* created although the call says that they were not.
Warmed(made, lost, ts, free, used) ==
  /\ lost \subseteq made /\ \A t \in Types \ ts : Of(made, t) = {}
  /\ \A t \in ts : Cardinality(Of(made, t)) <= Missing(t, free, used)
  /\ \/ Fault
     \/ /\ \A t \in ts : Cardinality(Of(made, t)) = Missing(t, free, used)
        /\ lost = {} /\ UNCHANGED faults
  /\ idle' = free \cup (made \ lost)

\* Mutant of WarmUp: the pool is looked at again at the next restart only.
NoWarmUp(t) == UNCHANGED warming

\* A task that will fill the pool up is started.
WarmUp(t) == warming' = [warming EXCEPT ![t] = @ + 1]

ensure_warm_pool(t) ==
  /\ up /\ warming[t] > 0
  /\ warming' = [warming EXCEPT ![t] = @ - 1]
  /\ \E made, lost \in SUBSET In("new") :
       Warmed(made, lost, {t}, idle, active) /\ Changed(made, {}, None)
  /\ UNCHANGED <<allocation, up, active, request, scan, ends>>

\* Mutant of Sorted: a pod is taken for free whomever it was created for.
SortedFree(found) == found

\* initialize(): a pod of the cluster is free if it was created for no case.
Sorted(found) == {p \in found : annotation[p] = None}

\* start(): the pods that run are sorted, what is not well is deleted, and the pools are
\* filled.  A call that fails hides pods, and may end it before the reconciliation.
Start ==
  /\ ~up /\ up' = TRUE
  /\ \E found \in SUBSET Running, unwell \in SUBSET In("dead"), made, lost \in SUBSET In("new") :
       /\ active' = found \ Sorted(found)
       /\ Warmed(made, lost, Types, Sorted(found), found \ Sorted(found))
       /\ Changed(made, unwell, None)
       /\ found # Running => faults' # faults
  /\ \/ scan' = [NoScan EXCEPT !.at = "list"]
     \/ scan' = NoScan /\ faults' # faults
  /\ UNCHANGED <<allocation, warming, request, ends>>

\* The process ends with what it has in memory; Redis and the cluster stay.
Crash ==
  /\ up /\ restarts < MaxRestarts
  /\ up' = FALSE /\ restarts' = restarts + 1
  /\ idle' = {} /\ active' = {} /\ warming' = [t \in Types |-> 0]
  /\ request' = [r \in Requests |-> Free]
  /\ scan' = NoScan
  /\ outlived' = outlived \cup {p \in Running : annotation[p] = None /\ \E c \in Cases : allocation[c] = p}
  /\ UNCHANGED <<cluster, allocation, faults>>

--------------------------------------------------------------------------------
(***************************************************************************)
(* POST /pods/allocate                                                     *)
(***************************************************************************)
Goes(r, label) == request' = [request EXCEPT ![r].at = label]
Answer(r)      == request' = [request EXCEPT ![r] = Free]
Holds(r, p)    == request' = [request EXCEPT ![r].at = "store", ![r].pod = p]

\* The case's allocation is read.
Allocate(r, c, t) ==
  /\ up /\ request[r].at = "idle"
  /\ request' = [request EXCEPT ![r] = [at |-> "decide", case |-> c, type |-> t,
                                        pod |-> allocation[c]]]
  /\ UNCHANGED <<cluster, allocation, up, pools, scan, bounds>>

Reusable(r) == TypeOf[request[r].pod] = request[r].type /\ request[r].pod \in Running

\* The pod there is does, or its allocation is to go; a status that cannot be read is no status.
Decide(r) ==
  /\ request[r].at = "decide" /\ request[r].pod # None
  /\ \/ Reusable(r) /\ Answer(r) /\ UNCHANGED faults
     \/ Reusable(r) /\ Goes(r, "forget") /\ Fault
     \/ ~Reusable(r) /\ Goes(r, "forget") /\ UNCHANGED faults
  /\ UNCHANGED <<cluster, allocation, up, pools, scan, ends>>

Forget(r) ==
  /\ request[r].at = "forget"
  /\ allocation' = [allocation EXCEPT ![request[r].case] = None]
  /\ Goes(r, "acquire")
  /\ UNCHANGED <<cluster, up, pools, scan, bounds>>

\* acquire_pod(): a warm pod ...
AcquireWarm(r) ==
  /\ \E p \in Of(idle, request[r].type) :
       idle' = idle \ {p} /\ active' = active \cup {p} /\ Holds(r, p)
  /\ WarmUp(request[r].type)
  /\ UNCHANGED <<cluster, faults>>

\* ... or one created for the case, if there is room and the creation succeeds.
AcquireOnDemand(r) ==
  /\ Of(idle, request[r].type) = {}
  /\ \/ /\ Cardinality(Of(active, request[r].type)) < MaxPoolSize[request[r].type]
        /\ \/ \E p \in Of(In("new"), request[r].type) :
                Changed({p}, {}, request[r].case) /\ active' = active \cup {p} /\ Holds(r, p)
                /\ UNCHANGED faults
           \/ \E lost \in {{}} \cup {{p} : p \in Of(In("new"), request[r].type)} :
                Changed(lost, {}, request[r].case) /\ Fault /\ Answer(r) /\ UNCHANGED active
     \/ /\ Cardinality(Of(active, request[r].type)) >= MaxPoolSize[request[r].type]
        /\ Answer(r) /\ UNCHANGED <<cluster, active, faults>>
  /\ UNCHANGED <<idle, warming>>

Acquire(r) ==
  /\ \/ request[r].at = "decide" /\ request[r].pod = None
     \/ request[r].at = "acquire"
  /\ AcquireWarm(r) \/ AcquireOnDemand(r)
  /\ UNCHANGED <<allocation, up, scan, ends>>

Store(r) ==
  /\ request[r].at = "store"
  /\ allocation' = [allocation EXCEPT ![request[r].case] = request[r].pod]
  /\ Answer(r)
  /\ UNCHANGED <<cluster, up, pools, scan, bounds>>

--------------------------------------------------------------------------------
(***************************************************************************)
(* POST /pods/release                                                      *)
(***************************************************************************)
\* A case without an allocation is answered with 404.
Release(r, c) ==
  /\ up /\ request[r].at = "idle" /\ allocation[c] # None
  /\ request' = [request EXCEPT ![r] = [at |-> "delete", case |-> c, type |-> TypeOf[allocation[c]],
                                        pod |-> allocation[c]]]
  /\ UNCHANGED <<cluster, allocation, up, pools, scan, bounds>>

\* Mutant of Delete: the pool is told first, and the allocation stays for the time being.
DeleteLater(r) ==
  /\ request[r].at = "delete" /\ Goes(r, "terminate")
  /\ UNCHANGED <<cluster, allocation, up, pools, scan, bounds>>

Delete(r) ==
  /\ request[r].at = "delete"
  /\ allocation' = [allocation EXCEPT ![request[r].case] = None]
  /\ Goes(r, "terminate")
  /\ UNCHANGED <<cluster, up, pools, scan, bounds>>

\* release_pod() of the pool: whether the pod is deleted is not asked, but a call that raises
\* ends the request before the pool is filled up.
Terminate(r) ==
  /\ request[r].at = "terminate"
  /\ active' = active \ {request[r].pod}
  /\ \/ Changed({}, {request[r].pod}, None) /\ WarmUp(request[r].type) /\ UNCHANGED faults
     \/ \E deleted \in {{}, {request[r].pod}} :
          Changed({}, deleted, None) /\ (WarmUp(request[r].type) \/ UNCHANGED warming) /\ Fault
  /\ Answer(r)
  /\ UNCHANGED <<allocation, up, idle, scan, ends>>

\* A status or a write to Redis, whether it took effect or not, raises and ends the request.
RequestFails(r) ==
  /\ Fault
  /\ \/ request[r].at \in {"decide", "forget", "store", "delete"} /\ UNCHANGED allocation
     \/ /\ request[r].at \in {"forget", "delete"}
        /\ allocation' = [allocation EXCEPT ![request[r].case] = None]
     \/ /\ request[r].at = "store"
        /\ allocation' = [allocation EXCEPT ![request[r].case] = request[r].pod]
  /\ Answer(r)
  /\ UNCHANGED <<cluster, up, pools, scan, ends>>

--------------------------------------------------------------------------------
(***************************************************************************)
(* reconcile_allocations(), after the start, while requests are served     *)
(***************************************************************************)
ReconcileList ==
  /\ scan.at = "list"
  /\ scan' = [scan EXCEPT !.at = "each",
                          !.listed = {<<c, allocation[c]>> : c \in {d \in Cases : allocation[d] # None}}]
  /\ UNCHANGED <<cluster, allocation, up, pools, request, bounds>>

Known(e) == phase[e[2]] \in {"live", "ending", "dead"}

\* One listed allocation after the other is looked at until one has no pod, or a status that
\* cannot be read.
ReconcileOrphan ==
  /\ scan.at = "each"
  /\ \E e \in scan.listed, kept \in SUBSET scan.listed :
       /\ e \notin kept /\ \A k \in kept : Known(k)
       /\ \/ ~Known(e) /\ UNCHANGED faults
          \/ Known(e) /\ Fault
       /\ scan' = [at |-> "drop", listed |-> scan.listed \ (kept \cup {e}), drop |-> e[1]]
  /\ UNCHANGED <<cluster, allocation, up, pools, request, ends>>

ReconcileDrop ==
  /\ scan.at = "drop"
  /\ allocation' = [allocation EXCEPT ![scan.drop] = None]
  /\ scan' = [scan EXCEPT !.at = "each", !.drop = None]
  /\ UNCHANGED <<cluster, up, pools, request, bounds>>

ReconcileDone ==
  /\ scan.at = "each" /\ \A e \in scan.listed : Known(e)
  /\ scan' = NoScan
  /\ UNCHANGED <<cluster, allocation, up, pools, request, bounds>>

\* A call that raises ends it, whether the allocation is deleted or not.
ReconcileFails ==
  /\ scan.at # "none" /\ Fault
  /\ \/ UNCHANGED allocation
     \/ scan.at = "drop" /\ allocation' = [allocation EXCEPT ![scan.drop] = None]
  /\ scan' = NoScan
  /\ UNCHANGED <<cluster, up, pools, request, ends>>

--------------------------------------------------------------------------------
Serve(r) ==
  \/ Decide(r) \/ Forget(r) \/ Acquire(r) \/ Store(r)
  \/ Delete(r) \/ Terminate(r) \/ RequestFails(r)

Receive(r, c) == Release(r, c) \/ \E t \in Types : Allocate(r, c, t)

Reconcile == ReconcileList \/ ReconcileOrphan \/ ReconcileDrop \/ ReconcileDone \/ ReconcileFails

Next ==
  \/ \E r \in Requests : Serve(r) \/ \E c \in Cases : Receive(r, c)
  \/ \E t \in Types : ensure_warm_pool(t)
  \/ Reconcile \/ Start \/ Crash
  \/ \E p \in Pods : PodStops(p)

Spec == Init /\ [][Next]_vars

--------------------------------------------------------------------------------
\* However allocations, releases, deletions that take their time and the reconciliation overlap,
\* no pod stands for two cases, unless it was created warm and a case had it when the process
\* ended (see below); any other pod a new process finds or creates is handed out once.
PodServesOneCase ==
  \A c, d \in Cases :
    c # d /\ allocation[c] # None /\ allocation[c] = allocation[d] => allocation[c] \in outlived

\* No request is about to terminate a pod that a case has: the allocation goes first, and the pod
\* is not handed out again while a release that has read it is under way, with the same exception.
TerminatedIsForgotten ==
  \A r \in Requests, c \in Cases :
    request[r].at = "terminate" /\ allocation[c] = request[r].pod => request[r].pod \in outlived

\* As long as no call fails, no type has more pods in the cluster than max_pool_size beside those
\* that are being deleted, through warm-ups, creations on demand, pods that stop and restarts.
\* With those it may: a replacement does not wait for the grace period.
ClusterBounded ==
  faults = 0 => \A t \in Types : Cardinality(Of(In("live"), t)) <= MaxPoolSize[t]

\* As long as no call fails, a pool that has room and lacks warm pods has a task that will see.
PoolIsReplenished ==
  up /\ faults = 0 =>
    \A t \in Types :
      \/ Cardinality(Of(idle, t)) >= WarmPoolSize[t]
      \/ Cardinality(Of(idle, t)) + Cardinality(Of(active, t)) >= MaxPoolSize[t]
      \/ warming[t] > 0

--------------------------------------------------------------------------------
(***************************************************************************)
(* Promises that the code does not keep (README.md, section 3)             *)
(***************************************************************************)
\* "One pod, one case": k8s_client.py:49.  A restart sorts by the annotation, which a warm pod
\* never gets when it is acquired.
OnePodOneCase ==
  \A c, d \in Cases : c # d /\ allocation[c] # None => allocation[c] # allocation[d]

\* "At most max_pool_size, by type": docs/solution/架构设计.md:836.  A replacement is created while
\* the pod that was released still runs its grace period.
RunningBounded ==
  faults = 0 => \A t \in Types : Cardinality(Of(Running, t)) <= MaxPoolSize[t]

\* "Normal allocations are kept untouched": scheduler_service.py:48.  The orphan is deleted by
\* its case, which may have been given another pod since.
NormalAllocationsStay ==
  [][\A c \in Cases :
       scan.at = "drop" /\ scan'.at = "each" /\ scan.drop = c /\ allocation[c] # None =>
         allocation[c] \notin Running]_vars

================================================================================
