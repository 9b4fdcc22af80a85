---------------------------- MODULE BundleActivation ----------------------------
(***************************************************************************)
(* Fixture bundles of the HCI simulator: bundle_registry.go keeps their    *)
(* life cycle, run_repository.go the durable pointer of a support id, and  *)
(* activation.go moves the router the runtime serves after it.             *)
(*                                                                         *)
(* One support id; every statement of the repository is a transaction, and *)
(* nothing holds a lock from one step of an activation to the next.  The   *)
(* requests and the retry loop die with the runtime; tables survive it.    *)
(*                                                                         *)
(* Data: a bundle is its digest.  parent stands for the input fingerprint  *)
(* (a revision freezes its parent's digest in it), approvals for the rows  *)
(* of stage "approve", publisher for the role in the row of the last       *)
(* "publish".  MarkStale() has no caller; bundles delivered by GitOps      *)
(* cannot be activated and appear as the router the runtime boots with.    *)
(***************************************************************************)
EXTENDS Naturals

CONSTANTS
  Digests,     \* digests of compiled bundles
  Actors,      \* authenticated users of the control plane
  Authors,     \* those of them who compile or revise
  Requests,    \* publish, activate and rollback requests served at a time
  GitOps,      \* digest of the bundle mounted into the runtime
  None,        \* no digest
  MaxRequests, \* bound: requests ever received
  MaxFaults    \* bound: failed calls and crashes

ASSUME BundleConstants ==
  /\ Authors \subseteq Actors /\ Authors # {}
  /\ GitOps \notin Digests /\ None \notin Digests /\ GitOps # None
  /\ "loop" \notin Requests
  /\ MaxRequests \in Nat /\ MaxFaults \in Nat

Processes == Requests \cup {"loop"}   \* "loop": runtimeBundleActivationLoop

VARIABLES
  bundles,     \* table fixture.bundle, with the rows of fixture.approval
  pointer,     \* the row of fixture.bundle_activation
  routers,     \* BundlePool.routersByDigest
  served,      \* BundlePool.active
  runtime,     \* "down", "reconciling" (before Ready) or "ready"
  process,     \* where each activation stands, and the digest it moves to
  received,    \* requests received
  faults       \* failures so far

vars == <<bundles, pointer, routers, served, runtime, process, received, faults>>

Approvals == [actor : Actors, role : {"expert", "security"}]

Bundle == [status : {"absent", "draft", "validated", "approved", "published", "stale", "retired"},
           creator : Authors, parent : Digests \cup {None}, approvals : SUBSET Approvals,
           publisher : {"none", "expert", "publisher"}]

NewBundle(a, parent) ==
  [status |-> "draft", creator |-> a, parent |-> parent, approvals |-> {}, publisher |-> "none"]

Pointer == [desired : Digests \cup {None}, active : Digests \cup {None},
            previous : Digests \cup {None}, status : {"absent", "pending", "active", "failed"}]

Idle == [pc |-> "idle", digest |-> None]

Steps == {"idle", "publish", "fastPublish", "get", "request", "swap", "ack", "fail"}

TypeOK ==
  /\ bundles \in [Digests -> Bundle]
  /\ pointer \in Pointer
  /\ routers \subseteq Digests \cup {GitOps}
  /\ served \in Digests \cup {GitOps}
  /\ runtime \in {"down", "reconciling", "ready"}
  /\ process \in [Processes -> [pc : Steps, digest : Digests \cup {None}]]
  /\ received \in 0 .. MaxRequests
  /\ faults \in 0 .. MaxFaults

Init ==
  /\ \E a \in Authors :
       bundles = [d \in Digests |-> [NewBundle(a, None) EXCEPT !.status = "absent"]]
  /\ pointer = [desired |-> None, active |-> None, previous |-> None, status |-> "absent"]
  /\ routers = {GitOps} /\ served = GitOps
  /\ runtime = "down"
  /\ process = [p \in Processes |-> Idle]
  /\ received = 0 /\ faults = 0

Status(d) == bundles[d].status
At(p, step) == process[p].pc = step
Goto(p, step) == process' = [process EXCEPT ![p].pc = step]
Finish(p) == process' = [process EXCEPT ![p] = Idle]
Fault == faults < MaxFaults /\ faults' = faults + 1

--------------------------------------------------------------------------------
(***************************************************************************)
(* The registry: one transaction each, asked for while the runtime serves  *)
(***************************************************************************)
registryOnly == <<pointer, routers, served, runtime, process, received, faults>>

\* A bundle compiled from an input that is new, or that was compiled before; an input
\* that is new but yields a known digest inserts nothing (ON CONFLICT DO NOTHING).
Compiled(d, a, parent, known) ==
  CASE Status(d) = "absent" -> NewBundle(a, parent)
    [] known /\ Status(d) \in {"retired", "stale"} -> [bundles[d] EXCEPT !.status = "draft"]
    [] OTHER -> bundles[d]

Compile(d, a) ==
  /\ runtime = "ready"
  /\ bundles' = [bundles EXCEPT ![d] = Compiled(d, a, None, bundles[d].parent = None)]
  /\ UNCHANGED registryOnly

\* Mutant of ReviseDraft: it supersedes its parent whatever its status.
ReviseAndSupersede(p, d, a, sameReason) ==
  /\ runtime = "ready"
  /\ p # d
  /\ Status(p) \in {"draft", "validated", "published"}
  /\ bundles' = [bundles EXCEPT ![d] = Compiled(d, a, p, bundles[d].parent = p /\ sameReason),
                                ![p].status = "stale"]
  /\ UNCHANGED registryOnly

\* The expert's edit of a bundle becomes a draft; the parent, if still one, goes stale.
ReviseDraft(p, d, a, sameReason) ==
  /\ runtime = "ready"
  /\ p # d
  /\ Status(p) \in {"draft", "validated", "published"}
  /\ bundles' = [bundles EXCEPT
       ![d] = Compiled(d, a, p, bundles[d].parent = p /\ sameReason),
       ![p].status = IF @ = "draft" THEN "stale" ELSE @]
  /\ UNCHANGED registryOnly

Retire(d) ==
  /\ runtime = "ready"
  /\ Status(d) \in {"draft", "stale"}
  /\ d \notin {pointer.desired, pointer.active, pointer.previous}
  /\ bundles' = [bundles EXCEPT ![d].status = "retired"]
  /\ UNCHANGED registryOnly

Validate(d) ==
  /\ runtime = "ready"
  /\ Status(d) = "draft"
  /\ bundles' = [bundles EXCEPT ![d].status = "validated"]
  /\ UNCHANGED registryOnly

\* Mutant of Approve: it does not look for the same person's in the other role.
ApproveTwice(d, a, role) ==
  /\ runtime = "ready"
  /\ Status(d) = "validated"
  /\ a # bundles[d].creator
  /\ \A x \in bundles[d].approvals : x.role # role
  /\ LET approvals == bundles[d].approvals \cup {[actor |-> a, role |-> role]}
     IN  bundles' = [bundles EXCEPT
           ![d].approvals = approvals,
           ![d].status = IF {x.role : x \in approvals} = {"expert", "security"}
                         THEN "approved" ELSE @]
  /\ UNCHANGED registryOnly

Approve(d, a, role) ==
  /\ runtime = "ready"
  /\ Status(d) = "validated"
  /\ a # bundles[d].creator
  /\ \A x \in bundles[d].approvals : x.actor # a /\ x.role # role
  /\ LET approvals == bundles[d].approvals \cup {[actor |-> a, role |-> role]}
     IN  bundles' = [bundles EXCEPT
           ![d].approvals = approvals,
           ![d].status = IF {x.role : x \in approvals} = {"expert", "security"}
                         THEN "approved" ELSE @]
  /\ UNCHANGED registryOnly

Author(d) ==
  \/ Retire(d) \/ Validate(d)
  \/ \E a \in Authors : \/ Compile(d, a)
                       \/ \E p \in Digests, same \in BOOLEAN : ReviseDraft(p, d, a, same)
  \/ \E a \in Actors, role \in {"expert", "security"} : Approve(d, a, role)

--------------------------------------------------------------------------------
(***************************************************************************)
(* Publishing, activating and rolling back                                 *)
(***************************************************************************)
Receive(r, step, d) ==
  /\ runtime = "ready" /\ At(r, "idle") /\ received < MaxRequests
  /\ received' = received + 1
  /\ process' = [process EXCEPT ![r] = [pc |-> step, digest |-> d]]
  /\ UNCHANGED <<bundles, pointer, routers, served, runtime, faults>>

ActivateRequest(r, d) == Receive(r, "get", d)
RollbackRequest(r) == pointer.previous # None /\ Receive(r, "get", pointer.previous)

PublishRequest(r, d) == Status(d) = "approved" /\ Receive(r, "publish", d)
FastPublishRequest(r, d) == Status(d) \in {"draft", "validated"} /\ Receive(r, "fastPublish", d)

\* The update asks for no status: the approved bundle was read before.
Publish(r) ==
  LET d == process[r].digest
  IN  /\ At(r, "publish")
      /\ bundles' = [bundles EXCEPT
           ![d].status = "published", ![d].publisher = "publisher"]
      /\ Goto(r, "get")
      /\ UNCHANGED <<pointer, routers, served, runtime, received, faults>>

PublishInternalFast(r) ==
  LET d == process[r].digest
  IN  /\ At(r, "fastPublish")
      /\ \/ /\ Status(d) \in {"draft", "validated"}
            /\ bundles' = [bundles EXCEPT
                 ![d].status = "published", ![d].publisher = "expert"]
            /\ Goto(r, "get")
         \/ /\ Status(d) \notin {"draft", "validated"}
            /\ Finish(r)
            /\ UNCHANGED bundles
      /\ UNCHANGED <<pointer, routers, served, runtime, received, faults>>

\* The loop picks the row up, and the boot once before Ready, from what it lists.
Unsettled == pointer.status \in {"pending", "failed"}

\* Mutant of ReconcilePending: rows whose activation failed are left alone.
ReconcileUnanswered ==
  /\ runtime = "ready" /\ At("loop", "idle") /\ pointer.status = "pending"
  /\ process' = [process EXCEPT !["loop"] = [pc |-> "get", digest |-> pointer.desired]]
  /\ UNCHANGED <<bundles, pointer, routers, served, runtime, received, faults>>

ReconcilePending ==
  /\ runtime = "ready" /\ At("loop", "idle") /\ Unsettled
  /\ process' = [process EXCEPT !["loop"] = [pc |-> "get", digest |-> pointer.desired]]
  /\ UNCHANGED <<bundles, pointer, routers, served, runtime, received, faults>>

--------------------------------------------------------------------------------
(***************************************************************************)
(* ActivateBundle(): read the object, request, swap the router, confirm    *)
(***************************************************************************)
GetPublished(p) ==
  /\ At(p, "get")
  /\ IF Status(process[p].digest) = "published" THEN Goto(p, "request") ELSE Finish(p)
  /\ UNCHANGED <<bundles, pointer, routers, served, runtime, received, faults>>

\* Mutant of Requested: the digest to roll back to is taken from memory.
RequestedOver(d) ==
  [desired |-> d, active |-> pointer.active, status |-> "pending",
   previous |-> IF served # d THEN served ELSE pointer.previous]

Requested(d) ==
  [desired |-> d, active |-> pointer.active, status |-> "pending",
   previous |-> IF pointer.active # d THEN pointer.active ELSE pointer.previous]

RequestBundleActivation(p) ==
  LET d == process[p].digest
  IN  /\ At(p, "request")
      /\ IF Status(d) = "published"
         THEN pointer' = Requested(d) /\ Goto(p, "swap")
         ELSE Finish(p) /\ UNCHANGED pointer
      /\ UNCHANGED <<bundles, routers, served, runtime, received, faults>>

\* BundlePool.Activate(): routers of earlier digests stay for the leases bound to them.
Activate(p) ==
  /\ At(p, "swap")
  /\ routers' = routers \cup {process[p].digest}
  /\ served' = process[p].digest
  /\ Goto(p, "ack")
  /\ UNCHANGED <<bundles, pointer, runtime, received, faults>>

\* Mutant of Awaited: a confirmation does not say what it confirms.
AwaitedAny(d) == pointer.status = "pending"

Awaited(d) == pointer.desired = d /\ pointer.status = "pending"

Confirmed == [pointer EXCEPT !.active = pointer.desired, !.status = "active"]

AckBundleActivation(p) ==
  /\ At(p, "ack")
  /\ IF Awaited(process[p].digest)
     THEN pointer' = Confirmed /\ Finish(p)
     ELSE Goto(p, "fail") /\ UNCHANGED pointer
  /\ UNCHANGED <<bundles, routers, served, runtime, received, faults>>

FailBundleActivation(p) ==
  /\ At(p, "fail")
  /\ pointer' = IF Awaited(process[p].digest)
                THEN [pointer EXCEPT !.status = "failed"] ELSE pointer
  /\ Finish(p)
  /\ UNCHANGED <<bundles, routers, served, runtime, received, faults>>

\* A call fails: its statement did not commit, or it did and the row is not read back.
CallFails(p) ==
  /\ Fault
  /\ \/ At(p, "publish") /\ Finish(p) /\ UNCHANGED pointer
     \/ At(p, "fastPublish") /\ Finish(p) /\ UNCHANGED pointer
     \/ At(p, "get") /\ Finish(p) /\ UNCHANGED pointer
     \/ At(p, "request") /\ Finish(p) /\ UNCHANGED pointer
     \/ /\ At(p, "request") /\ Status(process[p].digest) = "published"
        /\ Finish(p) /\ pointer' = Requested(process[p].digest)
     \/ At(p, "ack") /\ Goto(p, "fail") /\ UNCHANGED pointer
     \/ /\ At(p, "ack") /\ Awaited(process[p].digest)
        /\ Goto(p, "fail") /\ pointer' = Confirmed
     \/ At(p, "fail") /\ Finish(p) /\ UNCHANGED pointer
  /\ UNCHANGED <<bundles, routers, served, runtime, received>>

ActivateBundle(p) ==
  \/ GetPublished(p) \/ RequestBundleActivation(p) \/ Activate(p)
  \/ AckBundleActivation(p) \/ FailBundleActivation(p)

--------------------------------------------------------------------------------
(***************************************************************************)
(* The runtime                                                             *)
(***************************************************************************)
Crash ==
  /\ runtime # "down" /\ Fault
  /\ runtime' = "down"
  /\ routers' = {GitOps} /\ served' = GitOps
  /\ process' = [p \in Processes |-> Idle]
  /\ UNCHANGED <<bundles, pointer, received>>

\* RestoreActive() takes only rows that are "active"; any failure stops the boot.
RestoreActive ==
  /\ runtime = "down"
  /\ \/ /\ pointer.status # "active"
        /\ UNCHANGED <<routers, served>>
     \/ /\ pointer.status = "active"
        /\ pointer.desired = pointer.active /\ Status(pointer.active) = "published"
        /\ routers' = routers \cup {pointer.active}
        /\ served' = pointer.active
  /\ runtime' = "reconciling"
  /\ process' = IF Unsettled
                THEN [process EXCEPT !["loop"] = [pc |-> "get", digest |-> pointer.desired]]
                ELSE process
  /\ UNCHANGED <<bundles, pointer, received, faults>>

\* ReconcilePending() logs an activation that fails, and the boot goes on.
BecomeReady ==
  /\ runtime = "reconciling" /\ At("loop", "idle")
  /\ runtime' = "ready"
  /\ UNCHANGED <<bundles, pointer, routers, served, process, received, faults>>

--------------------------------------------------------------------------------
Serve(r) ==
  \/ \E d \in Digests : ActivateRequest(r, d) \/ PublishRequest(r, d) \/ FastPublishRequest(r, d)
  \/ RollbackRequest(r) \/ Publish(r) \/ PublishInternalFast(r)

Next ==
  \/ \E d \in Digests : Author(d)
  \/ \E r \in Requests : Serve(r)
  \/ \E p \in Processes : ActivateBundle(p) \/ CallFails(p)
  \/ ReconcilePending \/ RestoreActive \/ BecomeReady \/ Crash

Spec == Init /\ [][Next]_vars

\* The runtime is restarted, its loop ticks and a request under way goes on.
FairSpec ==
  /\ Spec
  /\ WF_vars(RestoreActive) /\ WF_vars(BecomeReady) /\ WF_vars(ReconcilePending)
  /\ \A p \in Processes : WF_vars(ActivateBundle(p))

--------------------------------------------------------------------------------
\* Whatever is retired, revised or recompiled, a digest the pointer names, also as the one
\* to roll back to, is that of a published bundle: no restart is blocked by it.
ReferencedIsPublished ==
  \A d \in {pointer.desired, pointer.active, pointer.previous} \ {None} : Status(d) = "published"

\* With activations that overtake each other, a pointer says "active" of a digest only
\* when the running runtime has its router, after a restart too.
ActiveIsLoaded ==
  runtime # "down" /\ pointer.status = "active" => pointer.active \in routers

\* A bundle published by a publisher has an expert's and a security officer's approval,
\* of two people neither of whom made it, whatever became of it in between.
PublishedWasReviewed ==
  \A d \in Digests :
    Status(d) = "published" /\ bundles[d].publisher = "publisher" =>
      \E e, s \in Actors \ {bundles[d].creator} :
        /\ e # s
        /\ [actor |-> e, role |-> "expert"] \in bundles[d].approvals
        /\ [actor |-> s, role |-> "security"] \in bundles[d].approvals

\* A requested activation is settled at last, through failed calls and restarts.
RequestIsSettled == Unsettled ~> pointer.status = "active"

--------------------------------------------------------------------------------
(***************************************************************************)
(* Promises of the comments that the code does not keep: each fails under  *)
(* Spec, the first with two faults (README.md, section 3).                 *)
(***************************************************************************)
\* "Any mismatch blocks Ready, so as not to fall back silently to the GitOps bundle":
\* a ready runtime serves GitOps' bundle only when nothing was activated before.
NoSilentFallback == runtime = "ready" /\ pointer.active # None => served # GitOps

\* "The durable pointer is still pending or failed, the next reconcile retries": with no
\* activation under way, a pointer that says "active" names the digest that is served.
SettledIsServed ==
  runtime = "ready" /\ pointer.status = "active" /\ (\A p \in Processes : At(p, "idle")) =>
    served = pointer.active

================================================================================
