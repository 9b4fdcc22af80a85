------------------------ MODULE BundleActivationProofs ------------------------
(***************************************************************************)
(* What holds of bundles, pointer and runtime for any number of digests,   *)
(* people, requests and faults.                                            *)
(*                                                                         *)
(* Published is where a bundle ends: every write of the registry leaves a  *)
(* published bundle published, and the pointer takes only published ones.  *)
(* Loaded: a confirmation comes after the swap of the same activation, and *)
(* only a crash, which ends them all, takes routers away.  Reviewed: the   *)
(* approvals of a bundle only grow, and no two are of one person.          *)
(***************************************************************************)
EXTENDS BundleActivation, TLAPS

USE DEF vars

\* An activation under way has a digest, and so has a pointer that is there.
Targeted ==
  /\ \A p \in Processes : process[p].pc # "idle" => process[p].digest \in Digests
  /\ pointer.status # "absent" => pointer.desired \in Digests
  /\ pointer.status = "active" => pointer.active = pointer.desired

TypeInv == TypeOK /\ Targeted

\* A bundle two people approved, neither of whom made it.
Reviewed(b) ==
  \E e, s \in Actors \ {b.creator} :
    /\ e # s
    /\ [actor |-> e, role |-> "expert"] \in b.approvals
    /\ [actor |-> s, role |-> "security"] \in b.approvals

Sound(b) ==
  /\ b.status = "absent" => b.approvals = {}
  /\ \A x, y \in b.approvals : x.actor = y.actor \/ x.role = y.role => x = y
  /\ \A x \in b.approvals : x.actor # b.creator
  /\ b.status = "approved" => Reviewed(b)
  /\ b.status = "published" /\ b.publisher = "publisher" => Reviewed(b)

\* What a write may make of a bundle.
Follows(b, n) ==
  /\ n \in Bundle
  /\ b.status = "published" => n.status = "published"
  /\ Sound(b) => Sound(n)
  /\ Sound(b) /\ Reviewed(b) => Reviewed(n)

--------------------------------------------------------------------------------
(***************************************************************************)
(* Bundles                                                                 *)
(***************************************************************************)
LEMMA SameFollows == ASSUME NEW b \in Bundle PROVE Follows(b, b)
  BY DEF Follows

LEMMA NewFollows ==
  ASSUME NEW b \in Bundle, b.status = "absent", NEW a \in Authors,
         NEW parent \in Digests \cup {None}
  PROVE  Follows(b, NewBundle(a, parent))
<1> DEFINE n == NewBundle(a, parent)
<1>1. n \in Bundle /\ n.status = "draft" /\ n.approvals = {} BY DEF NewBundle, Bundle, Approvals
<1>2. Sound(n) BY <1>1 DEF Sound
<1>3. Sound(b) => ~Reviewed(b) BY DEF Sound, Reviewed
<1>4. QED BY <1>1, <1>2, <1>3 DEF Follows

\* A status that is neither approved nor published asks nothing of the approvals.
LEMMA StatusFollows ==
  ASSUME NEW b \in Bundle, b.status \notin {"absent", "published"},
         NEW status \in {"draft", "validated", "stale", "retired"}
  PROVE  Follows(b, [b EXCEPT !.status = status])
<1> DEFINE n == [b EXCEPT !.status = status]
<1>1. /\ n \in Bundle /\ n.status = status
      /\ n.approvals = b.approvals /\ n.creator = b.creator
  BY DEF Bundle
<1>2. Sound(b) => Sound(n) BY <1>1 DEF Sound
<1>3. Reviewed(b) => Reviewed(n) BY <1>1 DEF Reviewed
<1>4. QED BY <1>1, <1>2, <1>3 DEF Follows

LEMMA CompiledFollows ==
  ASSUME TypeOK, NEW d \in Digests, NEW a \in Authors, NEW parent \in Digests \cup {None},
         NEW known \in BOOLEAN
  PROVE  Follows(bundles[d], Compiled(d, a, parent, known))
<1>1. bundles[d] \in Bundle BY DEF TypeOK
<1>2. CASE Status(d) = "absent"
  BY <1>1, <1>2, NewFollows DEF Compiled, Status
<1>3. CASE known /\ Status(d) \in {"retired", "stale"}
  <2>1. Compiled(d, a, parent, known) = [bundles[d] EXCEPT !.status = "draft"]
    BY <1>3 DEF Compiled, Status
  <2>2. QED BY <1>1, <1>3, <2>1, StatusFollows DEF Status
<1>4. CASE Status(d) # "absent" /\ ~(known /\ Status(d) \in {"retired", "stale"})
  <2>1. Compiled(d, a, parent, known) = bundles[d] BY <1>4 DEF Compiled, Status
  <2>2. QED BY <1>1, <2>1, SameFollows
<1>5. QED BY <1>2, <1>3, <1>4

\* A new approval is of another person and in another role than those there are.
LEMMA ApprovedFollows ==
  ASSUME NEW b \in Bundle, b.status = "validated", NEW a \in Actors \ {b.creator},
         NEW role \in {"expert", "security"},
         \A x \in b.approvals : x.actor # a /\ x.role # role,
         NEW n \in Bundle, n.creator = b.creator,
         n.approvals = b.approvals \cup {[actor |-> a, role |-> role]},
         n.status = IF {x.role : x \in n.approvals} = {"expert", "security"}
                    THEN "approved" ELSE b.status
  PROVE  Follows(b, n)
<1>1. Reviewed(b) => Reviewed(n) BY DEF Reviewed
<1>2. SUFFICES ASSUME Sound(b) PROVE Sound(n) BY <1>1 DEF Follows
<1>3. n.approvals \subseteq Approvals BY DEF Bundle
<1>4. \A x, y \in n.approvals : x.actor = y.actor \/ x.role = y.role => x = y
  BY <1>2 DEF Sound
<1>5. \A x \in n.approvals : x.actor # n.creator BY <1>2 DEF Sound
<1>6. ASSUME n.status = "approved" PROVE Reviewed(n)
  <2>1. {x.role : x \in n.approvals} = {"expert", "security"} BY <1>6
  <2>2. PICK x \in n.approvals : x.role = "expert" BY <2>1
  <2>3. PICK y \in n.approvals : y.role = "security" BY <2>1
  <2>4. x.actor # y.actor BY <1>4, <2>2, <2>3
  <2>5. x = [actor |-> x.actor, role |-> "expert"] /\ x.actor \in Actors \ {n.creator}
    BY <1>3, <1>5, <2>2 DEF Approvals
  <2>6. y = [actor |-> y.actor, role |-> "security"] /\ y.actor \in Actors \ {n.creator}
    BY <1>3, <1>5, <2>3 DEF Approvals
  <2>7. QED BY <2>4, <2>5, <2>6 DEF Reviewed
<1>7. n.status \in {"validated", "approved"} BY DEF Bundle
<1>8. QED BY <1>4, <1>5, <1>6, <1>7 DEF Sound

\* Every operation of the registry.
LEMMA AuthorFollows ==
  ASSUME TypeOK, NEW d \in Digests, Author(d)
  PROVE  /\ \A c \in Digests : Follows(bundles[c], bundles'[c])
         /\ bundles' \in [Digests -> Bundle]
<1> USE DEF registryOnly
<1>1. \A c \in Digests : bundles[c] \in Bundle /\ Follows(bundles[c], bundles[c])
  BY SameFollows DEF TypeOK
<1> DEFINE Written == bundles' = [x \in Digests |-> bundles'[x]]
           Result == Written /\ \A c \in Digests : Follows(bundles[c], bundles'[c])
<1>2. SUFFICES Result BY DEF Follows
<1>3. CASE Retire(d)
  <2>1. Follows(bundles[d], [bundles[d] EXCEPT !.status = "retired"])
    BY <1>1, <1>3, StatusFollows DEF Retire, Status
  <2>2. QED BY <1>1, <1>3, <2>1 DEF Retire, TypeOK
<1>4. CASE Validate(d)
  <2>1. Follows(bundles[d], [bundles[d] EXCEPT !.status = "validated"])
    BY <1>1, <1>4, StatusFollows DEF Validate, Status
  <2>2. QED BY <1>1, <1>4, <2>1 DEF Validate, TypeOK
<1>5. ASSUME NEW a \in Authors, Compile(d, a) PROVE  Result
  <2>1. Follows(bundles[d], Compiled(d, a, None, bundles[d].parent = None))
    BY CompiledFollows
  <2>2. QED BY <1>1, <1>5, <2>1 DEF Compile, TypeOK
<1>6. ASSUME NEW a \in Authors, NEW p \in Digests, NEW same \in BOOLEAN,
             ReviseDraft(p, d, a, same)
      PROVE  Result
  <2> DEFINE n == Compiled(d, a, p, bundles[d].parent = p /\ same)
             m == [bundles[p] EXCEPT !.status = IF @ = "draft" THEN "stale" ELSE @]
  <2>1. Follows(bundles[d], n) BY CompiledFollows
  <2>2. Follows(bundles[p], m)
    <3>1. CASE Status(p) = "draft"
      BY <1>1, <3>1, StatusFollows DEF Status
    <3>2. CASE Status(p) # "draft"
      <4>1. m = bundles[p] BY <1>1, <3>2 DEF Status, Bundle
      <4>2. QED BY <1>1, <4>1
    <3>3. QED BY <3>1, <3>2
  <2>3. bundles' = [bundles EXCEPT ![d] = n, ![p].status = IF @ = "draft" THEN "stale" ELSE @]
    BY <1>6 DEF ReviseDraft
  <2>4. \A c \in Digests : bundles'[c] = IF c = p THEN m ELSE IF c = d THEN n ELSE bundles[c]
    <3> HIDE DEF n
    <3>1. QED BY <1>6, <2>3 DEF ReviseDraft, TypeOK
  <2> HIDE DEF n, m
  <2>5. QED BY <1>1, <2>1, <2>2, <2>3, <2>4 DEF TypeOK
<1>7. ASSUME NEW a \in Actors, NEW role \in {"expert", "security"}, Approve(d, a, role)
      PROVE  Result
  <2> DEFINE more == bundles[d].approvals \cup {[actor |-> a, role |-> role]}
             n == [bundles[d] EXCEPT
                     !.approvals = more,
                     !.status = IF {x.role : x \in more} = {"expert", "security"}
                                THEN "approved" ELSE @]
  <2>1. bundles' = [bundles EXCEPT ![d] = n] BY <1>7 DEF Approve
  <2>2. /\ n.approvals = more /\ n.creator = bundles[d].creator
        /\ n.status = IF {x.role : x \in more} = {"expert", "security"}
                      THEN "approved" ELSE bundles[d].status
    BY <1>1 DEF Bundle
  <2>3. n \in Bundle
    <3>1. more \in SUBSET Approvals BY <1>1 DEF Bundle, Approvals
    <3> HIDE DEF more
    <3>2. QED BY <1>1, <3>1 DEF Bundle
  <2> HIDE DEF n
  <2>4. Follows(bundles[d], n)
    BY <1>1, <1>7, <2>2, <2>3, ApprovedFollows DEF Approve, Status
  <2>5. QED BY <1>1, <2>1, <2>4 DEF TypeOK
<1>8. QED BY <1>3, <1>4, <1>5, <1>6, <1>7 DEF Author

--------------------------------------------------------------------------------
(***************************************************************************)
(* Types                                                                   *)
(***************************************************************************)
LEMMA InitTyped == Init => TypeInv
<1>1. SUFFICES ASSUME Init PROVE TypeInv OBVIOUS
<1>2. PICK a \in Authors :
        bundles = [d \in Digests |-> [NewBundle(a, None) EXCEPT !.status = "absent"]]
  BY <1>1 DEF Init
<1>3. [NewBundle(a, None) EXCEPT !.status = "absent"] \in Bundle BY DEF NewBundle, Bundle
<1>4. bundles \in [Digests -> Bundle] BY <1>2, <1>3
<1>5. QED
  BY <1>1, <1>4, BundleConstants
  DEF Init, TypeInv, TypeOK, Targeted, Pointer, Processes, Idle, Steps

\* Steps of one activation.
LEMMA ProcessTyped ==
  ASSUME TypeInv, NEW p \in Processes, ActivateBundle(p) \/ CallFails(p)
  PROVE  TypeInv'
<1> USE DEF TypeInv, TypeOK, Targeted, Goto, Finish, At, Idle, Steps
<1>1. CASE GetPublished(p) BY <1>1 DEF GetPublished
<1>2. ASSUME Status(process[p].digest) = "published", At(p, "request"),
             pointer' = Requested(process[p].digest), bundles' = bundles,
             UNCHANGED <<routers, served, runtime, received>>,
             Goto(p, "swap") \/ Finish(p), faults' \in 0 .. MaxFaults
      PROVE  TypeInv'
  BY <1>2 DEF Requested, Pointer
<1>3. CASE RequestBundleActivation(p)
  <2>1. CASE Status(process[p].digest) = "published"
    BY <1>2, <1>3, <2>1 DEF RequestBundleActivation
  <2>2. CASE Status(process[p].digest) # "published"
    BY <1>3, <2>2 DEF RequestBundleActivation
  <2>3. QED BY <2>1, <2>2
<1>4. CASE Activate(p) BY <1>4 DEF Activate
<1>a. /\ Confirmed \in Pointer /\ Confirmed.desired = pointer.desired
      /\ Confirmed.active = pointer.desired /\ Confirmed.status = "active"
  BY DEF Confirmed, Pointer
<1>5. CASE AckBundleActivation(p)
  <2>1. CASE Awaited(process[p].digest)
    BY <1>5, <1>a, <2>1 DEF AckBundleActivation, Awaited
  <2>2. CASE ~Awaited(process[p].digest)
    BY <1>5, <2>2 DEF AckBundleActivation
  <2>3. QED BY <2>1, <2>2
<1>6. CASE FailBundleActivation(p) BY <1>6 DEF FailBundleActivation, Awaited, Pointer
<1>7. CASE CallFails(p)
  <2>1. faults' \in 0 .. MaxFaults BY <1>7, BundleConstants DEF CallFails, Fault
  <2>2. CASE UNCHANGED pointer BY <1>7, <2>1, <2>2 DEF CallFails
  <2>3. CASE At(p, "request") /\ pointer' = Requested(process[p].digest)
    BY <1>2, <1>7, <2>1, <2>3 DEF CallFails
  <2>4. CASE At(p, "ack") /\ Awaited(process[p].digest) /\ pointer' = Confirmed
    BY <1>7, <1>a, <2>1, <2>4 DEF CallFails, Awaited
  <2>5. QED BY <1>7, <2>2, <2>3, <2>4 DEF CallFails
<1>8. QED BY <1>1, <1>3, <1>4, <1>5, <1>6, <1>7 DEF ActivateBundle

\* Requests, as they arrive and publish.
LEMMA RequestTyped ==
  ASSUME TypeInv, NEW r \in Requests, Serve(r)
  PROVE  TypeInv'
<1> USE DEF TypeInv, TypeOK, Targeted, Goto, Finish, At, Idle, Steps
<1>0. r \in Processes BY DEF Processes
<1>1. ASSUME NEW step \in {"get", "publish", "fastPublish"}, NEW d \in Digests,
             Receive(r, step, d)
      PROVE  TypeInv'
  BY <1>0, <1>1, BundleConstants DEF Receive
<1>2. CASE \E d \in Digests :
             ActivateRequest(r, d) \/ PublishRequest(r, d) \/ FastPublishRequest(r, d)
  BY <1>1, <1>2 DEF ActivateRequest, PublishRequest, FastPublishRequest
<1>3. CASE RollbackRequest(r)
  <2>1. pointer.previous \in Digests BY <1>3 DEF RollbackRequest, Pointer
  <2>2. QED BY <1>1, <1>3, <2>1 DEF RollbackRequest
<1>4. CASE Publish(r) BY <1>0, <1>4 DEF Publish, Bundle
<1>5. CASE PublishInternalFast(r) BY <1>0, <1>5 DEF PublishInternalFast, Bundle
<1>6. QED BY <1>2, <1>3, <1>4, <1>5 DEF Serve

LEMMA NextTyped == TypeInv /\ [Next]_vars => TypeInv'
<1> SUFFICES ASSUME TypeInv, [Next]_vars PROVE TypeInv' OBVIOUS
<1> USE DEF TypeInv, TypeOK, Targeted, At, Idle, Steps
<1>1. ASSUME NEW d \in Digests, Author(d) PROVE TypeInv'
  <2>1. bundles' \in [Digests -> Bundle] BY <1>1, AuthorFollows
  <2>2. UNCHANGED registryOnly
    BY <1>1 DEF Author, Retire, Validate, Compile, ReviseDraft, Approve
  <2>3. QED BY <2>1, <2>2 DEF registryOnly
<1>2. ASSUME NEW r \in Requests, Serve(r) PROVE TypeInv' BY <1>2, RequestTyped
<1>3. ASSUME NEW p \in Processes, ActivateBundle(p) \/ CallFails(p) PROVE TypeInv'
  BY <1>3, ProcessTyped
<1>4. "loop" \in Processes BY DEF Processes
<1>5. CASE ReconcilePending BY <1>4, <1>5 DEF ReconcilePending, Unsettled
<1>6. CASE RestoreActive BY <1>4, <1>6 DEF RestoreActive, Unsettled
<1>7. CASE BecomeReady BY <1>7 DEF BecomeReady
<1>8. CASE Crash BY <1>8, BundleConstants DEF Crash, Fault
<1>9. CASE UNCHANGED vars BY <1>9
<1>10. QED BY <1>1, <1>2, <1>3, <1>5, <1>6, <1>7, <1>8, <1>9 DEF Next

\* Bundles, pointer, routers and activations keep their types.
THEOREM TypeCorrect == Spec => []TypeOK
<1>1. Spec => []TypeInv BY InitTyped, NextTyped, PTL DEF Spec
<1>2. TypeInv => TypeOK BY DEF TypeInv
<1>3. QED BY <1>1, <1>2, PTL

--------------------------------------------------------------------------------
(***************************************************************************)
(* Published bundles                                                       *)
(***************************************************************************)
\* What a publish request read of the bundle it is about to publish still holds of it.
Awaiting ==
  \A p \in Processes : At(p, "publish") => Reviewed(bundles[process[p].digest])

ReviewInv ==
  /\ TypeInv
  /\ \A d \in Digests : Sound(bundles[d])
  /\ Awaiting

BundlesFollow == \A d \in Digests : Follows(bundles[d], bundles'[d])

\* No write takes "published" from a bundle, makes it unsound or drops its review.
LEMMA NextFollows == ReviewInv /\ [Next]_vars => BundlesFollow
<1> SUFFICES ASSUME ReviewInv, [Next]_vars PROVE BundlesFollow OBVIOUS
<1>0. \A d \in Digests : bundles[d] \in Bundle BY DEF ReviewInv, TypeInv, TypeOK
<1>1. ASSUME NEW d \in Digests, Author(d) PROVE BundlesFollow
  BY <1>1, AuthorFollows DEF BundlesFollow, ReviewInv, TypeInv
<1>2. CASE UNCHANGED bundles
  BY <1>0, <1>2, SameFollows DEF BundlesFollow
<1>3. ASSUME NEW r \in Requests, NEW d \in Digests, NEW publisher \in {"expert", "publisher"},
             bundles' = [bundles EXCEPT ![d].status = "published", ![d].publisher = publisher],
             Status(d) # "absent" \/ Reviewed(bundles[d]),
             publisher = "publisher" => Reviewed(bundles[d])
      PROVE  BundlesFollow
  <2> DEFINE n == [bundles[d] EXCEPT !.status = "published", !.publisher = publisher]
  <2>1. /\ n \in Bundle /\ n.approvals = bundles[d].approvals /\ n.creator = bundles[d].creator
        /\ n.status = "published" /\ n.publisher = publisher
    BY <1>0 DEF Bundle
  <2>2. bundles' = [bundles EXCEPT ![d] = n] BY <1>0, <1>3 DEF ReviewInv, TypeInv, TypeOK
  <2> HIDE DEF n
  <2>3. Reviewed(bundles[d]) => Reviewed(n) BY <2>1 DEF Reviewed
  <2>4. Sound(bundles[d]) => Sound(n) BY <1>3, <2>1, <2>3 DEF Sound
  <2>5. Follows(bundles[d], n) BY <2>1, <2>3, <2>4 DEF Follows
  <2>6. QED
    BY <1>0, <2>2, <2>5, SameFollows DEF BundlesFollow, ReviewInv, TypeInv, TypeOK
<1>4. ASSUME NEW r \in Requests, Publish(r) PROVE BundlesFollow
  <2>1. r \in Processes /\ process[r].digest \in Digests
    BY <1>4 DEF Processes, Publish, At, ReviewInv, TypeInv, Targeted
  <2>2. Reviewed(bundles[process[r].digest])
    BY <1>4, <2>1 DEF Publish, ReviewInv, Awaiting
  <2>3. QED BY <1>3, <1>4, <2>1, <2>2 DEF Publish
<1>5. ASSUME NEW r \in Requests, PublishInternalFast(r) PROVE BundlesFollow
  <2>1. process[r].digest \in Digests
    BY <1>5 DEF Processes, PublishInternalFast, At, ReviewInv, TypeInv, Targeted
  <2>2. QED BY <1>2, <1>3, <1>5, <2>1 DEF PublishInternalFast
<1>6. ASSUME NEW r \in Requests, Serve(r) PROVE BundlesFollow
  BY <1>2, <1>4, <1>5, <1>6
  DEF Serve, ActivateRequest, PublishRequest, FastPublishRequest, RollbackRequest, Receive
<1>7. ASSUME NEW p \in Processes, ActivateBundle(p) \/ CallFails(p) PROVE UNCHANGED bundles
  BY <1>7 DEF ActivateBundle, GetPublished, RequestBundleActivation, Activate,
              AckBundleActivation, FailBundleActivation, CallFails
<1>8. QED
  BY <1>1, <1>2, <1>6, <1>7 DEF Next, ReconcilePending, RestoreActive, BecomeReady, Crash

\* An activation that is at "publish" after a step was there, or was received with it.
LEMMA NextAwaiting == ReviewInv /\ [Next]_vars => Awaiting'
<1> SUFFICES ASSUME ReviewInv, [Next]_vars, NEW p \in Processes, At(p, "publish")'
             PROVE  Reviewed(bundles[process[p].digest])'
  BY DEF Awaiting
<1> USE DEF At, Goto, Finish, Idle
<1>0. /\ process \in [Processes -> [pc : Steps, digest : Digests \cup {None}]]
      /\ \A q \in Processes : process[q].pc # "idle" => process[q].digest \in Digests
  BY DEF ReviewInv, TypeInv, TypeOK, Targeted
<1>1. \/ At(p, "publish") /\ process'[p].digest = process[p].digest
      \/ PublishRequest(p, process'[p].digest) /\ process'[p].digest \in Digests
  <2>1. CASE UNCHANGED process BY <1>0, <2>1
  <2>2. ASSUME NEW d \in Digests, Author(d) PROVE UNCHANGED process
    BY <2>2 DEF Author, Retire, Validate, Compile, ReviseDraft, Approve, registryOnly
  <2>3. ASSUME NEW r \in Requests, Serve(r)
        PROVE  \/ At(p, "publish") /\ process'[p].digest = process[p].digest
               \/ PublishRequest(p, process'[p].digest) /\ process'[p].digest \in Digests
    BY <1>0, <2>3
    DEF Serve, ActivateRequest, PublishRequest, FastPublishRequest, RollbackRequest, Receive,
        Publish, PublishInternalFast, Processes
  <2>4. ASSUME NEW q \in Processes, ActivateBundle(q) \/ CallFails(q)
        PROVE  At(p, "publish") /\ process'[p].digest = process[p].digest
    BY <1>0, <2>4 DEF ActivateBundle, GetPublished, RequestBundleActivation, Activate,
                AckBundleActivation, FailBundleActivation, CallFails
  <2>5. CASE ReconcilePending BY <1>0, <2>5 DEF ReconcilePending
  <2>6. CASE RestoreActive BY <1>0, <2>6 DEF RestoreActive
  <2>7. CASE BecomeReady BY <2>1, <2>7 DEF BecomeReady
  <2>8. CASE Crash BY <2>8 DEF Crash
  <2>9. QED BY <2>1, <2>2, <2>3, <2>4, <2>5, <2>6, <2>7, <2>8 DEF Next
<1> DEFINE d == process'[p].digest
<1>2. d \in Digests BY <1>0, <1>1
<1>3. Reviewed(bundles[d])
  BY <1>1, <1>2 DEF ReviewInv, Awaiting, PublishRequest, Status, Sound
<1>4. QED BY <1>2, <1>3, NextFollows DEF BundlesFollow, Follows, ReviewInv

LEMMA ReviewInvariant == Spec => []ReviewInv
<1>1. Init => ReviewInv
  <2> SUFFICES ASSUME Init PROVE ReviewInv OBVIOUS
  <2>1. PICK a \in Authors :
          bundles = [d \in Digests |-> [NewBundle(a, None) EXCEPT !.status = "absent"]]
    BY DEF Init
  <2>2. \A d \in Digests : bundles[d].status = "absent" /\ bundles[d].approvals = {}
    BY <2>1 DEF NewBundle
  <2>3. \A d \in Digests : Sound(bundles[d]) BY <2>2 DEF Sound
  <2>4. QED BY <2>3, InitTyped DEF Init, ReviewInv, Awaiting, At, Idle
<1>2. ReviewInv /\ [Next]_vars => ReviewInv'
  BY NextTyped, NextFollows, NextAwaiting DEF ReviewInv, BundlesFollow, Follows
<1>3. QED BY <1>1, <1>2, PTL DEF Spec

\* What a publisher published, two other people approved, whatever came in between.
THEOREM ReviewHolds == Spec => []PublishedWasReviewed
<1>1. ReviewInv => PublishedWasReviewed
  BY DEF ReviewInv, Sound, Reviewed, PublishedWasReviewed, Status
<1>2. QED BY <1>1, ReviewInvariant, PTL

--------------------------------------------------------------------------------
(***************************************************************************)
(* The pointer                                                             *)
(***************************************************************************)
\* The pointer moves only to a published digest, or among the digests it has.
LEMMA PointerMoves ==
  ASSUME ReviewInv, [Next]_vars,
         NEW d \in {pointer'.desired, pointer'.active, pointer'.previous} \ {None}
  PROVE  \/ d \in {pointer.desired, pointer.active, pointer.previous}
         \/ d \in Digests /\ Status(d) = "published"
<1> USE DEF ReviewInv, TypeInv, TypeOK, Pointer
<1>1. CASE UNCHANGED pointer BY <1>1
<1>2. ASSUME NEW c \in Digests, Author(c) PROVE UNCHANGED pointer
  BY <1>2 DEF Author, Retire, Validate, Compile, ReviseDraft, Approve, registryOnly
<1>3. ASSUME NEW r \in Requests, Serve(r) PROVE UNCHANGED pointer
  BY <1>3
  DEF Serve, ActivateRequest, PublishRequest, FastPublishRequest, RollbackRequest, Receive,
      Publish, PublishInternalFast
<1>4. ASSUME NEW p \in Processes, ActivateBundle(p) \/ CallFails(p)
      PROVE  \/ d \in {pointer.desired, pointer.active, pointer.previous}
             \/ d \in Digests /\ Status(d) = "published"
  <2>1. \/ UNCHANGED pointer
        \/ pointer' = [pointer EXCEPT !.status = "failed"]
        \/ pointer' = Confirmed
        \/ /\ At(p, "request") /\ Status(process[p].digest) = "published"
           /\ pointer' = Requested(process[p].digest)
    BY <1>4 DEF ActivateBundle, GetPublished, RequestBundleActivation, Activate,
                AckBundleActivation, FailBundleActivation, CallFails
  <2>2. At(p, "request") => process[p].digest \in Digests BY DEF At, Targeted
  <2>3. CASE pointer' = [pointer EXCEPT !.status = "failed"] \/ pointer' = Confirmed
    <3>1. /\ pointer'.desired = pointer.desired /\ pointer'.previous = pointer.previous
          /\ pointer'.active \in {pointer.active, pointer.desired}
      BY <2>3 DEF Confirmed
    <3>2. QED BY <3>1
  <2>4. CASE /\ At(p, "request") /\ Status(process[p].digest) = "published"
             /\ pointer' = Requested(process[p].digest)
    <3>1. /\ pointer'.desired = process[p].digest /\ pointer'.active = pointer.active
          /\ pointer'.previous \in {pointer.active, pointer.previous}
      BY <2>4 DEF Requested
    <3>2. QED BY <2>2, <2>4, <3>1
  <2>5. QED BY <1>1, <2>1, <2>3, <2>4
<1>5. QED
  BY <1>1, <1>2, <1>3, <1>4 DEF Next, ReconcilePending, RestoreActive, BecomeReady, Crash

\* Nothing that is written takes a digest the pointer names out of "published".
THEOREM ReferencesHold == Spec => []ReferencedIsPublished
<1>1. Init => ReferencedIsPublished
  <2>1. Init => pointer.desired = None /\ pointer.active = None /\ pointer.previous = None
    BY DEF Init
  <2>2. QED BY <2>1 DEF ReferencedIsPublished
<1>2. ReviewInv /\ ReferencedIsPublished /\ [Next]_vars => ReferencedIsPublished'
  <2> SUFFICES ASSUME ReviewInv, ReferencedIsPublished, [Next]_vars,
                      NEW d \in {pointer'.desired, pointer'.active, pointer'.previous} \ {None}
               PROVE  Status(d)' = "published"
    BY DEF ReferencedIsPublished
  <2>1. d \in Digests /\ Status(d) = "published"
    BY PointerMoves DEF ReferencedIsPublished, ReviewInv, TypeInv, TypeOK, Pointer
  <2>2. QED BY <2>1, NextFollows DEF Status, BundlesFollow, Follows, ReviewInv
<1>3. QED BY <1>1, <1>2, ReviewInvariant, PTL DEF Spec

--------------------------------------------------------------------------------
(***************************************************************************)
(* The router                                                              *)
(***************************************************************************)
LoadedInv ==
  /\ TypeInv
  /\ ActiveIsLoaded
  /\ runtime = "down" => \A p \in Processes : At(p, "idle")
  /\ \A p \in Processes : At(p, "ack") => process[p].digest \in routers

LEMMA NextLoaded == LoadedInv /\ [Next]_vars => LoadedInv'
<1> SUFFICES ASSUME LoadedInv, [Next]_vars PROVE LoadedInv' OBVIOUS
<1>0. TypeInv' BY NextTyped DEF LoadedInv
<1>1. process \in [Processes -> [pc : Steps, digest : Digests \cup {None}]]
  BY DEF LoadedInv, TypeInv, TypeOK
<1> USE DEF LoadedInv, ActiveIsLoaded, At, Goto, Finish, Idle
<1>2. CASE UNCHANGED <<pointer, routers, runtime, process>> BY <1>0, <1>2
<1>3. ASSUME NEW d \in Digests, Author(d) PROVE UNCHANGED <<pointer, routers, runtime, process>>
  BY <1>3 DEF Author, Retire, Validate, Compile, ReviseDraft, Approve, registryOnly
<1>4. ASSUME NEW r \in Requests, Serve(r) PROVE LoadedInv'
  <2>1. /\ runtime # "down" /\ UNCHANGED <<pointer, routers, runtime>>
        /\ \A p \in Processes : process'[p].pc # "ack" \/ process'[p] = process[p]
    BY <1>1, <1>4
    DEF Serve, ActivateRequest, PublishRequest, FastPublishRequest, RollbackRequest, Receive,
        Publish, PublishInternalFast, Processes
  <2>2. QED BY <1>0, <2>1
<1>5. ASSUME NEW p \in Processes, ActivateBundle(p) \/ CallFails(p) PROVE LoadedInv'
  <2>1. runtime # "down" /\ UNCHANGED runtime
    BY <1>5 DEF ActivateBundle, GetPublished, RequestBundleActivation, Activate,
                AckBundleActivation, FailBundleActivation, CallFails
  <2>2. CASE Activate(p)
    BY <1>0, <1>1, <2>1, <2>2 DEF Activate
  <2>3. ASSUME ~Activate(p)
        PROVE  /\ UNCHANGED routers
               /\ \A q \in Processes : process'[q].pc # "ack" \/ process'[q] = process[q]
    BY <1>1, <1>5, <2>3
    DEF ActivateBundle, GetPublished, RequestBundleActivation,
        AckBundleActivation, FailBundleActivation, CallFails
  <2>4. ASSUME ~Activate(p)
        PROVE  \/ pointer'.status # "active"
               \/ UNCHANGED pointer
               \/ pointer'.active \in routers
    <3>1. \/ UNCHANGED pointer
          \/ At(p, "ack") /\ Awaited(process[p].digest) /\ pointer' = Confirmed
          \/ pointer' = [pointer EXCEPT !.status = "failed"]
          \/ pointer' = Requested(process[p].digest)
      BY <1>5, <2>4
      DEF ActivateBundle, GetPublished, RequestBundleActivation, AckBundleActivation,
          FailBundleActivation, CallFails
    <3>2. CASE At(p, "ack") /\ Awaited(process[p].digest) /\ pointer' = Confirmed
      <4>1. pointer'.active = process[p].digest
        BY <3>2 DEF Awaited, Confirmed, TypeInv, TypeOK, Pointer
      <4>2. QED BY <3>2, <4>1
    <3>3. CASE \/ pointer' = [pointer EXCEPT !.status = "failed"]
               \/ pointer' = Requested(process[p].digest)
      BY <3>3 DEF Requested, TypeInv, TypeOK, Pointer
    <3>4. QED BY <3>1, <3>2, <3>3
  <2>5. QED BY <1>0, <2>1, <2>2, <2>3, <2>4
<1>6. CASE ReconcilePending BY <1>0, <1>1, <1>6 DEF ReconcilePending
<1>7. CASE RestoreActive BY <1>0, <1>1, <1>7 DEF RestoreActive
<1>8. CASE BecomeReady BY <1>0, <1>8 DEF BecomeReady
<1>9. CASE Crash BY <1>0, <1>9 DEF Crash
<1>10. QED BY <1>2, <1>3, <1>4, <1>5, <1>6, <1>7, <1>8, <1>9 DEF Next

\* A pointer says "active" only of a digest whose router the running runtime has.
THEOREM LoadedHolds == Spec => []ActiveIsLoaded
<1>1. Init => LoadedInv
  BY InitTyped DEF Init, LoadedInv, ActiveIsLoaded, At, Idle
<1>2. Spec => []LoadedInv BY <1>1, NextLoaded, PTL DEF Spec
<1>3. QED BY <1>2, PTL DEF LoadedInv

================================================================================
