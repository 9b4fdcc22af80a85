------------------------- MODULE LogCollectUploadProofs -------------------------
(***************************************************************************)
(* What the upload records, for any number of jobs, parts, aborts and      *)
(* crashes: the digest in the row is that of one whole package.            *)
(*                                                                         *)
(* RecordedIsWhole is not inductive alone: the step that records copies    *)
(* what the merge buffered, so the invariant keeps, for every request      *)
(* about to record, that its buffer is its whole package.                  *)
(*                                                                         *)
(* Types need an argument too: an epoch is bounded by the number of        *)
(* deliveries although it is computed from a row read before an await, as  *)
(* the row never counts more than the deliveries that were signed.         *)
(***************************************************************************)
EXTENDS LogCollectUpload, FiniteSetTheorems, TLAPS

USE DEF vars, rowVars, sessionVars, deliverVars, putVars, completeVars, bounds

\* The functions the argument looks into are functions on the jobs.
Shape ==
  /\ DOMAIN complete = Jobs
  /\ DOMAIN buffer = Jobs

\* A request that is about to record holds its whole package.
ReadyIsWhole == \A d \in Jobs : complete[d] = "record" => buffer[d] = Whole(d)

WholeInv == Shape /\ ReadyIsWhole /\ RecordedIsWhole

\* No request works at first, and nothing is recorded.
LEMMA InitWhole == Init => WholeInv
  BY DEF Init, WholeInv, Shape, ReadyIsWhole, RecordedIsWhole

\* A step that leaves the completes alone and does not record keeps the invariant.
LEMMA AsideWhole ==
  ASSUME WholeInv, UNCHANGED <<complete, buffer, object_sha256>>
  PROVE  WholeInv'
  BY DEF WholeInv, Shape, ReadyIsWhole, RecordedIsWhole

\* Signing a session does not record.
LEMMA DeliverWhole ==
  ASSUME WholeInv, NEW d \in Jobs, Deliver(d)
  PROVE  WholeInv'
<1>1. CASE DeliverLoad(d)    BY <1>1, AsideWhole DEF DeliverLoad
<1>2. CASE DeliverInit(d)    BY <1>2, AsideWhole DEF DeliverInit
<1>3. CASE DeliverRebuild(d) BY <1>3, AsideWhole DEF DeliverRebuild
<1>4. CASE DeliverReinit(d)  BY <1>4, AsideWhole DEF DeliverReinit
<1>5. CASE DeliverClear(d)   BY <1>5, AsideWhole DEF DeliverClear
<1>6. CASE DeliverWrite(d)   BY <1>6, AsideWhole DEF DeliverWrite
<1>7. CASE DeliverBegin(d)   BY <1>7, AsideWhole DEF DeliverBegin
<1>8. CASE InitUpload(d)     BY <1>8, AsideWhole DEF InitUpload
<1>9. QED BY <1>1, <1>2, <1>3, <1>4, <1>5, <1>6, <1>7, <1>8 DEF Deliver

\* Uploading a part does not record.
LEMMA PutWhole ==
  ASSUME WholeInv, NEW d \in Jobs, Put(d)
  PROVE  WholeInv'
<1>1. CASE PutStart(d)   BY <1>1, AsideWhole DEF PutStart
<1>2. CASE PutOpen(d)    BY <1>2, AsideWhole DEF PutOpen
<1>3. CASE PutReplace(d) BY <1>3, AsideWhole DEF PutReplace
<1>4. CASE PutFails(d)   BY <1>4, AsideWhole DEF PutFails
<1>5. QED BY <1>1, <1>2, <1>3, <1>4 DEF Put

\* A request gets to "record" with the content its check compared, be it merged now
\* or by an earlier complete, and what it records is that content or nothing new.
LEMMA CompleteWhole ==
  ASSUME WholeInv, NEW d \in Jobs, Complete(d)
  PROVE  WholeInv'
<1> USE DEF WholeInv, Shape, ReadyIsWhole, RecordedIsWhole, Completing
<1>1. CASE CompleteStart(d)    BY <1>1 DEF CompleteStart
<1>2. CASE CompleteLoad(d)
  <2>1. UNCHANGED <<buffer, object_sha256>> BY <1>2 DEF CompleteLoad
  <2>2. \E label \in {"idle", "merge"} : complete' = [complete EXCEPT ![d] = label]
    BY <1>2 DEF CompleteLoad
  <2>3. QED BY <2>1, <2>2
<1>3. CASE MergeStart(d)
  <2>1. CASE merged # Nothing /\ file # Nothing /\ merged = Whole(d)
    BY <1>3, <2>1 DEF MergeStart
  <2>2. CASE merged # Nothing /\ file # Nothing /\ merged # Whole(d)
    BY <1>3, <2>2 DEF MergeStart
  <2>3. CASE merged = Nothing \/ file = Nothing
    BY <1>3, <2>3 DEF MergeStart
  <2>4. QED BY <2>1, <2>2, <2>3
<1>4. CASE MergeRead(d)
  <2>1. complete'[d] # "record" /\ DOMAIN complete' = Jobs BY <1>4 DEF MergeRead
  <2>2. \A e \in Jobs \ {d} : complete'[e] = complete[e] /\ buffer'[e] = buffer[e]
    BY <1>4 DEF MergeRead
  <2>3. DOMAIN buffer' = Jobs /\ object_sha256' = object_sha256 BY <1>4 DEF MergeRead
  <2>4. QED BY <2>1, <2>2, <2>3
<1>5. CASE MergePartMissing(d) BY <1>5 DEF MergePartMissing, Forget
<1>6. CASE MergePublish(d)     BY <1>6 DEF MergePublish
<1>7. CASE CompleteCheck(d)
  <2>1. CASE buffer[d] = Whole(d) BY <1>7, <2>1 DEF CompleteCheck
  <2>2. CASE buffer[d] # Whole(d) BY <1>7, <2>2 DEF CompleteCheck
  <2>3. QED BY <2>1, <2>2
<1>8. CASE CompleteDiscard(d)  BY <1>8 DEF CompleteDiscard, Forget
<1>9. CASE CompleteRecord(d)   BY <1>9 DEF CompleteRecord, Flush
<1>10. CASE CompleteCleanup(d) BY <1>10 DEF CompleteCleanup, Forget
<1>11. QED BY <1>1, <1>2, <1>3, <1>4, <1>5, <1>6, <1>7, <1>8, <1>9, <1>10 DEF Complete

\* A crash forgets the requests; an abort is none of their business.
LEMMA CrashWhole == WholeInv /\ Crash => WholeInv'
  BY DEF WholeInv, Shape, ReadyIsWhole, RecordedIsWhole, Crash

\* WholeInv is inductive: only complete() writes the digest, and only once the
\* merged digest was found equal to the declared one.
LEMMA NextWhole == WholeInv /\ [Next]_vars => WholeInv'
<1> SUFFICES ASSUME WholeInv, [Next]_vars PROVE WholeInv'
  OBVIOUS
<1>1. CASE \E d \in Jobs : Deliver(d) \/ Put(d) \/ Complete(d)
  BY <1>1, DeliverWhole, PutWhole, CompleteWhole
<1>2. CASE AbortUpload BY <1>2, AsideWhole DEF AbortUpload
<1>3. CASE Crash       BY <1>3, CrashWhole
<1>4. CASE UNCHANGED vars BY <1>4, AsideWhole
<1>5. QED BY <1>1, <1>2, <1>3, <1>4 DEF Next

\* The digest complete() commits to the row is that of one whole package, whatever
\* sessions are rebuilt, aborted or cut short by a crash while it merges.
THEOREM RecordSound == Spec => []RecordedIsWhole
<1>1. WholeInv => RecordedIsWhole BY DEF WholeInv
<1>2. QED BY InitWhole, NextWhole, <1>1, PTL DEF Spec

--------------------------------------------------------------------------------
(***************************************************************************)
(* Types                                                                   *)
(***************************************************************************)
Signed == {d \in Jobs : deliver[d] = "signed"}

\* No delivery counts more attempts than there are deliveries signed; the next one counts one.
Counted ==
  /\ delivery_attempts <= Cardinality(Signed)
  /\ \A d \in Jobs : deliver[d] \notin {"new", "signed", "refused"} =>
       epoch[d] <= Cardinality(Signed) + 1

\* A merge reads the parts there are, from the first one on.
Reading ==
  \A d \in Jobs :
    /\ complete[d] \in {"idle", "load", "merge"} => next_part[d] = 1
    /\ complete[d] = "read" => next_part[d] <= PartCount

TypeInv == TypeOK /\ Counted /\ Reading

\* Packages are contents.
LEMMA ContentsTyped == Nothing \in Contents /\ \A d \in Jobs : Whole(d) \in Contents
BY DEF Nothing, Whole, Contents

\* Epochs are numbers from 0 on.
LEMMA EpochsTyped ==
  /\ Cardinality(Jobs) \in Nat
  /\ Epochs \subseteq Nat /\ 0 \in Epochs
BY UploadConstants, FS_CardinalityType DEF Epochs

\* There are no more signed deliveries than jobs.
LEMMA SignedCounted ==
  /\ Cardinality(Signed) \in Nat /\ IsFiniteSet(Signed)
  /\ Cardinality(Signed) <= Cardinality(Jobs)
  /\ \A d \in Jobs : deliver[d] # "signed" =>
       Cardinality(Signed) + 1 <= Cardinality(Jobs)
<1>1. Signed \subseteq Jobs /\ IsFiniteSet(Jobs) BY UploadConstants DEF Signed
<1>2. IsFiniteSet(Signed) /\ Cardinality(Signed) <= Cardinality(Jobs) BY <1>1, FS_Subset
<1>3. Cardinality(Signed) \in Nat /\ Cardinality(Jobs) \in Nat BY <1>1, <1>2, FS_CardinalityType
<1>4. ASSUME NEW d \in Jobs, deliver[d] # "signed"
      PROVE  Cardinality(Signed) + 1 <= Cardinality(Jobs)
  <2>1. Cardinality(Signed) # Cardinality(Jobs)
    <3>1. Signed # Jobs BY <1>4 DEF Signed
    <3>2. QED BY <1>1, <3>1, FS_Subset
  <2>2. QED BY <1>2, <1>3, <2>1
<1>5. QED BY <1>2, <1>3, <1>4

\* One more delivery is signed, or none.
LEMMA SignedMoves ==
  ASSUME deliver \in [Jobs -> {"new", "init", "rebuild", "reinit", "clear", "write",
                               "begin", "signed", "refused"}],
         NEW d \in Jobs, deliver[d] # "signed", NEW label, Delivering(d, label)
  PROVE  /\ label = "signed" => Cardinality(Signed') = Cardinality(Signed) + 1
         /\ label # "signed" => Signed' = Signed
<1>1. CASE label = "signed"
  <2>1. Signed' = Signed \cup {d} BY <1>1 DEF Delivering, Signed
  <2>2. d \notin Signed /\ IsFiniteSet(Signed) BY SignedCounted DEF Signed
  <2>3. QED BY <1>1, <2>1, <2>2, FS_AddElement
<1>2. CASE label # "signed" BY <1>2 DEF Delivering, Signed
<1>3. QED BY <1>1, <1>2

\* Nothing is signed at first.
LEMMA InitTyped == Init => TypeInv
<1> SUFFICES ASSUME Init PROVE TypeInv OBVIOUS
<1>1. TypeOK
  BY UploadConstants, EpochsTyped, ContentsTyped
  DEF Init, TypeOK, Statuses, NotSeen, Parts
<1>2. Counted BY SignedCounted DEF Init, Counted
<1>3. Reading BY UploadConstants DEF Init, Reading
<1>4. QED BY <1>1, <1>2, <1>3 DEF TypeInv

\* A step of signing keeps the count.
LEMMA CountedMoves ==
  ASSUME TypeInv, NEW d \in Jobs, deliver[d] \notin {"signed", "refused"},
         NEW label \in {"init", "rebuild", "reinit", "clear", "write", "begin", "signed", "refused"},
         Delivering(d, label), \A e \in Jobs \ {d} : epoch'[e] = epoch[e],
         (epoch'[d] = epoch[d] /\ deliver[d] # "new") \/ epoch'[d] \in {0, delivery_attempts + 1},
         delivery_attempts' = delivery_attempts
           \/ (label = "signed" /\ deliver[d] # "new"
                 /\ delivery_attempts' = epoch[d])
  PROVE  Counted'
<1>0. /\ delivery_attempts \in Nat /\ \A e \in Jobs : epoch[e] \in Nat
      /\ deliver \in [Jobs -> {"new", "init", "rebuild", "reinit", "clear", "write",
                               "begin", "signed", "refused"}]
  BY EpochsTyped DEF TypeInv, TypeOK
<1>1. Cardinality(Signed') \in {Cardinality(Signed), Cardinality(Signed) + 1}
      /\ (label = "signed" => Cardinality(Signed') = Cardinality(Signed) + 1)
      /\ Cardinality(Signed) \in Nat
  BY <1>0, SignedMoves, SignedCounted
<1>2. /\ delivery_attempts <= Cardinality(Signed)
      /\ \A e \in Jobs : deliver[e] \notin {"new", "signed", "refused"} =>
           epoch[e] <= Cardinality(Signed) + 1
  BY DEF TypeInv, Counted
<1>3. deliver'[d] = label /\ \A e \in Jobs \ {d} : deliver'[e] = deliver[e]
  BY <1>0 DEF Delivering
<1>4. delivery_attempts' <= Cardinality(Signed') BY <1>0, <1>1, <1>2
<1>5. ASSUME NEW e \in Jobs, deliver'[e] \notin {"new", "signed", "refused"}
      PROVE  epoch'[e] <= Cardinality(Signed') + 1
  <2>1. CASE e # d BY <1>0, <1>1, <1>2, <1>3, <1>5, <2>1
  <2>2. CASE e = d /\ epoch'[d] \in {0, delivery_attempts + 1} BY <1>0, <1>1, <1>2, <2>2
  <2>3. CASE e = d /\ epoch'[d] = epoch[d] /\ deliver[d] # "new"
    BY <1>0, <1>1, <1>2, <1>3, <1>5, <2>3
  <2>4. QED BY <2>1, <2>2, <2>3
<1>6. QED BY <1>4, <1>5 DEF Counted

\* What a request leaves alone keeps its type: the row, the session and the files are given
\* by what it writes.
RequestsTyped ==
  /\ deliver \in [Jobs -> {"new", "init", "rebuild", "reinit", "clear", "write",
                           "begin", "signed", "refused"}]
  /\ loaded \in [Jobs -> Statuses]
  /\ epoch \in [Jobs -> Epochs]
  /\ token \in [Jobs -> Epochs]
  /\ acked \in [Jobs -> SUBSET Parts]
  /\ put \in [Jobs -> {"idle", "opening", "writing", "orphan"}]
  /\ part_number \in [Jobs -> Parts]

RowTyped ==
  /\ delivery_status \in Statuses /\ delivery_attempts \in Epochs /\ object_sha256 \in Contents

FilesTyped ==
  /\ session \in Epochs \cup {NoSession} /\ fingerprint \in Jobs \cup {None}
  /\ merged \in Contents /\ parts \in Contents /\ file \in Contents

CompletesTyped ==
  /\ complete \in [Jobs -> {"idle", "load", "merge", "read", "publish", "check",
                            "discard", "record", "cleanup", "done"}]
  /\ seen \in [Jobs -> [status : Statuses, object : Contents]]
  /\ next_part \in [Jobs -> 1 .. PartCount + 1]
  /\ buffer \in [Jobs -> Contents]

BoundsTyped == aborts \in 0 .. MaxAborts /\ crashes \in 0 .. MaxCrashes

\* TypeOK by the variables that change together.
LEMMA PartsOfType == TypeOK <=> RowTyped /\ FilesTyped /\ RequestsTyped /\ CompletesTyped /\ BoundsTyped
BY DEF TypeOK, RowTyped, FilesTyped, RequestsTyped, CompletesTyped, BoundsTyped

\* Deleting a session.
LEMMA DeletedTyped ==
  ASSUME FilesTyped, put \in [Jobs -> {"idle", "opening", "writing", "orphan"}], DeleteMultipart,
         UNCHANGED file
  PROVE  FilesTyped' /\ put' \in [Jobs -> {"idle", "opening", "writing", "orphan"}]
BY ContentsTyped DEF FilesTyped, DeleteMultipart

\* The parts that were acknowledged.
LEMMA AcceptTyped ==
  ASSUME acked \in [Jobs -> SUBSET Parts], NEW d \in Jobs, Accept(d) \/ UNCHANGED acked
  PROVE  acked' \in [Jobs -> SUBSET Parts]
BY DEF Accept

\* deliver and uploads.
LEMMA DeliverTyped ==
  ASSUME TypeInv, NEW d \in Jobs, Deliver(d)
  PROVE  TypeInv'
<1>0. /\ RowTyped /\ FilesTyped /\ RequestsTyped /\ CompletesTyped /\ BoundsTyped /\ Counted /\ Reading
      /\ delivery_attempts \in Nat
  BY PartsOfType, EpochsTyped DEF TypeInv, RowTyped
<1>1. CompletesTyped' /\ BoundsTyped' /\ Reading' /\ UNCHANGED <<object_sha256, file>>
  BY <1>0
  DEF Deliver, DeliverLoad, DeliverInit, DeliverRebuild, DeliverReinit, DeliverClear, DeliverWrite,
      DeliverBegin, InitUpload, CompletesTyped, BoundsTyped, Reading
<1>2. ASSUME RowTyped', FilesTyped', RequestsTyped', Counted' PROVE TypeInv'
  <2>1. TypeOK' BY <1>1, <1>2 DEF TypeOK, RowTyped, FilesTyped, RequestsTyped, CompletesTyped, BoundsTyped
  <2>2. QED BY <1>1, <1>2, <2>1 DEF TypeInv
<1> USE DEF Delivering
<1>3. CASE DeliverLoad(d)
  <2>1. delivery_attempts + 1 \in Epochs
    <3>1. delivery_attempts + 1 <= Cardinality(Jobs)
      BY <1>0, <1>3, SignedCounted, EpochsTyped DEF DeliverLoad, Counted
    <3>2. QED BY <1>0, <3>1, EpochsTyped DEF Epochs
  <2>2. RowTyped' /\ FilesTyped' BY <1>0, <1>3 DEF DeliverLoad, RowTyped, FilesTyped
  <2>3. RequestsTyped' BY <1>0, <1>3, <2>1 DEF DeliverLoad, RequestsTyped, RowTyped
  <2>4. Counted' BY <1>0, <1>3, CountedMoves DEF DeliverLoad, RequestsTyped
  <2>5. QED BY <1>2, <2>2, <2>3, <2>4
<1>4. CASE DeliverInit(d) \/ DeliverReinit(d)
  <2>1. RowTyped' BY <1>0, <1>4 DEF DeliverInit, DeliverReinit, RowTyped
  <2>2. FilesTyped'
    BY <1>0, <1>4 DEF DeliverInit, DeliverReinit, Continue, FilesTyped, RequestsTyped
  <2>3. PICK label \in {"clear", "begin", "rebuild", "refused"} : Delivering(d, label)
    BY <1>4 DEF DeliverInit, DeliverReinit, Continue
  <2>4. acked' \in [Jobs -> SUBSET Parts]
    BY <1>0, <1>4, AcceptTyped DEF DeliverInit, DeliverReinit, Continue, RequestsTyped
  <2>5. UNCHANGED <<loaded, epoch, token, put, part_number, delivery_attempts>>
        /\ deliver[d] \in {"init", "reinit"}
    BY <1>4 DEF DeliverInit, DeliverReinit
  <2>6. RequestsTyped' BY <1>0, <2>3, <2>4, <2>5 DEF RequestsTyped
  <2>7. Counted' BY <2>3, <2>5, CountedMoves
  <2>8. QED BY <1>2, <2>1, <2>2, <2>6, <2>7
<1>5. CASE DeliverRebuild(d) \/ DeliverClear(d)
  <2>1. RowTyped' BY <1>0, <1>5 DEF DeliverRebuild, DeliverClear, RowTyped
  <2>2. FilesTyped' /\ put' \in [Jobs -> {"idle", "opening", "writing", "orphan"}]
    BY <1>0, <1>1, <1>5, DeletedTyped DEF DeliverRebuild, DeliverClear, RequestsTyped
  <2>3. PICK label \in {"reinit", "write"} : Delivering(d, label)
    BY <1>5 DEF DeliverRebuild, DeliverClear
  <2>4. UNCHANGED <<loaded, epoch, token, acked, part_number, delivery_attempts>>
        /\ deliver[d] \in {"rebuild", "clear"}
    BY <1>5 DEF DeliverRebuild, DeliverClear, DeleteMultipart
  <2>5. RequestsTyped' BY <1>0, <2>2, <2>3, <2>4 DEF RequestsTyped
  <2>6. Counted' BY <2>3, <2>4, CountedMoves
  <2>7. QED BY <1>2, <2>1, <2>2, <2>5, <2>6
<1>6. CASE DeliverWrite(d)
  <2>1. RowTyped' BY <1>0, <1>6 DEF DeliverWrite, RowTyped
  <2>2. FilesTyped' BY <1>0, <1>6, ContentsTyped DEF DeliverWrite, FilesTyped, RequestsTyped
  <2>3. PICK label \in {"signed", "begin"} : Delivering(d, label) BY <1>6 DEF DeliverWrite
  <2>4. acked' \in [Jobs -> SUBSET Parts]
    BY <1>0, <1>6, AcceptTyped DEF DeliverWrite, RequestsTyped
  <2>5. UNCHANGED <<loaded, epoch, put, part_number, delivery_attempts>>
        /\ deliver[d] = "write" /\ token' = [token EXCEPT ![d] = epoch[d]]
    BY <1>6 DEF DeliverWrite
  <2>6. RequestsTyped' BY <1>0, <2>3, <2>4, <2>5 DEF RequestsTyped
  <2>7. Counted' BY <2>3, <2>5, CountedMoves
  <2>8. QED BY <1>2, <2>1, <2>2, <2>6, <2>7
<1>7. CASE DeliverBegin(d)
  <2>1. RowTyped' BY <1>0, <1>1, <1>7 DEF DeliverBegin, RowTyped, RequestsTyped, Flush, Statuses
  <2>2. FilesTyped' BY <1>0, <1>7 DEF DeliverBegin, FilesTyped
  <2>3. RequestsTyped' BY <1>0, <1>7 DEF DeliverBegin, RequestsTyped
  <2>4. Counted' BY <1>7, CountedMoves DEF DeliverBegin
  <2>5. QED BY <1>2, <2>1, <2>2, <2>3, <2>4
<1>8. CASE InitUpload(d)
  <2>1. RowTyped' /\ FilesTyped' BY <1>0, <1>8 DEF InitUpload, RowTyped, FilesTyped
  <2>2. PICK label \in {"clear", "signed"} : Delivering(d, label) BY <1>8 DEF InitUpload
  <2>3. acked' \in [Jobs -> SUBSET Parts]
    BY <1>0, <1>8, AcceptTyped DEF InitUpload, RequestsTyped
  <2>4. token' \in [Jobs -> Epochs] /\ epoch' = [epoch EXCEPT ![d] = 0]
    BY <1>0, <1>8 DEF InitUpload, RequestsTyped, FilesTyped
  <2>5. UNCHANGED <<loaded, put, part_number, delivery_attempts>> /\ deliver[d] = "new"
    BY <1>8 DEF InitUpload
  <2>6. RequestsTyped' BY <1>0, <2>2, <2>3, <2>4, <2>5, EpochsTyped DEF RequestsTyped
  <2>7. Counted' BY <1>0, <2>2, <2>4, <2>5, CountedMoves DEF RequestsTyped
  <2>8. QED BY <1>2, <2>1, <2>6, <2>7
<1>9. QED BY <1>3, <1>4, <1>5, <1>6, <1>7, <1>8 DEF Deliver

\* Part requests.
LEMMA PutTyped ==
  ASSUME TypeInv, NEW d \in Jobs, Put(d)
  PROVE  TypeInv'
<1>0. /\ RowTyped /\ FilesTyped /\ RequestsTyped /\ CompletesTyped /\ BoundsTyped /\ Counted /\ Reading
  BY PartsOfType DEF TypeInv
<1>1. /\ RowTyped' /\ CompletesTyped' /\ BoundsTyped' /\ Counted' /\ Reading'
      /\ UNCHANGED <<session, fingerprint, merged, file, deliver, loaded, epoch, token>>
  BY <1>0
  DEF Put, PutStart, PutOpen, PutReplace, PutFails, RowTyped, CompletesTyped, BoundsTyped, Counted,
      Signed, Reading
<1>2. FilesTyped'
  <2>1. parts' \in Contents
    <3>1. CASE UNCHANGED parts BY <1>0, <3>1 DEF FilesTyped
    <3>2. CASE PutReplace(d) BY <1>0, <3>2 DEF PutReplace, FilesTyped, Contents
    <3>3. QED BY <3>1, <3>2 DEF Put, PutStart, PutOpen, PutFails
  <2>2. QED BY <1>0, <1>1, <2>1 DEF FilesTyped
<1>3. RequestsTyped'
  <2>1. CASE PutStart(d) BY <1>0, <2>1 DEF PutStart, RequestsTyped
  <2>2. CASE PutOpen(d) BY <1>0, <2>2 DEF PutOpen, RequestsTyped
  <2>3. CASE PutReplace(d) BY <1>0, <2>3 DEF PutReplace, RequestsTyped
  <2>4. CASE PutFails(d) BY <1>0, <2>4 DEF PutFails, RequestsTyped
  <2>5. QED BY <2>1, <2>2, <2>3, <2>4 DEF Put
<1>4. QED
  BY <1>1, <1>2, <1>3
  DEF TypeInv, TypeOK, RowTyped, FilesTyped, RequestsTyped, CompletesTyped, BoundsTyped

\* A complete that ends forgets what it read.
LEMMA ForgetTyped ==
  ASSUME CompletesTyped, Reading, NEW d \in Jobs, NEW label \in {"idle", "done"}, Completing(d, label), Forget(d)
  PROVE  CompletesTyped' /\ Reading'
<1>1. NotSeen \in [status : Statuses, object : Contents] BY ContentsTyped DEF NotSeen, Statuses
<1>2. 1 \in 1 .. PartCount + 1 BY UploadConstants
<1>3. QED BY <1>1, <1>2, ContentsTyped DEF CompletesTyped, Reading, Completing, Forget

\* complete.
LEMMA CompleteTyped ==
  ASSUME TypeInv, NEW d \in Jobs, Complete(d)
  PROVE  TypeInv'
<1>0. /\ RowTyped /\ FilesTyped /\ RequestsTyped /\ CompletesTyped /\ BoundsTyped /\ Counted /\ Reading
  BY PartsOfType DEF TypeInv
<1>1. UNCHANGED <<deliver, loaded, epoch, token, part_number, acked, delivery_attempts, bounds>>
  BY DEF Complete, CompleteStart, CompleteLoad, MergeStart, MergeRead, MergePartMissing,
         MergePublish, CompleteCheck, CompleteDiscard, CompleteRecord, CompleteCleanup, DeleteMultipart
<1>2. Counted' /\ BoundsTyped' BY <1>0, <1>1 DEF Counted, Signed, BoundsTyped
<1>3. ASSUME RowTyped', FilesTyped', CompletesTyped', Reading',
             put' \in [Jobs -> {"idle", "opening", "writing", "orphan"}]
      PROVE  TypeInv'
  <2>1. RequestsTyped' BY <1>0, <1>1, <1>3 DEF RequestsTyped
  <2>2. QED
    BY <1>2, <1>3, <2>1
    DEF TypeInv, TypeOK, RowTyped, FilesTyped, RequestsTyped, CompletesTyped, BoundsTyped
<1>4. ASSUME UNCHANGED <<rowVars, sessionVars, file, put>>, CompletesTyped', Reading' PROVE TypeInv'
  BY <1>0, <1>3, <1>4 DEF RowTyped, FilesTyped, RequestsTyped
<1> USE DEF Completing
<1>5. CASE CompleteStart(d) BY <1>0, <1>4, <1>5 DEF CompleteStart, CompletesTyped, Reading
<1>6. CASE CompleteLoad(d)
  <2>1. PICK label \in {"idle", "merge"} : complete' = [complete EXCEPT ![d] = label]
    BY <1>6 DEF CompleteLoad
  <2>2. seen' \in [Jobs -> [status : Statuses, object : Contents]]
    BY <1>0, <1>6 DEF CompleteLoad, CompletesTyped, RowTyped
  <2>3. complete[d] = "load" /\ UNCHANGED <<next_part, buffer>> BY <1>6 DEF CompleteLoad
  <2>4. CompletesTyped' /\ Reading' BY <1>0, <2>1, <2>2, <2>3 DEF CompletesTyped, Reading
  <2>5. QED BY <1>4, <1>6, <2>4 DEF CompleteLoad
<1>7. CASE MergeStart(d)
  <2>1. PICK label \in {"record", "discard", "read"} : complete' = [complete EXCEPT ![d] = label]
    BY <1>7 DEF MergeStart
  <2>2. buffer' \in [Jobs -> Contents] BY <1>0, <1>7 DEF MergeStart, CompletesTyped, FilesTyped
  <2>3. complete[d] = "merge" /\ UNCHANGED <<next_part, seen>> BY <1>7 DEF MergeStart
  <2>4. CompletesTyped' BY <1>0, <2>1, <2>2, <2>3 DEF CompletesTyped
  <2>5. Reading'
    <3>1. next_part[d] = 1 /\ 1 <= PartCount BY <1>0, <2>3, UploadConstants DEF Reading
    <3>2. QED BY <1>0, <2>1, <2>3, <3>1 DEF Reading, CompletesTyped
  <2>6. QED BY <1>4, <1>7, <2>4, <2>5 DEF MergeStart
<1>8. CASE MergeRead(d)
  <2>1. next_part[d] \in Parts BY <1>0, <1>8, UploadConstants DEF MergeRead, CompletesTyped, Reading, Parts
  <2>2. buffer' \in [Jobs -> Contents]
    <3> DEFINE c == [buffer[d] EXCEPT ![next_part[d]] = parts[next_part[d]]]
    <3>1. buffer[d] \in Contents /\ parts \in Contents BY <1>0 DEF CompletesTyped, FilesTyped
    <3>2. c \in Contents BY <2>1, <3>1 DEF Contents
    <3>3. buffer' = [buffer EXCEPT ![d] = c] BY <1>8 DEF MergeRead
    <3> HIDE DEF c
    <3>4. QED BY <1>0, <3>2, <3>3 DEF CompletesTyped
  <2>3. next_part' = [next_part EXCEPT ![d] = next_part[d] + 1]
        /\ UNCHANGED <<seen, rowVars, sessionVars, file, put>>
    BY <1>8 DEF MergeRead
  <2>4. complete' = [complete EXCEPT ![d] = IF next_part[d] = PartCount THEN "publish" ELSE "read"]
    BY <1>8 DEF MergeRead
  <2>5. CompletesTyped' BY <1>0, <2>1, <2>2, <2>3, <2>4, UploadConstants DEF CompletesTyped, Parts
  <2>6. Reading'
    <3>1. CASE next_part[d] = PartCount BY <1>0, <2>3, <2>4, <3>1 DEF Reading, CompletesTyped
    <3>2. CASE next_part[d] # PartCount
      <4>1. next_part[d] + 1 <= PartCount BY <2>1, <3>2, UploadConstants DEF Parts
      <4>2. QED BY <1>0, <2>3, <2>4, <3>2, <4>1 DEF Reading, CompletesTyped
    <3>3. QED BY <3>1, <3>2
  <2>7. QED BY <1>4, <2>3, <2>5, <2>6
<1>9. CASE MergePartMissing(d)
  <2>1. CompletesTyped' /\ Reading' BY <1>0, <1>9, ForgetTyped DEF MergePartMissing
  <2>2. QED BY <1>4, <1>9, <2>1 DEF MergePartMissing
<1>10. CASE MergePublish(d)
  <2>1. CompletesTyped' /\ Reading' BY <1>0, <1>10 DEF MergePublish, CompletesTyped, Reading
  <2>2. RowTyped' /\ FilesTyped' /\ UNCHANGED put
    BY <1>0, <1>10 DEF MergePublish, RowTyped, FilesTyped, CompletesTyped
  <2>3. QED BY <1>0, <1>3, <2>1, <2>2 DEF RequestsTyped
<1>11. CASE CompleteCheck(d)
  <2>1. PICK label \in {"record", "discard"} : complete' = [complete EXCEPT ![d] = label]
    BY <1>11 DEF CompleteCheck
  <2>2. CompletesTyped' /\ Reading' BY <1>0, <1>11, <2>1 DEF CompleteCheck, CompletesTyped, Reading
  <2>3. RowTyped' /\ FilesTyped' /\ UNCHANGED put
    BY <1>0, <1>11, ContentsTyped DEF CompleteCheck, RowTyped, FilesTyped, CompletesTyped
  <2>4. QED BY <1>0, <1>3, <2>2, <2>3 DEF RequestsTyped
<1>12. CASE CompleteDiscard(d) \/ CompleteCleanup(d)
  <2>1. CompletesTyped' /\ Reading'
    BY <1>0, <1>12, ForgetTyped DEF CompleteDiscard, CompleteCleanup
  <2>2. RowTyped' BY <1>0, <1>12 DEF CompleteDiscard, CompleteCleanup, RowTyped
  <2>3. FilesTyped' /\ put' \in [Jobs -> {"idle", "opening", "writing", "orphan"}]
    BY <1>0, <1>12, DeletedTyped DEF CompleteDiscard, CompleteCleanup, RequestsTyped
  <2>4. QED BY <1>3, <2>1, <2>2, <2>3
<1>13. CASE CompleteRecord(d)
  <2>1. CompletesTyped' /\ Reading' BY <1>0, <1>13 DEF CompleteRecord, CompletesTyped, Reading
  <2>2. RowTyped' /\ FilesTyped' /\ UNCHANGED put
    BY <1>0, <1>13 DEF CompleteRecord, RowTyped, FilesTyped, CompletesTyped, Flush, Statuses
  <2>3. QED BY <1>0, <1>3, <2>1, <2>2 DEF RequestsTyped
<1>14. QED
  BY <1>5, <1>6, <1>7, <1>8, <1>9, <1>10, <1>11, <1>12, <1>13 DEF Complete

\* TypeInv is inductive.
LEMMA NextTyped == TypeInv /\ [Next]_vars => TypeInv'
<1> SUFFICES ASSUME TypeInv, [Next]_vars PROVE TypeInv' OBVIOUS
<1>0. /\ RowTyped /\ FilesTyped /\ RequestsTyped /\ CompletesTyped /\ BoundsTyped /\ Counted /\ Reading
  BY PartsOfType DEF TypeInv
<1> USE DEF TypeInv, TypeOK
<1>1. CASE UNCHANGED vars BY <1>1 DEF Counted, Signed, Reading
<1>2. CASE AbortUpload
  <2>1. FilesTyped' /\ put' \in [Jobs -> {"idle", "opening", "writing", "orphan"}]
    BY <1>0, <1>2, DeletedTyped DEF AbortUpload, RequestsTyped
  <2>2. aborts' \in 0 .. MaxAborts BY <1>2, UploadConstants DEF AbortUpload
  <2>3. UNCHANGED <<rowVars, deliverVars, acked, part_number, completeVars, crashes>>
    BY <1>2 DEF AbortUpload, DeleteMultipart
  <2>4. Counted' /\ Reading' BY <2>3 DEF Counted, Signed, Reading
  <2>5. QED BY <2>1, <2>2, <2>3, <2>4 DEF FilesTyped
<1>3. CASE Crash
  <2>1. CompletesTyped'
    <3>1. NotSeen \in [status : Statuses, object : Contents] BY ContentsTyped DEF NotSeen, Statuses
    <3>2. 1 \in 1 .. PartCount + 1 BY UploadConstants
    <3>3. QED BY <1>0, <1>3, <3>1, <3>2, ContentsTyped DEF Crash, CompletesTyped
  <2>2. RequestsTyped' BY <1>0, <1>3 DEF Crash, RequestsTyped
  <2>3. RowTyped' /\ FilesTyped' BY <1>0, <1>3 DEF Crash, RowTyped, FilesTyped
  <2>4. BoundsTyped' BY <1>0, <1>3, UploadConstants DEF Crash, BoundsTyped
  <2>5. Counted'
    <3>1. Signed' = Signed /\ UNCHANGED <<delivery_attempts, epoch>> BY <1>3 DEF Crash, Signed
    <3>2. \A d \in Jobs : deliver'[d] \in {"new", "signed", "refused"} BY <1>3 DEF Crash
    <3>3. QED BY <3>1, <3>2 DEF Counted
  <2>6. Reading' BY <1>3 DEF Crash, Reading
  <2>7. QED
    BY <2>1, <2>2, <2>3, <2>4, <2>5, <2>6
    DEF RowTyped, FilesTyped, RequestsTyped, CompletesTyped, BoundsTyped
<1>4. QED BY <1>1, <1>2, <1>3, DeliverTyped, PutTyped, CompleteTyped DEF Next

\* The row, the session, the files and the requests keep their types; above all, the epochs that
\* the row counts and the sessions and tokens carry never exceed the number of deliveries, though
\* requests count from rows they loaded long ago, and a merge reads no part beyond the last.
THEOREM TypeCorrect == Spec => []TypeOK
<1>1. Spec => []TypeInv BY InitTyped, NextTyped, PTL DEF Spec
<1>2. TypeInv => TypeOK BY DEF TypeInv
<1>3. QED BY <1>1, <1>2, PTL

================================================================================
