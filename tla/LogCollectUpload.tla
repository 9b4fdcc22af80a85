---------------------------- MODULE LogCollectUpload ----------------------------
(***************************************************************************)
(* Upload of a log package to the platform: the deliver, uploads and data- *)
(* plane routes of routes/log_collect.py, log_collect_upload_service.py    *)
(* and log_collect_storage.py of the case-service.                         *)
(*                                                                         *)
(* One task: its row, the upload session on disk (a directory with         *)
(* meta.json, part files and temporary files), the object file, and the    *)
(* requests that work on them.  A job is one delivery of one package: the  *)
(* request that signs a session (POST .../deliver, or .../uploads, which   *)
(* knows no epoch), then the bridge's part uploads and its complete.  A    *)
(* request is a program cut where the code awaits.                         *)
(*                                                                         *)
(* Data: the bytes of a part are the job it belongs to; the bytes and the  *)
(* digest of a package are the function from part number to job; sizes of  *)
(* packages are equal, so only contents tell them apart.  Every complete   *)
(* declares a digest, as the bridge does (delivery_runner.go:1576).        *)
(***************************************************************************)
EXTENDS Integers, FiniteSets

CONSTANTS
  Jobs,                \* deliveries of the task, each of a package of its own
  None,                \* no job: the content of a part that is not there
  PartCount,           \* part_count_for: parts of a package
  FingerprintsDiffer,  \* archive_fingerprint tells the packages apart (the panel
                       \* builds it from size and path, so it may not)
  UploadsRoute,        \* a client calls POST .../uploads: an older panel; the present
                       \* one calls .../deliver only
  MaxAborts,           \* bound: sessions a user aborts in a behaviour
  MaxCrashes           \* bound: pod crashes in a behaviour

ASSUME UploadConstants ==
  /\ IsFiniteSet(Jobs)
  /\ None \notin Jobs
  /\ PartCount \in Nat \ {0}
  /\ FingerprintsDiffer \in BOOLEAN
  /\ UploadsRoute \in BOOLEAN
  /\ MaxAborts \in Nat
  /\ MaxCrashes \in Nat

Parts     == 1 .. PartCount
NoSession == -1                          \* 0 is a session without an epoch
Epochs    == 0 .. Cardinality(Jobs)
Statuses  == {"none", "queued", "delivered"}
Contents  == [Parts -> Jobs \cup {None}]
Nothing   == [n \in Parts |-> None]      \* no file, no digest, no part
Whole(d)  == [n \in Parts |-> d]

VARIABLES
  \* --- the row of log_collect_task
  delivery_status, delivery_attempts, object_sha256,
  \* --- multipart/<task>: meta.json's delivery_epoch, fingerprint (by the job it is
  \*     the package of) and merged marker; the part files
  session, fingerprint, merged, parts,
  \* --- objects/<case>/<task>.zip
  file,
  \* --- deliver requests: progress, status as loaded, epoch taken from the row
  deliver, loaded, epoch,
  \* --- the bridge: the token's epoch and the parts acknowledged to it
  token, acked,
  \* --- part requests: progress and part number
  put, part_number,
  \* --- complete requests: progress, row as loaded, parts read, what they hold
  complete, seen, next_part, buffer,
  aborts, crashes

rowVars      == <<delivery_status, delivery_attempts, object_sha256>>
sessionVars  == <<session, fingerprint, merged, parts>>
deliverVars  == <<deliver, loaded, epoch, token>>
putVars      == <<put, part_number, acked>>
completeVars == <<complete, seen, next_part, buffer>>
bounds       == <<aborts, crashes>>
vars == <<rowVars, sessionVars, file, deliverVars, putVars, completeVars, bounds>>

TypeOK ==
  /\ delivery_status \in Statuses
  /\ delivery_attempts \in Epochs
  /\ object_sha256 \in Contents
  /\ session \in Epochs \cup {NoSession}
  /\ fingerprint \in Jobs \cup {None}
  /\ merged \in Contents
  /\ parts \in Contents
  /\ file \in Contents
  /\ deliver \in [Jobs -> {"new", "init", "rebuild", "reinit", "clear", "write",
                           "begin", "signed", "refused"}]
  /\ loaded \in [Jobs -> Statuses]
  /\ epoch \in [Jobs -> Epochs]
  /\ token \in [Jobs -> Epochs]
  /\ acked \in [Jobs -> SUBSET Parts]
  /\ put \in [Jobs -> {"idle", "opening", "writing", "orphan"}]
  /\ part_number \in [Jobs -> Parts]
  /\ complete \in [Jobs -> {"idle", "load", "merge", "read", "publish", "check",
                            "discard", "record", "cleanup", "done"}]
  /\ seen \in [Jobs -> [status : Statuses, object : Contents]]
  /\ next_part \in [Jobs -> 1 .. PartCount + 1]
  /\ buffer \in [Jobs -> Contents]
  /\ aborts \in 0 .. MaxAborts
  /\ crashes \in 0 .. MaxCrashes

NotSeen == [status |-> "none", object |-> Nothing]

Init ==
  /\ delivery_status = "none" /\ delivery_attempts = 0 /\ object_sha256 = Nothing
  /\ session = NoSession /\ fingerprint = None /\ merged = Nothing /\ parts = Nothing
  /\ file = Nothing
  /\ deliver = [d \in Jobs |-> "new"]
  /\ loaded = [d \in Jobs |-> "none"]
  /\ epoch = [d \in Jobs |-> 0]
  /\ token = [d \in Jobs |-> 0]
  /\ acked = [d \in Jobs |-> {}]
  /\ put = [d \in Jobs |-> "idle"]
  /\ part_number = [d \in Jobs |-> 1]
  /\ complete = [d \in Jobs |-> "idle"]
  /\ seen = [d \in Jobs |-> NotSeen]
  /\ next_part = [d \in Jobs |-> 1]
  /\ buffer = [d \in Jobs |-> Nothing]
  /\ aborts = 0 /\ crashes = 0

\* The commit of a session writes the columns that differ from the row as it was loaded.
Flush(old, new, current) == IF new = old THEN current ELSE new

\* delete_multipart(): the directory goes, and with it the temporary file of
\* every part request that is writing.
DeleteMultipart ==
  /\ session' = NoSession
  /\ fingerprint' = None
  /\ merged' = Nothing
  /\ parts' = Nothing
  /\ put' = [d \in Jobs |-> IF put[d] = "writing" THEN "orphan" ELSE put[d]]
  /\ UNCHANGED part_number

--------------------------------------------------------------------------------
(***************************************************************************)
(* POST /{task_id}/deliver and POST /{task_id}/uploads                     *)
(***************************************************************************)
Delivering(d, label) == deliver' = [deliver EXCEPT ![d] = label]

\* What init() answers tells the bridge the parts it need not send.
Accept(d) == acked' = [acked EXCEPT ![d] = {n \in Parts : parts[n] # None}]

\* init() refuses the session of another package or, when both have one, epoch.
Diverged(d) == session \notin {0, epoch[d]} \/ (FingerprintsDiffer /\ fingerprint # d)

\* A session without an epoch is taken over with the parts it has: it gets this one.
Continue(d) ==
  /\ session # NoSession
  /\ ~Diverged(d)
  /\ session' = epoch[d]
  /\ Delivering(d, "begin")
  /\ Accept(d)

\* The next epoch comes from the row as loaded by _owned_task.  A task already
\* delivered is delivered again only by force, which a user may always ask for.
DeliverLoad(d) ==
  /\ deliver[d] = "new"
  /\ epoch' = [epoch EXCEPT ![d] = delivery_attempts + 1]
  /\ loaded' = [loaded EXCEPT ![d] = delivery_status]
  /\ Delivering(d, "init")
  /\ UNCHANGED <<rowVars, sessionVars, file, token, putVars, completeVars, bounds>>

\* init(): a session of this package and epoch goes on with the parts it has;
\* another one is a 409 ...
DeliverInit(d) ==
  /\ deliver[d] = "init"
  /\ \/ session = NoSession /\ Delivering(d, "clear") /\ UNCHANGED <<acked, session>>
     \/ Continue(d)
     \/ session # NoSession /\ Diverged(d) /\ Delivering(d, "rebuild") /\ UNCHANGED <<acked, session>>
  /\ UNCHANGED <<rowVars, fingerprint, merged, parts, file, loaded, epoch, token, put, part_number,
                 completeVars, bounds>>

\* ... on which the route aborts the session and tries once more.
DeliverRebuild(d) ==
  /\ deliver[d] = "rebuild"
  /\ DeleteMultipart
  /\ Delivering(d, "reinit")
  /\ UNCHANGED <<rowVars, file, loaded, epoch, token, acked, completeVars, bounds>>

DeliverReinit(d) ==
  /\ deliver[d] = "reinit"
  /\ \/ session = NoSession /\ Delivering(d, "clear") /\ UNCHANGED <<acked, session>>
     \/ Continue(d)
     \/ session # NoSession /\ Diverged(d) /\ Delivering(d, "refused") /\ UNCHANGED <<acked, session>>
  /\ UNCHANGED <<rowVars, fingerprint, merged, parts, file, loaded, epoch, token, put, part_number,
                 completeVars, bounds>>

\* init() without a session: clear left-overs, then write meta.json and sign.
DeliverClear(d) ==
  /\ deliver[d] = "clear"
  /\ DeleteMultipart
  /\ Delivering(d, "write")
  /\ UNCHANGED <<rowVars, file, loaded, epoch, token, acked, completeVars, bounds>>

\* The epoch of .../uploads is 0, and it counts no attempt: its token is answered here.
DeliverWrite(d) ==
  /\ deliver[d] = "write"
  /\ session' = epoch[d]
  /\ fingerprint' = d
  /\ merged' = Nothing
  /\ Accept(d)
  /\ Delivering(d, IF epoch[d] = 0 THEN "signed" ELSE "begin")
  /\ token' = [token EXCEPT ![d] = epoch[d]]
  /\ UNCHANGED <<rowVars, parts, file, loaded, epoch, put, part_number, completeVars, bounds>>

\* Mutant of DeliverBegin: the route's next epoch is counted once more.
DeliverBeginTwice(d) ==
  /\ deliver[d] = "begin"
  /\ delivery_status' = Flush(loaded[d], "queued", delivery_status)
  /\ delivery_attempts' = epoch[d] + 1
  /\ token' = [token EXCEPT ![d] = epoch[d]]
  /\ Delivering(d, "signed")
  /\ UNCHANGED <<object_sha256, sessionVars, file, loaded, epoch, putVars, completeVars, bounds>>

\* begin_delivery() increments the attempts it loaded, then the bridge gets the token.
DeliverBegin(d) ==
  /\ deliver[d] = "begin"
  /\ delivery_status' = Flush(loaded[d], "queued", delivery_status)
  /\ delivery_attempts' = epoch[d]
  /\ token' = [token EXCEPT ![d] = epoch[d]]
  /\ Delivering(d, "signed")
  /\ UNCHANGED <<object_sha256, sessionVars, file, loaded, epoch, putVars, completeVars, bounds>>

\* POST /{task_id}/uploads: init() without an epoch goes on with the session of any
\* epoch, signs for that epoch, and writes a session of epoch 0 when there is none.
InitUpload(d) ==
  /\ UploadsRoute
  /\ deliver[d] = "new"
  /\ epoch' = [epoch EXCEPT ![d] = 0]
  /\ \/ /\ session = NoSession
        /\ Delivering(d, "clear")
        /\ UNCHANGED <<token, acked>>
     \/ /\ session # NoSession
        /\ FingerprintsDiffer => fingerprint = d
        /\ Delivering(d, "signed")
        /\ token' = [token EXCEPT ![d] = session]
        /\ Accept(d)
  /\ UNCHANGED <<rowVars, sessionVars, file, loaded, put, part_number, completeVars, bounds>>

\* POST /{task_id}/uploads/abort, by the user, at any time.
AbortUpload ==
  /\ session # NoSession
  /\ aborts < MaxAborts
  /\ aborts' = aborts + 1
  /\ DeleteMultipart
  /\ UNCHANGED <<rowVars, file, deliverVars, acked, completeVars, crashes>>

\* verify_token(): the signature covers the epoch of the session there is now.
VerifyToken(d) == deliver[d] = "signed" /\ session = token[d]

--------------------------------------------------------------------------------
(***************************************************************************)
(* PUT /{task_id}/parts/{part_number}: verify, then open a temporary file, *)
(* then write it and rename it to the part.                                *)
(***************************************************************************)
PutStart(d) ==
  /\ put[d] = "idle"
  /\ VerifyToken(d)
  /\ \E n \in Parts \ acked[d] : part_number' = [part_number EXCEPT ![d] = n]
  /\ put' = [put EXCEPT ![d] = "opening"]
  /\ UNCHANGED <<rowVars, sessionVars, file, deliverVars, acked, completeVars, bounds>>

\* The temporary file is opened by path: in the directory there is by then.
PutOpen(d) ==
  /\ put[d] = "opening"
  /\ put' = [put EXCEPT ![d] = IF session = NoSession THEN "idle" ELSE "writing"]
  /\ UNCHANGED <<rowVars, sessionVars, file, deliverVars, part_number, acked,
                 completeVars, bounds>>

PutReplace(d) ==
  /\ put[d] = "writing"
  /\ parts' = [parts EXCEPT ![part_number[d]] = d]
  /\ acked' = [acked EXCEPT ![d] = @ \cup {part_number[d]}]
  /\ put' = [put EXCEPT ![d] = "idle"]
  /\ UNCHANGED <<rowVars, session, fingerprint, merged, file, deliverVars, part_number,
                 completeVars, bounds>>

\* os.replace of a temporary file that was deleted under it: the request fails.
PutFails(d) ==
  /\ put[d] = "orphan"
  /\ put' = [put EXCEPT ![d] = "idle"]
  /\ UNCHANGED <<rowVars, sessionVars, file, deliverVars, part_number, acked,
                 completeVars, bounds>>

--------------------------------------------------------------------------------
(***************************************************************************)
(* POST /{task_id}/complete                                                *)
(***************************************************************************)
Completing(d, label) == complete' = [complete EXCEPT ![d] = label]

\* A complete that fails is answered and forgotten; the bridge may try again.
Forget(d) ==
  /\ seen' = [seen EXCEPT ![d] = NotSeen]
  /\ next_part' = [next_part EXCEPT ![d] = 1]
  /\ buffer' = [buffer EXCEPT ![d] = Nothing]

\* The data plane's complete verifies the token; .../uploads/complete only asks that
\* the task be the caller's.
CompleteStart(d) ==
  /\ complete[d] = "idle"
  /\ deliver[d] = "signed"
  /\ acked[d] = Parts
  /\ VerifyToken(d) \/ epoch[d] = 0
  /\ Completing(d, "load")
  /\ UNCHANGED <<rowVars, sessionVars, file, deliverVars, putVars, seen, next_part,
                 buffer, bounds>>

\* get_task(), then complete() up to its first commit: is every part there?
CompleteLoad(d) ==
  /\ complete[d] = "load"
  /\ IF session = NoSession \/ \E n \in Parts : parts[n] = None
     THEN Completing(d, "idle") /\ UNCHANGED seen
     ELSE /\ Completing(d, "merge")
          /\ seen' = [seen EXCEPT ![d] = [status |-> delivery_status,
                                          object |-> object_sha256]]
  /\ UNCHANGED <<rowVars, sessionVars, file, deliverVars, putVars, next_part, buffer, bounds>>

\* Mutant of MergeStart: a session that is merged is refused, not used again.
MergeStartOnce(d) ==
  /\ complete[d] = "merge"
  /\ Completing(d, IF merged # Nothing /\ file # Nothing THEN "idle" ELSE "read")
  /\ UNCHANGED <<rowVars, sessionVars, file, deliverVars, putVars, seen, next_part, buffer, bounds>>

\* merge(): _reuse_merged trusts the marker when the object has the right size.
MergeStart(d) ==
  /\ complete[d] = "merge"
  /\ \/ /\ merged # Nothing /\ file # Nothing
        /\ buffer' = [buffer EXCEPT ![d] = merged]
        /\ Completing(d, IF merged = Whole(d) THEN "record" ELSE "discard")
     \/ /\ merged = Nothing \/ file = Nothing
        /\ UNCHANGED buffer
        /\ Completing(d, "read")
  /\ UNCHANGED <<rowVars, sessionVars, file, deliverVars, putVars, seen, next_part, bounds>>

\* Each part is looked up by path when its turn comes.
MergeRead(d) ==
  /\ complete[d] = "read"
  /\ parts[next_part[d]] # None
  /\ buffer' = [buffer EXCEPT ![d][next_part[d]] = parts[next_part[d]]]
  /\ next_part' = [next_part EXCEPT ![d] = @ + 1]
  /\ Completing(d, IF next_part[d] = PartCount THEN "publish" ELSE "read")
  /\ UNCHANGED <<rowVars, sessionVars, file, deliverVars, putVars, seen, bounds>>

MergePartMissing(d) ==
  /\ complete[d] = "read"
  /\ parts[next_part[d]] = None
  /\ Completing(d, "idle")
  /\ Forget(d)
  /\ UNCHANGED <<rowVars, sessionVars, file, deliverVars, putVars, bounds>>

\* os.replace, then _mark_merged into the meta.json there is by then.
MergePublish(d) ==
  /\ complete[d] = "publish"
  /\ file' = buffer[d]
  /\ Completing(d, "check")
  /\ UNCHANGED <<rowVars, sessionVars, deliverVars, putVars, seen, next_part, buffer, bounds>>

\* Mutant of CompleteCheck: the merged digest is not compared with the declared one.
CompleteCheckNothing(d) ==
  /\ complete[d] = "check"
  /\ merged' = IF session = NoSession THEN Nothing ELSE buffer[d]
  /\ Completing(d, "record")
  /\ UNCHANGED <<rowVars, session, fingerprint, parts, file, deliverVars, putVars, seen, next_part,
                 buffer, bounds>>

CompleteCheck(d) ==
  /\ complete[d] = "check"
  /\ merged' = IF session = NoSession THEN Nothing ELSE buffer[d]
  /\ Completing(d, IF buffer[d] = Whole(d) THEN "record" ELSE "discard")
  /\ UNCHANGED <<rowVars, session, fingerprint, parts, file, deliverVars, putVars, seen, next_part,
                 buffer, bounds>>

\* A mismatch deletes whatever session the task has.
CompleteDiscard(d) ==
  /\ complete[d] = "discard"
  /\ DeleteMultipart
  /\ Completing(d, "idle")
  /\ Forget(d)
  /\ UNCHANGED <<rowVars, file, deliverVars, acked, bounds>>

\* The row is committed before the session is deleted, never the other way round.
CompleteRecord(d) ==
  /\ complete[d] = "record"
  /\ object_sha256' = Flush(seen[d].object, buffer[d], object_sha256)
  /\ delivery_status' = Flush(seen[d].status, "delivered", delivery_status)
  /\ Completing(d, "cleanup")
  /\ UNCHANGED <<delivery_attempts, sessionVars, file, deliverVars, putVars, seen,
                 next_part, buffer, bounds>>

CompleteCleanup(d) ==
  /\ complete[d] = "cleanup"
  /\ DeleteMultipart
  /\ Completing(d, "done")
  /\ Forget(d)
  /\ UNCHANGED <<rowVars, file, deliverVars, acked, bounds>>

--------------------------------------------------------------------------------
\* The pod dies: every request in flight is gone; files and rows stay.
Crash ==
  /\ crashes < MaxCrashes
  /\ crashes' = crashes + 1
  /\ deliver' = [d \in Jobs |-> IF deliver[d] \in {"signed", "refused"}
                                THEN deliver[d] ELSE "new"]
  /\ put' = [d \in Jobs |-> "idle"]
  /\ complete' = [d \in Jobs |-> IF complete[d] = "done" THEN "done" ELSE "idle"]
  /\ seen' = [d \in Jobs |-> NotSeen]
  /\ next_part' = [d \in Jobs |-> 1]
  /\ buffer' = [d \in Jobs |-> Nothing]
  /\ UNCHANGED <<rowVars, sessionVars, file, loaded, epoch, token, part_number, acked, aborts>>

Deliver(d) ==
  \/ DeliverLoad(d) \/ DeliverInit(d) \/ DeliverRebuild(d) \/ DeliverReinit(d)
  \/ DeliverClear(d) \/ DeliverWrite(d) \/ DeliverBegin(d) \/ InitUpload(d)

Put(d) == PutStart(d) \/ PutOpen(d) \/ PutReplace(d) \/ PutFails(d)

Complete(d) ==
  \/ CompleteStart(d) \/ CompleteLoad(d) \/ MergeStart(d) \/ MergeRead(d)
  \/ MergePartMissing(d) \/ MergePublish(d) \/ CompleteCheck(d) \/ CompleteDiscard(d)
  \/ CompleteRecord(d) \/ CompleteCleanup(d)

Next == (\E d \in Jobs : Deliver(d) \/ Put(d) \/ Complete(d)) \/ AbortUpload \/ Crash

Spec == Init /\ [][Next]_vars

\* The bridge keeps uploading and completing a delivery it holds a token for, and
\* the event loop goes on with every request.
FairSpec == Spec /\ \A d \in Jobs : WF_vars(Put(d)) /\ WF_vars(Complete(d))

--------------------------------------------------------------------------------
\* Whatever sessions are rebuilt under a running merge, the digest recorded in the
\* row is that of one whole package, never of a mixture of generations.
RecordedIsWhole == object_sha256 # Nothing => \E d \in Jobs : object_sha256 = Whole(d)

HasSession(d) == session = token[d] /\ fingerprint = d

\* A delivery the platform has signed reaches "delivered" unless a newer delivery or an
\* abort takes its session, through pod crashes between the merge, its marker, the commit
\* and the deletion of the session: no session waits for ever.
SignedIsDelivered ==
  []<>(\A d \in Jobs : deliver[d] = "signed" /\ HasSession(d) => delivery_status = "delivered")

--------------------------------------------------------------------------------
(***************************************************************************)
(* Promises of the documents that the code does not keep: each fails under *)
(* Spec with two deliveries and no fault (README.md, section 3).           *)
(***************************************************************************)
\* "Any write of an old generation must have no effect on the new one": a row that
\* says delivered records the package of the delivery it counted last.
DeliveredIsCurrent ==
  delivery_status = "delivered" =>
    \E d \in Jobs : object_sha256 = Whole(d) /\ epoch[d] = delivery_attempts

\* "Parts of an old job never mix into the new package's bytes": the parts of a
\* session come from one package.
SessionIsPure == \A m, n \in Parts : None \notin {parts[m], parts[n]} => parts[m] = parts[n]

================================================================================
