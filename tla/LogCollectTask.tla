----------------------------- MODULE LogCollectTask -----------------------------
(***************************************************************************)
(* The log-collection task: log_collect_service.py, its repository and the *)
(* control routes of routes/log_collect.py in the case-service.            *)
(*                                                                         *)
(* The tasks of one case and the requests that work on them.  A request    *)
(* loads the row, awaits, computes on what it loaded and commits; the      *)
(* commit writes only the columns it changed (SQLAlchemy's unit of work),  *)
(* no row is locked and none is re-read.  The end of an upload and of a    *)
(* relay write the same rows, and are requests here too.                   *)
(*                                                                         *)
(* Data: progress is 0 .. Full; finished stands for finished_at; evidence  *)
(* for detail.delivery_evidence; error for error_code; object for whether  *)
(* object_key is set, i.e. the platform holds the package.                 *)
(***************************************************************************)
EXTENDS Integers

CONSTANTS
  Tasks,       \* tasks of the case
  Requests,    \* requests and jobs the service works on at a time
  Operations,  \* what the clients ask for
  Targets,     \* statuses a client reports
  ClientProgress, \* progress a client reports
  ClientModes, \* upload modes a client chooses
  ClientErrors,\* error codes a client reports
  Full         \* progress of a finished collection (100 in the code)

ASSUME TaskConstants ==
  /\ Tasks # {}
  /\ Operations \subseteq 
       {"create", "update", "cancel", "attest", "verify", "deliver", "arrive", "relay"}
  /\ Full \in Nat \ {0}

Active   == {"pending", "probing", "installing", "collecting", "packaging", "uploading"}
Terminal == {"completed", "failed", "cancelled"}
Modes    == {"acli_direct", "bridge_relay", "none"}
Evidence == {"none", "acli_self_reported", "archive_verified", "archive_unverified"}
Errors   == {"none", "reported", "stale_archive", "corrected_by_node", "cancelled_by_user",
             "relay_failed"}
Keep     == "keep"     \* a field the patch does not set
Absent   == "absent"   \* status of a task that was not created

ASSUME InputConstants ==
  /\ Targets \subseteq Active \cup Terminal
  /\ ClientProgress \subseteq 0 .. Full
  /\ ClientModes \subseteq Modes
  /\ ClientErrors \subseteq {"reported"}

_ALLOWED_TRANSITIONS ==
  [pending    |-> {"probing", "installing", "collecting", "failed", "cancelled"},
   probing    |-> {"installing", "collecting", "failed", "cancelled"},
   installing |-> {"collecting", "failed", "cancelled"},
   collecting |-> {"packaging", "uploading", "completed", "failed", "cancelled"},
   packaging  |-> {"uploading", "completed", "failed", "cancelled"},
   uploading  |-> {"completed", "failed", "cancelled"},
   completed  |-> {"collecting"},
   failed     |-> {"collecting"},
   cancelled  |-> {"collecting"}]

Row == [status : Active \cup Terminal \cup {Absent}, progress : 0 .. Full, finished : BOOLEAN,
        upload_mode : Modes, delivery_status : {"none", "queued", "delivered", "failed"},
        evidence : Evidence, error : Errors, object : BOOLEAN]

VARIABLES
  rows,     \* table log_collect_task
  request   \* each request: what it does, on which task, the row it loaded

vars == <<rows, request>>

NewRow(mode) ==
  [status |-> "pending", progress |-> 0, finished |-> FALSE, upload_mode |-> mode,
   delivery_status |-> "none", evidence |-> "none", error |-> "none", object |-> FALSE]

NoRow == [NewRow("acli_direct") EXCEPT !.status = Absent]

Idle == [op |-> "idle", task |-> CHOOSE t \in Tasks : TRUE, row |-> NoRow]

TypeOK ==
  /\ rows \in [Tasks -> Row]
  /\ request \in [Requests -> [op : Operations \cup {"idle"}, task : Tasks, row : Row]]

Init ==
  /\ rows = [t \in Tasks |-> NoRow]
  /\ request = [r \in Requests |-> Idle]

--------------------------------------------------------------------------------
(***************************************************************************)
(* Loading and committing                                                  *)
(***************************************************************************)
Busy(r, op) == request[r].op = op

\* The request stops holding a row when it is answered, whatever the answer.
Answer(r) == request' = [request EXCEPT ![r] = Idle]

Load(r, op, t) ==
  /\ Busy(r, "idle")
  /\ op \in Operations
  /\ request' = [request EXCEPT ![r] = [op |-> op, task |-> t, row |-> rows[t]]]
  /\ UNCHANGED rows

\* The columns changed since the load, and those given a new timestamp, are written.
Merge(old, new, stamped, current) ==
  [c \in DOMAIN old |-> IF new[c] # old[c] \/ c \in stamped THEN new[c] ELSE current[c]]

\* Mutant of Unique: the partial unique index is missing.
NoIndex(t, row) == TRUE

\* uq_log_collect_task_active_case: one task of the case that is not over.
Unique(t, row) ==
  row.status \in Active => \A u \in Tasks \ {t} : rows[u].status \notin Active

\* A row that breaks the index rolls the request back.
Commit(r, new, stamped) ==
  LET t == request[r].task
      row == Merge(request[r].row, new, stamped, rows[t])
  IN  rows' = [rows EXCEPT ![t] = IF Unique(t, row) THEN row ELSE @]

--------------------------------------------------------------------------------
(***************************************************************************)
(* POST /log-collect/tasks                                                 *)
(***************************************************************************)
\* get_active_by_case() finds none ...
CreateCheck(r, t) ==
  /\ rows[t].status = Absent
  /\ \A u \in Tasks : rows[u].status \notin Active
  /\ Load(r, "create", t)

\* ... and the insert may yet meet another task of the case.
CreateInsert(r) ==
  /\ Busy(r, "create")
  /\ rows[request[r].task].status = Absent
  /\ \E mode \in ClientModes \ {"none"} : Commit(r, NewRow(mode), {})
  /\ Answer(r)

--------------------------------------------------------------------------------
(***************************************************************************)
(* update_task(): a patch on the row that was loaded                       *)
(***************************************************************************)
NoPatch == [status |-> Keep, progress |-> -1, upload_mode |-> Keep, delivery_status |-> Keep,
            evidence |-> Keep, error |-> Keep]

\* What a client may not write is ignored: delivery_* always, a failure once delivered.
Admitted(old, patch) ==
  IF old.delivery_status = "delivered" /\ patch.status = "failed"
  THEN [patch EXCEPT !.delivery_status = Keep, !.status = Keep, !.error = Keep]
  ELSE [patch EXCEPT !.delivery_status = Keep]

validate_transition(current, target) ==
  target \in {Keep, current} \/ target \in _ALLOWED_TRANSITIONS[current]

\* "Progress cannot go back", which is asked of a task that is not over only.
ProgressKept(old, patch) ==
  patch.progress = -1 \/ old.status \in Terminal \/ patch.progress >= old.progress

Accepted(old, patch) == validate_transition(old.status, patch.status) /\ ProgressKept(old, patch)

\* Mutant of Overlay: fields the patch does not set are not left out of it.
OverlayAll(old, patch) ==
  [c \in DOMAIN old |-> IF c \notin DOMAIN patch THEN old[c] ELSE patch[c]]

Overlay(old, patch) ==
  [c \in DOMAIN old |->
     IF c \notin DOMAIN patch \/ patch[c] = NoPatch[c] THEN old[c] ELSE patch[c]]

\* Mutant of WithEvidence: a failed check counts as the evidence there is.
WithAnyEvidence(row) ==
  IF /\ row.upload_mode = "acli_direct" /\ row.delivery_status = "delivered"
     /\ row.evidence = "none"
  THEN [row EXCEPT !.evidence = "acli_self_reported", !.error = "none"]
  ELSE row

\* A delivery by acli itself is marked as self-reported unless its evidence is stronger,
\* and the error that went with the lack of it goes.
WithEvidence(row) ==
  IF /\ row.upload_mode = "acli_direct" /\ row.delivery_status = "delivered"
     /\ row.evidence \notin {"archive_verified", "acli_self_reported"}
  THEN [row EXCEPT !.evidence = "acli_self_reported", !.error = "none"]
  ELSE row

\* Mutant of WithOutcome: the status is read after the patch was set on the row.
WithOutcomeLate(old, row, target) ==
  CASE target = "completed" -> [row EXCEPT !.finished = TRUE, !.progress = Full]
    [] target \in Terminal \ {"completed"} -> [row EXCEPT !.finished = TRUE]
    [] target = "collecting" /\ row.status = "completed" ->
         [row EXCEPT !.error = "corrected_by_node", !.finished = FALSE]
    [] target = "collecting" /\ row.status \in Terminal \ {"completed"} ->
         [row EXCEPT !.error = "none", !.finished = FALSE]
    [] OTHER -> row

\* Entering an end; adopting or correcting a task that was over.
WithOutcome(old, row, target) ==
  CASE target = "completed" -> [row EXCEPT !.finished = TRUE, !.progress = Full]
    [] target \in Terminal \ {"completed"} -> [row EXCEPT !.finished = TRUE]
    [] target = "collecting" /\ old.status = "completed" ->
         [row EXCEPT !.error = "corrected_by_node", !.finished = FALSE]
    [] target = "collecting" /\ old.status \in Terminal \ {"completed"} ->
         [row EXCEPT !.error = "none", !.finished = FALSE]
    [] OTHER -> row

Updated(old, patch) == WithOutcome(old, WithEvidence(Overlay(old, patch)), patch.status)

\* Mutant of Stamped: finished_at is written only when the loaded row has none.
StampedIfNew(patch) ==
  IF patch.evidence # Keep \/ patch.delivery_status # Keep \/ patch.upload_mode # Keep
  THEN {"evidence"} ELSE {}

\* finished_at carries the time it was written.  A check, a delivery and a change of
\* path carry a detail of their own, and detail is written whole, evidence and all.
Stamped(patch) ==
  (IF patch.status \in Terminal THEN {"finished"} ELSE {}) \cup
  (IF patch.evidence # Keep \/ patch.delivery_status # Keep \/ patch.upload_mode # Keep
   THEN {"evidence"} ELSE {})

update_task(r, patch) ==
  /\ IF Accepted(request[r].row, patch)
     THEN Commit(r, Updated(request[r].row, patch), Stamped(patch))
     ELSE UNCHANGED rows
  /\ Answer(r)

\* PATCH /{task_id}: the panel reports what it polled from the bridge; a null in its detail
\* takes a key away, the evidence too.
UpdateLoad(r, t) == rows[t].status # Absent /\ Load(r, "update", t)

Update(r) ==
  /\ Busy(r, "update")
  /\ \E target \in Targets \cup {Keep}, progress \in ClientProgress \cup {-1},
        mode \in ClientModes \cup {Keep}, evidence \in {"none", Keep},
        error \in ClientErrors \cup {Keep} :
       update_task(r, Admitted(request[r].row,
         [NoPatch EXCEPT !.status = target, !.progress = progress,
                         !.upload_mode = mode, !.evidence = evidence, !.error = error]))

--------------------------------------------------------------------------------
(***************************************************************************)
(* POST /{task_id}/cancel                                                  *)
(***************************************************************************)
CancelLoad(r, t) == rows[t].status \in Active /\ Load(r, "cancel", t)

Cancel(r) ==
  /\ Busy(r, "cancel")
  /\ Commit(r, [request[r].row EXCEPT !.status = "cancelled", !.error = "cancelled_by_user",
                                      !.finished = TRUE], {"finished"})
  /\ Answer(r)

--------------------------------------------------------------------------------
(***************************************************************************)
(* Who may say "delivered": POST /{task_id}/p1-delivered, /verify-archive  *)
(* and the upload; POST /{task_id}/deliver starts over                     *)
(***************************************************************************)
\* acli's own word, for a direct upload that is not delivered yet.
AttestLoad(r, t) ==
  /\ rows[t].status # Absent
  /\ rows[t].upload_mode = "acli_direct"
  /\ rows[t].delivery_status # "delivered"
  /\ Load(r, "attest", t)

Attest(r) ==
  /\ Busy(r, "attest")
  /\ update_task(r, [NoPatch EXCEPT !.delivery_status = "delivered"])

\* The log server is asked, for up to 30 s, whether it has the archive.
VerifyLoad(r, t) ==
  /\ rows[t].status # Absent
  /\ rows[t].upload_mode = "acli_direct"
  /\ Load(r, "verify", t)

Verify(r) ==
  /\ Busy(r, "verify")
  /\ \/ update_task(r, [NoPatch EXCEPT !.delivery_status = "delivered",
                                       !.evidence = "archive_verified"])
     \/ update_task(r, [NoPatch EXCEPT !.delivery_status = "failed",
                                       !.evidence = "archive_unverified",
                                       !.error = "stale_archive"])

\* begin_delivery(), once the upload session is signed (LogCollectUpload).
DeliverLoad(r, t) == rows[t].status # Absent /\ Load(r, "deliver", t)

Deliver(r) ==
  /\ Busy(r, "deliver")
  /\ Commit(r, [request[r].row EXCEPT !.upload_mode = "bridge_relay",
                                      !.delivery_status = "queued"], {})
  /\ Answer(r)

\* complete() of an upload (LogCollectUpload), by whoever holds a token of the task: it asks
\* neither for a delivery nor for the mode.
ArriveLoad(r, t) == rows[t].status # Absent /\ Load(r, "arrive", t)

Arrive(r) ==
  /\ Busy(r, "arrive")
  /\ Commit(r, [request[r].row EXCEPT !.delivery_status = "delivered", !.object = TRUE], {})
  /\ Answer(r)

--------------------------------------------------------------------------------
(***************************************************************************)
(* _finish(): the end of a relay (LogCollectRelay), one UPDATE that is     *)
(* computed from no row                                                    *)
(***************************************************************************)
RelayLoad(r, t) == rows[t].status # Absent /\ Load(r, "relay", t)

\* Only a package the platform holds can be archived; the row of a task that is delivered
\* is left as it is.
RelaySucceeds(t) ==
  /\ rows[t].object
  /\ rows' = IF rows[t].delivery_status = "delivered" THEN rows
             ELSE [rows EXCEPT ![t].delivery_status = "delivered", ![t].status = "completed",
                               ![t].progress = Full, ![t].finished = TRUE, ![t].error = "none"]

RelayFails(t) ==
  rows' = [rows EXCEPT ![t].delivery_status = "failed", ![t].error = "relay_failed"]

RelayEnds(r) ==
  /\ Busy(r, "relay")
  /\ RelaySucceeds(request[r].task) \/ RelayFails(request[r].task)
  /\ Answer(r)

--------------------------------------------------------------------------------
Serve(r) ==
  \/ Update(r) \/ CreateInsert(r) \/ Cancel(r) \/ Attest(r) \/ Verify(r) \/ Deliver(r)
  \/ Arrive(r) \/ RelayEnds(r)

Receive(r, t) ==
  \/ CreateCheck(r, t) \/ UpdateLoad(r, t) \/ CancelLoad(r, t)
  \/ AttestLoad(r, t) \/ VerifyLoad(r, t) \/ DeliverLoad(r, t)
  \/ ArriveLoad(r, t) \/ RelayLoad(r, t)

Next == \E r \in Requests : Serve(r) \/ \E t \in Tasks : Receive(r, t)

Spec == Init /\ [][Next]_vars

--------------------------------------------------------------------------------
\* A case never has two tasks that are not over, whoever creates, adopts or corrects.
OneActiveTask == \A t, u \in Tasks : rows[t].status \in Active /\ rows[u].status \in Active => t = u

\* Requests that race on a task, each writing the columns it changed, never leave it over
\* without the time it ended.
TerminalIsFinished == \A t \in Tasks : rows[t].status \in Terminal => rows[t].finished

\* One request at a time, a task that is being collected has no end: adoption and
\* correction take finished_at back.
ActiveIsUnfinished == \A t \in Tasks : rows[t].status \in Active => ~rows[t].finished

\* One request at a time, a direct delivery rests on something: the platform has the package,
\* or the row says that the log server confirmed it or that acli reported it.  A failed check,
\* a report, a new delivery, a change of path and a relay may come in any order.
DirectDeliveryHasBasis ==
  \A t \in Tasks :
    rows[t].upload_mode = "acli_direct" /\ rows[t].delivery_status = "delivered" =>
      rows[t].object \/ rows[t].evidence \in {"archive_verified", "acli_self_reported"}

--------------------------------------------------------------------------------
(***************************************************************************)
(* Promises of the comments that the code does not keep: each fails under  *)
(* Spec on one task (README.md, section 3).                                *)
(***************************************************************************)
\* "The grounds of the verdict must be written in detail": log_collect_service.py:261.
EvidenceRecorded ==
  \A t \in Tasks :
    rows[t].upload_mode = "acli_direct" /\ rows[t].delivery_status = "delivered" =>
      rows[t].evidence \in {"archive_verified", "acli_self_reported"}

\* "Delivered and a failure code must not stand together": log_collect_service.py:274.
DeliveredHasNoStaleError ==
  \A t \in Tasks :
    rows[t].upload_mode = "acli_direct" /\ rows[t].delivery_status = "delivered" =>
      rows[t].error # "stale_archive"

\* "A fact delivered cannot be undone": a client's report never fails a delivered task.
DeliveredNeverFails ==
  [][\A t \in Tasks : rows[t].delivery_status = "delivered" /\ rows[t].status # "failed"
       => rows'[t].status # "failed"]_vars

================================================================================
