-------------------------- MODULE LogCollectTaskProofs --------------------------
(***************************************************************************)
(* What holds of the tasks of a case for any number of tasks and of        *)
(* requests that race on them.                                             *)
(*                                                                         *)
(* One active task: every commit passes the unique index, whatever it      *)
(* writes.  Finished: a request may commit columns computed from an old    *)
(* row over a new one, so the argument is about columns: a commit that     *)
(* writes an end writes finished_at with it, and one that clears           *)
(* finished_at writes "collecting" with it.                                *)
(*                                                                         *)
(* Two more hold where requests do not overlap on a task: then a commit    *)
(* goes over the row it was computed from, and what was computed is what   *)
(* the table holds.                                                        *)
(***************************************************************************)
EXTENDS LogCollectTask, TLAPS

USE DEF vars

\* A request that creates has seen that the task is not there.
CreatesAnew == \A r \in Requests : request[r].op = "create" => request[r].row.status = Absent

TaskInv == TypeOK /\ OneActiveTask /\ TerminalIsFinished /\ CreatesAnew

Columns == {"status", "progress", "finished", "upload_mode", "delivery_status", "evidence", "error",
            "object"}

\* What the routes make of a client's or a server's report.
Patches == [status : Targets \cup {Keep}, progress : -1 .. Full, upload_mode : Modes \cup {Keep},
            delivery_status : {"delivered", "failed", Keep},
            evidence : {"archive_verified", "archive_unverified", "none", Keep},
            error : {"reported", "stale_archive", Keep}]

--------------------------------------------------------------------------------
(***************************************************************************)
(* Rows: merging, overlaying, updating                                     *)
(***************************************************************************)
LEMMA RowDomain == ASSUME NEW row \in Row PROVE DOMAIN row = Columns
  BY DEF Row, Columns

\* What a commit writes is a row, column by column the new value or the current one.
LEMMA MergeRow ==
  ASSUME NEW old \in Row, NEW new \in Row, NEW current \in Row, NEW stamped
  PROVE  LET m == Merge(old, new, stamped, current)
         IN /\ m \in Row
            /\ m.status = IF new.status # old.status \/ "status" \in stamped
                          THEN new.status ELSE current.status
            /\ m.finished = IF new.finished # old.finished \/ "finished" \in stamped
                            THEN new.finished ELSE current.finished
<1> DEFINE m == Merge(old, new, stamped, current)
<1>1. \A c \in Columns : m[c] = IF new[c] # old[c] \/ c \in stamped THEN new[c] ELSE current[c]
  BY RowDomain DEF Merge
<1>2. DOMAIN m = Columns /\ m = [c \in Columns |-> m[c]]
  BY RowDomain DEF Merge
<1>3. m \in Row
  BY <1>1, <1>2, SMTT(30) DEF Row, Columns
<1>4. m.status = (IF new.status # old.status \/ "status" \in stamped
                  THEN new.status ELSE current.status)
  BY DEF Merge, Row
<1>5. m.finished = (IF new.finished # old.finished \/ "finished" \in stamped
                    THEN new.finished ELSE current.finished)
  BY DEF Merge, Row
<1>6. QED BY <1>3, <1>4, <1>5

\* The fields a patch does not set stay as they were.
LEMMA OverlayRow ==
  ASSUME NEW old \in Row, NEW patch \in Patches
  PROVE  LET o == Overlay(old, patch)
         IN /\ o \in Row
            /\ o.status = IF patch.status = Keep THEN old.status ELSE patch.status
            /\ o.finished = old.finished
<1> DEFINE o == Overlay(old, patch)
<1>1. DOMAIN patch = Columns \ {"finished", "object"}
  BY DEF Patches, Columns
<1>2. \A c \in Columns : o[c] = IF c \in {"finished", "object"} \/ patch[c] = NoPatch[c]
                             THEN old[c] ELSE patch[c]
  BY <1>1, RowDomain DEF Overlay
<1>3. DOMAIN o = Columns /\ o = [c \in Columns |-> o[c]]
  BY RowDomain DEF Overlay
<1>4. o.status = (IF patch.status = Keep THEN old.status ELSE patch.status)
  BY <1>2 DEF Columns, NoPatch
<1>5. o.progress = (IF patch.progress = -1 THEN old.progress ELSE patch.progress)
  BY <1>2 DEF Columns, NoPatch
<1>6. o.upload_mode = (IF patch.upload_mode = Keep THEN old.upload_mode ELSE patch.upload_mode)
  BY <1>2 DEF Columns, NoPatch
<1>7. o.delivery_status = (IF patch.delivery_status = Keep THEN old.delivery_status ELSE patch.delivery_status)
  BY <1>2 DEF Columns, NoPatch
<1>8. o.evidence = (IF patch.evidence = Keep THEN old.evidence ELSE patch.evidence)
  BY <1>2 DEF Columns, NoPatch
<1>9. o.error = (IF patch.error = Keep THEN old.error ELSE patch.error)
  BY <1>2 DEF Columns, NoPatch
<1>10. o.finished = old.finished
  BY <1>2 DEF Columns
<1>11. o.object = old.object
  BY <1>2 DEF Columns
<1>12. o \in Row
  <2>1. o.status \in Active \cup Terminal \cup {Absent}
    BY <1>4, InputConstants DEF Row, Patches
  <2>2. o.progress \in 0 .. Full
    BY <1>5, TaskConstants DEF Row, Patches
  <2>3. o.finished \in BOOLEAN BY <1>10 DEF Row
  <2>4. o.upload_mode \in Modes BY <1>6 DEF Row, Patches, Modes
  <2>5. o.delivery_status \in {"none", "queued", "delivered", "failed"}
    BY <1>7 DEF Row, Patches
  <2>6. o.evidence \in Evidence BY <1>8 DEF Row, Patches, Evidence
  <2>7. o.error \in Errors BY <1>9 DEF Row, Patches, Errors
  <2>8. o.object \in BOOLEAN BY <1>11 DEF Row
  <2> HIDE DEF o
  <2>9. QED BY <1>3, <2>1, <2>2, <2>3, <2>4, <2>5, <2>6, <2>7, <2>8 DEF Row, Columns
<1>13. QED BY <1>4, <1>10, <1>12

\* Marking the evidence changes neither the status nor the end.
LEMMA EvidenceRow ==
  ASSUME NEW row \in Row
  PROVE  LET w == WithEvidence(row)
         IN w \in Row /\ w.status = row.status /\ w.finished = row.finished
<1> DEFINE marked == [row EXCEPT !.evidence = "acli_self_reported", !.error = "none"]
<1>1. marked \in Row /\ marked.status = row.status /\ marked.finished = row.finished
  BY DEF Row, Evidence, Errors
<1>2. WithEvidence(row) \in {row, marked}
  BY DEF WithEvidence
<1> HIDE DEF marked
<1>3. QED BY <1>1, <1>2

\* An update that ends a task says when; only one that revives a task takes that back.
LEMMA UpdatedRow ==
  ASSUME NEW old \in Row, NEW patch \in Patches
  PROVE  LET n == Updated(old, patch)
         IN /\ n \in Row
            /\ n.status = IF patch.status = Keep THEN old.status ELSE patch.status
            /\ patch.status \in Terminal => n.finished
            /\ patch.status \notin Terminal /\ n.finished # old.finished =>
                 patch.status = "collecting" /\ old.status \in Terminal
<1> DEFINE w == WithEvidence(Overlay(old, patch))
           n == WithOutcome(old, w, patch.status)
<1>1. /\ w \in Row
      /\ w.status = IF patch.status = Keep THEN old.status ELSE patch.status
      /\ w.finished = old.finished
  BY OverlayRow, EvidenceRow
<1> HIDE DEF w
<1>2. CASE patch.status = "completed"
  <2>1. n = [w EXCEPT !.finished = TRUE, !.progress = Full] BY <1>2 DEF WithOutcome
  <2>2. Full \in 0 .. Full BY TaskConstants
  <2>3. QED BY <1>1, <1>2, <2>1, <2>2 DEF Row, Terminal, Updated, w
<1>3. CASE patch.status \in Terminal \ {"completed"}
  <2>1. n = [w EXCEPT !.finished = TRUE] BY <1>3 DEF WithOutcome, Terminal
  <2>2. QED BY <1>1, <1>3, <2>1 DEF Row, Terminal, Updated, w
<1>4. CASE patch.status = "collecting" /\ old.status = "completed"
  <2>1. n = [w EXCEPT !.error = "corrected_by_node", !.finished = FALSE]
    BY <1>4 DEF WithOutcome, Terminal
  <2>2. QED BY <1>1, <1>4, <2>1 DEF Row, Errors, Terminal, Updated, w
<1>5. CASE patch.status = "collecting" /\ old.status \in Terminal \ {"completed"}
  <2>1. n = [w EXCEPT !.error = "none", !.finished = FALSE]
    BY <1>5 DEF WithOutcome, Terminal
  <2>2. QED BY <1>1, <1>5, <2>1 DEF Row, Errors, Terminal, Updated, w
<1>6. CASE patch.status \notin Terminal /\ ~(patch.status = "collecting" /\ old.status \in Terminal)
  <2>1. n = w BY <1>6 DEF WithOutcome, Terminal
  <2>2. QED BY <1>1, <1>6, <2>1 DEF Terminal, Updated, w
<1>7. QED BY <1>2, <1>3, <1>4, <1>5, <1>6 DEF Terminal

--------------------------------------------------------------------------------
(***************************************************************************)
(* Steps                                                                   *)
(***************************************************************************)
LEMMA NewRowIsRow ==
  ASSUME NEW mode \in Modes
  PROVE  NewRow(mode) \in Row /\ NewRow(mode).status = "pending"
  BY TaskConstants DEF NewRow, Row, Active, Evidence, Errors

\* A task that was not created yet has a row of the declared type.
LEMMA NoRowIsRow == NoRow \in Row /\ NoRow.status = "absent"
<1>1. NewRow("acli_direct") \in Row BY NewRowIsRow DEF Modes
<1>2. QED BY <1>1 DEF NoRow, Row, Absent

\* A request that does nothing holds such a row.
LEMMA IdleType == Idle \in [op : Operations \cup {"idle"}, task : Tasks, row : Row]
  BY NoRowIsRow, TaskConstants DEF Idle

\* Nothing is created at first.
LEMMA InitInv == Init => TaskInv
<1>1. Idle.op = "idle" BY DEF Idle
<1>2. QED BY <1>1, NoRowIsRow, IdleType DEF Init, TaskInv, TypeOK, OneActiveTask,
                TerminalIsFinished, CreatesAnew, Active, Terminal

\* Loading a row writes none.
LEMMA LoadInv ==
  ASSUME TaskInv, NEW r \in Requests, NEW t \in Tasks, NEW op, Load(r, op, t),
         op = "create" => rows[t].status = Absent
  PROVE  TaskInv'
<1>1. rows' = rows BY DEF Load
<1>2. rows[t] \in Row /\ op \in Operations BY DEF Load, TaskInv, TypeOK
<1>3. request' \in [Requests -> [op : Operations \cup {"idle"}, task : Tasks, row : Row]]
  BY <1>2 DEF Load, TaskInv, TypeOK
<1>4. CreatesAnew' BY DEF Load, TaskInv, TypeOK, CreatesAnew
<1>5. QED BY <1>1, <1>3, <1>4 DEF TaskInv, TypeOK, OneActiveTask, TerminalIsFinished

\* A request that is answered creates nothing more.
LEMMA AnswerCreates ==
  ASSUME TaskInv, NEW r \in Requests, Answer(r)
  PROVE  CreatesAnew'
<1>1. Idle.op = "idle" BY DEF Idle
<1>2. QED BY <1>1 DEF TaskInv, TypeOK, CreatesAnew, Answer

\* Answering a request writes no row.
LEMMA AnswerInv ==
  ASSUME TaskInv, NEW r \in Requests, Answer(r), UNCHANGED rows
  PROVE  TaskInv'
  BY AnswerCreates, IdleType DEF TaskInv, TypeOK, OneActiveTask, TerminalIsFinished, Answer

\* What a request may commit so that the end and its time go together: an end it writes
\* comes with the time, and it takes the time back only with a status that is no end.
Sound(old, new, stamped) ==
  /\ "status" \notin stamped
  /\ new.status \in Terminal /\ new.status # old.status => new.finished /\ "finished" \in stamped
  /\ new.finished # old.finished \/ "finished" \in stamped =>
       new.finished \/ (new.status \notin Terminal /\ new.status # old.status)

\* A sound commit, of columns that may be older than the row, keeps the invariant.
LEMMA CommitInv ==
  ASSUME TaskInv, NEW r \in Requests, NEW new \in Row, NEW stamped,
         Sound(request[r].row, new, stamped), Commit(r, new, stamped), Answer(r)
  PROVE  TaskInv'
<1> DEFINE t == request[r].task
           old == request[r].row
           m == Merge(old, new, stamped, rows[t])
<1>1. t \in Tasks /\ old \in Row /\ rows[t] \in Row /\ rows \in [Tasks -> Row]
  BY DEF TaskInv, TypeOK
<1>2. rows' = [rows EXCEPT ![t] = IF Unique(t, m) THEN m ELSE @] BY DEF Commit
<1>3. /\ m \in Row
      /\ m.status = IF new.status # old.status \/ "status" \in stamped
                    THEN new.status ELSE rows[t].status
      /\ m.finished = IF new.finished # old.finished \/ "finished" \in stamped
                      THEN new.finished ELSE rows[t].finished
  BY <1>1, MergeRow, SMTT(40)
<1>4. request' \in [Requests -> [op : Operations \cup {"idle"}, task : Tasks, row : Row]]
  BY IdleType DEF TaskInv, TypeOK, Answer
<1>5. rows[t].status \in Terminal => rows[t].finished
  BY <1>1 DEF TaskInv, TerminalIsFinished
<1>6. m.status \in Terminal => m.finished
  <2>1. Sound(old, new, stamped) OBVIOUS
  <2> HIDE DEF m, old, t
  <2>2. QED BY <1>3, <1>5, <2>1 DEF Sound
<1>7. Unique(t, m) => (m.status \in Active => \A u \in Tasks \ {t} : rows[u].status \notin Active)
  BY DEF Unique
<1> HIDE DEF m, old, t
<1>8. CASE Unique(t, m)
  <2>1. rows' \in [Tasks -> Row] /\ rows'[t] = m /\ \A u \in Tasks \ {t} : rows'[u] = rows[u]
    BY <1>1, <1>2, <1>3, <1>8
  <2>2. OneActiveTask'
    BY <1>1, <1>7, <1>8, <2>1 DEF TaskInv, OneActiveTask
  <2>3. TerminalIsFinished'
    BY <1>1, <1>6, <2>1 DEF TaskInv, TerminalIsFinished
  <2>4. QED BY <1>4, <2>1, <2>2, <2>3, AnswerCreates DEF TaskInv, TypeOK
<1>9. CASE ~Unique(t, m)
  <2>1. rows' = rows BY <1>1, <1>2, <1>9
  <2>2. QED BY <1>4, <2>1, AnswerCreates
               DEF TaskInv, TypeOK, OneActiveTask, TerminalIsFinished
<1>10. QED BY <1>8, <1>9

\* update_task() refuses, or commits soundly.
LEMMA UpdateTaskInv ==
  ASSUME TaskInv, NEW r \in Requests, NEW patch \in Patches, update_task(r, patch)
  PROVE  TaskInv'
<1> DEFINE old == request[r].row
           n == Updated(old, patch)
<1>1. old \in Row BY DEF TaskInv, TypeOK
<1>2. /\ n \in Row
      /\ n.status = IF patch.status = Keep THEN old.status ELSE patch.status
      /\ patch.status \in Terminal => n.finished
      /\ patch.status \notin Terminal /\ n.finished # old.finished =>
           patch.status = "collecting" /\ old.status \in Terminal
  BY <1>1, UpdatedRow
<1>3. Sound(old, n, Stamped(patch))
  <2>1. "status" \notin Stamped(patch) /\ ("finished" \in Stamped(patch) <=> patch.status \in Terminal)
    BY DEF Stamped
  <2>2. Keep \notin Terminal /\ "collecting" \notin Terminal /\ Keep # "collecting"
    BY DEF Keep, Terminal
  <2> HIDE DEF n, old
  <2>3. n.status \in Terminal /\ n.status # old.status => n.finished /\ patch.status \in Terminal
    BY <1>2
  <2>4. CASE patch.status \in Terminal
    BY <1>2, <2>1, <2>4 DEF Sound
  <2>5. CASE patch.status \notin Terminal
    <3>1. n.finished # old.finished => n.status = "collecting" /\ old.status \in Terminal
      BY <1>2, <2>2, <2>5
    <3>2. QED BY <2>1, <2>2, <2>3, <2>5, <3>1 DEF Sound
  <2>6. QED BY <2>4, <2>5
<1>4. CASE Accepted(old, patch)
  <2>1. Commit(r, n, Stamped(patch)) /\ Answer(r) BY <1>4 DEF update_task
  <2>2. QED BY <1>2, <1>3, <2>1, CommitInv
<1>5. CASE ~Accepted(old, patch)
  BY <1>5, AnswerInv DEF update_task
<1>6. QED BY <1>4, <1>5

\* What a client reports is a patch, and still is one without what it may not write.
LEMMA ReportedPatch ==
  ASSUME NEW r \in Requests, Update(r)
  PROVE  \E patch \in Patches : update_task(r, patch)
<1>1. PICK target \in Targets \cup {Keep}, progress \in ClientProgress \cup {-1},
           mode \in ClientModes \cup {Keep}, evidence \in {"none", Keep},
           error \in ClientErrors \cup {Keep} :
        update_task(r, Admitted(request[r].row,
          [NoPatch EXCEPT !.status = target, !.progress = progress,
                          !.upload_mode = mode, !.evidence = evidence, !.error = error]))
  BY DEF Update
<1> DEFINE patch == [NoPatch EXCEPT !.status = target, !.progress = progress,
                                    !.upload_mode = mode, !.evidence = evidence,
                                    !.error = error]
<1>2. mode \in Modes \cup {Keep} /\ error \in {"reported", Keep} /\ progress \in -1 .. Full
  BY InputConstants, TaskConstants
<1>3. patch \in Patches
  BY <1>2 DEF NoPatch, Patches
<1> HIDE DEF patch
<1>4. Admitted(request[r].row, patch) \in Patches
  <2>1. [patch EXCEPT !.delivery_status = Keep] \in Patches
    BY <1>3 DEF Patches
  <2>2. [patch EXCEPT !.delivery_status = Keep, !.status = Keep, !.error = Keep] \in Patches
    BY <1>3 DEF Patches
  <2>3. QED BY <2>1, <2>2 DEF Admitted
<1>5. update_task(r, Admitted(request[r].row, patch)) BY <1>1 DEF patch
<1>6. QED BY <1>4, <1>5

\* What the server says of a delivery is a patch.
LEMMA ServerPatches ==
  /\ [NoPatch EXCEPT !.delivery_status = "delivered"] \in Patches
  /\ [NoPatch EXCEPT !.delivery_status = "delivered", !.evidence = "archive_verified"] \in Patches
  /\ [NoPatch EXCEPT !.delivery_status = "failed", !.evidence = "archive_unverified",
                     !.error = "stale_archive"] \in Patches
<1>1. NoPatch \in Patches BY TaskConstants DEF NoPatch, Patches
<1>2. QED BY <1>1 DEF Patches

\* A new row replaces one that is absent, and is no end.
LEMMA CreateInv ==
  ASSUME TaskInv, NEW r \in Requests, CreateInsert(r)
  PROVE  TaskInv'
<1>1. PICK mode \in ClientModes \ {"none"} : Commit(r, NewRow(mode), {}) /\ Answer(r)
  BY DEF CreateInsert
<1>2. NewRow(mode) \in Row /\ NewRow(mode).status = "pending"
  BY NewRowIsRow, InputConstants
<1>3. request[r].row.status = "absent"
  BY DEF CreateInsert, Busy, TaskInv, CreatesAnew, Absent
<1>4. Sound(request[r].row, NewRow(mode), {})
  BY <1>2, <1>3 DEF Sound, Terminal
<1>5. QED BY <1>1, <1>2, <1>4, CommitInv

\* Cancelling is an end with its time.
LEMMA CancelInv ==
  ASSUME TaskInv, NEW r \in Requests, Cancel(r)
  PROVE  TaskInv'
<1> DEFINE new == [request[r].row EXCEPT !.status = "cancelled", !.error = "cancelled_by_user",
                                         !.finished = TRUE]
<1>1. request[r].row \in Row BY DEF TaskInv, TypeOK
<1>2. new \in Row /\ new.finished = TRUE BY <1>1 DEF Row, Terminal, Errors
<1>3. Sound(request[r].row, new, {"finished"}) BY <1>2 DEF Sound
<1>4. QED BY <1>2, <1>3, CommitInv DEF Cancel

\* Patches of the server; a delivery's start and the end of an upload touch no status.
LEMMA DeliveryInv ==
  ASSUME TaskInv, NEW r \in Requests, Attest(r) \/ Verify(r) \/ Deliver(r) \/ Arrive(r)
  PROVE  TaskInv'
<1>1. CASE Attest(r) BY <1>1, ServerPatches, UpdateTaskInv DEF Attest
<1>2. CASE Verify(r) BY <1>2, ServerPatches, UpdateTaskInv DEF Verify
<1>3. CASE Deliver(r)
  <2> DEFINE new == [request[r].row EXCEPT !.upload_mode = "bridge_relay",
                                           !.delivery_status = "queued"]
  <2>1. request[r].row \in Row BY DEF TaskInv, TypeOK
  <2>2. /\ new \in Row
        /\ new.status = request[r].row.status /\ new.finished = request[r].row.finished
    BY <2>1 DEF Row, Modes
  <2>3. Sound(request[r].row, new, {}) BY <2>2 DEF Sound
  <2>4. QED BY <1>3, <2>2, <2>3, CommitInv DEF Deliver
<1>4. CASE Arrive(r)
  <2> DEFINE new == [request[r].row EXCEPT !.delivery_status = "delivered", !.object = TRUE]
  <2>1. request[r].row \in Row BY DEF TaskInv, TypeOK
  <2>2. /\ new \in Row
        /\ new.status = request[r].row.status /\ new.finished = request[r].row.finished
    BY <2>1 DEF Row
  <2>3. Sound(request[r].row, new, {}) BY <2>2 DEF Sound
  <2>4. QED BY <1>4, <2>2, <2>3, CommitInv DEF Arrive
<1>5. QED BY <1>1, <1>2, <1>3, <1>4

\* What the end of a relay may make of a row: nothing, an archived task, a failed delivery.
LEMMA RelayedRow ==
  ASSUME NEW row \in Row
  PROVE  /\ LET a == [row EXCEPT !.delivery_status = "delivered", !.status = "completed",
                                 !.progress = Full, !.finished = TRUE, !.error = "none"]
            IN  a \in Row /\ a.status = "completed" /\ a.finished = TRUE /\ a.object = row.object
         /\ LET f == [row EXCEPT !.delivery_status = "failed", !.error = "relay_failed"]
            IN  /\ f \in Row /\ f.status = row.status /\ f.finished = row.finished
                /\ f.delivery_status = "failed"
<1>1. Full \in 0 .. Full BY TaskConstants
<1>2. QED BY <1>1 DEF Row, Terminal, Errors

\* The end of a relay writes a whole end with its time, or no status at all.
LEMMA RelayRow ==
  ASSUME TaskInv, NEW t \in Tasks, RelaySucceeds(t) \/ RelayFails(t)
  PROVE  /\ rows' \in [Tasks -> Row] /\ rows'[t] \in Row
         /\ \A u \in Tasks \ {t} : rows'[u] = rows[u]
         /\ \/ rows'[t] = rows[t]
            \/ rows'[t].status = "completed" /\ rows'[t].finished /\ rows'[t].object
            \/ /\ rows'[t].status = rows[t].status /\ rows'[t].finished = rows[t].finished
               /\ rows'[t].delivery_status = "failed"
<1>1. rows \in [Tasks -> Row] /\ rows[t] \in Row BY DEF TaskInv, TypeOK
<1>2. CASE RelaySucceeds(t) /\ rows[t].delivery_status = "delivered"
  <2>1. rows' = rows BY <1>2 DEF RelaySucceeds
  <2>2. QED BY <1>1, <2>1
<1>3. CASE RelaySucceeds(t) /\ rows[t].delivery_status # "delivered"
  <2> DEFINE new == [rows[t] EXCEPT !.delivery_status = "delivered", !.status = "completed",
                                    !.progress = Full, !.finished = TRUE, !.error = "none"]
  <2>1. new \in Row /\ new.status = "completed" /\ new.finished /\ new.object = rows[t].object
    BY <1>1, RelayedRow
  <2>2. rows' = [rows EXCEPT ![t] = new] BY <1>1, <1>3 DEF RelaySucceeds
  <2>3. rows[t].object BY <1>3 DEF RelaySucceeds
  <2> HIDE DEF new
  <2>4. QED BY <1>1, <2>1, <2>2, <2>3
<1>4. CASE RelayFails(t)
  <2> DEFINE new == [rows[t] EXCEPT !.delivery_status = "failed", !.error = "relay_failed"]
  <2>1. /\ new \in Row /\ new.status = rows[t].status /\ new.finished = rows[t].finished
        /\ new.delivery_status = "failed"
    BY <1>1, RelayedRow
  <2>2. rows' = [rows EXCEPT ![t] = new] BY <1>1, <1>4 DEF RelayFails
  <2> HIDE DEF new
  <2>3. QED BY <1>1, <2>1, <2>2
<1>5. QED BY <1>2, <1>3, <1>4

\* So the end of a relay keeps the invariant, whoever holds the row.
LEMMA RelayInv ==
  ASSUME TaskInv, NEW r \in Requests, RelayEnds(r)
  PROVE  TaskInv'
<1> DEFINE t == request[r].task
<1>1. t \in Tasks /\ rows[t] \in Row BY DEF TaskInv, TypeOK
<1>2. (RelaySucceeds(t) \/ RelayFails(t)) /\ Answer(r) BY DEF RelayEnds
<1> HIDE DEF t
<1>3. /\ rows' \in [Tasks -> Row] /\ rows'[t] \in Row
      /\ \A u \in Tasks \ {t} : rows'[u] = rows[u]
      /\ \/ rows'[t].status = rows[t].status /\ rows'[t].finished = rows[t].finished
         \/ rows'[t].status = "completed" /\ rows'[t].finished
  BY <1>1, <1>2, RelayRow
<1>4. request' \in [Requests -> [op : Operations \cup {"idle"}, task : Tasks, row : Row]]
  BY <1>2, IdleType DEF TaskInv, TypeOK, Answer
<1>5. OneActiveTask'
  BY <1>1, <1>3 DEF TaskInv, OneActiveTask, Active
<1>6. TerminalIsFinished'
  BY <1>1, <1>3 DEF TaskInv, TerminalIsFinished
<1>7. QED BY <1>2, <1>3, <1>4, <1>5, <1>6, AnswerCreates DEF TaskInv, TypeOK

\* TaskInv is inductive: one case per handler of Next.
LEMMA NextInv == TaskInv /\ [Next]_vars => TaskInv'
<1> SUFFICES ASSUME TaskInv, [Next]_vars PROVE TaskInv'
  OBVIOUS
<1>1. ASSUME NEW r \in Requests, Serve(r) PROVE TaskInv'
  BY <1>1, ReportedPatch, UpdateTaskInv, CreateInv, CancelInv, DeliveryInv, RelayInv DEF Serve
<1>2. ASSUME NEW r \in Requests, NEW t \in Tasks, Receive(r, t) PROVE TaskInv'
  BY <1>2, LoadInv DEF Receive, CreateCheck, UpdateLoad, CancelLoad, AttestLoad,
                       VerifyLoad, DeliverLoad, ArriveLoad, RelayLoad
<1>3. CASE UNCHANGED vars
  BY <1>3 DEF TaskInv, TypeOK, OneActiveTask, TerminalIsFinished, CreatesAnew
<1>4. QED BY <1>1, <1>2, <1>3 DEF Next

\* TaskInv in every behaviour; the theorems below follow from it.
LEMMA TaskInvariant == Spec => []TaskInv
  BY InitInv, NextInv, PTL DEF Spec

\* Rows and what the requests hold of them keep their types.
THEOREM TypeCorrect == Spec => []TypeOK
<1>1. TaskInv => TypeOK BY DEF TaskInv
<1>2. QED BY TaskInvariant, <1>1, PTL

\* Of the tasks of a case at most one is not over, for any number of clients that
\* create, adopt, correct and cancel at the same time.
THEOREM OneActive == Spec => []OneActiveTask
<1>1. TaskInv => OneActiveTask BY DEF TaskInv
<1>2. QED BY TaskInvariant, <1>1, PTL

\* However requests race, a task that is over has the time it ended.
THEOREM EndIsStamped == Spec => []TerminalIsFinished
<1>1. TaskInv => TerminalIsFinished BY DEF TaskInv
<1>2. QED BY TaskInvariant, <1>1, PTL

--------------------------------------------------------------------------------
(***************************************************************************)
(* One request or job at a time on a task                                  *)
(***************************************************************************)
\* No two requests hold the same task's row.
OneAtATime ==
  \A q, r \in Requests :
    request[q].op # "idle" /\ request[r].op # "idle" /\ request[q].task = request[r].task => q = r

\* A row that agrees with itself: what is being collected has no end, a direct delivery
\* rests on something, and a task that was not created has nothing.
Recorded(row) ==
  /\ row.status \in Active => ~row.finished
  /\ row.upload_mode = "acli_direct" /\ row.delivery_status = "delivered" =>
       row.object \/ row.evidence \in {"archive_verified", "acli_self_reported"}
  /\ row.status = Absent => row = NoRow

\* What a request at work holds is the row there is, of a task that exists unless it creates it.
Holds(r) ==
  LET row == request[r].row
  IN  row = rows[request[r].task] /\ (row.status = Absent <=> request[r].op = "create")

SerialInv ==
  /\ \A t \in Tasks : Recorded(rows[t])
  /\ \A r \in Requests : request[r].op # "idle" => Holds(r)

LEMMA NoRowRecorded == Recorded(NoRow)
  BY DEF NoRow, NewRow, Recorded, Absent, Active

\* A commit over the row it was computed from writes what was computed.
LEMMA MergeOverItself ==
  ASSUME NEW old \in Row, NEW new \in Row, NEW stamped
  PROVE  Merge(old, new, stamped, old) = new
<1> DEFINE m == Merge(old, new, stamped, old)
<1>1. \A c \in Columns : m[c] = new[c]
  BY RowDomain DEF Merge
<1>2. DOMAIN m = Columns /\ m = [c \in Columns |-> m[c]]
  BY RowDomain DEF Merge
<1>3. DOMAIN new = Columns /\ new = [c \in Columns |-> new[c]]
  BY RowDomain DEF Row
<1> HIDE DEF m
<1>4. m = new BY <1>1, <1>2, <1>3
<1>5. QED BY <1>4 DEF m

\* The columns of a patched row that the delivery is told by.
LEMMA OverlayDelivery ==
  ASSUME NEW old \in Row, NEW patch \in Patches
  PROVE  LET o == Overlay(old, patch)
         IN /\ o.upload_mode = IF patch.upload_mode = Keep THEN old.upload_mode
                                                           ELSE patch.upload_mode
            /\ o.delivery_status = IF patch.delivery_status = Keep THEN old.delivery_status
                                                                   ELSE patch.delivery_status
            /\ o.evidence = IF patch.evidence = Keep THEN old.evidence ELSE patch.evidence
<1> DEFINE o == Overlay(old, patch)
<1>1. DOMAIN patch = Columns \ {"finished", "object"}
  BY DEF Patches, Columns
<1>2. \A c \in Columns : o[c] = IF c \in {"finished", "object"} \/ patch[c] = NoPatch[c]
                             THEN old[c] ELSE patch[c]
  BY <1>1, RowDomain DEF Overlay
<1> HIDE DEF o
<1>3. o.upload_mode = (IF patch.upload_mode = Keep THEN old.upload_mode ELSE patch.upload_mode)
  BY <1>2 DEF Columns, NoPatch
<1>4. o.delivery_status = (IF patch.delivery_status = Keep THEN old.delivery_status
                                                           ELSE patch.delivery_status)
  BY <1>2 DEF Columns, NoPatch
<1>5. o.evidence = (IF patch.evidence = Keep THEN old.evidence ELSE patch.evidence)
  BY <1>2 DEF Columns, NoPatch
<1>6. QED BY <1>3, <1>4, <1>5 DEF o

\* Whatever the patch, a direct delivery is marked with its evidence.
LEMMA EvidenceMarked ==
  ASSUME NEW row \in Row
  PROVE  LET w == WithEvidence(row)
         IN /\ w.upload_mode = row.upload_mode /\ w.delivery_status = row.delivery_status
            /\ w.upload_mode = "acli_direct" /\ w.delivery_status = "delivered" =>
                 w.evidence \in {"archive_verified", "acli_self_reported"}
  BY DEF WithEvidence, Row

\* The end of a task, and its adoption, touch no column of the delivery.
LEMMA OutcomeDelivery ==
  ASSUME NEW old \in Row, NEW row \in Row, NEW target
  PROVE  LET n == WithOutcome(old, row, target)
         IN /\ n.upload_mode = row.upload_mode
            /\ n.delivery_status = row.delivery_status
            /\ n.evidence = row.evidence
<1>1. CASE target = "completed"
  BY <1>1 DEF WithOutcome, Row
<1>2. CASE target \in Terminal \ {"completed"}
  BY <1>2 DEF WithOutcome, Row, Terminal
<1>3. CASE target = "collecting" /\ old.status = "completed"
  BY <1>3 DEF WithOutcome, Row, Terminal
<1>4. CASE target = "collecting" /\ old.status \in Terminal \ {"completed"}
  BY <1>4 DEF WithOutcome, Row, Terminal
<1>5. CASE target \notin Terminal /\ ~(target = "collecting" /\ old.status \in Terminal)
  BY <1>5 DEF WithOutcome, Terminal
<1>6. QED BY <1>1, <1>2, <1>3, <1>4, <1>5 DEF Terminal

\* A task that is over is only ever revived into "collecting", which takes its end back.
LEMMA RevivedUnfinished ==
  ASSUME NEW old \in Row, NEW patch \in Patches, Accepted(old, patch), Recorded(old),
         old.status # Absent, Updated(old, patch).status \in Active
  PROVE  ~Updated(old, patch).finished
<1> DEFINE n == Updated(old, patch)
           w == WithEvidence(Overlay(old, patch))
<1>1. /\ n \in Row
      /\ n.status = IF patch.status = Keep THEN old.status ELSE patch.status
      /\ patch.status \notin Terminal /\ n.finished # old.finished =>
           patch.status = "collecting" /\ old.status \in Terminal
  BY UpdatedRow
<1>2. w \in Row /\ n = WithOutcome(old, w, patch.status)
  BY OverlayRow, EvidenceRow DEF Updated
<1>3. patch.status \notin Terminal
  BY <1>1 DEF Active, Terminal, Keep
<1>4. old.status \in Active \cup Terminal BY DEF Row
<1>5. CASE old.status \in Active
  <2>1. ~old.finished BY <1>5 DEF Recorded
  <2>2. old.status \notin Terminal BY <1>5 DEF Active, Terminal
  <2> HIDE DEF n, w
  <2>3. n.finished = old.finished BY <1>1, <1>3, <2>2 DEF Row
  <2>4. QED BY <2>1, <2>3 DEF n
<1>6. CASE old.status \in Terminal
  <2>1. patch.status = "collecting"
    <3>1. validate_transition(old.status, patch.status) BY DEF Accepted
    <3>2. patch.status # Keep /\ patch.status # old.status
      BY <1>1, <1>3, <1>6 DEF Active, Terminal
    <3>3. patch.status \in _ALLOWED_TRANSITIONS[old.status]
      BY <3>1, <3>2 DEF validate_transition
    <3>4. QED BY <1>6, <3>3 DEF _ALLOWED_TRANSITIONS, Terminal
  <2> HIDE DEF w
  <2>2. CASE old.status = "completed"
    BY <1>2, <2>1, <2>2 DEF WithOutcome, Row, Terminal
  <2>3. CASE old.status \in Terminal \ {"completed"}
    BY <1>2, <2>1, <2>3 DEF WithOutcome, Row, Terminal
  <2>4. QED BY <1>6, <2>2, <2>3
<1>7. QED BY <1>4, <1>5, <1>6

\* What update_task() makes of a row that agrees with itself does so too.
LEMMA UpdatedRecorded ==
  ASSUME NEW old \in Row, NEW patch \in Patches, Accepted(old, patch), Recorded(old),
         old.status # Absent
  PROVE  Recorded(Updated(old, patch)) /\ Updated(old, patch).status # Absent
<1> DEFINE o == Overlay(old, patch)
           w == WithEvidence(o)
           n == Updated(old, patch)
<1>1. /\ o.upload_mode = IF patch.upload_mode = Keep THEN old.upload_mode ELSE patch.upload_mode
      /\ o.delivery_status = IF patch.delivery_status = Keep THEN old.delivery_status
                                                             ELSE patch.delivery_status
  BY OverlayDelivery
<1>2. o \in Row /\ w \in Row BY OverlayRow, EvidenceRow
<1>3. /\ w.upload_mode = o.upload_mode /\ w.delivery_status = o.delivery_status
      /\ w.upload_mode = "acli_direct" /\ w.delivery_status = "delivered" =>
           w.evidence \in {"archive_verified", "acli_self_reported"}
  BY <1>2, EvidenceMarked
<1>4. /\ n.upload_mode = w.upload_mode
      /\ n.delivery_status = w.delivery_status
      /\ n.evidence = w.evidence
  BY <1>2, OutcomeDelivery DEF Updated
<1>5. n.status = IF patch.status = Keep THEN old.status ELSE patch.status
  BY UpdatedRow
<1>6. n.status \in Active => ~n.finished
  BY RevivedUnfinished
<1> HIDE DEF o, w, n
<1>7. n.status # Absent
  <2>1. patch.status # Absent
    BY InputConstants DEF Patches, Keep, Absent, Active, Terminal
  <2>2. QED BY <1>5, <2>1
<1>8. Recorded(n) BY <1>3, <1>4, <1>6, <1>7 DEF Recorded
<1>9. QED BY <1>7, <1>8 DEF n

\* Nothing is created at first, and nobody works.
LEMMA InitSerial == Init => SerialInv
<1>1. Idle.op = "idle" BY DEF Idle
<1>2. QED BY <1>1, NoRowRecorded DEF Init, SerialInv

\* What is loaded is the row there is.
LEMMA LoadSerial ==
  ASSUME TaskInv, SerialInv, NEW r \in Requests, NEW t \in Tasks, NEW op, Load(r, op, t),
         rows[t].status = Absent <=> op = "create"
  PROVE  SerialInv'
<1>1. rows' = rows /\ request' = [request EXCEPT ![r] = [op |-> op, task |-> t, row |-> rows[t]]]
  BY DEF Load
<1>2. \A q \in Requests \ {r} : request'[q] = request[q]
  BY <1>1 DEF TaskInv, TypeOK
<1>3. request'[r] = [op |-> op, task |-> t, row |-> rows[t]]
  BY <1>1 DEF TaskInv, TypeOK
<1>4. Holds(r)'
  BY <1>1, <1>3 DEF Holds
<1>5. \A q \in Requests \ {r} : request'[q].op # "idle" => Holds(q)'
  BY <1>1, <1>2 DEF Holds, SerialInv
<1>6. QED BY <1>1, <1>4, <1>5 DEF SerialInv

\* An answer leaves the rows and what the others hold of theirs.
LEMMA AnswerSerial ==
  ASSUME TaskInv, SerialInv, NEW r \in Requests, Answer(r), UNCHANGED rows
  PROVE  SerialInv'
<1>1. Idle.op = "idle" BY DEF Idle
<1>2. request'[r] = Idle /\ \A q \in Requests \ {r} : request'[q] = request[q]
  BY DEF Answer, TaskInv, TypeOK
<1>3. \A q \in Requests \ {r} : request'[q].op # "idle" => Holds(q)'
  BY <1>2 DEF Holds, SerialInv
<1>4. QED BY <1>1, <1>2, <1>3 DEF SerialInv

\* An answer that writes the row of its own task leaves what the others hold of theirs.
LEMMA OthersHold ==
  ASSUME TaskInv, SerialInv, OneAtATime, NEW r \in Requests, request[r].op # "idle", Answer(r),
         \A t \in Tasks : Recorded(rows'[t]),
         \A u \in Tasks \ {request[r].task} : rows'[u] = rows[u]
  PROVE  SerialInv'
<1>1. Idle.op = "idle" BY DEF Idle
<1>2. request'[r] = Idle /\ \A q \in Requests \ {r} : request'[q] = request[q]
  BY DEF Answer, TaskInv, TypeOK
<1>3. ASSUME NEW q \in Requests \ {r}, request'[q].op # "idle" PROVE Holds(q)'
  <2>1. request'[q] = request[q] BY <1>2
  <2>2. request[q].task # request[r].task /\ request[q].task \in Tasks
    BY <1>3, <2>1 DEF OneAtATime, TaskInv, TypeOK
  <2>3. rows'[request[q].task] = rows[request[q].task] BY <2>2
  <2>4. QED BY <1>3, <2>1, <2>3 DEF Holds, SerialInv
<1>4. QED BY <1>1, <1>2, <1>3 DEF SerialInv

\* A commit of a row that agrees with itself leaves one in the table, and no other request
\* has a row of the task.
LEMMA CommitSerial ==
  ASSUME TaskInv, SerialInv, OneAtATime, NEW r \in Requests, request[r].op # "idle",
         NEW new \in Row, NEW stamped, Recorded(new), Commit(r, new, stamped), Answer(r)
  PROVE  SerialInv'
<1> DEFINE t == request[r].task
           m == Merge(request[r].row, new, stamped, rows[t])
<1>1. t \in Tasks /\ request[r].row \in Row /\ rows \in [Tasks -> Row] /\ rows[t] \in Row
  BY DEF TaskInv, TypeOK
<1>2. rows' = [rows EXCEPT ![t] = IF Unique(t, m) THEN m ELSE @] BY DEF Commit
<1>3. request[r].row = rows[t] BY DEF SerialInv, Holds
<1>4. Recorded(m) BY <1>1, <1>3, MergeOverItself
<1> HIDE DEF m
<1>5. rows'[t] \in {m, rows[t]} /\ \A u \in Tasks \ {t} : rows'[u] = rows[u]
  BY <1>1, <1>2
<1>6. \A u \in Tasks : Recorded(rows'[u])
  BY <1>4, <1>5 DEF SerialInv
<1>7. QED BY <1>1, <1>5, <1>6, OthersHold

\* update_task() refuses, or commits a row that agrees with itself.
LEMMA UpdateTaskSerial ==
  ASSUME TaskInv, SerialInv, OneAtATime, NEW r \in Requests, request[r].op \notin {"idle", "create"},
         NEW patch \in Patches, update_task(r, patch)
  PROVE  SerialInv'
<1> DEFINE old == request[r].row
           n == Updated(old, patch)
<1>1. old \in Row /\ Recorded(old) /\ old.status # Absent
  BY DEF TaskInv, TypeOK, SerialInv, Holds
<1>2. CASE Accepted(old, patch)
  <2>1. Commit(r, n, Stamped(patch)) /\ Answer(r) BY <1>2 DEF update_task
  <2>2. n \in Row BY <1>1, UpdatedRow
  <2>3. Recorded(n) /\ n.status # Absent BY <1>1, <1>2, UpdatedRecorded
  <2> HIDE DEF n
  <2>4. QED BY <2>1, <2>2, <2>3, CommitSerial
<1>3. CASE ~Accepted(old, patch)
  BY <1>3, AnswerSerial DEF update_task
<1>4. QED BY <1>2, <1>3

\* What a request does for a task that exists.
LEMMA ServeSerial ==
  ASSUME TaskInv, SerialInv, OneAtATime, NEW r \in Requests, Serve(r)
  PROVE  SerialInv'
<1>0. request[r].row \in Row /\ (request[r].op # "idle" => Recorded(request[r].row))
  BY DEF TaskInv, TypeOK, SerialInv, Holds
<1>1. CASE Update(r)
  BY <1>1, ReportedPatch, UpdateTaskSerial DEF Update, Busy
<1>2. CASE CreateInsert(r)
  <2>1. PICK mode \in ClientModes \ {"none"} : Commit(r, NewRow(mode), {}) /\ Answer(r)
    BY <1>2 DEF CreateInsert
  <2>2. NewRow(mode) \in Row /\ NewRow(mode).status = "pending"
    BY NewRowIsRow, InputConstants
  <2>3. Recorded(NewRow(mode)) BY DEF NewRow, Recorded, Absent, Active
  <2>4. QED BY <1>2, <2>1, <2>2, <2>3, CommitSerial DEF CreateInsert, Busy, Absent
<1>3. CASE Cancel(r)
  <2> DEFINE new == [request[r].row EXCEPT !.status = "cancelled", !.error = "cancelled_by_user",
                                           !.finished = TRUE]
  <2>1. new \in Row /\ new.status = "cancelled" BY <1>0 DEF Row, Terminal, Errors
  <2>2. Recorded(request[r].row) BY <1>0, <1>3 DEF Cancel, Busy
  <2>3. Recorded(new)
    BY <1>0, <2>2 DEF Recorded, Row, Absent, Active
  <2>4. QED BY <1>3, <2>1, <2>3, CommitSerial DEF Cancel, Busy, Absent
<1>4. CASE Attest(r) \/ Verify(r)
  BY <1>4, ServerPatches, UpdateTaskSerial DEF Attest, Verify, Busy
<1>5. CASE Deliver(r)
  <2> DEFINE new == [request[r].row EXCEPT !.upload_mode = "bridge_relay",
                                           !.delivery_status = "queued"]
  <2>1. new \in Row /\ new.status = request[r].row.status BY <1>0 DEF Row, Modes
  <2>2. Recorded(request[r].row) /\ request[r].row.status # Absent
    BY <1>0, <1>5 DEF Deliver, Busy, SerialInv, Holds
  <2>3. Recorded(new)
    BY <1>0, <2>2 DEF Recorded, Row
  <2>4. QED BY <1>5, <2>1, <2>3, CommitSerial DEF Deliver, Busy
<1>6. CASE Arrive(r)
  <2> DEFINE new == [request[r].row EXCEPT !.delivery_status = "delivered", !.object = TRUE]
  <2>1. new \in Row /\ new.status = request[r].row.status BY <1>0 DEF Row
  <2>2. Recorded(request[r].row) /\ request[r].row.status # Absent
    BY <1>0, <1>6 DEF Arrive, Busy, SerialInv, Holds
  <2>3. Recorded(new)
    BY <1>0, <2>2 DEF Recorded, Row
  <2>4. QED BY <1>6, <2>1, <2>3, CommitSerial DEF Arrive, Busy
<1>7. CASE RelayEnds(r)
  <2> DEFINE t == request[r].task
  <2>1. t \in Tasks /\ rows[t] \in Row /\ Recorded(rows[t]) /\ rows[t].status # Absent
    BY <1>7 DEF RelayEnds, Busy, TaskInv, TypeOK, SerialInv, Holds
  <2>2. (RelaySucceeds(t) \/ RelayFails(t)) /\ Answer(r) BY <1>7 DEF RelayEnds
  <2> HIDE DEF t
  <2>3. Recorded(rows'[t])
    BY <2>1, <2>2, RelayRow DEF Recorded, Absent, Active
  <2>4. \A u \in Tasks \ {t} : rows'[u] = rows[u] BY <2>1, <2>2, RelayRow
  <2>5. \A u \in Tasks : Recorded(rows'[u]) BY <2>3, <2>4 DEF SerialInv
  <2>6. QED BY <1>7, <2>2, <2>4, <2>5, OthersHold DEF RelayEnds, Busy, t
<1>8. QED BY <1>1, <1>2, <1>3, <1>4, <1>5, <1>6, <1>7 DEF Serve

\* Where requests do not overlap on a task, SerialInv is inductive.
LEMMA NextSerial == TaskInv /\ SerialInv /\ OneAtATime /\ [Next]_vars => SerialInv'
<1> SUFFICES ASSUME TaskInv, SerialInv, OneAtATime, [Next]_vars PROVE SerialInv'
  OBVIOUS
<1>1. ASSUME NEW r \in Requests, Serve(r) PROVE SerialInv'
  BY <1>1, ServeSerial
<1>2. ASSUME NEW r \in Requests, NEW t \in Tasks, Receive(r, t) PROVE SerialInv'
  <2>1. CASE CreateCheck(r, t) BY <2>1, LoadSerial DEF CreateCheck
  <2>2. CASE UpdateLoad(r, t) BY <2>2, LoadSerial DEF UpdateLoad
  <2>3. CASE CancelLoad(r, t)
    <3>1. rows[t].status # Absent BY <2>3 DEF CancelLoad, Active, Absent
    <3>2. QED BY <2>3, <3>1, LoadSerial DEF CancelLoad
  <2>4. CASE AttestLoad(r, t) BY <2>4, LoadSerial DEF AttestLoad
  <2>5. CASE VerifyLoad(r, t) BY <2>5, LoadSerial DEF VerifyLoad
  <2>6. CASE DeliverLoad(r, t) BY <2>6, LoadSerial DEF DeliverLoad
  <2>7. CASE ArriveLoad(r, t) BY <2>7, LoadSerial DEF ArriveLoad
  <2>8. CASE RelayLoad(r, t) BY <2>8, LoadSerial DEF RelayLoad
  <2>9. QED BY <1>2, <2>1, <2>2, <2>3, <2>4, <2>5, <2>6, <2>7, <2>8 DEF Receive
<1>3. CASE UNCHANGED vars
  BY <1>3 DEF SerialInv, Holds
<1>4. QED BY <1>1, <1>2, <1>3 DEF Next

LEMMA SerialInvariant == Spec /\ []OneAtATime => []SerialInv
<1>1. Spec => []TaskInv BY TaskInvariant
<1>2. QED BY <1>1, InitSerial, NextSerial, PTL DEF Spec

\* With any number of clients and jobs that do not overlap on a task, a task that is being collected
\* has no end, however often it was ended, adopted and corrected.
THEOREM RevivedHasNoEnd == Spec /\ []OneAtATime => []ActiveIsUnfinished
<1>1. SerialInv => ActiveIsUnfinished BY DEF SerialInv, Recorded, ActiveIsUnfinished
<1>2. QED BY SerialInvariant, <1>1, PTL

\* With any number of clients and jobs that do not overlap on a task, a direct delivery rests
\* on the package the platform has, on the log server's word or on acli's, in whatever order
\* the task was checked, reported, delivered again, moved to the other path and relayed.
THEOREM DeliveryRestsOnSomething == Spec /\ []OneAtATime => []DirectDeliveryHasBasis
<1>1. SerialInv => DirectDeliveryHasBasis BY DEF SerialInv, Recorded, DirectDeliveryHasBasis
<1>2. QED BY SerialInvariant, <1>1, PTL

================================================================================
