------------------------------ MODULE Timetable ------------------------------
(***************************************************************************)
(* The weekly schedule, the dated lectures generated from it and the       *)
(* attendance marked against them (academics/services/timetable_service.py *)
(* and attendance_service.py, with the part of batch_service.py that       *)
(* retires a batch's slots).                                               *)
(*                                                                         *)
(* A request goes through three points.  The view loads the row it works   *)
(* on; the service, in its READ COMMITTED transaction, runs its queries    *)
(* and refuses or goes on; the writes become visible at the commit.  No    *)
(* row is locked and the version column is never compared, so between two  *)
(* points any other request may commit.  A request of an actor whose role  *)
(* or branch forbids it leaves no trace; a super administrator may make    *)
(* every request below.                                                    *)
(***************************************************************************)
EXTENDS Naturals, FiniteSets

CONSTANTS
  Workers,      \* the processes serving requests
  Slots,        \* rows of the weekly schedule
  Lectures,     \* rows of dated sessions
  Students,
  Batches,
  Teachers,
  Rooms,
  DefaultRoom,  \* the column default of room_number
  Days,
  Times,        \* clock times, as numbers
  Dates,        \* calendar dates, as numbers
  Today,
  DayOf,        \* the weekday of a date
  Branch,       \* the branch of a batch
  Qualified,    \* the (teacher, batch) pairs _validate_slot accepts
  Statuses,     \* the attendance statuses in use
  Scenarios,    \* where the system may start: the rows there are, the operations asked for
  None          \* an absent value

LectureStatuses == {"SCHEDULED", "COMPLETED", "CANCELLED"}

SlotOperations == {"create_slot", "update_slot", "soft_delete_slot", "soft_delete_batch"}
LectureOperations ==
  {"create_lecture", "update_lecture", "cancel_lecture", "soft_delete_lecture",
   "generate_from_timetable"}
MarkOperations == {"mark_bulk_attendance", "amend_attendance", "soft_delete_attendance"}
Operations == SlotOperations \cup LectureOperations \cup MarkOperations

ASSUME ConstantsAssumption ==
  /\ Times \subseteq Nat /\ Dates \subseteq Nat /\ Today \in Nat
  /\ DefaultRoom \in Rooms
  /\ DayOf \in [Dates -> Days]
  /\ Qualified \subseteq Teachers \X Batches
  /\ Slots \cap Lectures = {}
  /\ None \notin Rooms \cup Batches

\* The columns of a session that its validation and its conflicts depend on.
Session ==
  [batch: Batches, teacher: Teachers, day: Days, start: Times, end: Times, room: Rooms]

SlotRow == [session: Session, is_deleted: BOOLEAN]
LectureRow == [slot: Slots, date: Dates, status: LectureStatuses, is_deleted: BOOLEAN]

\* unique_together = (lecture, student): the pair is the key of the attendance table.
Keys == Lectures \X Students
MarkRow == [status: Statuses, is_deleted: BOOLEAN]

\* start_time__lt=end_time, end_time__gt=start_time: half-open intervals on one weekday.
Overlap(a, b) == a.day = b.day /\ a.start < b.end /\ b.start < a.end

SameRoom(a, b) == a.room = b.room /\ Branch[a.batch] = Branch[b.batch]

SharesResource(a, b) == a.teacher = b.teacher \/ a.batch = b.batch \/ SameRoom(a, b)

\* _validate_slot: a time range, and a subject, a role, an account and a branch that fit.
ValidSession(new) == new.start < new.end /\ <<new.teacher, new.batch>> \in Qualified

ClashFree(table) ==
  \A s, t \in Slots :
    s # t /\ table[s] # None /\ table[t] # None /\ Overlap(table[s].session, table[t].session)
      => ~SharesResource(table[s].session, table[t].session)

NoDuplicate(table) ==
  \A l, m \in Lectures :
    l # m /\ table[l] # None /\ table[m] # None /\ table[l].slot = table[m].slot
      => table[l].date # table[m].date

ASSUME ScenarioAssumption ==
  /\ \A sc \in Scenarios :
       /\ sc.asked \subseteq Operations
       /\ sc.slot \in [Slots -> SlotRow \cup {None}]
       /\ sc.lecture \in [Lectures -> LectureRow \cup {None}]
       /\ \A s \in Slots : sc.slot[s] # None => ValidSession(sc.slot[s].session)
       /\ \A l \in Lectures : sc.lecture[l] # None => sc.slot[sc.lecture[l].slot] # None
       /\ ClashFree(sc.slot)
       /\ NoDuplicate(sc.lecture)
  /\ None \notin SlotRow \cup LectureRow \cup MarkRow

VARIABLES
  workload,  \* the operations asked for
  slot,      \* the table of slots, None where there is no row
  lecture,   \* the table of lectures
  mark,      \* the table of attendance records
  roster,    \* the students actively enrolled in each batch
  pc,        \* where each worker is in its request
  job,       \* the request of each worker and what it holds in memory
  missed,    \* history: the rows committed by others since a worker's queries
  raced      \* history: the pairs of rows of which one was written without seeing the other

tables == <<slot, lecture, mark, roster>>
history == <<missed, raced>>
vars == <<workload, slot, lecture, mark, roster, pc, job, missed, raced>>

NoJob == [op |-> None]

-----------------------------------------------------------------------------
\* active(Timetable), active(Lecture), active(Attendance)
LiveSlots == {s \in Slots : slot[s] # None /\ ~slot[s].is_deleted}
LiveLectures == {l \in Lectures : lecture[l] # None /\ ~lecture[l].is_deleted}
LiveMarks == {k \in Keys : mark[k] # None /\ ~mark[k].is_deleted}

\* register_for_lecture: the students actively enrolled in the batch of the lecture's slot,
\* each with the status marked, if any.
Register(l) ==
  [s \in roster[slot[lecture[l].slot].session.batch] |->
     IF <<l, s>> \in LiveMarks THEN mark[<<l, s>>].status ELSE None]

\* Fault: only the teacher and the room are compared.
ConflictsForgetBatch(new, room, excluded) ==
  {t \in LiveSlots \ excluded :
     LET other == slot[t].session IN
     /\ Overlap(other, new)
     /\ \/ other.teacher = new.teacher
        \/ room # None /\ SameRoom(other, [new EXCEPT !.room = room])}

\* find_conflicts: room is the room the request names, and no room is compared when it
\* names none.
Conflicts(new, room, excluded) ==
  {t \in LiveSlots \ excluded :
     LET other == slot[t].session IN
     /\ Overlap(other, new)
     /\ \/ other.teacher = new.teacher
        \/ other.batch = new.batch
        \/ room # None /\ SameRoom(other, [new EXCEPT !.room = room])}

\* The future scheduled lectures that are withdrawn with their slot.
Future(s) ==
  {l \in LiveLectures :
     lecture[l].slot = s /\ lecture[l].status = "SCHEDULED" /\ lecture[l].date >= Today}

\* generate_from_timetable: the dates of the range on the slot's weekday without a lecture.
Missing(s, day, from, to) ==
  {d \in Dates : from <= d /\ d <= to /\ DayOf[d] = day}
    \ {lecture[l].date : l \in {x \in LiveLectures : lecture[x].slot = s}}

-----------------------------------------------------------------------------
Init ==
  /\ \E sc \in Scenarios :
       workload = sc.asked /\ slot = sc.slot /\ lecture = sc.lecture
  /\ mark = [k \in Keys |-> None]
  /\ roster \in [Batches -> SUBSET Students]
  /\ pc = [w \in Workers |-> "idle"]
  /\ job = [w \in Workers |-> NoJob]
  /\ missed = [w \in Workers |-> {}]
  /\ raced = {}

-----------------------------------------------------------------------------
(* The view: get_object() and the parsed payload.                           *)

Load(w, j) ==
  /\ pc[w] = "idle"
  /\ j.op \in workload
  /\ pc' = [pc EXCEPT ![w] = "loaded"]
  /\ job' = [job EXCEPT ![w] = j]
  /\ UNCHANGED <<workload, tables, history>>

\* PATCH timetables: the columns the request leaves out are those of the loaded row.
LoadUpdateSlot(w) ==
  \E s \in LiveSlots, new \in Session :
    /\ ValidSession(new)
    /\ Load(w, [op |-> "update_slot", slot |-> s, new |-> new])

LoadDeleteSlot(w) == \E s \in LiveSlots : Load(w, [op |-> "soft_delete_slot", slot |-> s])

LoadDeleteBatch(w) == \E b \in Batches : Load(w, [op |-> "soft_delete_batch", batch |-> b])

\* PATCH lectures: the slot is taken out of the payload, the date is not checked again.
LoadUpdateLecture(w) ==
  \E l \in LiveLectures, d \in Dates, status \in LectureStatuses :
    Load(w, [op |-> "update_lecture", lecture |-> l, seen |-> lecture[l],
             date |-> d, status |-> status])

\* POST lectures/cancel/: decided on the status in memory, and no change when it is cancelled.
LoadCancel(w) ==
  \E l \in LiveLectures :
    /\ lecture[l].status = "SCHEDULED"
    /\ Load(w, [op |-> "cancel_lecture", lecture |-> l])

LoadDeleteLecture(w) ==
  \E l \in LiveLectures : Load(w, [op |-> "soft_delete_lecture", lecture |-> l])

LoadGenerate(w) ==
  \E s \in LiveSlots, from, to \in Dates :
    /\ from <= to
    /\ Load(w, [op |-> "generate_from_timetable", slot |-> s, day |-> slot[s].session.day,
                from |-> from, to |-> to])

\* POST lectures/bulk-attendance/: the status and the batch of the lecture are those of the
\* rows in memory.
LoadMark(w) ==
  \E l \in LiveLectures, S \in SUBSET Students, status \in Statuses, complete \in BOOLEAN :
    /\ S # {}
    /\ lecture[l].status # "CANCELLED"
    /\ Load(w, [op |-> "mark_bulk_attendance", lecture |-> l, students |-> S,
                status |-> status, complete |-> complete,
                batch |-> slot[lecture[l].slot].session.batch])

LoadAmend(w) ==
  \E k \in LiveMarks, status \in Statuses :
    Load(w, [op |-> "amend_attendance", key |-> k, status |-> status])

LoadDeleteMark(w) ==
  \E k \in LiveMarks : Load(w, [op |-> "soft_delete_attendance", key |-> k])

Loads(w) ==
  \/ LoadUpdateSlot(w) \/ LoadDeleteSlot(w) \/ LoadDeleteBatch(w)
  \/ LoadUpdateLecture(w) \/ LoadCancel(w) \/ LoadDeleteLecture(w) \/ LoadGenerate(w)
  \/ LoadMark(w) \/ LoadAmend(w) \/ LoadDeleteMark(w)

-----------------------------------------------------------------------------
(* The service's queries.  What they find is kept in the job as "found".    *)

Queried(w, op, request, found) ==
  /\ pc' = [pc EXCEPT ![w] = "checked"]
  /\ job' = [job EXCEPT ![w] = [op |-> op, request |-> request, found |-> found]]
  /\ missed' = [missed EXCEPT ![w] = {}]
  /\ UNCHANGED <<workload, tables, raced>>

\* POST timetables: the view reads nothing; a session, its room named or left to the
\* column default.
CheckCreateSlot(w) ==
  \E new \in Session, room \in Rooms \cup {None} :
    /\ pc[w] = "idle"
    /\ "create_slot" \in workload
    /\ new.room = IF room = None THEN DefaultRoom ELSE room
    /\ ValidSession(new)
    /\ Conflicts(new, room, {}) = {}
    /\ Queried(w, "create_slot", new, {})

\* POST lectures: the slot may be any row, a deleted one included.
CheckCreateLecture(w) ==
  \E s \in Slots, d \in Dates, status \in LectureStatuses :
    /\ pc[w] = "idle"
    /\ "create_lecture" \in workload
    /\ slot[s] # None
    /\ DayOf[d] = slot[s].session.day
    /\ ~\E l \in LiveLectures : lecture[l].slot = s /\ lecture[l].date = d
    /\ Queried(w, "create_lecture", [slot |-> s, date |-> d, status |-> status], {})

\* The rows a request has to have read before it writes.
Found(w) ==
  LET j == job[w] IN
  CASE j.op = "soft_delete_slot" -> Future(j.slot)
    [] j.op = "soft_delete_batch" -> {s \in LiveSlots : slot[s].session.batch = j.batch}
    [] j.op = "generate_from_timetable" -> Missing(j.slot, j.day, j.from, j.to)
    [] j.op = "mark_bulk_attendance" -> {s \in j.students : mark[<<j.lecture, s>>] # None}
    [] OTHER -> {}

\* What each operation requires of the tables.
Passes(w) ==
  LET j == job[w] IN
  /\ j.op = "update_slot" => Conflicts(j.new, j.new.room, {j.slot}) = {}
  /\ j.op = "soft_delete_batch" => roster[j.batch] = {}
  /\ j.op = "soft_delete_lecture" => ~\E s \in Students : <<j.lecture, s>> \in LiveMarks
  /\ j.op = "mark_bulk_attendance" => j.students \subseteq roster[j.batch]

Check(w) ==
  /\ pc[w] = "loaded"
  /\ Passes(w)
  /\ Queried(w, job[w].op, job[w], Found(w))

Refuse(w) ==
  /\ pc[w] = "loaded"
  /\ ~Passes(w)
  /\ pc' = [pc EXCEPT ![w] = "idle"]
  /\ job' = [job EXCEPT ![w] = NoJob]
  /\ UNCHANGED <<workload, tables, history>>

\* The worker or its connection dies: the transaction is rolled back.
Crash(w) ==
  /\ pc[w] # "idle"
  /\ pc' = [pc EXCEPT ![w] = "idle"]
  /\ job' = [job EXCEPT ![w] = NoJob]
  /\ missed' = [missed EXCEPT ![w] = {}]
  /\ UNCHANGED <<workload, tables, raced>>

-----------------------------------------------------------------------------
(* The commits.                                                             *)

Writing(w, op) == pc[w] = "checked" /\ job[w].op = op

\* update_lecture looks at no other lecture.
Unread(op) == IF op = "update_lecture" THEN Lectures ELSE {}

\* The request of w ends having written rows: who is between queries and commit missed them.
Commit(w, rows) ==
  /\ pc' = [pc EXCEPT ![w] = "idle"]
  /\ job' = [job EXCEPT ![w] = NoJob]
  /\ missed' = [v \in Workers |->
                  IF v # w /\ pc[v] = "checked" THEN missed[v] \cup rows ELSE {}]
  /\ raced' = raced \cup {{r, m} : r \in rows, m \in missed[w] \cup Unread(job[w].op)}
  /\ UNCHANGED <<workload, roster>>

CreateSlot(w) ==
  /\ Writing(w, "create_slot")
  /\ \E s \in Slots :
       /\ slot[s] = None
       /\ slot' = [slot EXCEPT ![s] = [session |-> job[w].request, is_deleted |-> FALSE]]
       /\ Commit(w, {s})
  /\ UNCHANGED <<lecture, mark>>

\* slot.save(): every column from the row in memory, which was not deleted.
UpdateSlot(w) ==
  LET j == job[w].request IN
  /\ Writing(w, "update_slot")
  /\ slot' = [slot EXCEPT ![j.slot] = [session |-> j.new, is_deleted |-> FALSE]]
  /\ Commit(w, {j.slot})
  /\ UNCHANGED <<lecture, mark>>

\* The lectures found are deleted whatever has become of them since, then the slot.
DeleteSlot(w) ==
  LET s == job[w].request.slot
      withdrawn == job[w].found
  IN
  /\ Writing(w, "soft_delete_slot")
  /\ slot' = [slot EXCEPT ![s].is_deleted = TRUE]
  /\ lecture' = [l \in Lectures |->
                   IF l \in withdrawn THEN [lecture[l] EXCEPT !.is_deleted = TRUE]
                                      ELSE lecture[l]]
  /\ Commit(w, {s} \cup withdrawn)
  /\ UNCHANGED mark

\* soft_delete_batch: the slots go, their lectures stay.
DeleteBatch(w) ==
  LET found == job[w].found IN
  /\ Writing(w, "soft_delete_batch")
  /\ slot' = [s \in Slots |->
                IF s \in found THEN [slot[s] EXCEPT !.is_deleted = TRUE] ELSE slot[s]]
  /\ Commit(w, found)
  /\ UNCHANGED <<lecture, mark>>

NewLecture(s, d, status) == [slot |-> s, date |-> d, status |-> status, is_deleted |-> FALSE]

CreateLecture(w) ==
  LET j == job[w].request IN
  /\ Writing(w, "create_lecture")
  /\ \E l \in Lectures :
       /\ lecture[l] = None
       /\ lecture' = [lecture EXCEPT ![l] = NewLecture(j.slot, j.date, j.status)]
       /\ Commit(w, {l})
  /\ UNCHANGED <<slot, mark>>

\* bulk_create: one scheduled lecture for each date found missing.
Generate(w) ==
  LET j == job[w].request
      dates == job[w].found
  IN
  /\ Writing(w, "generate_from_timetable")
  /\ \E row \in [dates -> {l \in Lectures : lecture[l] = None}] :
       /\ \A d, e \in dates : row[d] = row[e] => d = e
       /\ LET new == {row[d] : d \in dates} IN
          /\ lecture' = [l \in Lectures |->
                IF l \in new THEN NewLecture(j.slot, CHOOSE d \in dates : row[d] = l, "SCHEDULED")
                             ELSE lecture[l]]
          /\ Commit(w, new)
  /\ UNCHANGED <<slot, mark>>

\* lecture.save(): every column from the row in memory, which was not deleted.
UpdateLecture(w) ==
  LET j == job[w].request IN
  /\ Writing(w, "update_lecture")
  /\ lecture' = [lecture EXCEPT ![j.lecture] =
                   [j.seen EXCEPT !.date = j.date, !.status = j.status]]
  /\ Commit(w, {j.lecture})
  /\ UNCHANGED <<slot, mark>>

\* save(update_fields=["status"])
CancelLecture(w) ==
  LET l == job[w].request.lecture IN
  /\ Writing(w, "cancel_lecture")
  /\ lecture' = [lecture EXCEPT ![l].status = "CANCELLED"]
  /\ Commit(w, {l})
  /\ UNCHANGED <<slot, mark>>

DeleteLecture(w) ==
  LET l == job[w].request.lecture IN
  /\ Writing(w, "soft_delete_lecture")
  /\ lecture' = [lecture EXCEPT ![l].is_deleted = TRUE]
  /\ Commit(w, {l})
  /\ UNCHANGED <<slot, mark>>

\* The students without a record get one; the unique pair refuses the whole request when
\* one of them has got a record since.
NewcomersUnmarked(w) ==
  LET j == job[w].request IN
  \A s \in j.students \ job[w].found : mark[<<j.lecture, s>>] = None

\* bulk_create and bulk_update, is_deleted among the updated columns; then the lecture's
\* status, when it is to be completed.
MarkAttendance(w) ==
  LET j == job[w].request
      keys == {<<j.lecture, s>> : s \in j.students}
  IN
  /\ Writing(w, "mark_bulk_attendance")
  /\ NewcomersUnmarked(w)
  /\ mark' = [k \in Keys |->
                IF k \in keys THEN [status |-> j.status, is_deleted |-> FALSE] ELSE mark[k]]
  /\ lecture' = [lecture EXCEPT ![j.lecture].status = IF j.complete THEN "COMPLETED" ELSE @]
  /\ Commit(w, {j.lecture})
  /\ UNCHANGED slot

\* IntegrityError: nothing of the request is kept.
MarkConflict(w) ==
  /\ Writing(w, "mark_bulk_attendance")
  /\ ~NewcomersUnmarked(w)
  /\ Commit(w, {})
  /\ UNCHANGED <<slot, lecture, mark>>

\* Fault: the whole record is saved.
AmendWholeRecord(w) ==
  LET j == job[w].request IN
  /\ Writing(w, "amend_attendance")
  /\ mark' = [mark EXCEPT ![j.key] = [status |-> j.status, is_deleted |-> FALSE]]
  /\ Commit(w, {j.key[1]})
  /\ UNCHANGED <<slot, lecture>>

\* save(update_fields=["status"])
AmendAttendance(w) ==
  LET j == job[w].request IN
  /\ Writing(w, "amend_attendance")
  /\ mark' = [mark EXCEPT ![j.key].status = j.status]
  /\ Commit(w, {j.key[1]})
  /\ UNCHANGED <<slot, lecture>>

DeleteAttendance(w) ==
  LET k == job[w].request.key IN
  /\ Writing(w, "soft_delete_attendance")
  /\ mark' = [mark EXCEPT ![k].is_deleted = TRUE]
  /\ Commit(w, {k[1]})
  /\ UNCHANGED <<slot, lecture>>

Commits(w) ==
  \/ CreateSlot(w) \/ UpdateSlot(w) \/ DeleteSlot(w) \/ DeleteBatch(w)
  \/ CreateLecture(w) \/ Generate(w) \/ UpdateLecture(w) \/ CancelLecture(w)
  \/ DeleteLecture(w)
  \/ MarkAttendance(w) \/ MarkConflict(w) \/ AmendAttendance(w) \/ DeleteAttendance(w)

\* Students come and go: the enrolment desk is a module of its own.
RosterChange(b, s) ==
  /\ "mark_bulk_attendance" \in workload \/ "soft_delete_batch" \in workload
  /\ roster' = [roster EXCEPT ![b] = IF s \in @ THEN @ \ {s} ELSE @ \cup {s}]
  /\ UNCHANGED <<workload, slot, lecture, mark, pc, job, history>>

Next ==
  \/ \E w \in Workers :
       \/ Loads(w)
       \/ CheckCreateSlot(w) \/ CheckCreateLecture(w) \/ Check(w) \/ Refuse(w)
       \/ Commits(w) \/ Crash(w)
  \/ \E b \in Batches, s \in Students : RosterChange(b, s)

Spec == Init /\ [][Next]_vars

-----------------------------------------------------------------------------
\* Types of the tables and of the history.
TypeOK ==
  /\ workload \subseteq Operations
  /\ slot \in [Slots -> SlotRow \cup {None}]
  /\ lecture \in [Lectures -> LectureRow \cup {None}]
  /\ mark \in [Keys -> MarkRow \cup {None}]
  /\ roster \in [Batches -> SUBSET Students]
  /\ pc \in [Workers -> {"idle", "loaded", "checked"}]
  /\ missed \in [Workers -> SUBSET (Slots \cup Lectures)]
  /\ raced \subseteq SUBSET (Slots \cup Lectures)

\* timetable_service.py:4 "nothing stops you booking the same teacher into two rooms": two
\* live sessions that overlap never share the teacher, the batch or a named room, unless
\* one of them was committed between the conflict query and the commit of the other.
ClashNeedsRace ==
  \A s, t \in LiveSlots :
    LET a == slot[s].session
        b == slot[t].session
    IN  /\ s # t
        /\ Overlap(a, b)
        /\ a.teacher = b.teacher \/ a.batch = b.batch \/ (a.room # DefaultRoom /\ SameRoom(a, b))
        => {s, t} \in raced

\* attendance_service.py:303 "Idempotent: dates that already have a lecture for this slot
\* are skipped": two live lectures of one slot on one date come only from requests that
\* overlapped, or from an edit that moved one of them without looking at the others.
DuplicateNeedsRace ==
  \A l, m \in LiveLectures :
    l # m /\ lecture[l].slot = lecture[m].slot /\ lecture[l].date = lecture[m].date
      => {l, m} \in raced

\* What the checks before the inserts are to keep in place of constraints: rows of their types,
\* no double booking and no date held twice but by requests that overlapped.
TimetableIntegrity == TypeOK /\ ClashNeedsRace /\ DuplicateNeedsRace

Held(l) ==
  /\ l \in LiveLectures
  /\ lecture[l].status = "COMPLETED"
  /\ \E s \in Students : <<l, s>> \in LiveMarks

\* timetable_service.py:312 "Lectures already held are history and must survive": a lecture
\* that was completed and marked is removed, with its slot or alone, only by a request that
\* had run its queries before the lecture was last written.
HeldLecturesSurvive ==
  \A l \in Lectures : Held(l) /\ l \notin LiveLectures' =>
    \E w \in Workers : pc[w] = "checked" /\ pc'[w] = "idle" /\ l \in missed[w]

\* A deleted attendance record comes back by a roll call of its lecture and in no other way,
\* however old the record a correction holds in memory; no record ever goes for good.
DeletedMarkStaysOut ==
  \A k \in Keys : mark[k] # None =>
    /\ mark'[k] # None
    /\ k \notin LiveMarks /\ k \in LiveMarks' =>
         \E w \in Workers : MarkAttendance(w) /\ job[w].request.lecture = k[1]

\* The register tells of a student who stays on it what it told before, unless a request
\* about the attendance of that lecture ends.
RegisterHolds ==
  \A l \in Lectures : lecture[l] # None =>
    \A s \in DOMAIN Register(l) \cap DOMAIN Register(l)' :
      Register(l)[s] # Register(l)'[s] =>
        \E w \in Workers :
          \/ MarkAttendance(w) /\ job[w].request.lecture = l
          \/ (AmendAttendance(w) \/ DeleteAttendance(w)) /\ job[w].request.key = <<l, s>>

\* What a roll call has recorded outlives the requests that do not know of it: the lecture is
\* not withdrawn, its marks and its register stay as they were.
AttendanceSurvives ==
  [][HeldLecturesSurvive /\ DeletedMarkStaysOut /\ RegisterHolds]_vars

=============================================================================
