------------------------------- MODULE Access -------------------------------
(***************************************************************************)
(* What a teacher is shown of the schedule and its cohorts, and may do     *)
(* about them.  Every service draws the line for itself: the query sets of *)
(* timetable_service.py, attendance_service.py, enrolment_service.py,      *)
(* exam_service.py, assignment_service.py and profile_service.py, the      *)
(* guards of the roll call and of material_service.py, and the sender      *)
(* check of communication_service.py.                                      *)
(***************************************************************************)
EXTENDS Timetable

CONSTANTS
  Assigned,  \* Batch.teachers, as (teacher, batch) pairs
  Home       \* the branch of a teacher's account, None when it has none

\* _validate_slot and _resolve_teacher_ids accept a teacher without a branch everywhere.
ASSUME AccessAssumption ==
  /\ Assigned \subseteq Teachers \X Batches
  /\ \A p \in Qualified \cup Assigned : Home[p[1]] \in {None, Branch[p[2]]}

BatchOf(s) == slot[s].session.batch

\* scope_to_branch fails closed.
InScope(t, b) == Home[t] # None /\ Home[t] = Branch[b]

\* create_notification_campaign: a teacher may write to the batches with a live slot.
MaySend(t, b) == \E s \in LiveSlots : slot[s].session.teacher = t /\ BatchOf(s) = b

\* The teacher of the slot, deleted or not, and those assigned to its batch.
OnSlot(t, s) == slot[s].session.teacher = t \/ <<t, BatchOf(s)>> \in Assigned

\* _assert_may_mark
MayMark(t, l) ==
  LET s == lecture[l].slot IN InScope(t, BatchOf(s)) /\ OnSlot(t, s)

\* visible_slots
SeesSlot(t, s) == s \in LiveSlots /\ InScope(t, BatchOf(s)) /\ OnSlot(t, s)

\* Fault: the lectures go with their slot.
SeesLectureOfSlot(t, l) == l \in LiveLectures /\ SeesSlot(t, lecture[l].slot)

\* visible_lectures
SeesLecture(t, l) ==
  /\ l \in LiveLectures
  /\ InScope(t, BatchOf(lecture[l].slot))
  /\ OnSlot(t, lecture[l].slot)

\* visible_attendance, whatever has become of the lecture.
SeesMark(t, k) ==
  LET s == lecture[k[1]].slot IN k \in LiveMarks /\ InScope(t, BatchOf(s)) /\ OnSlot(t, s)

\* visible_enrolments: through live slots only.
SeesRoster(t, b) ==
  /\ InScope(t, b)
  /\ <<t, b>> \in Assigned \/ \E s \in LiveSlots : slot[s].session.teacher = t /\ BatchOf(s) = b

\* batch__timetables__teacher: a deleted slot counts.
EverTaught(t, b) == \E s \in Slots : slot[s] # None /\ slot[s].session.teacher = t /\ BatchOf(s) = b

\* filter_students, asked for no batch, course or branch: those whose profile names the batch.
SeesProfiles(t, b) == EverTaught(t, b)

\* filter_exams, filter_results, filter_assignments, filter_submissions: no branch is compared.
SeesExams(t, b) == EverTaught(t, b) \/ <<t, b>> \in Assigned
SeesResults(t, b) == EverTaught(t, b) \/ <<t, b>> \in Assigned
SeesAssignments(t, b) == EverTaught(t, b) \/ <<t, b>> \in Assigned
SeesSubmissions(t, b) == EverTaught(t, b) \/ <<t, b>> \in Assigned

\* _assert_may_publish, of material for one batch.
MayPublish(t, b) ==
  /\ Home[t] = Branch[b]
  /\ \E s \in LiveSlots : slot[s].session.teacher = t /\ BatchOf(s) = b

-----------------------------------------------------------------------------
\* However the schedule is edited, a teacher who has a branch is shown what the services let
\* the teacher act on: the roll is called on the lectures shown and no others, whoever may
\* write to a cohort may publish to it and conversely, and is shown its students, and whoever
\* is shown its students, or a session of it, is shown its coursework.
TeachersSeeWhatTheyDo ==
  \A t \in Teachers : Home[t] # None =>
    /\ \A l \in LiveLectures :
         /\ MayMark(t, l) <=> SeesLecture(t, l)
         /\ SeesLecture(t, l) /\ lecture[l].slot \in LiveSlots =>
              SeesRoster(t, BatchOf(lecture[l].slot))
         /\ \A s \in Students : SeesMark(t, <<l, s>>) => SeesLecture(t, l)
    /\ \A s \in Slots : SeesSlot(t, s) => SeesRoster(t, BatchOf(s))
    /\ \A b \in Batches :
         /\ MaySend(t, b) <=> MayPublish(t, b)
         /\ MaySend(t, b) => SeesRoster(t, b) /\ SeesProfiles(t, b)
         /\ SeesRoster(t, b) =>
              /\ SeesExams(t, b) /\ SeesResults(t, b)
              /\ SeesAssignments(t, b) /\ SeesSubmissions(t, b)

\* A teacher loses sight of a lecture, or of an attendance record, only when it is deleted or
\* when an edit of its slot puts another teacher or cohort there: not with the slot, and not
\* with the batch.
TeachersKeepHistory ==
  [][\A t \in Teachers, l \in Lectures :
       LET edited == \E w \in Workers : UpdateSlot(w) /\ job[w].request.slot = lecture[l].slot IN
       /\ SeesLecture(t, l) /\ l \in LiveLectures' => SeesLecture(t, l)' \/ edited
       /\ \A s \in Students :
            <<l, s>> \in LiveMarks /\ <<l, s>> \in LiveMarks' /\ SeesMark(t, <<l, s>>) =>
              SeesMark(t, <<l, s>>)' \/ edited]_vars
=============================================================================
