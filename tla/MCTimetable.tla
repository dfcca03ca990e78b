----------------------------- MODULE MCTimetable -----------------------------
(***************************************************************************)
(* Instances of Timetable, with Access, for TLC.                           *)
(***************************************************************************)
EXTENDS Access, TLC

CONSTANTS b1, b2, t1, t2, r1, r2, d1

\* Two cohorts of one branch; a teacher of the branch, assigned to the second, and a teacher
\* without a branch.
OneBranch == [b \in Batches |-> "north"]
TwoTeachers == Teachers \X Batches
TwoHomes == [t \in Teachers |-> IF t = t1 THEN "north" ELSE None]
OneAssigned == {<<t1, b2>>}

\* Every date falls on the one weekday of the instance.
SameDay == [d \in Dates |-> d1]

Taught(b) == [session |-> [batch |-> b, teacher |-> t1, day |-> d1, start |-> 0, end |-> 1,
                           room |-> r1], is_deleted |-> FALSE]

NoSlots == [s \in Slots |-> None]
OneSlot(x) == [NoSlots EXCEPT ![x] = Taught(b1)]
NoLectures == [l \in Lectures |-> None]
OneLecture(x, s) ==
  [NoLectures EXCEPT ![x] = [slot |-> s, date |-> Today, status |-> "SCHEDULED",
                             is_deleted |-> FALSE]]

\* Two administrators edit an empty schedule.
Scheduling ==
  {[asked |-> {"create_slot", "update_slot"}, slot |-> NoSlots, lecture |-> NoLectures]}

\* One session, and requests about its slot, its batch or the lectures it may have.
AboutSlot ==
  {[asked |-> ops, slot |-> OneSlot(s), lecture |-> NoLectures] :
     s \in Slots,
     ops \in {{"create_slot", "soft_delete_batch"}, {"update_slot", "soft_delete_slot"},
              {"generate_from_timetable", "create_lecture"}}}

\* One session with one lecture, and requests about the lecture or its marks.
AboutLecture ==
  {[asked |-> ops, slot |-> OneSlot(s), lecture |-> OneLecture(l, s)] :
     s \in Slots, l \in Lectures,
     ops \in {{"update_lecture", "soft_delete_lecture"},
              {"mark_bulk_attendance", "cancel_lecture", "soft_delete_slot",
               "soft_delete_lecture"},
              {"mark_bulk_attendance", "amend_attendance", "soft_delete_attendance"}}}

AllScenarios == Scheduling \cup AboutSlot \cup AboutLecture

Symmetry == Permutations(Workers) \cup Permutations(Slots) \cup Permutations(Lectures)
              \cup Permutations(Statuses) \cup Permutations(Students)
=============================================================================
