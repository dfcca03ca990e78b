----------------------------- MODULE MCEnrolment -----------------------------
(***************************************************************************)
(* Instances of Enrolment for TLC.                                         *)
(***************************************************************************)
EXTENDS Enrolment, TLC

CONSTANTS s1, s2, c1, c2, b1, b2, br1, br2

\* The operations of each run.
AllOps == AllOperations \ {"update_student_profile"}
DeskOps == {"enrol_student", "update_enrolment", "soft_delete_enrolment"}
PointerOps == {"enrol_student", "update_enrolment", "update_student_profile"}

Row(c, br, cap) == [course |-> c, branch |-> br, max_capacity |-> cap, is_deleted |-> FALSE]

\* Two parallel cohorts of one course in one branch, one seat each.
OneSeatEach == {[b \in Batches |-> Row(c1, br1, 1)]}

\* Two batches of different courses, of different branches, or of one course in one branch.
MixedCatalogue ==
  {(b1 :> Row(c1, br1, 1) @@ b2 :> other) :
     other \in {Row(c2, br1, 1), Row(c1, br2, 1), Row(c1, br1, 1)}}

\* One student of the first branch, the others unassigned.
SomeAssigned == [s \in Students |-> IF s = s1 THEN br1 ELSE None]

\* Every student in the first branch: a lead always has one.
AllAssigned == [s \in Students |-> br1]

WorkerSymmetry == Permutations(Workers)
=============================================================================
