------------------------------ MODULE MCReports ------------------------------
(***************************************************************************)
(* Instances of Reports for TLC.                                           *)
(***************************************************************************)
EXTENDS Reports, TLC

CONSTANTS w1, w2, s1, s2, a1, a2, x1, x2, l1, l2, f1, f2

\* Two lectures of one month, or of two.
MCMonth == [l \in Lectures |-> IF l = l1 THEN 0 ELSE 1]

Start(assigned, examined, ops) ==
  [asked |-> ops, enrolled |-> Students,
   assignment |-> [a \in Assignments |-> IF a \in assigned THEN 50 ELSE None],
   exam |-> [e \in Exams |-> IF e \in examined THEN [total |-> 50, passing |-> 40] ELSE None]]

MCScenarios ==
  {\* Work handed in again while it is edited, or evaluated for a total that changes.
   Start({a1}, {}, {"submit", "edit_submission"}),
   Start({a1}, {}, {"submit", "evaluate", "edit_assignment"}),
   \* Two assignments, one of them withdrawn, and students who leave.
   Start({a1, a2}, {}, {"submit", "delete_assignment", "leave"}),
   \* Results published twice and corrected, while the exam changes.
   Start({}, {x1}, {"publish", "edit_exam"}),
   Start({}, {x1}, {"publish", "edit_result"}),
   Start({}, {x1}, {"publish", "give_grade"}),
   \* Two exams, one of them withdrawn.
   Start({}, {x1, x2}, {"publish", "delete_exam"}),
   \* Attendance.
   Start({}, {}, {"mark", "delete_lecture", "leave"})}

Symmetry == Permutations(Workers) \cup Permutations(Students) \cup Permutations(Files)
=============================================================================
