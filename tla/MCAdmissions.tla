---------------------------- MODULE MCAdmissions ----------------------------
(***************************************************************************)
(* Instances of Admissions for TLC.                                        *)
(***************************************************************************)
EXTENDS Admissions, TLC

CONSTANTS w1, w2, l1, l2, s1, s2, p1, p2

Start(open, n, ops) ==
  [lead |-> [l \in Leads |-> IF l \in open THEN "open" ELSE None], structure |-> n, asked |-> ops]

MCScenarios ==
  \* One lead, converted, edited and deleted at once.
  {Start({l1}, n, {"create_lead", "convert", "edit_lead", "delete_lead"}) : n \in {None, 1}}
  \* The fees of a conversion, while the fee structure is edited and deleted.
  \cup {Start({l1}, n, {"convert", "edit_structure", "delete_structure", "delete_installment"})
         : n \in {0, 2}}
  \* One installment, paid, edited and deleted at once.
  \cup {Start({l1}, 1, {"convert", "pay"} \cup ops) :
          ops \in {{"edit_installment", "status", "amount", "delete_installment"},
                  {"write_payment", "delete_installment", "delete_structure"},
                  {"edit_installment", "status", "delete_structure"}}}
  \* Schedules whose installments are changed, moved, added and deleted.
  \cup {Start({l1}, 2, {"convert", "edit_installment", "amount", "post_installment",
                        "delete_installment"}),
        Start({l1, l2}, 1, {"convert", "edit_installment", "amount", "student"}),
        Start({l1, l2}, 1, {"convert", "edit_installment", "student", "delete_installment"}),
        Start({l1, l2}, 1, {"convert", "post_installment", "delete_installment"})}

Symmetry == Permutations(Workers) \cup Permutations(Students) \cup Permutations(Payments)
=============================================================================
