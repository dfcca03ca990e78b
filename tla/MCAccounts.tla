----------------------------- MODULE MCAccounts -----------------------------
(***************************************************************************)
(* Instances of Accounts for TLC.                                          *)
(***************************************************************************)
EXTENDS Accounts, TLC

CONSTANTS u1, u2, b1, b2, e1, e2, w1, w2, x1, x2, c1, c2

Person(e, b, stale) ==
  [branch |-> b, email |-> e, password |-> x1, stale_hash |-> stale, is_active |-> TRUE,
   is_deleted |-> FALSE, photo |-> 1]

Nobody == [u \in Users |-> None]
OneBranch == [b \in Branches |-> IF b = b1 THEN [code |-> c1, is_deleted |-> FALSE] ELSE None]

Start(users, ops, columns) ==
  [user |-> users, branch |-> OneBranch, asked |-> ops, columns |-> columns]

\* Who may change the password of one account, and who saves its row for another reason.
Credentials ==
  {Start([Nobody EXCEPT ![u1] = Person(e1, b1, stale)],
         {"change_password", "reset_password", "login", "update_user"},
         {"password", "is_active"}) : stale \in BOOLEAN}

\* One avatar, and the requests that replace, remove or overwrite it.
Avatars ==
  {Start([Nobody EXCEPT ![u1] = Person(e1, b1, FALSE)],
         {"set_profile_photo", "remove_profile_photo", "update_profile"}, {})}

\* Two people and two addresses; the second is hired or converted from a lead.
Addresses ==
  {Start([Nobody EXCEPT ![u1] = Person(e1, b1, FALSE)],
         {"create_user", "convert_lead", "update_user", "soft_delete_user"}, {"email"}),
   Start([Nobody EXCEPT ![u1] = Person(e1, b1, FALSE), 
                      ![u2] = [Person(e2, b1, FALSE) EXCEPT !.photo = None]],
         {"update_profile"}, {})}

\* A branch that is renamed or removed while someone joins and leaves it, and branches
\* among themselves.
Centres ==
  {Start([Nobody EXCEPT ![u1] = [Person(e1, None, FALSE) EXCEPT !.photo = None]],
         {"update_user", "soft_delete_branch", "update_branch"}, {"branch", "is_active"}),
   Start([Nobody EXCEPT ![u1] = [Person(e1, b1, FALSE) EXCEPT !.photo = None]],
         {"soft_delete_user", "soft_delete_branch", "update_branch", "create_branch"}, {})}

AllScenarios == Credentials \cup Avatars \cup Addresses \cup Centres

Symmetry == Permutations(Workers)
=============================================================================
