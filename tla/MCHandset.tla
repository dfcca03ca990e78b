----------------------------- MODULE MCHandset -----------------------------
(***************************************************************************)
(* An instance of Handset for TLC.                                         *)
(***************************************************************************)
EXTENDS Handset, TLC

CONSTANTS u1, u2

\* Once the session was changed under a task that works on it no property says anything more.
Followed == ~crossed

Symmetry == Permutations(Users)
=============================================================================
