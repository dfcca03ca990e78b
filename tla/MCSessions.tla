----------------------------- MODULE MCSessions -----------------------------
(***************************************************************************)
(* Instances of Sessions for TLC.                                          *)
(***************************************************************************)
EXTENDS Sessions, TLC

CONSTANTS p1, p2, t1, t2

\* Two processes with a thread each.
OneEach == t1 :> p1 @@ t2 :> p2
=============================================================================
