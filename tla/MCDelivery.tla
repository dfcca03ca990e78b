----------------------------- MODULE MCDelivery -----------------------------
(***************************************************************************)
(* Instances of Delivery for TLC.                                          *)
(***************************************************************************)
EXTENDS Delivery, TLC

CONSTANTS d1, u1, u2, u3, n1

\* The recipient has a number and has consented; of the others, one has no number, and one has
\* not consented and shares the recipient's.
OneRecipient == [d \in Deliveries |-> u1]
OneNumber == [u \in Users |-> IF u = u2 THEN None ELSE n1]
=============================================================================
