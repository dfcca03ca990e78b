----------------------------- MODULE SeatLedger -----------------------------
(***************************************************************************)
(* What the admission desk promises about seats, with no requests, locks   *)
(* or stale reads: a ledger that says, for every (student, course) pair,   *)
(* whether it was never enrolled, which batch it holds a seat in, or that  *)
(* its enrolment is closed.  Enrolment.tla implements it.                  *)
(***************************************************************************)
EXTENDS Naturals, FiniteSets

CONSTANTS
  Keys,       \* the (student, course) pairs
  Batches,    \* the cohorts
  Never,      \* a pair that was never enrolled
  Closed      \* a pair whose only enrolment is completed, dropped or withdrawn

VARIABLES
  seat,       \* the batch a pair holds a seat in, or Never, or Closed
  capacity    \* the seats of every batch

ledger == <<seat, capacity>>

Occupants(b) == {k \in Keys : seat[k] = b}

HasFreeSeat(b) == Cardinality(Occupants(b)) < capacity[b]

Init ==
  /\ seat = [k \in Keys |-> Never]
  /\ capacity \in [Batches -> Nat \ {0}]

\* A first enrolment takes a free seat.
Take(k, b) ==
  /\ seat[k] = Never
  /\ HasFreeSeat(b)
  /\ seat' = [seat EXCEPT ![k] = b]
  /\ UNCHANGED capacity

\* A seat holder moves to a free seat of another batch.
Move(k, b) ==
  /\ seat[k] \in Batches \ {b}
  /\ HasFreeSeat(b)
  /\ seat' = [seat EXCEPT ![k] = b]
  /\ UNCHANGED capacity

\* A seat is given up for good.
Close(k) ==
  /\ seat' = [seat EXCEPT ![k] = Closed]
  /\ UNCHANGED capacity

Next == \E k \in Keys : Close(k) \/ \E b \in Batches : Take(k, b) \/ Move(k, b)

Spec == Init /\ [][Next]_ledger

=============================================================================
