------------------------------- MODULE MCAgent ------------------------------
(* Small instances of Agent: one owner. *)
EXTENDS Agent

CONSTANT owner

Schedule(amount, start, interval, count, window) ==
  [owner |-> owner, amount |-> amount, startAt |-> start, intervalSec |-> interval,
   count |-> count, windowSec |-> window]

(* Two occurrences with overlapping windows, of one schedule or of two. *)
OneSchedule == <<Schedule(2, 0, 1, 2, 1)>>
TwoSchedules == <<Schedule(2, 0, 1, 1, 1), Schedule(1, 1, 1, 1, 1)>>

(* And with windows that do not overlap. *)
SparseSchedule == <<Schedule(2, 0, 2, 2, 1)>>

(* A first authorization too small for both occurrences, and a second one  *)
(* that is enough; or either at first.                                     *)
Grant(budget) == [budget |-> budget, max |-> 2, validUntil |-> 2]
Renewed == <<{Grant(3)}, {Grant(4)}>>
EitherGrant == <<{Grant(3), Grant(4)}>>
=============================================================================
