-------------------------------- MODULE Bucket --------------------------------
(***************************************************************************)
(* What concurrency.TokenBucket promises to those who share it: a bucket   *)
(* whose refill is one step, "called with mu held", that "starts fully     *)
(* filled", gains tokens "at a fixed rate" up to its capacity, and loses   *)
(* one with each call that is let through. It has no callers, no mutex, no *)
(* sleep and no clock of its own, only the time up to which it is filled.  *)
(***************************************************************************)
EXTENDS Integers

CONSTANTS
  Rate,       \* fractions of a token per unit of time
  Capacity,   \* fractions a full bucket holds
  Unit        \* fractions of a token

VARIABLES
  level,      \* what the bucket holds, in fractions
  upTo,       \* the time up to which it is filled
  granted     \* requests let through so far

vars == <<level, upTo, granted>>

Init ==
  /\ level = Capacity
  /\ upTo = 0
  /\ granted = 0

Filled(fractions) == IF fractions > Capacity THEN Capacity ELSE fractions

(* Time never goes back, and what does not fit is lost.                    *)
Refill ==
  /\ upTo' \in Nat
  /\ upTo' >= upTo
  /\ level' = Filled(level + (upTo' - upTo) * Rate)
  /\ UNCHANGED granted

Grant ==
  /\ level >= Unit
  /\ level' = level - Unit
  /\ granted' = granted + 1
  /\ UNCHANGED upTo

Next == Refill \/ Grant

Spec == Init /\ [][Next]_vars
=============================================================================
