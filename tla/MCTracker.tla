------------------------------ MODULE MCTracker ------------------------------
(* An instance of Tracker for TLC: a success, a failed assertion, a request*)
(* without an answer, and a failure that nobody classified. The sizes are  *)
(* those of the tracker's tests: Worker.Run never sets ResponseSize. A bar *)
(* has two characters at most, so that one bucket in three falls short. Of *)
(* four durations two are cut to the same latency and two lose nothing.    *)
EXTENDS Tracker, TLC

CONSTANTS r1, r2, assertion, other, none

MCResult(e, t, c, l, s) ==
  [isError |-> e, errorType |-> t, code |-> c, latency |-> l,
   size |-> IF c = 0 THEN 0 ELSE 1, stage |-> s]

MCResults == {
  MCResult(FALSE, none,      200, 10,    0),
  MCResult(TRUE,  assertion, 200, 51,    1),
  MCResult(TRUE,  other,     0,   20000, 0),
  MCResult(TRUE,  none,      200, 11,    1) }

MCRecorders  == {r1, r2}
MCErrorTypes == {assertion, other}
MCCodes      == {0, 200}
MCDurations  == {10, 11, 51, 20000}
MCStages     == {0, 1}
MCSymmetry   == Permutations(MCRecorders)
=============================================================================
