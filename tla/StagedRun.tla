------------------------------ MODULE StagedRun ------------------------------
(***************************************************************************)
(* What Engine.Run promises to its caller, without workers, contexts or    *)
(* statistics: the stages are entered one after the other and in order,    *)
(* none is entered once a shutdown has been requested, and the run returns *)
(* exactly once, early only because of a shutdown.                         *)
(***************************************************************************)
EXTENDS Naturals

CONSTANT NumStages   \* number of configured stages

VARIABLES
  entered,    \* how many stages have been entered
  shutdown,   \* has a shutdown been requested?
  returned    \* has Run returned?

vars == <<entered, shutdown, returned>>

Init ==
  /\ entered = 0
  /\ shutdown = FALSE
  /\ returned = FALSE

EnterStage ==
  /\ ~returned
  /\ ~shutdown
  /\ entered < NumStages
  /\ entered' = entered + 1
  /\ UNCHANGED <<shutdown, returned>>

RequestShutdown ==
  /\ shutdown' = TRUE
  /\ UNCHANGED <<entered, returned>>

Return ==
  /\ ~returned
  /\ entered = NumStages \/ shutdown
  /\ returned' = TRUE
  /\ UNCHANGED <<entered, shutdown>>

Next == EnterStage \/ RequestShutdown \/ Return

Spec == Init /\ [][Next]_vars /\ WF_vars(EnterStage \/ Return)
=============================================================================
