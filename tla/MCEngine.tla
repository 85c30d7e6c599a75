------------------------------ MODULE MCEngine ------------------------------
(* Instances of Engine for TLC.                                            *)
EXTENDS Engine

(* Stages of one worker, and a stage of two followed by stages of one.     *)
OneWorkerStages == [s \in StageIdx |-> 1]
WideThenNarrow  == [s \in StageIdx |-> IF s = 0 THEN 2 ELSE 1]

FirstStage == {0}

(* A pool with a request; and also one without.                            *)
OneRequest  == {1}
NoneOrOne   == {0, 1}
=============================================================================
