---------------------------- MODULE EngineProofs ----------------------------
(***************************************************************************)
(* Proofs about Engine for every number of stages, every concurrency and   *)
(* every bound. The inductive invariant IInv is a conjunction of named     *)
(* parts; each part has a lemma that a step preserves it.                  *)
(***************************************************************************)
EXTENDS Engine, FiniteSetTheorems, TLAPS

(* What a worker is: a stage, a batch and an index below the concurrency.  *)
LEMMA WorkerParts ==
  /\ \A w \in Worker : /\ w = <<w[1], w[2], w[3]>>
                       /\ w[1] \in StageIdx /\ w[2] \in {1, 2}
                       /\ w[3] \in 0 .. Concurrency[w[1]] - 1
  /\ \A s \in StageIdx, b \in {1, 2} : \A i \in 0 .. Concurrency[s] - 1 :
       <<s, b, i>> \in Worker
  BY DEF Worker

(* A worker's step concerns a stage that is configured.                    *)
LEMMA StagesAreNat ==
  /\ NumStages \in Nat
  /\ \A s \in StageIdx : s \in Nat /\ s < NumStages /\ Concurrency[s] \in Nat
  BY EngineAssumption DEF StageIdx

-----------------------------------------------------------------------------
(***************************************************************************)
(* Frames: what the three kinds of steps leave alone.                      *)
(***************************************************************************)

(* Run does not touch the workers' locals nor the coordinator.             *)
LEMMA MainFrame ==
  ASSUME MainStep
  PROVE  UNCHANGED <<wctx, sent, late, outsideVars>>
BY DEF MainStep, EnterStage, BreakOnShutdown, EndOfStages, Spawn, Respawn,
       SpawnInto, StageTimer, ShutdownInStage, Drained, StageOver, WaitFor,
       ResetForNextStage, KeepLastStage, NextStage, Stop, Return,
       workerVars, outsideVars

(* A worker touches neither Run's variables nor the contexts.              *)
LEMMA WorkerFrame ==
  ASSUME NEW w \in Worker, WorkerStep(w)
  PROVE  UNCHANGED <<mpc, stage, entered, spawned, ctx, report, outsideVars,
                     cancelled, coordCtx>>
BY DEF WorkerStep, Start, CheckDone, CheckLive, LimiterWait, Acquire,
       NoRequest, TakeRequest, RecordBegin, RecordEnd, Release, mainVars

(* The other steps touch the coordinator's variables only, and shutdown is *)
(* never taken back.                                                       *)
OtherStep == Signal \/ CoordStep \/ Terminated \/ UNCHANGED vars

(* A signal and the coordinator leave Run, the workers and tracker alone.  *)
LEMMA OtherFrame ==
  ASSUME OtherStep
  PROVE  /\ UNCHANGED <<mpc, stage, entered, spawned, ctx, report,
                        requestCount, settled, recordedStages, wpc, wctx,
                        sent, late, cancelled, wg, sem, coordCtx>>
         /\ softShutdown => softShutdown'
BY DEF OtherStep, Signal, CoordStep, Receive, StoreSoft, CloseShutdown,
       Terminated, vars, mainVars, trackerVars, workerVars, outsideVars

(* A step is one of Run, of a worker, or another one.                      *)
LEMMA NextCases ==
  ASSUME [Next]_vars
  PROVE  MainStep \/ (\E w \in Worker : WorkerStep(w)) \/ OtherStep
BY DEF Next, OtherStep
-----------------------------------------------------------------------------
(***************************************************************************)
(* Types.                                                                  *)
(***************************************************************************)
LEMMA TypeInit == Init => TypeInv
<1> SUFFICES ASSUME Init PROVE TypeInv
  OBVIOUS
<1>1. MainTypeOK
  BY StagesAreNat DEF Init, MainTypeOK
<1>2. WorkerTypeOK
  BY DEF Init, WorkerTypeOK
<1>3. OtherTypeOK
  BY DEF Init, OtherTypeOK, EmptyReport
<1> QED BY <1>1, <1>2, <1>3 DEF TypeInv

(* A step of Run keeps the types.                                          *)
LEMMA TypeMain ==
  ASSUME TypeInv, PhaseInv, MainStep
  PROVE  TypeInv'
<1> USE DEF TypeInv
<1>1. MainTypeOK'
  <2> USE DEF MainTypeOK
  <2>1. CASE EnterStage
    BY <2>1, StagesAreNat DEF EnterStage, StageIdx
  <2>2. CASE BreakOnShutdown \/ EndOfStages
    BY <2>2 DEF BreakOnShutdown, EndOfStages
  <2>3. CASE Spawn
    BY <2>3 DEF Spawn, SpawnInto
  <2>3a. CASE Respawn
    BY <2>3a DEF Respawn, SpawnInto
  <2>4. CASE StageTimer \/ ShutdownInStage
    BY <2>4 DEF StageTimer, ShutdownInStage, AtSelect
  <2>5. CASE Drained \/ StageOver
    BY <2>5 DEF Drained, StageOver, WaitFor
  <2>6. CASE ResetForNextStage
    BY <2>6 DEF ResetForNextStage
  <2>6a. CASE KeepLastStage
    BY <2>6a DEF KeepLastStage
  <2>7. CASE NextStage
    BY <2>7, StagesAreNat DEF NextStage, PhaseInv, InStage
  <2>8. CASE Stop
    BY <2>8 DEF Stop
  <2>9. CASE Return
    BY <2>9 DEF Return
  <2> QED BY <2>1, <2>2, <2>3, <2>3a, <2>4, <2>5, <2>6, <2>6a, <2>7, <2>8,
             <2>9 DEF MainStep
<1>2. WorkerTypeOK'
  <2>1. wpc' = wpc \/ \E w : wpc' = [wpc EXCEPT ![w] = "ready"]
    BY DEF MainStep, EnterStage, BreakOnShutdown, EndOfStages, Spawn, Respawn,
           SpawnInto, StageTimer, ShutdownInStage, Drained, StageOver,
           WaitFor, ResetForNextStage, KeepLastStage, NextStage, Stop,
           Return, workerVars
  <2> QED BY <2>1, MainFrame DEF WorkerTypeOK
<1>3. OtherTypeOK'
  <2> USE MainFrame DEF OtherTypeOK, outsideVars, trackerVars
  <2>1. CASE ResetForNextStage
    BY <2>1 DEF ResetForNextStage
  <2>2. CASE Return
    BY <2>2 DEF Return
  <2>3. CASE ~ResetForNextStage /\ ~Return
    BY <2>3 DEF MainStep, EnterStage, BreakOnShutdown, EndOfStages, Spawn,
           Respawn, SpawnInto, StageTimer, ShutdownInStage, Drained,
           StageOver, WaitFor, KeepLastStage, NextStage, Stop
  <2> QED BY <2>1, <2>2, <2>3
<1> QED BY <1>1, <1>2, <1>3

(* A step of a worker keeps the types.                                     *)
LEMMA TypeWorker ==
  ASSUME TypeInv, NEW w \in Worker, WorkerStep(w)
  PROVE  TypeInv'
<1> USE DEF TypeInv
<1>1. MainTypeOK'
  <2>1. sem' \in [StageIdx -> Nat]
    BY StagesAreNat
    DEF MainTypeOK, WorkerStep, Start, CheckDone, CheckLive, LimiterWait,
        Acquire, NoRequest, TakeRequest, RecordBegin, RecordEnd, Release,
        ReleaseSlot, StageOf
  <2> QED BY <2>1, WorkerFrame DEF MainTypeOK
<1>2. WorkerTypeOK'
  <2>1. \E pc \in {"idle", "ready", "top", "limit", "acquire", "next", "send",
                   "settle", "release", "exit"} : wpc' = [wpc EXCEPT ![w] = pc]
    BY DEF WorkerStep, Start, CheckDone, CheckLive, LimiterWait, Acquire,
        NoRequest, TakeRequest, RecordBegin, RecordEnd, Release, Move
  <2>2. wctx' \in [Worker -> Nat]
    BY DEF MainTypeOK, WorkerTypeOK, WorkerStep, Start, CheckDone, CheckLive,
        LimiterWait, Acquire, NoRequest, TakeRequest, RecordBegin, RecordEnd,
        Release, workerVars
  <2>3. sent' \in [Worker -> Nat] /\ late' \in [Worker -> Nat]
    BY DEF WorkerTypeOK, WorkerStep, Start, CheckDone, CheckLive,
        LimiterWait, Acquire, NoRequest, TakeRequest, RecordBegin, RecordEnd,
        Release, workerVars
  <2> QED BY <2>1, <2>2, <2>3 DEF WorkerTypeOK
<1>3. OtherTypeOK'
  <2>1. requestCount' \in Nat /\ settled' \in Nat
    BY DEF OtherTypeOK, WorkerStep, Start, CheckDone, CheckLive, LimiterWait,
        Acquire, NoRequest, TakeRequest, RecordBegin, RecordEnd, Release,
        trackerVars
  <2>2. recordedStages' \subseteq StageIdx
    BY WorkerParts DEF OtherTypeOK, WorkerStep, Start, CheckDone, CheckLive,
        LimiterWait, Acquire, NoRequest, TakeRequest, RecordBegin, RecordEnd,
        Release, trackerVars, StageOf
  <2> QED BY <2>1, <2>2, WorkerFrame DEF OtherTypeOK, outsideVars
<1> QED BY <1>1, <1>2, <1>3

(* The other steps keep the types.                                         *)
LEMMA TypeOther ==
  ASSUME TypeInv, OtherStep
  PROVE  TypeInv'
<1>1. MainTypeOK' /\ WorkerTypeOK'
  BY OtherFrame DEF TypeInv, MainTypeOK, WorkerTypeOK
<1>2. OtherTypeOK'
  <2> USE OtherFrame DEF TypeInv, OtherTypeOK
  <2>1. CASE Signal
    BY <2>1 DEF Signal
  <2>2. CASE CoordStep
    BY <2>2 DEF CoordStep, Receive, StoreSoft, CloseShutdown
  <2>3. CASE Terminated \/ UNCHANGED vars
    BY <2>3 DEF Terminated, vars, outsideVars
  <2> QED BY <2>1, <2>2, <2>3 DEF OtherStep
<1> QED BY <1>1, <1>2 DEF TypeInv
-----------------------------------------------------------------------------
(***************************************************************************)
(* Run's own variables, the coordinator's and the contexts.                *)
(***************************************************************************)
LEMMA PhaseMain ==
  ASSUME TypeInv, PhaseInv, CoordInv, MainStep
  PROVE  PhaseInv'
<1> USE MainFrame, StagesAreNat
    DEF TypeInv, MainTypeOK, PhaseInv, InStage, Over, outsideVars
<1>1. CASE EnterStage
  BY <1>1 DEF EnterStage, StageIdx
<1>2. CASE BreakOnShutdown
  BY <1>2 DEF BreakOnShutdown
<1>3. CASE EndOfStages
  BY <1>3 DEF EndOfStages
<1>4. CASE Spawn
  BY <1>4 DEF Spawn, SpawnInto, StageIdx
<1>5. CASE StageTimer
  BY <1>5 DEF StageTimer, AtSelect
<1>6. CASE ShutdownInStage
  BY <1>6 DEF ShutdownInStage, AtSelect, CoordInv
<1>7. CASE Drained
  BY <1>7 DEF Drained, WaitFor
<1>8. CASE StageOver
  BY <1>8 DEF StageOver, WaitFor
<1>9. CASE ResetForNextStage
  BY <1>9 DEF ResetForNextStage, StageIdx
<1>10. CASE KeepLastStage
  BY <1>10 DEF KeepLastStage, StageIdx
<1>11. CASE Respawn
  BY <1>11 DEF Respawn, SpawnInto, StageIdx
<1>12. CASE NextStage
  BY <1>12 DEF NextStage
<1>13. CASE Stop
  BY <1>13 DEF Stop
<1>14. CASE Return
  BY <1>14 DEF Return
<1> QED BY <1>1, <1>2, <1>3, <1>4, <1>5, <1>6, <1>7, <1>8, <1>9, <1>10,
       <1>11, <1>12, <1>13, <1>14 DEF MainStep

(* The phases of Run survive the steps that are not its own.               *)
LEMMA PhaseWorkerOther ==
  ASSUME TypeInv, PhaseInv,
         OtherStep \/ \E w \in Worker : WorkerStep(w)
  PROVE  PhaseInv'
<1>1. CASE OtherStep
  BY <1>1, OtherFrame DEF PhaseInv, InStage, Over
<1>2. ASSUME NEW w \in Worker, WorkerStep(w) PROVE PhaseInv'
  BY <1>2, WorkerFrame DEF PhaseInv, InStage, Over, outsideVars
<1> QED BY <1>1, <1>2

(* The shutdown channel is closed after the flag is set, in every step.    *)
LEMMA CoordStepInv ==
  ASSUME TypeInv, CoordInv, [Next]_vars
  PROVE  CoordInv'
<1> USE DEF CoordInv
<1>1. CASE MainStep
  BY <1>1, MainFrame DEF outsideVars
<1>2. ASSUME NEW w \in Worker, WorkerStep(w) PROVE CoordInv'
  BY <1>2, WorkerFrame DEF outsideVars
<1>3. CASE OtherStep
  <2>1. CASE Signal
    BY <2>1 DEF Signal
  <2>2. CASE CoordStep
    BY <2>2 DEF CoordStep, Receive, StoreSoft, CloseShutdown
  <2>3. CASE Terminated \/ UNCHANGED vars
    BY <2>3 DEF Terminated, vars, outsideVars
  <2> QED BY <1>3, <2>1, <2>2, <2>3 DEF OtherStep
<1> QED BY <1>1, <1>2, <1>3, NextCases

(* Run keeps the context of a finished stage cancelled.                    *)
LEMMA ContextMain ==
  ASSUME TypeInv, PhaseInv, ContextInv, MainStep
  PROVE  ContextInv'
<1> USE StagesAreNat DEF TypeInv, MainTypeOK, PhaseInv, InStage, ContextInv
<1>1. CASE EnterStage
  BY <1>1 DEF EnterStage, StageIdx
<1>2. CASE BreakOnShutdown
  BY <1>2 DEF BreakOnShutdown
<1>3. CASE EndOfStages
  BY <1>3 DEF EndOfStages
<1>4. CASE Spawn
  BY <1>4 DEF Spawn, SpawnInto
<1>5. CASE StageTimer
  BY <1>5 DEF StageTimer, AtSelect
<1>6. CASE ShutdownInStage
  BY <1>6 DEF ShutdownInStage, AtSelect
<1>7. CASE Drained
  BY <1>7 DEF Drained, WaitFor
<1>8. CASE StageOver
  BY <1>8 DEF StageOver, WaitFor
<1>9. CASE ResetForNextStage
  BY <1>9 DEF ResetForNextStage
<1>10. CASE KeepLastStage
  BY <1>10 DEF KeepLastStage
<1>11. CASE Respawn
  BY <1>11 DEF Respawn, SpawnInto
<1>12. CASE NextStage
  BY <1>12 DEF NextStage
<1>13. CASE Stop
  BY <1>13 DEF Stop
<1>14. CASE Return
  BY <1>14 DEF Return
<1> QED BY <1>1, <1>2, <1>3, <1>4, <1>5, <1>6, <1>7, <1>8, <1>9, <1>10,
       <1>11, <1>12, <1>13, <1>14 DEF MainStep

(* Nobody else changes a context.                                          *)
LEMMA ContextWorkerOther ==
  ASSUME ContextInv, OtherStep \/ \E w \in Worker : WorkerStep(w)
  PROVE  ContextInv'
<1>1. CASE OtherStep
  BY <1>1, OtherFrame DEF ContextInv
<1>2. ASSUME NEW w \in Worker, WorkerStep(w) PROVE ContextInv'
  BY <1>2, WorkerFrame DEF ContextInv
<1> QED BY <1>1, <1>2
-----------------------------------------------------------------------------
(***************************************************************************)
(* Which workers are alive, and the WaitGroup that counts them.            *)
(***************************************************************************)

(* A turn of a spawning loop starts one worker that was not alive.         *)
LEMMA SpawnLive ==
  ASSUME TypeInv, PhaseInv, LiveInv, StartedInv, NEW b \in {1, 2},
         SpawnInto(b), mpc = IF b = 1 THEN "spawn" ELSE "respawn",
         NEW w, w = <<stage, b, spawned>>
  PROVE  /\ w \in Worker /\ wpc[w] = "idle" /\ w \notin Live
         /\ wpc' = [wpc EXCEPT ![w] = "ready"]
         /\ Live' = Live \cup {w}
         /\ wg' = wg + 1
<1>1. w \in Worker
  BY WorkerParts, StagesAreNat
  DEF SpawnInto, TypeInv, MainTypeOK, PhaseInv, InStage, StageIdx
<1>2. wpc[w] = "idle"
  BY <1>1 DEF StartedInv, Started, TypeInv, MainTypeOK
<1>3. wpc' = [wpc EXCEPT ![w] = "ready"] /\ wg' = wg + 1
  BY DEF SpawnInto
<1>4. \A v \in Worker : wpc'[v] = IF v = w THEN "ready" ELSE wpc[v]
  BY <1>1, <1>3 DEF TypeInv, WorkerTypeOK
<1>5. Live' = Live \cup {w}
  BY <1>1, <1>4 DEF Live
<1> QED BY <1>1, <1>2, <1>3, <1>5 DEF Live

(* Every other step of Run leaves the workers alone.                       *)
NoSpawnStep ==
  \/ EnterStage \/ BreakOnShutdown \/ EndOfStages
  \/ StageTimer \/ ShutdownInStage \/ Drained \/ StageOver
  \/ ResetForNextStage \/ KeepLastStage \/ NextStage \/ Stop \/ Return

(* A step of Run that spawns nothing changes no worker.                    *)
LEMMA NoSpawn ==
  ASSUME NoSpawnStep
  PROVE  wpc' = wpc /\ Live' = Live
<1>1. wpc' = wpc
  BY DEF NoSpawnStep, EnterStage, BreakOnShutdown, EndOfStages, StageTimer,
         ShutdownInStage, Drained, StageOver, WaitFor, ResetForNextStage,
         KeepLastStage, NextStage, Stop, Return, workerVars
<1> QED BY <1>1 DEF Live

(* A worker that takes a step is alive, moves only itself, and ends with   *)
(* wg.Done().                                                              *)
LEMMA WorkerMoves ==
  ASSUME TypeInv, NEW w \in Worker, WorkerStep(w)
  PROVE  /\ w \in Live
         /\ \A v \in Worker : v # w => wpc'[v] = wpc[v]
         /\ Live' = IF CheckDone(w) THEN Live \ {w} ELSE Live
         /\ wg' = IF CheckDone(w) THEN wg - 1 ELSE wg
<1> USE DEF Move
<1>1. \E pc : wpc' = [wpc EXCEPT ![w] = pc]
  BY DEF WorkerStep, Start, CheckDone, CheckLive, LimiterWait, Acquire,
         NoRequest, TakeRequest, RecordBegin, RecordEnd, Release
<1>2. \A v \in Worker : v # w => wpc'[v] = wpc[v]
  BY <1>1 DEF TypeInv, WorkerTypeOK
<1>3. wpc[w] \notin {"idle", "exit"}
  BY DEF WorkerStep, Start, CheckDone, CheckLive, LimiterWait, Acquire,
         NoRequest, TakeRequest, RecordBegin, RecordEnd, Release
<1>4. CASE CheckDone(w)
  <2>1. wpc'[w] = "exit" /\ wg' = wg - 1
    BY <1>4 DEF CheckDone, TypeInv, WorkerTypeOK
  <2> QED BY <1>2, <1>3, <1>4, <2>1 DEF Live
<1>5. CASE ~CheckDone(w)
  <2>1. wpc'[w] \notin {"idle", "exit"} /\ wg' = wg
    BY <1>5 DEF TypeInv, WorkerTypeOK, WorkerStep, Start, CheckLive,
         LimiterWait, Acquire, NoRequest, TakeRequest, RecordBegin,
         RecordEnd, Release
  <2> QED BY <1>2, <1>3, <1>5, <2>1 DEF Live
<1> QED BY <1>4, <1>5

(* The other steps start and end no worker.                                *)
LEMMA OtherLive ==
  ASSUME OtherStep
  PROVE  Live' = Live
BY OtherFrame DEF Live

(* wg counts the live workers after every step.                            *)
LEMMA CountStep ==
  ASSUME TypeInv, PhaseInv, LiveInv, StartedInv, CountInv, [Next]_vars
  PROVE  CountInv'
<1>1. CASE Spawn \/ Respawn
  <2>1. PICK b \in {1, 2} : SpawnInto(b) /\ mpc = IF b = 1 THEN "spawn"
                                                 ELSE "respawn"
    BY <1>1 DEF Spawn, Respawn
  <2> DEFINE w == <<stage, b, spawned>>
  <2>2. w \notin Live /\ Live' = Live \cup {w} /\ wg' = wg + 1
    BY <2>1, SpawnLive
  <2> QED BY <2>2, FS_AddElement DEF CountInv
<1>2. CASE NoSpawnStep
  <2>1. CASE ResetForNextStage \/ KeepLastStage
    <3>1. Live = {} /\ wg' = 0
      BY <2>1 DEF ResetForNextStage, KeepLastStage, LiveInv, MayLive, Over
    <3> QED BY <1>2, <3>1, NoSpawn, FS_EmptySet DEF CountInv
  <2>2. CASE ~ResetForNextStage /\ ~KeepLastStage
    <3>1. wg' = wg
      BY <1>2, <2>2 DEF NoSpawnStep, EnterStage, BreakOnShutdown, EndOfStages,
         StageTimer, ShutdownInStage, Drained, StageOver, WaitFor, NextStage,
         Stop, Return
    <3> QED BY <1>2, <3>1, NoSpawn DEF CountInv
  <2> QED BY <2>1, <2>2
<1>3. ASSUME NEW w \in Worker, WorkerStep(w) PROVE CountInv'
  <2>1. CASE CheckDone(w)
    BY <1>3, <2>1, WorkerMoves, FS_RemoveElement DEF CountInv
  <2>2. CASE ~CheckDone(w)
    BY <1>3, <2>2, WorkerMoves DEF CountInv
  <2> QED BY <2>1, <2>2
<1>4. CASE OtherStep
  BY <1>4, OtherFrame, OtherLive DEF CountInv
<1> QED BY <1>1, <1>2, <1>3, <1>4, NextCases DEF MainStep, NoSpawnStep

(* wg.Wait() returns only when no worker is alive.                         *)
LEMMA WaitMeansNone ==
  ASSUME CountInv, wg = 0
  PROVE  Live = {}
BY FS_EmptySet DEF CountInv

(* Run starts workers only where MayLive allows them.                      *)
LEMMA LiveMain ==
  ASSUME TypeInv, PhaseInv, CountInv, LiveInv, StartedInv, MainStep
  PROVE  LiveInv'
<1> USE StagesAreNat
    DEF TypeInv, MainTypeOK, PhaseInv, InStage, Over, LiveInv, MayLive
<1>0. \A w \in Live : w[1] \in Nat /\ w[3] \in Nat
  BY WorkerParts DEF Live
<1>1. CASE EnterStage
  BY <1>1, <1>0, NoSpawn DEF NoSpawnStep, EnterStage
<1>2. CASE BreakOnShutdown
  BY <1>2, <1>0, NoSpawn DEF NoSpawnStep, BreakOnShutdown
<1>3. CASE EndOfStages
  BY <1>3, <1>0, NoSpawn DEF NoSpawnStep, EndOfStages
<1>4. CASE Spawn
  <2> DEFINE w == <<stage, 1, spawned>>
  <2>1. SpawnInto(1) /\ mpc = IF 1 = 1 THEN "spawn" ELSE "respawn"
    BY <1>4 DEF Spawn
  <2>2. /\ w \in Worker /\ wpc' = [wpc EXCEPT ![w] = "ready"]
        /\ Live' = Live \cup {w}
    BY <2>1, SpawnLive
  <2>3. w[1] = stage /\ w[2] = 1 /\ w[3] = spawned
    OBVIOUS
  <2> QED BY <1>0, <2>1, <2>2, <2>3 DEF SpawnInto
<1>5. CASE StageTimer
  BY <1>5, <1>0, NoSpawn DEF NoSpawnStep, StageTimer, AtSelect
<1>6. CASE ShutdownInStage
  BY <1>6, <1>0, NoSpawn DEF NoSpawnStep, ShutdownInStage, AtSelect
<1>7. CASE Drained
  BY <1>7, NoSpawn, WaitMeansNone DEF NoSpawnStep, Drained, WaitFor
<1>8. CASE StageOver
  BY <1>8, NoSpawn, WaitMeansNone DEF NoSpawnStep, StageOver, WaitFor
<1>9. CASE ResetForNextStage
  BY <1>9, <1>0, NoSpawn DEF NoSpawnStep, ResetForNextStage
<1>10. CASE KeepLastStage
  BY <1>10, <1>0, NoSpawn DEF NoSpawnStep, KeepLastStage
<1>11. CASE Respawn
  <2> DEFINE w == <<stage, 2, spawned>>
  <2>1. SpawnInto(2) /\ mpc = IF 2 = 1 THEN "spawn" ELSE "respawn"
    BY <1>11 DEF Respawn
  <2>2. /\ w \in Worker /\ wpc' = [wpc EXCEPT ![w] = "ready"]
        /\ Live' = Live \cup {w}
    BY <2>1, SpawnLive
  <2>3. w[1] = stage /\ w[2] = 2 /\ w[3] = spawned
    OBVIOUS
  <2> QED BY <1>0, <2>1, <2>2, <2>3 DEF SpawnInto
<1>12. CASE NextStage
  BY <1>12, <1>0, NoSpawn DEF NoSpawnStep, NextStage
<1>13. CASE Stop
  BY <1>13, <1>0, NoSpawn DEF NoSpawnStep, Stop
<1>14. CASE Return
  BY <1>14, <1>0, NoSpawn DEF NoSpawnStep, Return
<1> QED BY <1>1, <1>2, <1>3, <1>4, <1>5, <1>6, <1>7, <1>8, <1>9, <1>10,
       <1>11, <1>12, <1>13, <1>14 DEF MainStep

(* A worker that lives on was alive before.                                *)
LEMMA LiveWorkerOther ==
  ASSUME TypeInv, LiveInv, OtherStep \/ \E w \in Worker : WorkerStep(w)
  PROVE  LiveInv'
<1>1. CASE OtherStep
  BY <1>1, OtherFrame, OtherLive DEF LiveInv, MayLive, Over
<1>2. ASSUME NEW w \in Worker, WorkerStep(w) PROVE LiveInv'
  BY <1>2, WorkerFrame, WorkerMoves DEF LiveInv, MayLive, Over
<1> QED BY <1>1, <1>2

(* Run starts workers only where Started allows them.                      *)
LEMMA StartedMain ==
  ASSUME TypeInv, PhaseInv, LiveInv, StartedInv, MainStep
  PROVE  StartedInv'
<1> USE StagesAreNat
    DEF TypeInv, MainTypeOK, PhaseInv, InStage, StartedInv, Started
<1>0. \A w \in Worker : w[1] \in Nat /\ w[3] \in Nat
  BY WorkerParts
<1>1. CASE EnterStage
  BY <1>1, <1>0, NoSpawn DEF NoSpawnStep, EnterStage
<1>2. CASE BreakOnShutdown
  BY <1>2, <1>0, NoSpawn DEF NoSpawnStep, BreakOnShutdown
<1>3. CASE EndOfStages
  BY <1>3, <1>0, NoSpawn DEF NoSpawnStep, EndOfStages
<1>4. CASE Spawn
  <2> DEFINE w == <<stage, 1, spawned>>
  <2>1. SpawnInto(1) /\ mpc = IF 1 = 1 THEN "spawn" ELSE "respawn"
    BY <1>4 DEF Spawn
  <2>2. /\ w \in Worker /\ wpc' = [wpc EXCEPT ![w] = "ready"]
        /\ Live' = Live \cup {w}
    BY <2>1, SpawnLive
  <2>3. w[1] = stage /\ w[2] = 1 /\ w[3] = spawned
    OBVIOUS
  <2> QED BY <1>0, <2>1, <2>2, <2>3 DEF SpawnInto, WorkerTypeOK
<1>5. CASE StageTimer
  BY <1>5, <1>0, NoSpawn DEF NoSpawnStep, StageTimer, AtSelect
<1>6. CASE ShutdownInStage
  BY <1>6, <1>0, NoSpawn DEF NoSpawnStep, ShutdownInStage, AtSelect
<1>7. CASE Drained
  BY <1>7, <1>0, NoSpawn DEF NoSpawnStep, Drained, WaitFor
<1>8. CASE StageOver
  BY <1>8, <1>0, NoSpawn DEF NoSpawnStep, StageOver, WaitFor
<1>9. CASE ResetForNextStage
  BY <1>9, <1>0, NoSpawn DEF NoSpawnStep, ResetForNextStage
<1>10. CASE KeepLastStage
  BY <1>10, <1>0, NoSpawn DEF NoSpawnStep, KeepLastStage
<1>11. CASE Respawn
  <2> DEFINE w == <<stage, 2, spawned>>
  <2>1. SpawnInto(2) /\ mpc = IF 2 = 1 THEN "spawn" ELSE "respawn"
    BY <1>11 DEF Respawn
  <2>2. /\ w \in Worker /\ wpc' = [wpc EXCEPT ![w] = "ready"]
        /\ Live' = Live \cup {w}
    BY <2>1, SpawnLive
  <2>3. w[1] = stage /\ w[2] = 2 /\ w[3] = spawned
    OBVIOUS
  <2> QED BY <1>0, <2>1, <2>2, <2>3 DEF SpawnInto, WorkerTypeOK
<1>12. CASE NextStage
  BY <1>12, <1>0, NoSpawn DEF NoSpawnStep, NextStage
<1>13. CASE Stop
  BY <1>13, <1>0, NoSpawn DEF NoSpawnStep, Stop
<1>14. CASE Return
  BY <1>14, <1>0, NoSpawn DEF NoSpawnStep, Return
<1> QED BY <1>1, <1>2, <1>3, <1>4, <1>5, <1>6, <1>7, <1>8, <1>9, <1>10,
       <1>11, <1>12, <1>13, <1>14 DEF MainStep

(* A worker that was not started takes no step.                            *)
LEMMA StartedWorkerOther ==
  ASSUME TypeInv, StartedInv, OtherStep \/ \E w \in Worker : WorkerStep(w)
  PROVE  StartedInv'
<1>1. CASE OtherStep
  BY <1>1, OtherFrame DEF StartedInv, Started
<1>2. ASSUME NEW w \in Worker, WorkerStep(w) PROVE StartedInv'
  <2>1. wpc[w] # "idle"
    BY <1>2, WorkerMoves DEF Live
  <2> QED BY <1>2, <2>1, WorkerFrame, WorkerMoves DEF StartedInv, Started
<1> QED BY <1>1, <1>2
-----------------------------------------------------------------------------
(***************************************************************************)
(* The semaphores and the tracker's counters.                              *)
(***************************************************************************)

(* Spawning a worker gives it neither a slot nor a request.                *)
LEMMA MainHolds ==
  ASSUME TypeInv, PhaseInv, LiveInv, StartedInv, MainStep
  PROVE  /\ \A s : Holders(s)' = Holders(s)
         /\ Settling' = Settling
<1>1. CASE NoSpawnStep
  BY <1>1, NoSpawn DEF Holders, Settling, StageOf
<1>2. CASE Spawn \/ Respawn
  <2>1. PICK b \in {1, 2} : SpawnInto(b) /\ mpc = IF b = 1 THEN "spawn"
                                                 ELSE "respawn"
    BY <1>2 DEF Spawn, Respawn
  <2> DEFINE w == <<stage, b, spawned>>
  <2>2. w \in Worker /\ wpc[w] = "idle" /\ wpc' = [wpc EXCEPT ![w] = "ready"]
    BY <2>1, SpawnLive
  <2>3. \A v \in Worker : wpc'[v] = IF v = w THEN "ready" ELSE wpc[v]
    BY <2>2 DEF TypeInv, WorkerTypeOK
  <2> HIDE DEF w
  <2> QED BY <2>2, <2>3 DEF Holders, Holding, Settling, StageOf
<1> QED BY <1>1, <1>2 DEF MainStep, NoSpawnStep

(* What a worker's step does to the slots and to the requests.             *)
LEMMA WorkerHolds ==
  ASSUME TypeInv, NEW w \in Worker, WorkerStep(w), NEW s \in StageIdx
  PROVE  /\ Acquire(w) /\ s = StageOf(w) =>
              w \notin Holders(s) /\ Holders(s)' = Holders(s) \cup {w}
         /\ (NoRequest(w) \/ Release(w)) /\ s = StageOf(w) =>
              w \in Holders(s) /\ Holders(s)' = Holders(s) \ {w}
         /\ (~Acquire(w) /\ ~NoRequest(w) /\ ~Release(w)) \/ s # StageOf(w) =>
              Holders(s)' = Holders(s)
<1>1. \A v \in Worker : v # w => wpc'[v] = wpc[v]
  BY WorkerMoves
<1> USE <1>1 DEF Move, TypeInv, WorkerTypeOK, Holders, Holding, StageOf
<1>2. CASE Acquire(w)
  BY <1>2 DEF Acquire, NoRequest, Release
<1>3. CASE NoRequest(w)
  BY <1>3 DEF Acquire, NoRequest, Release
<1>4. CASE Release(w)
  BY <1>4 DEF Acquire, NoRequest, Release
<1>5. CASE ~Acquire(w) /\ ~NoRequest(w) /\ ~Release(w)
  <2>1. wpc[w] \in Holding <=> wpc'[w] \in Holding
    BY <1>5 DEF WorkerStep, Start, CheckDone, CheckLive, LimiterWait,
         TakeRequest, RecordBegin, RecordEnd
  <2> QED BY <1>5, <2>1
<1> QED BY <1>2, <1>3, <1>4, <1>5

(* The semaphore of a stage counts the workers that hold a slot.           *)
LEMMA SemStep ==
  ASSUME TypeInv, PhaseInv, LiveInv, StartedInv, SemInv, [Next]_vars
  PROVE  SemInv'
<1>1. CASE MainStep
  <2>1. CASE EnterStage
    <3>1. Holders(stage) = {}
      BY <2>1, WorkerParts, StagesAreNat
      DEF EnterStage, Holders, Holding, StageOf, LiveInv, MayLive, Live,
          TypeInv, MainTypeOK
    <3>2. stage \in StageIdx /\ sem' = [sem EXCEPT ![stage] = 0]
      BY <2>1, StagesAreNat DEF EnterStage, StageIdx, TypeInv, MainTypeOK
    <3> QED BY <1>1, <3>1, <3>2, MainHolds, FS_EmptySet
            DEF SemInv, TypeInv, MainTypeOK
  <2>2. CASE ~EnterStage
    <3>1. sem' = sem
      BY <1>1, <2>2 DEF MainStep, BreakOnShutdown, EndOfStages, Spawn,
         Respawn, SpawnInto, StageTimer, ShutdownInStage, Drained, StageOver,
         WaitFor, ResetForNextStage, KeepLastStage, NextStage, Stop, Return
    <3> QED BY <1>1, <3>1, MainHolds DEF SemInv
  <2> QED BY <2>1, <2>2
<1>2. ASSUME NEW w \in Worker, WorkerStep(w), NEW s \in StageIdx
      PROVE  IsFiniteSet(Holders(s)') /\ sem'[s] = Cardinality(Holders(s)')
  <2>0. IsFiniteSet(Holders(s)) /\ sem[s] = Cardinality(Holders(s))
    BY DEF SemInv
  <2>1. CASE Acquire(w) /\ s = StageOf(w)
    <3>1. sem'[s] = sem[s] + 1
      BY <2>1 DEF Acquire, TypeInv, MainTypeOK
    <3> QED BY <1>2, <2>0, <2>1, <3>1, WorkerHolds, FS_AddElement
  <2>2. CASE (NoRequest(w) \/ Release(w)) /\ s = StageOf(w)
    <3>1. sem'[s] = sem[s] - 1
      BY <2>2 DEF NoRequest, Release, ReleaseSlot, TypeInv, MainTypeOK
    <3> QED BY <1>2, <2>0, <2>2, <3>1, WorkerHolds, FS_RemoveElement
  <2>3. CASE (~Acquire(w) /\ ~NoRequest(w) /\ ~Release(w)) \/ s # StageOf(w)
    <3>1. sem'[s] = sem[s]
      BY <1>2, <2>3 DEF WorkerStep, Start, CheckDone, CheckLive, LimiterWait,
         Acquire, NoRequest, TakeRequest, RecordBegin, RecordEnd, Release,
         ReleaseSlot, TypeInv, MainTypeOK
    <3> QED BY <1>2, <2>0, <2>3, <3>1, WorkerHolds
  <2> QED BY <2>1, <2>2, <2>3
<1>3. CASE OtherStep
  BY <1>3, OtherFrame DEF SemInv, Holders, StageOf
<1> QED BY <1>1, <1>2, <1>3, NextCases DEF SemInv

(* Each step keeps the count of the requests without an outcome.           *)
LEMMA SettleStep ==
  ASSUME TypeInv, PhaseInv, LiveInv, StartedInv, SettleInv, [Next]_vars
  PROVE  SettleInv'
<1>1. CASE MainStep
  <2>1. CASE ResetForNextStage
    <3>1. Settling = {}
      BY <2>1 DEF ResetForNextStage, Settling, LiveInv, MayLive, Live, Over
    <3> QED BY <1>1, <2>1, <3>1, MainHolds, FS_EmptySet
            DEF SettleInv, ResetForNextStage
  <2>2. CASE ~ResetForNextStage
    <3>1. UNCHANGED <<requestCount, settled>>
      BY <1>1, <2>2 DEF MainStep, EnterStage, BreakOnShutdown, EndOfStages,
         Spawn, Respawn, SpawnInto, StageTimer, ShutdownInStage, Drained,
         StageOver, WaitFor, KeepLastStage, NextStage, Stop, Return,
         trackerVars
    <3> QED BY <1>1, <3>1, MainHolds DEF SettleInv
  <2> QED BY <2>1, <2>2
<1>2. ASSUME NEW w \in Worker, WorkerStep(w) PROVE SettleInv'
  <2>0. \A v \in Worker : v # w => wpc'[v] = wpc[v]
    BY <1>2, WorkerMoves
  <2>1. CASE RecordBegin(w)
    <3>1. w \notin Settling /\ Settling' = Settling \cup {w}
      BY <2>0, <2>1 DEF RecordBegin, Move, Settling, TypeInv, WorkerTypeOK
    <3>2. requestCount' = requestCount + 1 /\ settled' = settled
      BY <2>1 DEF RecordBegin
    <3>3. IsFiniteSet(Settling') /\ Cardinality(Settling') = Cardinality(Settling) + 1
      BY <3>1, FS_AddElement DEF SettleInv
    <3>4. Cardinality(Settling) \in Nat
      BY FS_CardinalityType DEF SettleInv
    <3> QED BY <3>2, <3>3, <3>4 DEF SettleInv, TypeInv, OtherTypeOK
  <2>2. CASE RecordEnd(w)
    <3>1. w \in Settling /\ Settling' = Settling \ {w}
      BY <2>0, <2>2 DEF RecordEnd, Move, Settling, TypeInv, WorkerTypeOK
    <3>2. requestCount' = requestCount /\ settled' = settled + 1
      BY <2>2 DEF RecordEnd
    <3>3. IsFiniteSet(Settling') /\ Cardinality(Settling') = Cardinality(Settling) - 1
      BY <3>1, FS_RemoveElement DEF SettleInv
    <3>4. Cardinality(Settling) \in Nat
      BY FS_CardinalityType DEF SettleInv
    <3> QED BY <3>2, <3>3, <3>4 DEF SettleInv, TypeInv, OtherTypeOK
  <2>3. CASE ~RecordBegin(w) /\ ~RecordEnd(w)
    <3>1. wpc[w] # "settle" /\ wpc'[w] # "settle"
      BY <1>2, <2>3 DEF WorkerStep, Start, CheckDone, CheckLive, LimiterWait,
         Acquire, NoRequest, TakeRequest, Release, Move, TypeInv, WorkerTypeOK
    <3>2. Settling' = Settling
      BY <2>0, <3>1 DEF Settling
    <3>3. UNCHANGED <<requestCount, settled>>
      BY <1>2, <2>3 DEF WorkerStep, Start, CheckDone, CheckLive, LimiterWait,
         Acquire, NoRequest, TakeRequest, Release, trackerVars
    <3> QED BY <3>2, <3>3 DEF SettleInv
  <2> QED BY <2>1, <2>2, <2>3
<1>3. CASE OtherStep
  BY <1>3, OtherFrame DEF SettleInv, Settling
<1> QED BY <1>1, <1>2, <1>3, NextCases
-----------------------------------------------------------------------------
(***************************************************************************)
(* The workers' contexts and requests.                                     *)
(***************************************************************************)

(* Run cancels contexts and never takes a cancellation back; of a worker's *)
(* state it changes only idle to ready.                                    *)
LEMMA MainWorkers ==
  ASSUME TypeInv, PhaseInv, LiveInv, StartedInv, MainStep
  PROVE  /\ cancelled \subseteq cancelled'
         /\ \A v \in Worker : \/ wpc'[v] = wpc[v]
                              \/ wpc[v] = "idle" /\ wpc'[v] = "ready"
<1>1. cancelled \subseteq cancelled'
  BY DEF MainStep, EnterStage, BreakOnShutdown, EndOfStages, Spawn, Respawn,
         SpawnInto, StageTimer, ShutdownInStage, Drained, StageOver, WaitFor,
         ResetForNextStage, KeepLastStage, NextStage, Stop, Return
<1>2. CASE NoSpawnStep
  BY <1>1, <1>2, NoSpawn
<1>3. CASE Spawn \/ Respawn
  <2>1. PICK b \in {1, 2} : SpawnInto(b) /\ mpc = IF b = 1 THEN "spawn"
                                                 ELSE "respawn"
    BY <1>3 DEF Spawn, Respawn
  <2> DEFINE w == <<stage, b, spawned>>
  <2>2. w \in Worker /\ wpc[w] = "idle" /\ wpc' = [wpc EXCEPT ![w] = "ready"]
    BY <2>1, SpawnLive
  <2> HIDE DEF w
  <2> QED BY <1>1, <2>2 DEF TypeInv, WorkerTypeOK
<1> QED BY <1>2, <1>3 DEF MainStep, NoSpawnStep

(* The locals of a worker are its own.                                     *)
LEMMA WorkerLocals ==
  ASSUME TypeInv, NEW w \in Worker, WorkerStep(w), NEW v \in Worker, v # w
  PROVE  /\ wpc'[v] = wpc[v] /\ wctx'[v] = wctx[v]
         /\ sent'[v] = sent[v] /\ late'[v] = late[v]
<1>1. wpc'[v] = wpc[v]
  BY WorkerMoves
<1>2. wctx'[v] = wctx[v]
  BY DEF WorkerStep, Start, CheckDone, CheckLive, LimiterWait, Acquire,
     NoRequest, TakeRequest, RecordBegin, RecordEnd, Release, workerVars,
     TypeInv, WorkerTypeOK
<1>3. sent'[v] = sent[v] /\ late'[v] = late[v]
  BY DEF WorkerStep, Start, CheckDone, CheckLive, LimiterWait, Acquire,
     NoRequest, TakeRequest, RecordBegin, RecordEnd, Release, workerVars,
     TypeInv, WorkerTypeOK
<1> QED BY <1>1, <1>2, <1>3

(* Each step keeps the bound on late requests.                             *)
LEMMA LateStep ==
  ASSUME TypeInv, PhaseInv, LiveInv, StartedInv, LateInv, [Next]_vars
  PROVE  LateInv'
<1>1. CASE MainStep
  BY <1>1, MainFrame, MainWorkers DEF LateInv
<1>2. ASSUME NEW w \in Worker, WorkerStep(w) PROVE LateInv'
  <2>1. /\ late'[w] <= 1
        /\ wpc'[w] \in {"idle", "ready", "limit", "acquire", "next"}
             => late'[w] = 0
        /\ wctx'[w] \notin cancelled => late'[w] = 0
    <3> USE DEF TypeInv, WorkerTypeOK, LateInv, Move
    <3>1. CASE Start(w)
      BY <3>1 DEF Start
    <3>2. CASE TakeRequest(w)
      BY <3>2 DEF TakeRequest
    <3>3. CASE CheckLive(w)
      BY <3>3 DEF CheckLive
    <3>4. CASE CheckDone(w) \/ LimiterWait(w) \/ Acquire(w) \/ NoRequest(w)
      BY <3>4 DEF CheckDone, LimiterWait, Acquire, NoRequest
    <3>5. CASE RecordBegin(w) \/ RecordEnd(w) \/ Release(w)
      BY <3>5 DEF RecordBegin, RecordEnd, Release, workerVars
    <3> QED BY <1>2, <3>1, <3>2, <3>3, <3>4, <3>5 DEF WorkerStep
  <2> QED BY <1>2, <2>1, WorkerLocals, WorkerFrame DEF LateInv
<1>3. CASE OtherStep
  BY <1>3, OtherFrame DEF LateInv
<1> QED BY <1>1, <1>2, <1>3, NextCases

(* The second batch of the last stage goes from its start to its exit.     *)
LEMMA LastStep ==
  ASSUME TypeInv, PhaseInv, ContextInv, LiveInv, StartedInv, LastInv,
         [Next]_vars
  PROVE  LastInv'
<1>1. CASE MainStep
  BY <1>1, MainFrame, MainWorkers DEF LastInv
<1>2. ASSUME NEW w \in Worker, WorkerStep(w) PROVE LastInv'
  <2>1. ASSUME w[1] + 1 = NumStages, w[2] = 2
        PROVE  /\ sent'[w] = 0
               /\ wpc'[w] \in {"idle", "ready", "top", "exit"}
               /\ wpc'[w] = "top" => wctx'[w] \in cancelled
    <3> USE <2>1 DEF TypeInv, WorkerTypeOK, LastInv, Move
    <3>1. CASE Start(w)
      <4>1. ctx \in cancelled
        BY <1>2, WorkerMoves, WorkerParts, StagesAreNat
        DEF ContextInv, LiveInv, MayLive
      <4> QED BY <3>1, <4>1 DEF Start
    <3>2. CASE CheckDone(w)
      BY <3>2 DEF CheckDone
    <3>3. CASE ~Start(w) /\ ~CheckDone(w)
      BY <1>2, <3>3 DEF WorkerStep, CheckLive, LimiterWait, Acquire,
         NoRequest, TakeRequest, RecordBegin, RecordEnd, Release
    <3> QED BY <3>1, <3>2, <3>3
  <2> QED BY <1>2, <2>1, WorkerLocals, WorkerFrame DEF LastInv
<1>3. CASE OtherStep
  BY <1>3, OtherFrame DEF LastInv
<1> QED BY <1>1, <1>2, <1>3, NextCases
-----------------------------------------------------------------------------
(***************************************************************************)
(* The statistics.                                                         *)
(***************************************************************************)
LEMMA WindowStep ==
  ASSUME TypeInv, PhaseInv, LiveInv, WindowInv, [Next]_vars
  PROVE  WindowInv'
<1> USE StagesAreNat DEF WindowInv, StatsWindow
<1>0. \A s \in recordedStages : s \in Nat
  BY DEF TypeInv, OtherTypeOK
<1>1. CASE MainStep
  <2> USE <1>0 DEF TypeInv, MainTypeOK, PhaseInv, InStage
  <2>1. CASE EnterStage
    BY <2>1 DEF EnterStage, trackerVars
  <2>2. CASE ResetForNextStage
    BY <2>2 DEF ResetForNextStage
  <2>3. CASE KeepLastStage
    BY <2>3 DEF KeepLastStage, trackerVars
  <2>4. CASE NextStage
    BY <2>4 DEF NextStage, trackerVars
  <2>5. CASE Spawn
    BY <2>5 DEF Spawn, SpawnInto, trackerVars
  <2>6. CASE Respawn
    BY <2>6 DEF Respawn, SpawnInto, trackerVars
  <2>7. CASE \/ BreakOnShutdown \/ EndOfStages \/ StageTimer
             \/ ShutdownInStage \/ Drained \/ StageOver \/ Stop \/ Return
    <3>1. /\ UNCHANGED <<recordedStages, entered, stage>>
          /\ mpc' # "top" /\ mpc' # "respawn"
      BY <2>7 DEF BreakOnShutdown, EndOfStages, StageTimer, ShutdownInStage,
         Drained, StageOver, WaitFor, Stop, Return, trackerVars
    <3> QED BY <3>1
  <2> QED BY <1>1, <2>1, <2>2, <2>3, <2>4, <2>5, <2>6, <2>7 DEF MainStep
<1>2. ASSUME NEW w \in Worker, WorkerStep(w) PROVE WindowInv'
  <2>1. UNCHANGED <<mpc, stage, entered>>
    BY <1>2, WorkerFrame
  <2>2. CASE RecordEnd(w)
    <3>1. recordedStages' = recordedStages \cup {w[1]} /\ MayLive(w)
      BY <1>2, <2>2, WorkerMoves DEF RecordEnd, StageOf, LiveInv
    <3>2. w[1] \in Nat
      BY WorkerParts
    <3>3. /\ w[1] < entered /\ entered <= w[1] + 2
          /\ mpc = "top" => w[1] + 1 = stage
          /\ mpc = "respawn" => w[1] = stage
      BY <3>1, <3>2 DEF MayLive, PhaseInv, InStage, Over, TypeInv, MainTypeOK
    <3> QED BY <2>1, <3>1, <3>3
  <2>3. CASE ~RecordEnd(w)
    <3>1. recordedStages' = recordedStages
      BY <1>2, <2>3 DEF WorkerStep, Start, CheckDone, CheckLive, LimiterWait,
         Acquire, NoRequest, TakeRequest, RecordBegin, Release, trackerVars
    <3> QED BY <2>1, <3>1
  <2> QED BY <2>2, <2>3
<1>3. CASE OtherStep
  BY <1>3, OtherFrame
<1> QED BY <1>1, <1>2, <1>3, NextCases

(* After Run has returned with a complete report no worker is left that    *)
(* holds a request.                                                        *)
LEMMA NoneInFlight ==
  ASSUME PhaseInv, LiveInv, LastInv, mpc = "returned", ~BrokeOff
  PROVE  InFlight = {}
<1>1. \A w \in Live : w[1] + 1 = stage /\ w[2] = 2 /\ entered = stage
  BY DEF LiveInv, MayLive, Over
<1>2. \A w \in Live : stage < NumStages \/ stage = NumStages
  BY <1>1, WorkerParts, StagesAreNat DEF Live, BrokeOff
<1> QED BY <1>1, <1>2 DEF InFlight, Live, BrokeOff, LastInv

(* Once Run has returned a complete report, no worker changes it.          *)
LEMMA ReportStep ==
  ASSUME TypeInv, PhaseInv, LiveInv, LastInv, ReportInv, [Next]_vars
  PROVE  ReportInv'
<1> USE DEF ReportInv, BrokeOff
<1>1. CASE MainStep
  <2>1. CASE Return
    BY <2>1 DEF Return, trackerVars
  <2>2. CASE ~Return
    <3>1. mpc' # "returned"
      BY <1>1, <2>2 DEF MainStep, EnterStage, BreakOnShutdown, EndOfStages,
         Spawn, Respawn, SpawnInto, StageTimer, ShutdownInStage, Drained,
         StageOver, WaitFor, ResetForNextStage, KeepLastStage, NextStage, Stop
    <3> QED BY <3>1
  <2> QED BY <2>1, <2>2
<1>2. ASSUME NEW w \in Worker, WorkerStep(w) PROVE ReportInv'
  <2>1. CASE mpc = "returned" /\ ~BrokeOff
    <3>1. wpc[w] \notin {"send", "settle"}
      BY <2>1, NoneInFlight DEF InFlight
    <3>2. UNCHANGED <<requestCount, settled>>
      BY <1>2, <3>1 DEF WorkerStep, Start, CheckDone, CheckLive, LimiterWait,
         Acquire, NoRequest, TakeRequest, RecordBegin, RecordEnd, Release,
         Move, trackerVars
    <3> QED BY <1>2, <2>1, <3>2, WorkerFrame
  <2>2. CASE ~(mpc = "returned" /\ ~BrokeOff)
    BY <1>2, <2>2, WorkerFrame
  <2> QED BY <2>1, <2>2
<1>3. CASE OtherStep
  BY <1>3, OtherFrame
<1> QED BY <1>1, <1>2, <1>3, NextCases
-----------------------------------------------------------------------------
(***************************************************************************)
(* The inductive invariant.                                                *)
(***************************************************************************)
LEMMA InvInit == Init => IInv
<1> SUFFICES ASSUME Init PROVE IInv
  OBVIOUS
<1> USE StagesAreNat
<1>1. TypeInv
  BY TypeInit
<1>2. PhaseInv /\ CoordInv /\ ContextInv
  BY DEF Init, PhaseInv, InStage, Over, CoordInv, ContextInv
<1>3. Live = {} /\ Settling = {} /\ \A s : Holders(s) = {}
  BY DEF Init, Live, Settling, Holders, Holding
<1>4. LiveInv /\ StartedInv
  BY <1>3 DEF Init, LiveInv, StartedInv
<1>5. CountInv /\ SettleInv
  BY <1>3, FS_EmptySet DEF Init, CountInv, SettleInv
<1>5a. SemInv
  <2> SUFFICES ASSUME NEW s \in StageIdx
               PROVE  IsFiniteSet(Holders(s)) /\ sem[s] = Cardinality(Holders(s))
    BY DEF SemInv
  <2>1. Holders(s) = {} /\ sem[s] = 0
    BY <1>3 DEF Init
  <2> QED BY <2>1, FS_EmptySet
<1>6. LateInv /\ LastInv
  BY DEF Init, LateInv, LastInv
<1>7. WindowInv /\ ReportInv
  BY DEF Init, WindowInv, StatsWindow, ReportInv
<1> QED BY <1>1, <1>2, <1>4, <1>5, <1>5a, <1>6, <1>7 DEF IInv

(* IInv is inductive.                                                      *)
LEMMA InvStep == IInv /\ [Next]_vars => IInv'
<1> SUFFICES ASSUME IInv, [Next]_vars PROVE IInv'
  OBVIOUS
<1> USE DEF IInv
<1>1. TypeInv'
  BY NextCases, TypeMain, TypeWorker, TypeOther
<1>2. PhaseInv'
  BY NextCases, PhaseMain, PhaseWorkerOther
<1>3. CoordInv'
  BY CoordStepInv
<1>4. ContextInv'
  BY NextCases, ContextMain, ContextWorkerOther
<1>5. LiveInv'
  BY NextCases, LiveMain, LiveWorkerOther
<1>6. StartedInv'
  BY NextCases, StartedMain, StartedWorkerOther
<1>7. CountInv' /\ SemInv' /\ SettleInv'
  BY CountStep, SemStep, SettleStep
<1>8. LateInv' /\ LastInv'
  BY LateStep, LastStep
<1>9. WindowInv' /\ ReportInv'
  BY WindowStep, ReportStep
<1> QED BY <1>1, <1>2, <1>3, <1>4, <1>5, <1>6, <1>7, <1>8, <1>9

(* The inductive invariant holds in every reachable state.                 *)
THEOREM Invariance == Spec => []IInv
BY InvInit, InvStep, PTL DEF Spec
-----------------------------------------------------------------------------
(***************************************************************************)
(* What it implies.                                                        *)
(***************************************************************************)

(* Every variable keeps its type, and the WaitGroup's counter never drops  *)
(* below zero, where sync.WaitGroup panics.                                *)
THEOREM TypeCorrect == Spec => []TypeOK
<1>1. IInv => TypeOK
  BY FS_CardinalityType DEF IInv, TypeInv, TypeOK, CountInv
<1> QED BY <1>1, Invariance, PTL

(* The WaitGroup counts exactly the running worker goroutines, across both *)
(* spawning loops and the replacement of the WaitGroup between them.       *)
THEOREM WaitGroupCounts == Spec => []WaitGroupExact
<1>1. IInv => WaitGroupExact
  BY DEF IInv, CountInv, WaitGroupExact
<1> QED BY <1>1, Invariance, PTL

(* Tracker.Reset, ResetContext and the assignment to wg happen when no     *)
(* worker is running.                                                      *)
THEOREM ResetIsQuiescent == Spec => []ResetQuiescent
<1>1. IInv => ResetQuiescent
  BY DEF IInv, LiveInv, MayLive, Over, ResetQuiescent
<1> QED BY <1>1, Invariance, PTL

(* At most two batches are alive, that of the stage and the second one of  *)
(* the stage before.                                                       *)
THEOREM OverlapIsBounded == Spec => []OverlapBound
<1>1. IInv => OverlapBound
  BY WorkerParts, StagesAreNat
  DEF IInv, LiveInv, MayLive, OverlapBound, StageOf, TypeInv, MainTypeOK
<1> QED BY <1>1, Invariance, PTL

(* A worker takes at most one request after its context was cancelled.     *)
THEOREM AtMostOneLate == Spec => []OneLateRequest
<1>1. IInv => OneLateRequest
  BY DEF IInv, LateInv, OneLateRequest
<1> QED BY <1>1, Invariance, PTL

(* The batch started after the last stage sends nothing.                   *)
THEOREM LastBatchIsSilent == Spec => []LastBatchSendsNothing
<1>1. IInv => LastBatchSendsNothing
  BY WorkerParts, StagesAreNat
  DEF IInv, LastInv, LastBatchSendsNothing, StageOf
<1> QED BY <1>1, Invariance, PTL

(* The statistics hold the stage running and the one before it, no other.  *)
THEOREM StatsHoldTwoStages == Spec => []StatsWindow
<1>1. IInv => StatsWindow
  BY DEF IInv, WindowInv
<1> QED BY <1>1, Invariance, PTL

(* Unless Run broke off at the loop head, what it returns is complete and  *)
(* nothing is in flight.                                                   *)
THEOREM ReportIsComplete == Spec => []ReportComplete
<1>1. IInv => ReportComplete
  <2> SUFFICES ASSUME IInv, mpc = "returned", ~BrokeOff
               PROVE  /\ report.total = report.settled
                      /\ report.total = requestCount
                      /\ InFlight = {}
    BY DEF ReportComplete
  <2>1. InFlight = {}
    BY NoneInFlight DEF IInv
  <2>2. requestCount = settled
    BY <2>1, FS_EmptySet
    DEF IInv, SettleInv, Settling, InFlight, TypeInv, OtherTypeOK
  <2> QED BY <2>1, <2>2 DEF IInv, ReportInv
<1> QED BY <1>1, Invariance, PTL
-----------------------------------------------------------------------------
(* The workers of one batch are as many as the concurrency.                *)
LEMMA BatchSize ==
  ASSUME NEW s \in StageIdx, NEW b
  PROVE  LET B == {<<s, b, i>> : i \in 0 .. Concurrency[s] - 1}
         IN  IsFiniteSet(B) /\ Cardinality(B) = Concurrency[s]
<1> DEFINE I == 0 .. Concurrency[s] - 1
           B == {<<s, b, i>> : i \in I}
           f == [i \in I |-> <<s, b, i>>]
<1>0. Concurrency[s] \in Nat /\ 0 \in Int /\ Concurrency[s] - 1 \in Int
  BY StagesAreNat
<1>1. IsFiniteSet(I) /\ Cardinality(I) = Concurrency[s]
  <2>1. /\ IsFiniteSet(I)
        /\ Cardinality(I) = IF 0 > Concurrency[s] - 1 THEN 0
                            ELSE Concurrency[s] - 1 - 0 + 1
    BY <1>0, FS_Interval
  <2> HIDE DEF I
  <2> QED BY <1>0, <2>1
<1>2. f \in Surjection(I, B) /\ f \in Injection(I, B)
  BY DEF Surjection, Injection, IsInjective
<1> HIDE DEF I, B, f
<1>3. IsFiniteSet(B) /\ Cardinality(B) = Cardinality(I)
  BY <1>1, <1>2, FS_Surjection
<1> QED BY <1>1, <1>3 DEF B, I

(* Only the workers of one batch hold or want slots of a semaphore, so it  *)
(* never blocks one.                                                       *)
THEOREM SemaphoreIsFree == Spec => []SemaphoreNeverBlocks
<1>1. ASSUME IInv, NEW w \in Worker, wpc[w] = "acquire"
      PROVE  sem[w[1]] < Concurrency[w[1]]
  <2> DEFINE s == w[1]
             B == {<<s, w[2], i>> : i \in 0 .. Concurrency[s] - 1}
  <2>1. s \in StageIdx /\ w \in B
    BY WorkerParts
  <2>2. \A v \in Holders(s) : v \in Worker /\ v[1] = s /\ v \in Live
    BY DEF Holders, Holding, StageOf, Live
  <2>3. \A v \in Holders(s) : v[2] = w[2]
    BY <1>1, <2>1, <2>2, StagesAreNat
    DEF IInv, LiveInv, MayLive, Live, TypeInv, MainTypeOK, Over
  <2>4. Holders(s) \subseteq B \ {w}
    BY <1>1, <2>2, <2>3, WorkerParts DEF Holders, Holding
  <2>5. IsFiniteSet(B) /\ Cardinality(B) = Concurrency[s]
    BY <2>1, BatchSize
  <2>6. IsFiniteSet(B \ {w}) /\ Cardinality(B \ {w}) = Concurrency[s] - 1
    BY <2>1, <2>5, FS_RemoveElement
  <2>7. Cardinality(Holders(s)) <= Concurrency[s] - 1
    BY <2>4, <2>6, FS_Subset
  <2>8. sem[s] = Cardinality(Holders(s)) /\ sem[s] \in Nat
    BY <1>1, <2>1 DEF IInv, SemInv, TypeInv, MainTypeOK
  <2> QED BY <2>1, <2>7, <2>8, StagesAreNat
<1>2. ASSUME IInv, NEW w \in Worker, wpc[w] \in Holding
      PROVE  sem[w[1]] > 0
  <2>1. w[1] \in StageIdx /\ w \in Holders(w[1])
    BY <1>2, WorkerParts DEF Holders, StageOf
  <2>2. /\ IsFiniteSet(Holders(w[1]))
        /\ sem[w[1]] = Cardinality(Holders(w[1])) /\ sem[w[1]] \in Nat
    BY <1>2, <2>1 DEF IInv, SemInv, TypeInv, MainTypeOK
  <2> QED BY <2>1, <2>2, FS_EmptySet
<1>3. IInv => SemaphoreNeverBlocks
  BY <1>1, <1>2 DEF SemaphoreNeverBlocks, StageOf
<1> QED BY <1>3, Invariance, PTL
-----------------------------------------------------------------------------
(***************************************************************************)
(* Refinement. Liveness, the rest of ImplementsStagedRun, is checked by    *)
(* TLC only.                                                               *)
(***************************************************************************)
LEMMA RefineInit == Init => Abstract!Init
BY DEF Init, Abstract!Init

(* Every step maps to a step of StagedRun or to a stutter.                 *)
LEMMA RefineStep ==
  ASSUME IInv, [Next]_vars
  PROVE  [Abstract!Next]_(Abstract!vars)
<1> USE DEF Abstract!vars
<1>1. CASE MainStep
  <2> USE MainFrame DEF outsideVars
  <2>1. CASE EnterStage
    <3>1. Abstract!EnterStage
      BY <1>1, <2>1 DEF EnterStage, Abstract!EnterStage, IInv, PhaseInv
    <3> QED BY <3>1 DEF Abstract!Next
  <2>2. CASE Return
    <3>1. entered = NumStages \/ softShutdown
      BY <2>2 DEF Return, IInv, PhaseInv, Over
    <3>2. Abstract!Return
      BY <1>1, <2>2, <3>1 DEF Return, Abstract!Return
    <3> QED BY <3>2 DEF Abstract!Next
  <2>3. CASE ~EnterStage /\ ~Return
    <3>1. entered' = entered /\ mpc # "returned" /\ mpc' # "returned"
      BY <1>1, <2>3 DEF MainStep, BreakOnShutdown, EndOfStages, Spawn,
         Respawn, SpawnInto, StageTimer, AtSelect, ShutdownInStage, Drained,
         StageOver, WaitFor, ResetForNextStage, KeepLastStage, NextStage, Stop
    <3> QED BY <1>1, <3>1
  <2> QED BY <2>1, <2>2, <2>3
<1>2. ASSUME NEW w \in Worker, WorkerStep(w)
      PROVE  UNCHANGED Abstract!vars
  BY <1>2, WorkerFrame DEF outsideVars
<1>3. CASE OtherStep
  <2>1. entered' = entered /\ mpc' = mpc
    BY <1>3, OtherFrame
  <2>2. softShutdown' = softShutdown \/ softShutdown' = TRUE
    BY <1>3 DEF OtherStep, Signal, CoordStep, Receive, StoreSoft,
       CloseShutdown, Terminated, vars, outsideVars
  <2> QED BY <2>1, <2>2 DEF Abstract!Next, Abstract!RequestShutdown
<1> QED BY <1>1, <1>2, <1>3, NextCases

(* Run behaves as StagedRun says: stages in order, none entered once the   *)
(* shutdown flag is set, a return only after the last one or because of a  *)
(* shutdown, and nothing after it.                                         *)
THEOREM Refinement ==
  Spec => Abstract!Init /\ [][Abstract!Next]_(Abstract!vars)
BY RefineInit, RefineStep, Invariance, PTL DEF Spec
=============================================================================
