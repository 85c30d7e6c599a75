------------------------------- MODULE Engine -------------------------------
(***************************************************************************)
(* The run of a stress test: Engine.Run, which drives the stages, the      *)
(* goroutines of Worker.Run, which send the requests, and the coordinator  *)
(* goroutine, which turns a signal into a shutdown.                        *)
(*                                                                         *)
(* For every stage Run spawns a first batch of workers, waits for the      *)
(* stage's timer or the shutdown channel, cancels the context, waits for   *)
(* the workers, and, as the code is written, spawns a second batch for the *)
(* same stage under the next context: that batch works through the next    *)
(* stage. A worker is the triple <<stage, batch, index>>.                  *)
(*                                                                         *)
(* TokenBucket.Wait and Tracker.Record are abstracted here to the places   *)
(* where they block or become visible; the modules TokenBucket and Tracker *)
(* give their detail.                                                      *)
(***************************************************************************)
EXTENDS Naturals, FiniteSets, Functions

CONSTANTS
  NumStages,     \* number of configured stages
  Concurrency,   \* Concurrency[s]: the workers of a batch of stage s
  RateLimited,   \* the stages with a rate_limit
  PoolSizes,     \* the sizes the request pool may have
  MaxSends,      \* bound: requests a worker takes from the pool in a run
  MaxSignals     \* bound: signals delivered to the process

StageIdx == 0 .. NumStages - 1

ASSUME EngineAssumption ==
  /\ NumStages \in Nat
  /\ Concurrency \in [StageIdx -> Nat]
  /\ RateLimited \subseteq StageIdx
  /\ PoolSizes \subseteq Nat
  /\ MaxSends \in Nat
  /\ MaxSignals \in Nat

Worker == UNION {{s} \X {1, 2} \X (0 .. Concurrency[s] - 1) : s \in StageIdx}

VARIABLES
  mpc,             \* where Engine.Run is
  stage,           \* stageIdx of the loop
  entered,         \* stages that passed the shutdown check of the loop head
  spawned,         \* index of the spawning loop that is running
  ctx,             \* the context held by Run's variable ctx, by generation
  cancelled,       \* the generations that have been cancelled
  wg,              \* counter of the WaitGroup
  sem,             \* sem[s]: slots in use in the semaphore of stage s
  wpc,             \* where each worker is
  wctx,            \* the context each worker was started with
  sent,            \* requests each worker has taken from the pool
  late,            \* those it took although its context was cancelled
  requestCount,    \* Tracker.requestCount
  settled,         \* Tracker.successCount + Tracker.failureCount
  recordedStages,  \* the keys of Tracker.stageCounts
  report,          \* the statistics Run returned
  sigCh,           \* signals buffered in the coordinator's channel
  signals,         \* signals delivered so far
  cpc,             \* where the coordinator's goroutine is
  softShutdown,    \* Coordinator.softShutdown
  shutdownCh,      \* is Coordinator.shutdownCh closed?
  coordCtx,        \* the context Coordinator.cancel cancels
  poolSize         \* len(RequestPool.reqs)

(* The last group: what neither Run nor a worker assigns.                  *)
mainVars    == <<mpc, stage, entered, spawned, ctx, report>>
trackerVars == <<requestCount, settled, recordedStages>>
workerVars  == <<wpc, wctx, sent, late>>
outsideVars == <<sigCh, signals, cpc, softShutdown, shutdownCh, poolSize>>
vars == <<mainVars, trackerVars, workerVars, outsideVars,
          cancelled, wg, sem, coordCtx>>

StageOf(w) == w[1]

(***************************************************************************)
(* A goroutine that has been started and has not returned; a worker with a *)
(* slot of the semaphore; a worker whose request is neither answered nor   *)
(* fully recorded.                                                         *)
(***************************************************************************)
Live       == {w \in Worker : wpc[w] \notin {"idle", "exit"}}
Holding    == {"next", "send", "settle", "release"}
Holders(s) == {w \in Worker : StageOf(w) = s /\ wpc[w] \in Holding}
InFlight   == {w \in Worker : wpc[w] \in {"send", "settle"}}

EmptyReport == [total |-> 0, settled |-> 0, stages |-> {}]

Init ==
  /\ mpc = "top" /\ stage = 0 /\ entered = 0 /\ spawned = 0
  /\ ctx = 0 /\ cancelled = {} /\ coordCtx = 0
  /\ wg = 0
  /\ sem = [s \in StageIdx |-> 0]
  /\ wpc  = [w \in Worker |-> "idle"]
  /\ wctx = [w \in Worker |-> 0]
  /\ sent = [w \in Worker |-> 0]
  /\ late = [w \in Worker |-> 0]
  /\ requestCount = 0 /\ settled = 0 /\ recordedStages = {}
  /\ report = EmptyReport
  /\ sigCh = 0 /\ signals = 0 /\ cpc = "recv"
  /\ softShutdown = FALSE /\ shutdownCh = FALSE
  /\ poolSize \in PoolSizes
-----------------------------------------------------------------------------
(***************************************************************************)
(* Engine.Run.                                                             *)
(***************************************************************************)

(* Mutant of EnterStage: the shutdown check of the loop head is missing.   *)
EnterStageUnchecked ==
  /\ mpc = "top" /\ stage < NumStages
  /\ mpc' = "spawn" /\ spawned' = 0 /\ entered' = stage + 1
  /\ sem' = [sem EXCEPT ![stage] = 0]
  /\ UNCHANGED <<stage, ctx, report, trackerVars, workerVars, outsideVars,
                 cancelled, wg, coordCtx>>

(* The head of the stage loop, for a stage that is still to run and no     *)
(* shutdown: a new semaphore (and limiter) for the stage.                  *)
EnterStage ==
  /\ mpc = "top" /\ stage < NumStages /\ ~softShutdown
  /\ mpc' = "spawn" /\ spawned' = 0 /\ entered' = stage + 1
  /\ sem' = [sem EXCEPT ![stage] = 0]
  /\ UNCHANGED <<stage, ctx, report, trackerVars, workerVars, outsideVars,
                 cancelled, wg, coordCtx>>

(* The break at the loop head, and the end of the range.                   *)
BreakOnShutdown ==
  /\ mpc = "top" /\ stage < NumStages /\ softShutdown
  /\ mpc' = "done"
  /\ UNCHANGED <<stage, entered, spawned, ctx, report, trackerVars,
                 workerVars, outsideVars, cancelled, wg, sem, coordCtx>>

EndOfStages ==
  /\ mpc = "top" /\ stage = NumStages
  /\ mpc' = "done"
  /\ UNCHANGED <<stage, entered, spawned, ctx, report, trackerVars,
                 workerVars, outsideVars, cancelled, wg, sem, coordCtx>>

(* Mutant of SpawnInto: the second loop forgets wg.Add(1).                 *)
SpawnUncounted(batch) ==
  /\ spawned < Concurrency[stage]
  /\ spawned' = spawned + 1
  /\ wg' = IF batch = 1 THEN wg + 1 ELSE wg
  /\ wpc' = [wpc EXCEPT ![<<stage, batch, spawned>>] = "ready"]
  /\ UNCHANGED <<mpc, stage, entered, ctx, report, trackerVars, wctx, sent,
                 late, outsideVars, cancelled, sem, coordCtx>>

(* One turn of a spawning loop: wg.Add(1) and the go statement.            *)
SpawnInto(batch) ==
  /\ spawned < Concurrency[stage]
  /\ spawned' = spawned + 1
  /\ wg' = wg + 1
  /\ wpc' = [wpc EXCEPT ![<<stage, batch, spawned>>] = "ready"]
  /\ UNCHANGED <<mpc, stage, entered, ctx, report, trackerVars, wctx, sent,
                 late, outsideVars, cancelled, sem, coordCtx>>

Spawn   == mpc = "spawn"   /\ SpawnInto(1)
Respawn == mpc = "respawn" /\ SpawnInto(2)

(* The select after the first spawning loop. When the timer has fired and  *)
(* the shutdown channel is closed, either case may be taken.               *)
AtSelect == mpc = "spawn" /\ spawned = Concurrency[stage]

(* Mutant of StageTimer: the context is not cancelled.                     *)
StageTimerNoCancel ==
  /\ AtSelect
  /\ mpc' = "wait"
  /\ UNCHANGED <<stage, entered, spawned, ctx, report, trackerVars,
                 workerVars, outsideVars, cancelled, wg, sem, coordCtx>>

StageTimer ==
  /\ AtSelect
  /\ mpc' = "wait"
  /\ cancelled' = cancelled \cup {ctx}
  /\ UNCHANGED <<stage, entered, spawned, ctx, report, trackerVars,
                 workerVars, outsideVars, wg, sem, coordCtx>>

ShutdownInStage ==
  /\ AtSelect /\ shutdownCh
  /\ mpc' = "drain"
  /\ cancelled' = cancelled \cup {ctx}
  /\ UNCHANGED <<stage, entered, spawned, ctx, report, trackerVars,
                 workerVars, outsideVars, wg, sem, coordCtx>>

(* wg.Wait() returns, in the shutdown case and after the timer.            *)
WaitFor(from, to) ==
  /\ mpc = from /\ wg = 0
  /\ mpc' = to
  /\ UNCHANGED <<stage, entered, spawned, ctx, report, trackerVars,
                 workerVars, outsideVars, cancelled, wg, sem, coordCtx>>

(* Mutants of the two waits: wg.Wait() is missing.                         *)
DrainedNoWait ==
  /\ mpc = "drain" /\ mpc' = "done"
  /\ UNCHANGED <<stage, entered, spawned, ctx, report, trackerVars,
                 workerVars, outsideVars, cancelled, wg, sem, coordCtx>>

StageOverNoWait ==
  /\ mpc = "wait" /\ mpc' = "reset"
  /\ UNCHANGED <<stage, entered, spawned, ctx, report, trackerVars,
                 workerVars, outsideVars, cancelled, wg, sem, coordCtx>>

Drained   == WaitFor("drain", "done")
StageOver == WaitFor("wait", "reset")

(* Mutants of ResetForNextStage: the tracker is not reset; the test for    *)
(* the last stage is off by one.                                           *)
ResetKeepingStats ==
  /\ mpc = "reset" /\ stage + 1 < NumStages
  /\ ctx' = ctx + 1 /\ coordCtx' = ctx + 1
  /\ wg' = 0
  /\ mpc' = "respawn" /\ spawned' = 0
  /\ UNCHANGED <<stage, entered, report, trackerVars, workerVars, outsideVars,
                 cancelled, sem>>

ResetAfterLastStage ==
  /\ mpc = "reset" /\ stage < NumStages
  /\ ctx' = ctx + 1 /\ coordCtx' = ctx + 1
  /\ requestCount' = 0 /\ settled' = 0 /\ recordedStages' = {}
  /\ wg' = 0
  /\ mpc' = "respawn" /\ spawned' = 0
  /\ UNCHANGED <<stage, entered, report, workerVars, outsideVars, cancelled,
                 sem>>

(* Between two stages: a fresh context, the coordinator told of it, the    *)
(* tracker reset and the WaitGroup replaced. After the last stage only the *)
(* WaitGroup is replaced. Both fall through to the second spawning loop.   *)
ResetForNextStage ==
  /\ mpc = "reset" /\ stage + 1 < NumStages
  /\ ctx' = ctx + 1 /\ coordCtx' = ctx + 1
  /\ requestCount' = 0 /\ settled' = 0 /\ recordedStages' = {}
  /\ wg' = 0
  /\ mpc' = "respawn" /\ spawned' = 0
  /\ UNCHANGED <<stage, entered, report, workerVars, outsideVars, cancelled,
                 sem>>

KeepLastStage ==
  /\ mpc = "reset" /\ stage + 1 >= NumStages
  /\ wg' = 0
  /\ mpc' = "respawn" /\ spawned' = 0
  /\ UNCHANGED <<stage, entered, ctx, report, trackerVars, workerVars,
                 outsideVars, cancelled, sem, coordCtx>>

NextStage ==
  /\ mpc = "respawn" /\ spawned = Concurrency[stage]
  /\ mpc' = "top" /\ stage' = stage + 1
  /\ UNCHANGED <<entered, spawned, ctx, report, trackerVars, workerVars,
                 outsideVars, cancelled, wg, sem, coordCtx>>

(* Mutant of Stop: neither cancel() nor Coordinator.Stop() cancels.        *)
StopNoCancel ==
  /\ mpc = "done"
  /\ mpc' = "snapshot"
  /\ UNCHANGED <<stage, entered, spawned, ctx, report, trackerVars,
                 workerVars, outsideVars, cancelled, wg, sem, coordCtx>>

(* The label done: cancel() and Coordinator.Stop().                        *)
Stop ==
  /\ mpc = "done"
  /\ mpc' = "snapshot"
  /\ cancelled' = cancelled \cup {ctx, coordCtx}
  /\ UNCHANGED <<stage, entered, spawned, ctx, report, trackerVars,
                 workerVars, outsideVars, wg, sem, coordCtx>>

(* return e.tracker.Snapshot(), with the deferred cancel of the first      *)
(* context. Nothing here waits for the workers that are still running.     *)
Return ==
  /\ mpc = "snapshot"
  /\ mpc' = "returned"
  /\ report' = [total   |-> requestCount,
                settled |-> settled,
                stages  |-> recordedStages]
  /\ cancelled' = cancelled \cup {0}
  /\ UNCHANGED <<stage, entered, spawned, ctx, trackerVars, workerVars,
                 outsideVars, wg, sem, coordCtx>>

MainStep ==
  \/ EnterStage \/ BreakOnShutdown \/ EndOfStages
  \/ Spawn \/ StageTimer \/ ShutdownInStage \/ Drained \/ StageOver
  \/ ResetForNextStage \/ KeepLastStage \/ Respawn \/ NextStage
  \/ Stop \/ Return
-----------------------------------------------------------------------------
(***************************************************************************)
(* Worker.Run. The goroutine reads Run's variable ctx when it starts, not  *)
(* when it is spawned.                                                     *)
(***************************************************************************)
Move(w, from, to) ==
  /\ wpc[w] = from
  /\ wpc' = [wpc EXCEPT ![w] = to]

Start(w) ==
  /\ Move(w, "ready", "top")
  /\ wctx' = [wctx EXCEPT ![w] = ctx]
  /\ UNCHANGED <<mainVars, trackerVars, sent, late, outsideVars, cancelled,
                 wg, sem, coordCtx>>

(* Mutants of the select: wg.Done() called once more than deferred; the    *)
(* loop goes on whatever the context says.                                 *)
CheckDoneTwice(w) ==
  /\ Move(w, "top", "exit")
  /\ wctx[w] \in cancelled
  /\ wg' = wg - 2
  /\ UNCHANGED <<mainVars, trackerVars, wctx, sent, late, outsideVars,
                 cancelled, sem, coordCtx>>

CheckNothing(w) ==
  /\ Move(w, "top", IF StageOf(w) \in RateLimited THEN "limit" ELSE "acquire")
  /\ sent[w] < MaxSends
  /\ UNCHANGED <<mainVars, trackerVars, wctx, sent, late, outsideVars,
                 cancelled, wg, sem, coordCtx>>

(* The select at the head of the loop: return, with the deferred wg.Done,  *)
(* or go on.                                                               *)
CheckDone(w) ==
  /\ Move(w, "top", "exit")
  /\ wctx[w] \in cancelled
  /\ wg' = wg - 1
  /\ UNCHANGED <<mainVars, trackerVars, wctx, sent, late, outsideVars,
                 cancelled, sem, coordCtx>>

CheckLive(w) ==
  /\ Move(w, "top", IF StageOf(w) \in RateLimited THEN "limit" ELSE "acquire")
  /\ wctx[w] \notin cancelled
  /\ sent[w] < MaxSends
  /\ UNCHANGED <<mainVars, trackerVars, wctx, sent, late, outsideVars,
                 cancelled, wg, sem, coordCtx>>

(* limiter.Wait() returns: it does not look at the context.                *)
LimiterWait(w) ==
  /\ Move(w, "limit", "acquire")
  /\ UNCHANGED <<mainVars, trackerVars, wctx, sent, late, outsideVars,
                 cancelled, wg, sem, coordCtx>>

(* sem.Acquire(1), on the semaphore both batches of the stage share.       *)
Acquire(w) ==
  /\ Move(w, "acquire", "next")
  /\ sem[StageOf(w)] < Concurrency[StageOf(w)]
  /\ sem' = [sem EXCEPT ![StageOf(w)] = @ + 1]
  /\ UNCHANGED <<mainVars, trackerVars, wctx, sent, late, outsideVars,
                 cancelled, wg, coordCtx>>

(* Mutant of ReleaseSlot: the slot is kept.                                *)
KeepSlot(w) ==
  /\ sem[StageOf(w)] > 0
  /\ sem' = sem

(* sem.Release(1) receives from the channel: it would block on an empty    *)
(* one.                                                                    *)
ReleaseSlot(w) ==
  /\ sem[StageOf(w)] > 0
  /\ sem' = [sem EXCEPT ![StageOf(w)] = @ - 1]

(* requestPool.Next() on an empty pool: release and continue.              *)
NoRequest(w) ==
  /\ Move(w, "next", "top")
  /\ poolSize = 0
  /\ ReleaseSlot(w)
  /\ UNCHANGED <<mainVars, trackerVars, wctx, sent, late, outsideVars,
                 cancelled, wg, coordCtx>>

TakeRequest(w) ==
  /\ Move(w, "next", "send")
  /\ poolSize > 0
  /\ sent' = [sent EXCEPT ![w] = @ + 1]
  /\ late' = [late EXCEPT ![w] = @ + IF wctx[w] \in cancelled THEN 1 ELSE 0]
  /\ UNCHANGED <<mainVars, trackerVars, wctx, outsideVars, cancelled, wg, sem,
                 coordCtx>>

(* The request has been answered, has failed, or could not be built: all   *)
(* three end in Tracker.Record, whose first step counts the request and    *)
(* whose last steps count its outcome and its stage.                       *)
RecordBegin(w) ==
  /\ Move(w, "send", "settle")
  /\ requestCount' = requestCount + 1
  /\ UNCHANGED <<mainVars, settled, recordedStages, wctx, sent, late,
                 outsideVars, cancelled, wg, sem, coordCtx>>

RecordEnd(w) ==
  /\ Move(w, "settle", "release")
  /\ settled' = settled + 1
  /\ recordedStages' = recordedStages \cup {StageOf(w)}
  /\ UNCHANGED <<mainVars, requestCount, wctx, sent, late, outsideVars,
                 cancelled, wg, sem, coordCtx>>

Release(w) ==
  /\ Move(w, "release", "top")
  /\ ReleaseSlot(w)
  /\ UNCHANGED <<mainVars, trackerVars, wctx, sent, late, outsideVars,
                 cancelled, wg, coordCtx>>

WorkerStep(w) ==
  \/ Start(w) \/ CheckDone(w) \/ CheckLive(w) \/ LimiterWait(w)
  \/ Acquire(w) \/ NoRequest(w) \/ TakeRequest(w)
  \/ RecordBegin(w) \/ RecordEnd(w) \/ Release(w)
-----------------------------------------------------------------------------
(***************************************************************************)
(* Coordinator. The channel given to signal.Notify buffers one signal; the *)
(* runtime drops a signal that finds it full. After Stop none is delivered.*)
(***************************************************************************)
Signal ==
  /\ mpc \notin {"snapshot", "returned"}
  /\ signals < MaxSignals
  /\ signals' = signals + 1
  /\ sigCh' = 1
  /\ UNCHANGED <<mainVars, trackerVars, workerVars, cpc, softShutdown,
                 shutdownCh, cancelled, wg, sem, coordCtx, poolSize>>

(* The goroutine of Start: one receive, then the flag, then the channel.   *)
Receive ==
  /\ cpc = "recv" /\ sigCh = 1
  /\ cpc' = "store" /\ sigCh' = 0
  /\ UNCHANGED <<mainVars, trackerVars, workerVars, signals, softShutdown,
                 shutdownCh, cancelled, wg, sem, coordCtx, poolSize>>

StoreSoft ==
  /\ cpc = "store"
  /\ cpc' = "close" /\ softShutdown' = TRUE
  /\ UNCHANGED <<mainVars, trackerVars, workerVars, sigCh, signals,
                 shutdownCh, cancelled, wg, sem, coordCtx, poolSize>>

CloseShutdown ==
  /\ cpc = "close"
  /\ cpc' = "done" /\ shutdownCh' = TRUE
  /\ UNCHANGED <<mainVars, trackerVars, workerVars, sigCh, signals,
                 softShutdown, cancelled, wg, sem, coordCtx, poolSize>>

CoordStep == Receive \/ StoreSoft \/ CloseShutdown
-----------------------------------------------------------------------------
(* Run has returned and no worker is left: the only state in which nothing *)
(* more has to happen.                                                     *)
Terminated ==
  /\ mpc = "returned" /\ Live = {}
  /\ UNCHANGED vars

Next ==
  \/ MainStep
  \/ \E w \in Worker : WorkerStep(w)
  \/ Signal
  \/ CoordStep
  \/ Terminated

(***************************************************************************)
(* Every goroutine keeps running when it can: the Go scheduler is fair,    *)
(* the stage's timer fires, a bucket with a positive rate gives tokens,    *)
(* and the HTTP client's timeout ends every request. Nobody has to send a  *)
(* signal.                                                                 *)
(***************************************************************************)
Fairness ==
  /\ WF_vars(MainStep)
  /\ \A w \in Worker : WF_vars(WorkerStep(w))
  /\ WF_vars(CoordStep)

Spec == Init /\ [][Next]_vars /\ Fairness
-----------------------------------------------------------------------------
(***************************************************************************)
(* Properties.                                                             *)
(***************************************************************************)

(* Every variable has its type; the WaitGroup's counter is never negative  *)
(* (sync.WaitGroup would panic).                                           *)
MainTypeOK ==
  /\ mpc \in {"top", "spawn", "wait", "drain", "reset", "respawn", "done",
              "snapshot", "returned"}
  /\ stage \in 0 .. NumStages
  /\ entered \in 0 .. NumStages
  /\ spawned \in Nat
  /\ ctx \in Nat /\ coordCtx \in Nat
  /\ cancelled \subseteq Nat
  /\ sem \in [StageIdx -> Nat]

WorkerTypeOK ==
  /\ wpc \in [Worker -> {"idle", "ready", "top", "limit", "acquire", "next",
                         "send", "settle", "release", "exit"}]
  /\ wctx \in [Worker -> Nat]
  /\ sent \in [Worker -> Nat]
  /\ late \in [Worker -> Nat]

OtherTypeOK ==
  /\ requestCount \in Nat /\ settled \in Nat
  /\ recordedStages \subseteq StageIdx
  /\ report \in [total : Nat, settled : Nat, stages : SUBSET StageIdx]
  /\ sigCh \in {0, 1} /\ signals \in Nat
  /\ cpc \in {"recv", "store", "close", "done"}
  /\ softShutdown \in BOOLEAN /\ shutdownCh \in BOOLEAN
  /\ poolSize \in PoolSizes

TypeOK == MainTypeOK /\ WorkerTypeOK /\ OtherTypeOK /\ wg \in Nat

(* The WaitGroup counts the goroutines that have been started and have not *)
(* returned, whichever loop started them, also after it has been replaced. *)
WaitGroupExact == wg = Cardinality(Live)

(* The tracker is reset, the context replaced and the WaitGroup overwritten*)
(* only when no worker is left that could use them.                        *)
ResetQuiescent == mpc = "reset" => Live = {}

(* Acquire finds a free slot and Release a taken one in every reachable    *)
(* state, although two batches share the semaphore of a stage: the         *)
(* semaphore neither limits nor blocks the workers.                        *)
SemaphoreNeverBlocks ==
  \A w \in Worker :
    /\ wpc[w] = "acquire" => sem[StageOf(w)] < Concurrency[StageOf(w)]
    /\ wpc[w] \in Holding => sem[StageOf(w)] > 0

(* A worker sends at most one request after its context was cancelled,     *)
(* however long it was blocked in the limiter or in the HTTP client.       *)
OneLateRequest == \A w \in Worker : late[w] <= 1

(* The workers alive belong to the current stage, or to the second batch   *)
(* of the stage before it; never to an older stage.                        *)
OverlapBound ==
  \A w \in Live :
    \/ StageOf(w) = stage
    \/ StageOf(w) + 1 = stage /\ w[2] = 2

(* The second batch of the last stage is started under a context that is   *)
(* already cancelled and sends nothing.                                    *)
LastBatchSendsNothing ==
  \A w \in Worker :
    StageOf(w) = NumStages - 1 /\ w[2] = 2 => sent[w] = 0

(* After Tracker.Reset the statistics hold nothing older than the stage    *)
(* before the one running, and nothing of a stage not yet entered.         *)
StatsWindow ==
  \A s \in recordedStages : s < entered /\ entered <= s + 2

(* Unless Run stopped at the loop head because of a shutdown, its report   *)
(* is complete: every request counted has its outcome counted, and none is *)
(* in flight behind the caller's back.                                     *)
BrokeOff == entered = stage /\ stage < NumStages
ReportComplete ==
  mpc = "returned" /\ ~BrokeOff =>
    /\ report.total = report.settled
    /\ report.total = requestCount
    /\ InFlight = {}

(* Run implements the abstract StagedRun: stages in order, none entered    *)
(* once softShutdown is set, and an end, at the latest when the stages     *)
(* are exhausted.                                                          *)
Abstract == INSTANCE StagedRun WITH shutdown <- softShutdown,
                                    returned <- (mpc = "returned")
ImplementsStagedRun == Abstract!Spec

(* Every worker goroutine ends, the ones Run did not wait for included.    *)
WorkersExit == <>[](mpc = "returned" /\ Live = {})
-----------------------------------------------------------------------------
(***************************************************************************)
(* The inductive invariant the theorems of EngineProofs rest on.           *)
(***************************************************************************)
InStage == mpc \in {"spawn", "wait", "drain", "reset", "respawn"}
Over    == mpc \in {"done", "snapshot", "returned"}

(* What Run's own variables say to each other.                             *)
PhaseInv ==
  /\ InStage => /\ stage < NumStages
                /\ entered = stage + 1
                /\ spawned <= Concurrency[stage]
  /\ mpc = "top" => entered = stage
  /\ Over => \/ entered = stage /\ (softShutdown \/ stage = NumStages)
             \/ entered = stage + 1 /\ softShutdown
  /\ mpc = "drain" => softShutdown

CoordInv ==
  /\ shutdownCh => softShutdown
  /\ cpc = "close" => softShutdown

(* The context is cancelled once its stage is over, and not renewed after  *)
(* the last one.                                                           *)
ContextInv ==
  /\ mpc \in {"wait", "drain", "reset"} => ctx \in cancelled
  /\ mpc = "respawn" /\ stage + 1 = NumStages => ctx \in cancelled
  /\ stage = NumStages /\ NumStages # 0 => ctx \in cancelled

(* Which workers can be alive at which point of Run, and which can have    *)
(* been started at all.                                                    *)
MayLive(w) ==
  \/ /\ w[1] = stage /\ w[2] = 1
     /\ mpc \in {"wait", "drain"} \/ (mpc = "spawn" /\ w[3] < spawned)
  \/ w[1] = stage /\ w[2] = 2 /\ mpc = "respawn" /\ w[3] < spawned
  \/ /\ w[1] + 1 = stage /\ w[2] = 2
     /\ mpc \in {"top", "spawn", "wait", "drain"} \/ (Over /\ entered = stage)
LiveInv == \A w \in Live : MayLive(w)

Started(w) ==
  \/ w[1] < stage
  \/ /\ w[1] = stage /\ w[2] = 1
     /\ mpc # "top" /\ (mpc = "spawn" => w[3] < spawned)
  \/ w[1] = stage /\ w[2] = 2 /\ mpc = "respawn" /\ w[3] < spawned
StartedInv == \A w \in Worker : wpc[w] # "idle" => Started(w)

(* The counters count.                                                     *)
CountInv == IsFiniteSet(Live) /\ wg = Cardinality(Live)

SemInv == \A s \in StageIdx :
            IsFiniteSet(Holders(s)) /\ sem[s] = Cardinality(Holders(s))

Settling == {w \in Worker : wpc[w] = "settle"}
SettleInv == /\ IsFiniteSet(Settling)
             /\ requestCount = settled + Cardinality(Settling)

(* A worker before its select, or past it, has no late request yet unless  *)
(* its context is cancelled.                                               *)
LateInv == \A w \in Worker :
  /\ late[w] <= 1
  /\ wpc[w] \in {"idle", "ready", "limit", "acquire", "next"} => late[w] = 0
  /\ wctx[w] \notin cancelled => late[w] = 0

LastInv == \A w \in Worker :
  w[1] + 1 = NumStages /\ w[2] = 2 =>
    /\ sent[w] = 0
    /\ wpc[w] \in {"idle", "ready", "top", "exit"}
    /\ wpc[w] = "top" => wctx[w] \in cancelled

WindowInv ==
  /\ StatsWindow
  /\ mpc = "top" /\ stage < NumStages =>
       \A s \in recordedStages : s + 1 = stage
  /\ mpc = "respawn" /\ stage + 1 < NumStages =>
       \A s \in recordedStages : s = stage

ReportInv ==
  mpc = "returned" /\ ~BrokeOff =>
    report.total = requestCount /\ report.settled = settled

TypeInv == MainTypeOK /\ WorkerTypeOK /\ OtherTypeOK

IInv ==
  /\ TypeInv /\ PhaseInv /\ CoordInv /\ ContextInv /\ LiveInv /\ StartedInv
  /\ CountInv /\ SemInv /\ SettleInv /\ LateInv /\ LastInv /\ WindowInv
  /\ ReportInv
-----------------------------------------------------------------------------
(***************************************************************************)
(* What a test says and the code does not do.                              *)
(***************************************************************************)

(* test/engine_test.go: "stats from multiple stages are accumulated (not   *)
(* wiped)". Run resets the tracker between stages.                         *)
StatsAccumulate ==
  mpc = "returned" => report.total >= FoldFunction(LAMBDA a, b : a + b, 0, sent)
=============================================================================
