------------------------------- MODULE Tracker -------------------------------
(***************************************************************************)
(* metrics.Tracker: Record, called by many workers at once, Snapshot and   *)
(* Reset, called by Engine.Run, and LiveSnapshot, for a live display.      *)
(*                                                                         *)
(* Record is not one critical section. Five of its steps are atomic adds   *)
(* that take no lock; the others hold the write lock for one update each.  *)
(* Snapshot holds the read lock throughout, which stops the locked steps   *)
(* of Record but not the atomic ones: what it returns mixes a frozen part  *)
(* and a moving part. Reset runs only when no Record is under way, which   *)
(* is what Engine proves of its own call (ResetQuiescent). LiveSnapshot    *)
(* loads the counters without any lock. Both kinds of snapshot only read,  *)
(* so one at a time is enough.                                             *)
(*                                                                         *)
(* A slice of latencies is a bag, because Snapshot sorts its copy. It has  *)
(* microseconds: Record cuts a duration for the two slices and adds all of *)
(* it to the total and to its stage.                                       *)
(***************************************************************************)
EXTENDS Integers, FiniteSets, LatencyStats, Reports

CONSTANTS
  Recorders,    \* the goroutines that call Record
  Results,      \* the results they may record
  ErrorTypes,   \* the values of ErrorType
  Codes,        \* the status codes; 0 when there was no response
  Durations,    \* the latencies of the results, in nanoseconds
  Stages,       \* the stage indices
  NoErrorType,  \* the empty ErrorType
  MaxRecords    \* bound: calls of Record between two resets

ResultType ==
  [isError : BOOLEAN, errorType : ErrorTypes \cup {NoErrorType},
   code : Codes, latency : Durations, size : Nat, stage : Stages]

ASSUME TrackerAssumption ==
  /\ Results \subseteq ResultType
  /\ Durations \subseteq Nat
  /\ NoErrorType \notin ErrorTypes
  /\ IsFiniteSet(Recorders) /\ IsFiniteSet(ErrorTypes)
  /\ IsFiniteSet(Codes) /\ IsFiniteSet(Durations) /\ IsFiniteSet(Stages)

(* Duration.Microseconds, which cuts, and what the slices may hold of it.  *)
Microseconds(d) == d \div NanosPerMicro
Latencies == {Microseconds(d) : d \in Durations}

VARIABLES
  requestCount, successCount, failureCount, totalDuration, totalBytes,
  latencies,       \* latencies[l]: how often l is in the slice
  windowLatency,   \* the same for the window of the live display
  errorBreakdown, statusCodeDist, stageTimes, stageCounts,
  rpc,             \* the next step of each recorder's Record
  result,          \* the argument of each recorder's Record
  spc,             \* the next step of Snapshot or LiveSnapshot
  stats            \* the Stats under construction, then returned

atomics == <<requestCount, successCount, failureCount, totalDuration,
             totalBytes>>
guarded == <<latencies, windowLatency, errorBreakdown, statusCodeDist,
             stageTimes, stageCounts>>
snapVars == <<spc, stats>>
vars == <<atomics, guarded, rpc, result, snapVars>>

Zero(S) == [x \in S |-> 0]
Weighted(bag) == Total([l \in DOMAIN bag |-> l * bag[l]])

(* The least and the most that durations cut to this bag may add up to.    *)
Least(bag) == Nanos(Weighted(bag))
Most(bag)  == Least(bag) + Cut * Total(bag)

EmptyStats ==
  [total |-> 0, success |-> 0, failure |-> 0, duration |-> 0, bytes |-> 0,
   latencies |-> Zero(Latencies), min |-> 0, max |-> 0,
   mean |-> 0, squares |-> 0,
   percentiles |-> Zero(Percentiles), histogram |-> Zero(Buckets),
   errors |-> Zero(ErrorTypes), codes |-> Zero(Codes)]

NoResult == [isError |-> FALSE, errorType |-> NoErrorType]

Init ==
  /\ requestCount = 0 /\ successCount = 0 /\ failureCount = 0
  /\ totalDuration = 0 /\ totalBytes = 0
  /\ latencies = Zero(Latencies) /\ windowLatency = Zero(Latencies)
  /\ errorBreakdown = Zero(ErrorTypes) /\ statusCodeDist = Zero(Codes)
  /\ stageTimes = Zero(Stages) /\ stageCounts = Zero(Stages)
  /\ rpc = [r \in Recorders |-> "idle"]
  /\ result = [r \in Recorders |-> NoResult]
  /\ spc = "idle" /\ stats = EmptyStats
-----------------------------------------------------------------------------
(***************************************************************************)
(* Record. Locked is the condition of t.mu.Lock(): no reader. The write    *)
(* sections are single steps, so no writer is ever seen holding the lock.  *)
(***************************************************************************)
Quiescent == \A r \in Recorders : rpc[r] = "idle"

(* Mutant of Locked: Snapshot does not take the read lock.                 *)
Unlocked == TRUE

Snapshotting ==
  spc \in {"success", "failure", "duration", "bytes", "maps"}

Locked == ~Snapshotting

Goto(r, from, to) ==
  /\ rpc[r] = from
  /\ rpc' = [rpc EXCEPT ![r] = to]
  /\ UNCHANGED snapVars

(* t.requestCount.Add(1), the first step for the result res.               *)
Count(r) ==
  /\ Goto(r, "idle", "latency")
  /\ requestCount < MaxRecords
  /\ \E res \in Results : result' = [result EXCEPT ![r] = res]
  /\ requestCount' = requestCount + 1
  /\ UNCHANGED <<successCount, failureCount, totalDuration, totalBytes,
                 guarded>>

AppendLatency(r) ==
  /\ Goto(r, "latency", "duration") /\ Locked
  /\ latencies' = [latencies EXCEPT ![Microseconds(result[r].latency)] = @ + 1]
  /\ UNCHANGED <<atomics, windowLatency, errorBreakdown, statusCodeDist,
                 stageTimes, stageCounts, result>>

AddDuration(r) ==
  /\ Goto(r, "duration", "window")
  /\ totalDuration' = totalDuration + result[r].latency
  /\ UNCHANGED <<requestCount, successCount, failureCount, totalBytes,
                 guarded, result>>

(* Mutant of AppendWindow: the window takes the failures only.             *)
AppendFailureWindow(r) ==
  /\ Goto(r, "window", "outcome") /\ Locked
  /\ windowLatency' = [windowLatency EXCEPT ![Microseconds(result[r].latency)]
                         = IF result[r].isError THEN @ + 1 ELSE @]
  /\ UNCHANGED <<atomics, latencies, errorBreakdown, statusCodeDist,
                 stageTimes, stageCounts, result>>

AppendWindow(r) ==
  /\ Goto(r, "window", "outcome") /\ Locked
  /\ windowLatency' = [windowLatency EXCEPT ![Microseconds(result[r].latency)]
                         = @ + 1]
  /\ UNCHANGED <<atomics, latencies, errorBreakdown, statusCodeDist,
                 stageTimes, stageCounts, result>>

(* The two branches of isError; a failure without an ErrorType skips the   *)
(* breakdown.                                                              *)
AddSuccess(r) ==
  /\ Goto(r, "outcome", "code")
  /\ ~result[r].isError
  /\ successCount' = successCount + 1
  /\ UNCHANGED <<requestCount, failureCount, totalDuration, totalBytes,
                 guarded, result>>

AddFailure(r) ==
  /\ Goto(r, "outcome",
          IF result[r].errorType = NoErrorType THEN "code" ELSE "breakdown")
  /\ result[r].isError
  /\ failureCount' = failureCount + 1
  /\ UNCHANGED <<requestCount, successCount, totalDuration, totalBytes,
                 guarded, result>>

CountErrorType(r) ==
  /\ Goto(r, "breakdown", "code") /\ Locked
  /\ errorBreakdown' = [errorBreakdown EXCEPT ![result[r].errorType] = @ + 1]
  /\ UNCHANGED <<atomics, latencies, windowLatency, statusCodeDist,
                 stageTimes, stageCounts, result>>

CountCode(r) ==
  /\ Goto(r, "code", "bytes") /\ Locked
  /\ statusCodeDist' = [statusCodeDist EXCEPT ![result[r].code] = @ + 1]
  /\ UNCHANGED <<atomics, latencies, windowLatency, errorBreakdown,
                 stageTimes, stageCounts, result>>

AddBytes(r) ==
  /\ Goto(r, "bytes", "stage")
  /\ totalBytes' = totalBytes + result[r].size
  /\ UNCHANGED <<requestCount, successCount, failureCount, totalDuration,
                 guarded, result>>

CountStage(r) ==
  /\ Goto(r, "stage", "idle") /\ Locked
  /\ stageTimes' = [stageTimes EXCEPT ![result[r].stage]
                      = @ + result[r].latency]
  /\ stageCounts' = [stageCounts EXCEPT ![result[r].stage] = @ + 1]
  /\ result' = [result EXCEPT ![r] = NoResult]
  /\ UNCHANGED <<atomics, latencies, windowLatency, errorBreakdown,
                 statusCodeDist>>

Record(r) ==
  \/ Count(r) \/ AppendLatency(r) \/ AddDuration(r) \/ AppendWindow(r)
  \/ AddSuccess(r) \/ AddFailure(r) \/ CountErrorType(r) \/ CountCode(r)
  \/ AddBytes(r) \/ CountStage(r)
-----------------------------------------------------------------------------
(***************************************************************************)
(* Snapshot. Every load of an atomic is a step; the copies of what the     *)
(* read lock freezes go with the step that follows or precedes them.       *)
(***************************************************************************)
Snap(from, to, new) ==
  /\ spc = from /\ spc' = to
  /\ stats' = new
  /\ UNCHANGED <<atomics, guarded, rpc, result>>

LoadTotal ==
  Snap("idle", "success", [EmptyStats EXCEPT !.total = requestCount])
LoadSuccess ==
  Snap("success", "failure", [stats EXCEPT !.success = successCount])
LoadFailure ==
  Snap("failure", "duration", [stats EXCEPT !.failure = failureCount])
LoadDuration ==
  LET latCopy == SortedCopy(latencies) IN
  Snap("duration", "bytes",
       [stats EXCEPT !.latencies = latencies,
                     !.min = minOrZero(latCopy), !.max = maxOrZero(latCopy),
                     !.percentiles = CalcPercentiles(latCopy),
                     !.histogram = CalcHistogram(latCopy),
                     !.duration = totalDuration,
                     !.mean = IF stats.total = 0 THEN 0
                              ELSE totalDuration \div stats.total])
LoadBytes ==
  Snap("bytes", "maps", [stats EXCEPT !.bytes = totalBytes])

(* The copies of the maps and, for more than one latency, the deviation.   *)
CopyMaps ==
  LET latCopy == SortedCopy(stats.latencies) IN
  Snap("maps", "done",
       [stats EXCEPT !.errors = errorBreakdown, !.codes = statusCodeDist,
                     !.squares = IF Len(latCopy) <= 1 THEN 0
                                 ELSE SquaredDeviations(latCopy, stats.mean)])

(* The caller is done with the Stats and may call Snapshot again.          *)
Forget ==
  \/ Snap("done", "idle", EmptyStats)
  \/ Snap("live-done", "idle", EmptyStats)

SnapshotStep ==
  \/ LoadTotal \/ LoadSuccess \/ LoadFailure \/ LoadDuration \/ LoadBytes
  \/ CopyMaps \/ Forget
-----------------------------------------------------------------------------
(***************************************************************************)
(* LiveSnapshot. The read lock is held for the copy of the window only.    *)
(***************************************************************************)
LiveTotal ==
  Snap("idle", "live-success", [EmptyStats EXCEPT !.total = requestCount])
LiveSuccess ==
  Snap("live-success", "live-failure",
       [stats EXCEPT !.success = successCount])
LiveFailure ==
  Snap("live-failure", "live-window",
       [stats EXCEPT !.failure = failureCount])
LiveWindow ==
  Snap("live-window", "live-done",
       [stats EXCEPT !.latencies = windowLatency])

LiveStep == LiveTotal \/ LiveSuccess \/ LiveFailure \/ LiveWindow
-----------------------------------------------------------------------------
(***************************************************************************)
(* Reset, under the write lock. The goroutine that calls it also calls     *)
(* Snapshot, so that only a LiveSnapshot can be under way. That one mixes  *)
(* what was before and after the reset: nothing is claimed of it, and the  *)
(* model drops it.                                                         *)
(***************************************************************************)
Clear(failures, breakdown) ==
  /\ Quiescent /\ spc # "done" /\ Locked
  /\ spc' = "idle" /\ stats' = EmptyStats
  /\ requestCount' = 0 /\ successCount' = 0 /\ failureCount' = failures
  /\ totalDuration' = 0 /\ totalBytes' = 0
  /\ latencies' = Zero(Latencies) /\ windowLatency' = Zero(Latencies)
  /\ errorBreakdown' = breakdown /\ statusCodeDist' = Zero(Codes)
  /\ stageTimes' = Zero(Stages) /\ stageCounts' = Zero(Stages)
  /\ UNCHANGED <<rpc, result>>

(* Mutants of Reset: failureCount is forgotten; a map is left nil, which   *)
(* the next Record would panic on.                                         *)
ResetForgetsFailures == Clear(failureCount, Zero(ErrorTypes))
ResetToNilMap == Clear(0, Zero({}))

Reset == Clear(0, Zero(ErrorTypes))

Next ==
  \/ \E r \in Recorders : Record(r)
  \/ SnapshotStep
  \/ LiveStep
  \/ Reset

Spec == Init /\ [][Next]_vars
-----------------------------------------------------------------------------
(* Every variable has its type.                                            *)
TypeOK ==
  /\ \A n \in {requestCount, successCount, failureCount, totalDuration,
               totalBytes} : n \in Nat
  /\ latencies \in [Latencies -> Nat]
  /\ windowLatency \in [Latencies -> Nat]
  /\ errorBreakdown \in [ErrorTypes -> Nat]
  /\ statusCodeDist \in [Codes -> Nat]
  /\ stageTimes \in [Stages -> Nat]
  /\ stageCounts \in [Stages -> Nat]
  /\ rpc \in [Recorders -> {"idle", "latency", "duration", "window",
        "outcome", "breakdown", "code", "bytes", "stage"}]
  /\ \A r \in Recorders : result[r] = NoResult \/ result[r] \in Results
  /\ spc \in {"idle", "success", "failure", "duration", "bytes", "maps",
              "done", "live-success", "live-failure", "live-window",
              "live-done"}
  /\ stats \in [total : Nat, success : Nat, failure : Nat, duration : Nat,
        bytes : Nat, latencies : [Latencies -> Nat], min : Nat, max : Nat,
        mean : Nat, squares : Nat,
        percentiles : [Percentiles -> Nat], histogram : [Buckets -> Nat],
        errors : [ErrorTypes -> Nat], codes : [Codes -> Nat]]

(* When no Record is under way the counters, the slice and the maps all    *)
(* agree on how many requests there were, and the total duration and the   *)
(* stages on how long they took; the slice too, but for the less than a    *)
(* microsecond that each of its latencies was cut by.                      *)
QuiescentExact ==
  Quiescent =>
    /\ requestCount = successCount + failureCount
    /\ requestCount = Total(latencies)
    /\ requestCount = Total(statusCodeDist)
    /\ requestCount = Total(stageCounts)
    /\ Total(errorBreakdown) <= failureCount
    /\ totalDuration = Total(stageTimes)
    /\ Least(latencies) <= totalDuration /\ totalDuration <= Most(latencies)
    /\ windowLatency = latencies

(* A snapshot taken while workers record is consistent in one direction:   *)
(* the status codes never outnumber the outcomes, the outcomes never       *)
(* outnumber the latencies, these never outnumber the requests, and no     *)
(* more errors are broken down than are counted.                           *)
SnapshotOrdered ==
  spc = "done" =>
    /\ Total(stats.codes) <= stats.success + stats.failure
    /\ stats.success + stats.failure <= Total(stats.latencies)
    /\ Total(stats.latencies) <= stats.total
    /\ Total(stats.errors) <= stats.failure

(* LiveSnapshot promises less, as its caller may see more outcomes than    *)
(* requests; but, unless a Reset falls into it, the outcomes never         *)
(* outnumber the latencies whose average it shows.                         *)
LiveOrdered ==
  spc = "live-done" =>
    stats.success + stats.failure <= Total(stats.latencies)

(* The mean a snapshot reports, its total duration over its total count,   *)
(* exceeds the maximum it reports by less than a microsecond, by which     *)
(* that maximum may have been cut, although the one comes from atomics     *)
(* and the other from the slice; so that the standard deviation, taken     *)
(* from that mean, is bounded by the latencies too.                        *)
MeanNearMax ==
  spc = "done" =>
    /\ stats.duration <= (Nanos(stats.max) + Cut) * stats.total
    /\ DeviationCorrect(stats.latencies, stats.squares, stats.mean,
                        stats.min, stats.max)

(* The percentiles and the histogram of a snapshot are those of the        *)
(* latencies it copied; BuildHistogram differs at the thresholds only.     *)
PercentilesRight ==
  spc = "done" => /\ PercentilesCorrect(stats.latencies, stats.percentiles)
                  /\ 100 * stats.min <= stats.percentiles[50]
                  /\ stats.percentiles[99] <= 100 * stats.max
HistogramRight ==
  spc = "done" =>
    /\ HistogramCorrect(stats.latencies, stats.histogram)
    /\ HistogramsAgree(stats.latencies, stats.histogram,
                       BuildHistogram(SortedCopy(stats.latencies)))

(* Whatever moves under a snapshot, the reports made of it divide by zero  *)
(* nowhere but in the one place ReportsCorrect excepts, and show shares of *)
(* one whole.                                                              *)
SharesRight == spc = "done" => ReportsCorrect(toReporterStats(stats))
=============================================================================
