----------------------------- MODULE TrackerProofs ----------------------------
(***************************************************************************)
(* Proofs about Tracker for every number of recorders, all results they    *)
(* may record and every bound. The inductive invariant says, for each      *)
(* counter, which of the records that are under way it has taken; all else *)
(* follows from the order of Record's steps and from what the read lock of *)
(* Snapshot freezes.                                                       *)
(***************************************************************************)
EXTENDS Tracker, LatencyStatsProofs, TLAPS

-----------------------------------------------------------------------------
(***************************************************************************)
(* Where a recorder is, and what it has added so far.                      *)
(***************************************************************************)

(* The steps of Record at which a recorder may be.                         *)
Places == {"idle", "latency", "duration", "window", "outcome", "breakdown",
           "code", "bytes", "stage"}

(* Past the counting of the outcome.                                       *)
Decided == {"breakdown", "code", "bytes", "stage"}

(* Past the window of the live display.                                    *)
Shown   == Decided \cup {"outcome"}

(* Past the addition of the duration.                                      *)
Timed   == Shown \cup {"window"}

(* Past the append to the latencies.                                       *)
Listed  == Timed \cup {"duration"}

(* Past the count of the request: anywhere but idle.                       *)
Started == Listed \cup {"latency"}

(* Past the count of the status code.                                      *)
Coded   == {"bytes", "stage"}

(* Listed, and not yet in the window.                                      *)
Unshown == {"duration", "window"}

(* How many recorders are at one of the steps S.                           *)
InPlace(pc, S) == Total([r \in Recorders |-> IF pc[r] \in S THEN 1 ELSE 0])

(* The sum of the durations that the recorders at the steps S record.      *)
Elapsed(pc, res, S) ==
  Total([r \in Recorders |-> IF pc[r] \in S THEN res[r].latency ELSE 0])

(* How many recorders have listed the latency l but not shown it.          *)
Missing(pc, res, l) ==
  Total([r \in Recorders |->
           IF pc[r] \in Unshown /\ Microseconds(res[r].latency) = l
           THEN 1 ELSE 0])

(* The types of the counters, maps and recorders; a recorder that is under *)
(* way has a result, and one about to count an error type has one.         *)
RecordTypes ==
  /\ requestCount \in Nat /\ successCount \in Nat /\ failureCount \in Nat
  /\ totalDuration \in Nat /\ totalBytes \in Nat
  /\ latencies \in [Latencies -> Nat]
  /\ windowLatency \in [Latencies -> Nat]
  /\ errorBreakdown \in [ErrorTypes -> Nat]
  /\ statusCodeDist \in [Codes -> Nat]
  /\ stageTimes \in [Stages -> Nat]
  /\ stageCounts \in [Stages -> Nat]
  /\ rpc \in [Recorders -> Places]
  /\ result \in [Recorders -> Results \cup {NoResult}]
  /\ \A r \in Recorders : rpc[r] # "idle" => result[r] \in Results
  /\ \A r \in Recorders : rpc[r] = "breakdown" =>
       result[r].errorType # NoErrorType

(* The type of the Stats under construction.                               *)
StatsType ==
  stats \in [total : Nat, success : Nat, failure : Nat, duration : Nat,
        bytes : Nat, latencies : [Latencies -> Nat], min : Nat, max : Nat,
        mean : Nat, squares : Nat,
        percentiles : [Percentiles -> Nat], histogram : [Buckets -> Nat],
        errors : [ErrorTypes -> Nat], codes : [Codes -> Nat]]

(* The steps of Snapshot and of LiveSnapshot.                              *)
SnapPlaces == {"idle", "success", "failure", "duration", "bytes", "maps",
               "done", "live-success", "live-failure", "live-window",
               "live-done"}

(* The part of the invariant that types the variables.                     *)
Types == RecordTypes /\ StatsType /\ spc \in SnapPlaces

(* Every counter is the number of the records that are complete, which the *)
(* stage counts are, and of those that are past its step. The counts of    *)
(* the error types miss those of failures without one.                     *)
Counting ==
  /\ requestCount = Total(stageCounts) + InPlace(rpc, Started)
  /\ Total(latencies) = Total(stageCounts) + InPlace(rpc, Listed)
  /\ Total(windowLatency) = Total(stageCounts) + InPlace(rpc, Shown)
  /\ successCount + failureCount = Total(stageCounts) + InPlace(rpc, Decided)
  /\ Total(statusCodeDist) = Total(stageCounts) + InPlace(rpc, Coded)
  /\ Total(errorBreakdown) + InPlace(rpc, {"breakdown"}) <= failureCount

(* The durations of the records that are complete or past the append.      *)
ListedTime == Total(stageTimes) + Elapsed(rpc, result, Listed)

(* The same for the sums of the durations; the slice has what is left of   *)
(* them when each is cut to microseconds.                                  *)
Timing ==
  /\ totalDuration = Total(stageTimes) + Elapsed(rpc, result, Timed)
  /\ Least(latencies) <= ListedTime /\ ListedTime <= Most(latencies)

(* A latency is missing from the window as often as a recorder stands      *)
(* between the two appends with it.                                        *)
Windowing ==
  \A l \in Latencies :
    latencies[l] = windowLatency[l] + Missing(rpc, result, l)

(* What holds at every moment, however the workers' steps interleave.      *)
Bookkeeping == Counting /\ Timing /\ Windowing

-----------------------------------------------------------------------------
(***************************************************************************)
(* Types.                                                                  *)
(***************************************************************************)

(* A duration cut to microseconds loses less than one of them.             *)
LEMMA CutFacts ==
  ASSUME NEW d \in Nat
  PROVE  /\ Microseconds(d) \in Nat
         /\ Nanos(Microseconds(d)) \in Nat /\ Cut \in Nat
         /\ Nanos(Microseconds(d)) <= d
         /\ d <= Nanos(Microseconds(d)) + Cut
<1>1. NanosPerMicro \in Nat /\ NanosPerMicro > 0
  BY LatencyAssumption
<1>2. \A n, k \in Nat : k > 0 => /\ n \div k \in Nat
                                 /\ k * (n \div k) \in Nat
                                 /\ k * (n \div k) <= n
                                 /\ n <= k * (n \div k) + (k - 1)
  OBVIOUS
<1>3. QED
  BY <1>1, <1>2 DEF Microseconds, Nanos, Cut

(* The latencies are finitely many natural numbers.                        *)
LEMMA LatencyFacts == Latencies \subseteq Nat /\ IsFiniteSet(Latencies)
<1>1. Durations \subseteq Nat /\ IsFiniteSet(Durations)
  BY TrackerAssumption
<1>2. Latencies \subseteq Nat
  BY <1>1, CutFacts DEF Latencies
<1>3. IsFiniteSet(Latencies)
  <2> DEFINE cut == [d \in Durations |-> Microseconds(d)]
  <2>1. cut \in Surjection(Durations, Latencies)
    BY DEF Surjection, Latencies
  <2>2. QED
    BY <1>1, <2>1, FS_Surjection
<1>4. QED
  BY <1>2, <1>3

(* The fields of a result.                                                 *)
LEMMA ResultFacts ==
  ASSUME NEW res \in Results
  PROVE  /\ res.isError \in BOOLEAN
         /\ res.errorType \in ErrorTypes \cup {NoErrorType}
         /\ res.code \in Codes
         /\ res.latency \in Nat /\ Microseconds(res.latency) \in Latencies
         /\ res.size \in Nat /\ res.stage \in Stages
BY TrackerAssumption DEF ResultType, Latencies

(* A step of Record moves one recorder.                                    *)
LEMMA MoveType ==
  ASSUME NEW r \in Recorders, NEW from, NEW to \in Places, Goto(r, from, to),
         rpc \in [Recorders -> Places]
  PROVE  /\ rpc' \in [Recorders -> Places]
         /\ rpc[r] = from /\ rpc'[r] = to
         /\ \A q \in Recorders : q # r => rpc'[q] = rpc[q]
BY DEF Goto

(* Initially the counters, maps and recorders have their types.            *)
LEMMA RecordTypesInit == Init => RecordTypes
BY DEF Init, RecordTypes, Zero, Places, NoResult

(* Each step of Record keeps the types: what it counts by is a key of its  *)
(* map.                                                                    *)
LEMMA RecordTypesKept ==
  ASSUME RecordTypes, NEW r \in Recorders, Record(r)
  PROVE  RecordTypes'
<1> USE DEF RecordTypes, atomics, guarded
<1>1. CASE Count(r)
  <2>1. "latency" \in Places /\ "latency" # "breakdown"
    BY DEF Places
  <2>2. /\ rpc' \in [Recorders -> Places] /\ rpc'[r] = "latency"
        /\ \A q \in Recorders : q # r => rpc'[q] = rpc[q]
    BY <1>1, <2>1, MoveType DEF Count
  <2>3. PICK res \in Results : result' = [result EXCEPT ![r] = res]
    BY <1>1 DEF Count
  <2>4. /\ result' \in [Recorders -> Results \cup {NoResult}]
        /\ result'[r] \in Results
        /\ \A q \in Recorders : q # r => result'[q] = result[q]
    BY <2>3
  <2>5. requestCount' \in Nat
    BY <1>1 DEF Count
  <2>6. QED
    BY <1>1, <2>1, <2>2, <2>4, <2>5 DEF Count
<1>2. CASE AppendLatency(r)
  <2>1. "duration" \in Places /\ "duration" # "breakdown" /\ "latency" # "idle"
    BY DEF Places
  <2>2. /\ rpc' \in [Recorders -> Places] /\ rpc'[r] = "duration"
        /\ rpc[r] = "latency"
        /\ \A q \in Recorders : q # r => rpc'[q] = rpc[q]
    BY <1>2, <2>1, MoveType DEF AppendLatency
  <2>3. result[r] \in Results
    BY <2>1, <2>2
  <2>4. latencies' \in [Latencies -> Nat]
    <3>1. Microseconds(result[r].latency) \in Latencies
      BY <2>3, ResultFacts
    <3>2. QED
      BY <1>2, <3>1 DEF AppendLatency
  <2>5. QED
    BY <1>2, <2>1, <2>2, <2>3, <2>4 DEF AppendLatency
<1>3. CASE AddDuration(r)
  <2>1. "window" \in Places /\ "window" # "breakdown" /\ "duration" # "idle"
    BY DEF Places
  <2>2. /\ rpc' \in [Recorders -> Places] /\ rpc'[r] = "window"
        /\ rpc[r] = "duration"
        /\ \A q \in Recorders : q # r => rpc'[q] = rpc[q]
    BY <1>3, <2>1, MoveType DEF AddDuration
  <2>3. result[r] \in Results
    BY <2>1, <2>2
  <2>4. totalDuration' \in Nat
    <3>1. result[r].latency \in Nat
      BY <2>3, ResultFacts
    <3>2. QED
      BY <1>3, <3>1 DEF AddDuration
  <2>5. QED
    BY <1>3, <2>1, <2>2, <2>3, <2>4 DEF AddDuration
<1>4. CASE AppendWindow(r)
  <2>1. "outcome" \in Places /\ "outcome" # "breakdown" /\ "window" # "idle"
    BY DEF Places
  <2>2. /\ rpc' \in [Recorders -> Places] /\ rpc'[r] = "outcome"
        /\ rpc[r] = "window"
        /\ \A q \in Recorders : q # r => rpc'[q] = rpc[q]
    BY <1>4, <2>1, MoveType DEF AppendWindow
  <2>3. result[r] \in Results
    BY <2>1, <2>2
  <2>4. windowLatency' \in [Latencies -> Nat]
    <3>1. Microseconds(result[r].latency) \in Latencies
      BY <2>3, ResultFacts
    <3>2. QED
      BY <1>4, <3>1 DEF AppendWindow
  <2>5. QED
    BY <1>4, <2>1, <2>2, <2>3, <2>4 DEF AppendWindow
<1>5. CASE AddSuccess(r)
  <2>1. "code" \in Places /\ "code" # "breakdown" /\ "outcome" # "idle"
    BY DEF Places
  <2>2. /\ rpc' \in [Recorders -> Places] /\ rpc'[r] = "code"
        /\ rpc[r] = "outcome"
        /\ \A q \in Recorders : q # r => rpc'[q] = rpc[q]
    BY <1>5, <2>1, MoveType DEF AddSuccess
  <2>3. result[r] \in Results
    BY <2>1, <2>2
  <2>4. successCount' \in Nat
    BY <1>5 DEF AddSuccess
  <2>5. QED
    BY <1>5, <2>1, <2>2, <2>3, <2>4 DEF AddSuccess
<1>6. CASE AddFailure(r)
  <2> DEFINE to == IF result[r].errorType = NoErrorType
                   THEN "code" ELSE "breakdown"
  <2>1. to \in Places
    BY DEF Places
  <2>2. "outcome" # "idle" /\ "code" # "breakdown"
    OBVIOUS
  <2>3. /\ rpc' \in [Recorders -> Places] /\ rpc'[r] = to
        /\ rpc[r] = "outcome"
        /\ \A q \in Recorders : q # r => rpc'[q] = rpc[q]
    BY <1>6, <2>1, MoveType DEF AddFailure
  <2>4. result[r] \in Results
    BY <2>2, <2>3
  <2>5. rpc'[r] = "breakdown" => result[r].errorType # NoErrorType
    BY <2>2, <2>3
  <2>6. failureCount' \in Nat
    BY <1>6 DEF AddFailure
  <2> HIDE DEF to
  <2>7. QED
    BY <1>6, <2>3, <2>4, <2>5, <2>6 DEF AddFailure
<1>7. CASE CountErrorType(r)
  <2>1. "code" \in Places /\ "code" # "breakdown" /\ "breakdown" # "idle"
    BY DEF Places
  <2>2. /\ rpc' \in [Recorders -> Places] /\ rpc'[r] = "code"
        /\ rpc[r] = "breakdown"
        /\ \A q \in Recorders : q # r => rpc'[q] = rpc[q]
    BY <1>7, <2>1, MoveType DEF CountErrorType
  <2>3. result[r] \in Results
    BY <2>1, <2>2
  <2>4. errorBreakdown' \in [ErrorTypes -> Nat]
    <3>1. result[r].errorType \in ErrorTypes
      BY <2>2, <2>3, ResultFacts
    <3>2. QED
      BY <1>7, <3>1 DEF CountErrorType
  <2>5. QED
    BY <1>7, <2>1, <2>2, <2>3, <2>4 DEF CountErrorType
<1>8. CASE CountCode(r)
  <2>1. "bytes" \in Places /\ "bytes" # "breakdown" /\ "code" # "idle"
    BY DEF Places
  <2>2. /\ rpc' \in [Recorders -> Places] /\ rpc'[r] = "bytes"
        /\ rpc[r] = "code"
        /\ \A q \in Recorders : q # r => rpc'[q] = rpc[q]
    BY <1>8, <2>1, MoveType DEF CountCode
  <2>3. result[r] \in Results
    BY <2>1, <2>2
  <2>4. statusCodeDist' \in [Codes -> Nat]
    <3>1. result[r].code \in Codes
      BY <2>3, ResultFacts
    <3>2. QED
      BY <1>8, <3>1 DEF CountCode
  <2>5. QED
    BY <1>8, <2>1, <2>2, <2>3, <2>4 DEF CountCode
<1>9. CASE AddBytes(r)
  <2>1. "stage" \in Places /\ "stage" # "breakdown" /\ "bytes" # "idle"
    BY DEF Places
  <2>2. /\ rpc' \in [Recorders -> Places] /\ rpc'[r] = "stage"
        /\ rpc[r] = "bytes"
        /\ \A q \in Recorders : q # r => rpc'[q] = rpc[q]
    BY <1>9, <2>1, MoveType DEF AddBytes
  <2>3. result[r] \in Results
    BY <2>1, <2>2
  <2>4. totalBytes' \in Nat
    <3>1. result[r].size \in Nat
      BY <2>3, ResultFacts
    <3>2. QED
      BY <1>9, <3>1 DEF AddBytes
  <2>5. QED
    BY <1>9, <2>1, <2>2, <2>3, <2>4 DEF AddBytes
<1>10. CASE CountStage(r)
  <2>1. "idle" \in Places /\ "idle" # "breakdown" /\ "stage" # "idle"
    BY DEF Places
  <2>2. /\ rpc' \in [Recorders -> Places] /\ rpc'[r] = "idle"
        /\ rpc[r] = "stage"
        /\ \A q \in Recorders : q # r => rpc'[q] = rpc[q]
    BY <1>10, <2>1, MoveType DEF CountStage
  <2>3. result[r] \in Results
    BY <2>1, <2>2
  <2>4. /\ stageTimes' \in [Stages -> Nat] /\ stageCounts' \in [Stages -> Nat]
    <3>1. result[r].stage \in Stages /\ result[r].latency \in Nat
      BY <2>3, ResultFacts
    <3>2. QED
      BY <1>10, <3>1 DEF CountStage
  <2>5. /\ result' \in [Recorders -> Results \cup {NoResult}]
        /\ \A q \in Recorders : q # r => result'[q] = result[q]
    BY <1>10 DEF CountStage
  <2>6. QED
    BY <1>10, <2>1, <2>2, <2>4, <2>5 DEF CountStage
<1>11. QED
  BY <1>1, <1>2, <1>3, <1>4, <1>5, <1>6, <1>7, <1>8, <1>9, <1>10 DEF Record

(* A snapshot changes nothing but its own Stats.                           *)
LEMMA SnapKeeps ==
  ASSUME SnapshotStep \/ LiveStep
  PROVE  UNCHANGED <<atomics, guarded, rpc, result>>
BY DEF SnapshotStep, LiveStep, LoadTotal, LoadSuccess, LoadFailure,
       LoadDuration, LoadBytes, CopyMaps, Forget, LiveTotal, LiveSuccess,
       LiveFailure, LiveWindow, Snap

(* Every step keeps the types of the counters, maps and recorders.         *)
LEMMA RecordTypesNext == RecordTypes /\ [Next]_vars => RecordTypes'
<1> SUFFICES ASSUME RecordTypes, [Next]_vars
             PROVE  RecordTypes'
  OBVIOUS
<1>1. ASSUME NEW r \in Recorders, Record(r)
      PROVE  RecordTypes'
  BY <1>1, RecordTypesKept
<1>2. ASSUME UNCHANGED <<atomics, guarded, rpc, result>>
      PROVE  RecordTypes'
  BY <1>2 DEF RecordTypes, atomics, guarded
<1>3. CASE SnapshotStep \/ LiveStep
  BY <1>2, <1>3, SnapKeeps
<1>4. CASE Reset
  BY <1>4 DEF Reset, Clear, RecordTypes, Zero, Quiescent
<1>5. CASE UNCHANGED vars
  BY <1>2, <1>5 DEF vars
<1>6. QED
  BY <1>1, <1>3, <1>4, <1>5 DEF Next

(* The latencies and the window are bags.                                  *)
LEMMA BagOfLatencies ==
  ASSUME NEW bag \in [Latencies -> Nat]
  PROVE  IsBag(bag) /\ DOMAIN bag = Latencies
BY LatencyFacts DEF IsBag

(* The Stats a snapshot starts from has its type.                          *)
LEMMA EmptyStatsType == EmptyStats \in
  [total : Nat, success : Nat, failure : Nat, duration : Nat,
   bytes : Nat, latencies : [Latencies -> Nat], min : Nat, max : Nat,
   mean : Nat, squares : Nat,
   percentiles : [Percentiles -> Nat], histogram : [Buckets -> Nat],
   errors : [ErrorTypes -> Nat], codes : [Codes -> Nat]]
BY DEF EmptyStats, Zero

(* A percentile is a natural number, also of no data.                      *)
LEMMA PercentilesType ==
  ASSUME NEW bag, IsBag(bag)
  PROVE  CalcPercentiles(SortedCopy(bag)) \in [Percentiles -> Nat]
<1>1. ASSUME NEW p \in Percentiles
      PROVE  Percentile(SortedCopy(bag), p) \in Nat
  <2>1. Total(bag) \in Nat /\ (SortedCopy(bag) = <<>> <=> Total(bag) = 0)
    BY BagPart, SortedShape
  <2>2. CASE Total(bag) = 0
    <3>1. SortedCopy(bag) = <<>>
      BY <2>1, <2>2
    <3>2. QED
      BY <3>1 DEF Percentile
  <2>3. CASE Total(bag) # 0
    <3>1. Total(bag) > 0
      BY <2>1, <2>3
    <3>2. QED
      BY <3>1, PercentileBounds
  <2>4. QED
    BY <2>2, <2>3
<1>2. QED
  BY <1>1 DEF CalcPercentiles

(* What the step of Snapshot under the copy of the latencies sets.         *)
LEMMA LoadDurationStats ==
  ASSUME RecordTypes, StatsType, LoadDuration
  PROVE  /\ StatsType'
         /\ stats'.total = stats.total /\ stats'.success = stats.success
         /\ stats'.failure = stats.failure /\ stats'.latencies = latencies
         /\ stats'.min = minOrZero(SortedCopy(latencies))
         /\ stats'.max = maxOrZero(SortedCopy(latencies))
         /\ stats'.percentiles = CalcPercentiles(SortedCopy(latencies))
         /\ stats'.histogram = CalcHistogram(SortedCopy(latencies))
         /\ stats'.duration = totalDuration
         /\ stats'.mean = IF stats.total = 0 THEN 0
                          ELSE totalDuration \div stats.total
<1> DEFINE data == SortedCopy(latencies)
           lo == minOrZero(data)
           hi == maxOrZero(data)
           per == CalcPercentiles(data)
           hist == CalcHistogram(data)
           mean == IF stats.total = 0 THEN 0
                   ELSE totalDuration \div stats.total
<1>1. IsBag(latencies)
  BY BagOfLatencies DEF RecordTypes
<1>2. lo \in Nat /\ hi \in Nat
  BY <1>1, EndsBound
<1>3. per \in [Percentiles -> Nat] /\ hist \in [Buckets -> Nat]
  BY <1>1, PercentilesType, HistogramParts
<1>4. mean \in Nat
  <2>1. stats.total \in Nat /\ totalDuration \in Nat
    BY DEF RecordTypes, StatsType
  <2>2. \A a, b \in Nat : b # 0 => a \div b \in Nat
    OBVIOUS
  <2>3. QED
    BY <2>1, <2>2
<1>5. totalDuration \in Nat /\ latencies \in [Latencies -> Nat]
  BY DEF RecordTypes
<1>6. stats' = [stats EXCEPT !.latencies = latencies, !.min = lo, !.max = hi,
                   !.percentiles = per, !.histogram = hist,
                   !.duration = totalDuration, !.mean = mean]
  BY DEF LoadDuration, Snap
<1> HIDE DEF data, lo, hi, per, hist, mean
<1>7. StatsType'
  BY <1>2, <1>3, <1>4, <1>5, <1>6 DEF StatsType
<1>8. /\ stats'.total = stats.total /\ stats'.success = stats.success
      /\ stats'.failure = stats.failure /\ stats'.latencies = latencies
      /\ stats'.min = lo /\ stats'.max = hi
      /\ stats'.percentiles = per /\ stats'.histogram = hist
      /\ stats'.duration = totalDuration /\ stats'.mean = mean
  BY <1>6 DEF StatsType
<1>9. QED
  BY <1>7, <1>8 DEF data, lo, hi, per, hist, mean

(* What the last step of Snapshot sets.                                    *)
LEMMA CopyMapsStats ==
  ASSUME RecordTypes, StatsType, CopyMaps
  PROVE  /\ StatsType'
         /\ stats'.total = stats.total /\ stats'.success = stats.success
         /\ stats'.failure = stats.failure
         /\ stats'.latencies = stats.latencies
         /\ stats'.min = stats.min /\ stats'.max = stats.max
         /\ stats'.percentiles = stats.percentiles
         /\ stats'.histogram = stats.histogram
         /\ stats'.duration = stats.duration /\ stats'.mean = stats.mean
         /\ stats'.errors = errorBreakdown /\ stats'.codes = statusCodeDist
         /\ stats'.squares =
              IF Len(SortedCopy(stats.latencies)) <= 1 THEN 0
              ELSE SquaredDeviations(SortedCopy(stats.latencies), stats.mean)
<1> DEFINE squares ==
             IF Len(SortedCopy(stats.latencies)) <= 1 THEN 0
             ELSE SquaredDeviations(SortedCopy(stats.latencies), stats.mean)
<1>1. IsBag(stats.latencies) /\ stats.mean \in Nat
  BY BagOfLatencies DEF StatsType
<1>2. squares \in Nat
  BY <1>1, SquaresNat
<1>3. stats' = [stats EXCEPT !.errors = errorBreakdown,
                   !.codes = statusCodeDist, !.squares = squares]
  BY DEF CopyMaps, Snap
<1>4. /\ errorBreakdown \in [ErrorTypes -> Nat]
      /\ statusCodeDist \in [Codes -> Nat]
  BY DEF RecordTypes
<1> HIDE DEF squares
<1>5. StatsType'
  BY <1>2, <1>3, <1>4 DEF StatsType
<1>6. /\ stats'.total = stats.total /\ stats'.success = stats.success
      /\ stats'.failure = stats.failure
      /\ stats'.latencies = stats.latencies
      /\ stats'.min = stats.min /\ stats'.max = stats.max
      /\ stats'.percentiles = stats.percentiles
      /\ stats'.histogram = stats.histogram
      /\ stats'.duration = stats.duration /\ stats'.mean = stats.mean
      /\ stats'.errors = errorBreakdown /\ stats'.codes = statusCodeDist
      /\ stats'.squares = squares
  BY <1>3 DEF StatsType
<1>7. QED
  BY <1>5, <1>6 DEF squares

(* Initially every variable has its type.                                  *)
LEMMA TypesInit == Init => Types
BY RecordTypesInit, EmptyStatsType DEF Init, Types, StatsType, SnapPlaces

(* Every step keeps the types.                                             *)
LEMMA TypesNext == Types /\ [Next]_vars => Types'
<1> SUFFICES ASSUME Types, [Next]_vars
             PROVE  Types'
  OBVIOUS
<1>1. RecordTypes'
  BY RecordTypesNext DEF Types
<1>2. RecordTypes /\ StatsType /\ spc \in SnapPlaces
  BY DEF Types
<1>3. ASSUME NEW r \in Recorders, Record(r)
      PROVE  UNCHANGED snapVars
  BY <1>3 DEF Record, Count, AppendLatency, AddDuration, AppendWindow,
     AddSuccess, AddFailure, CountErrorType, CountCode, AddBytes, CountStage,
     Goto
<1>4. ASSUME UNCHANGED snapVars
      PROVE  StatsType' /\ spc' \in SnapPlaces
  BY <1>2, <1>4 DEF snapVars, StatsType
<1>5. CASE LoadDuration
  <2>1. spc' = "bytes"
    BY <1>5 DEF LoadDuration, Snap
  <2>2. QED
    BY <1>1, <1>2, <1>5, <2>1, LoadDurationStats DEF Types, SnapPlaces
<1>6. CASE CopyMaps
  <2>1. spc' = "done"
    BY <1>6 DEF CopyMaps, Snap
  <2>2. QED
    BY <1>1, <1>2, <1>6, <2>1, CopyMapsStats DEF Types, SnapPlaces
<1>7. CASE LoadTotal \/ LiveTotal
  <2>1. stats' = [EmptyStats EXCEPT !.total = requestCount]
    BY <1>7 DEF LoadTotal, LiveTotal, Snap
  <2>2. StatsType'
    BY <1>2, <2>1, EmptyStatsType DEF StatsType, RecordTypes
  <2>3. spc' \in SnapPlaces
    BY <1>7 DEF LoadTotal, LiveTotal, Snap, SnapPlaces
  <2>4. QED
    BY <1>1, <2>2, <2>3 DEF Types
<1>8. CASE LoadSuccess \/ LiveSuccess
  <2>1. stats' = [stats EXCEPT !.success = successCount]
    BY <1>8 DEF LoadSuccess, LiveSuccess, Snap
  <2>2. StatsType'
    BY <1>2, <2>1 DEF StatsType, RecordTypes
  <2>3. spc' \in SnapPlaces
    BY <1>8 DEF LoadSuccess, LiveSuccess, Snap, SnapPlaces
  <2>4. QED
    BY <1>1, <2>2, <2>3 DEF Types
<1>9. CASE LoadFailure \/ LiveFailure
  <2>1. stats' = [stats EXCEPT !.failure = failureCount]
    BY <1>9 DEF LoadFailure, LiveFailure, Snap
  <2>2. StatsType'
    BY <1>2, <2>1 DEF StatsType, RecordTypes
  <2>3. spc' \in SnapPlaces
    BY <1>9 DEF LoadFailure, LiveFailure, Snap, SnapPlaces
  <2>4. QED
    BY <1>1, <2>2, <2>3 DEF Types
<1>10. CASE LoadBytes
  <2>1. stats' = [stats EXCEPT !.bytes = totalBytes] /\ spc' = "maps"
    BY <1>10 DEF LoadBytes, Snap
  <2>2. StatsType'
    BY <1>2, <2>1 DEF StatsType, RecordTypes
  <2>3. QED
    BY <1>1, <2>1, <2>2 DEF Types, SnapPlaces
<1>11. CASE LiveWindow
  <2>1. stats' = [stats EXCEPT !.latencies = windowLatency]
        /\ spc' = "live-done"
    BY <1>11 DEF LiveWindow, Snap
  <2>2. StatsType'
    BY <1>2, <2>1 DEF StatsType, RecordTypes
  <2>3. QED
    BY <1>1, <2>1, <2>2 DEF Types, SnapPlaces
<1>12. CASE Forget \/ Reset
  <2>1. stats' = EmptyStats /\ spc' = "idle"
    BY <1>12 DEF Forget, Reset, Clear, Snap
  <2>2. QED
    BY <1>1, <2>1, EmptyStatsType DEF Types, StatsType, SnapPlaces
<1>13. CASE UNCHANGED vars
  BY <1>1, <1>4, <1>13 DEF vars, snapVars, Types
<1>14. QED
  BY <1>1, <1>3, <1>4, <1>5, <1>6, <1>7, <1>8, <1>9, <1>10, <1>11, <1>12,
     <1>13 DEF Next, SnapshotStep, LiveStep, Types

(* The types are an invariant.                                             *)
LEMMA TypesInvariant == Spec => []Types
BY TypesInit, TypesNext, PTL DEF Spec

(* Every variable of the tracker has its type, for any number of workers   *)
(* and whatever they record: no counter and no reported statistic is ever  *)
(* negative, and no map is ever counted up at a key it cannot have.        *)
THEOREM TypeCorrect == Spec => []TypeOK
<1>1. Types => TypeOK
  BY DEF Types, RecordTypes, StatsType, SnapPlaces, Places, TypeOK
<1>2. QED
  BY <1>1, TypesInvariant, PTL

-----------------------------------------------------------------------------
(***************************************************************************)
(* Totals over recorders.                                                  *)
(***************************************************************************)

(* What is cleared has the total 0.                                        *)
LEMMA TotalZero ==
  ASSUME NEW D, IsFiniteSet(D)
  PROVE  Total(Zero(D)) = 0
<1>1. Zero(D) \in [D -> Int] /\ \A x \in D : Zero(D)[x] = 0
  BY DEF Zero
<1>2. Part(Zero(D), D) = 0
  BY <1>1, PartZero
<1>3. QED
  BY <1>1, <1>2, TotalIsPart

(* One more latency l adds l to the sum of the latencies.                  *)
LEMMA WeightedAdd ==
  ASSUME NEW bag \in [Latencies -> Nat], NEW l \in Latencies
  PROVE  /\ Weighted([bag EXCEPT ![l] = @ + 1]) = Weighted(bag) + l
         /\ Weighted(bag) \in Nat
<1> DEFINE more == [bag EXCEPT ![l] = @ + 1]
           f == [x \in Latencies |-> x * bag[x]]
           g == [x \in Latencies |-> x * more[x]]
<1>1. Latencies \subseteq Nat /\ IsFiniteSet(Latencies)
  BY LatencyFacts
<1>2. more \in [Latencies -> Nat] /\ more[l] = bag[l] + 1
      /\ \A x \in Latencies \ {l} : more[x] = bag[x]
  OBVIOUS
<1> HIDE DEF more
<1>3. Weighted(bag) = Total(f) /\ Weighted(more) = Total(g)
  <2>1. DOMAIN bag = Latencies /\ DOMAIN more = Latencies
    BY <1>2
  <2>2. QED
    BY <2>1 DEF Weighted
<1>4. \A x, y \in Nat : x * y \in Nat
  OBVIOUS
<1>5. f \in [Latencies -> Nat] /\ g \in [Latencies -> Nat]
  BY <1>1, <1>2, <1>4
<1>6. \A y \in Latencies \ {l} : g[y] = f[y]
  BY <1>2
<1>7. g[l] = f[l] + l
  <2>1. g[l] = l * (bag[l] + 1) /\ f[l] = l * bag[l]
    BY <1>2
  <2>2. l \in Nat /\ bag[l] \in Nat
    BY <1>1
  <2>3. \A x, y \in Nat : x * (y + 1) = x * y + x
    OBVIOUS
  <2> HIDE DEF f, g
  <2>4. QED
    BY <2>1, <2>2, <2>3
<1> HIDE DEF f, g
<1>8. Total(g) = Total(f) + g[l] - f[l]
  <2>1. f \in [Latencies -> Int] /\ g \in [Latencies -> Int]
    BY <1>5, NatFunction
  <2>2. IsFiniteSet(Latencies)
    BY <1>1
  <2>3. QED
    BY <1>6, <2>1, <2>2, TotalChange
<1>9. Total(f) \in Nat /\ f[l] \in Nat /\ l \in Nat
  BY <1>1, <1>5, NatTotal
<1>10. Total(g) = Total(f) + l
  BY <1>7, <1>8, <1>9
<1>11. QED
  BY <1>3, <1>9, <1>10 DEF more

(* The sum of the latencies is a natural number.                           *)
LEMMA WeightedNat ==
  ASSUME NEW bag \in [Latencies -> Nat]
  PROVE  Weighted(bag) \in Nat
<1> DEFINE f == [x \in Latencies |-> x * bag[x]]
<1>1. \A x, y \in Nat : x * y \in Nat
  OBVIOUS
<1>2. f \in [Latencies -> Nat] /\ IsFiniteSet(Latencies)
  BY <1>1, LatencyFacts
<1>3. Weighted(bag) = Total(f)
  BY DEF Weighted
<1> HIDE DEF f
<1>4. QED
  BY <1>2, <1>3, NatTotal

(* What durations cut to a bag add up to at least and at most.             *)
LEMMA LeastMostNat ==
  ASSUME NEW bag \in [Latencies -> Nat]
  PROVE  Least(bag) \in Nat /\ Most(bag) \in Nat
<1>1. /\ Weighted(bag) \in Nat /\ Total(bag) \in Nat
      /\ Cut \in Nat /\ Nanos(Weighted(bag)) \in Nat
  BY WeightedNat, NatTotal, LatencyFacts, NanosNat
<1>2. \A x, y \in Nat : x * y \in Nat
  OBVIOUS
<1>3. QED
  BY <1>1, <1>2 DEF Least, Most

(* One more latency moves the two by itself, and by the most its duration  *)
(* may have been cut by.                                                   *)
LEMMA LeastMostAdd ==
  ASSUME NEW bag \in [Latencies -> Nat], NEW l \in Latencies
  PROVE  /\ Least([bag EXCEPT ![l] = @ + 1]) = Least(bag) + Nanos(l)
         /\ Most([bag EXCEPT ![l] = @ + 1]) = Most(bag) + Nanos(l) + Cut
<1> DEFINE more == [bag EXCEPT ![l] = @ + 1]
<1>1. IsFiniteSet(Latencies) /\ l \in Nat
  BY LatencyFacts
<1>2. /\ Weighted(more) = Weighted(bag) + l /\ Weighted(bag) \in Nat
      /\ Total(more) = Total(bag) + 1 /\ Total(bag) \in Nat
  BY <1>1, WeightedAdd, OneMore, NatTotal, Zenon
<1> HIDE DEF more
<1>3. /\ Nanos(Weighted(more)) = Nanos(Weighted(bag)) + Nanos(l)
      /\ Nanos(Weighted(bag)) \in Nat /\ Nanos(l) \in Nat
  <2>1. \A x, y, n \in Nat : n * (x + y) = n * x + n * y
    OBVIOUS
  <2>2. NanosPerMicro \in Nat
    BY LatencyAssumption
  <2>3. QED
    BY <1>1, <1>2, <2>1, <2>2, NanosNat DEF Nanos
<1>4. /\ Cut * Total(more) = Cut * Total(bag) + Cut
      /\ Cut * Total(bag) \in Nat /\ Cut \in Nat
  <2>1. \A x, y \in Nat : x * (y + 1) = x * y + x /\ x * y \in Nat
    OBVIOUS
  <2>2. QED
    BY <1>2, <2>1, NanosNat
<1>5. QED
  BY <1>3, <1>4 DEF Least, Most, more

(* 1 if the step is one of S.                                              *)
Here(place, S) == IF place \in S THEN 1 ELSE 0

(* Only the recorder r moves.                                              *)
Others(r) ==
  \A q \in Recorders \ {r} : rpc'[q] = rpc[q] /\ result'[q] = result[q]

(* The number of recorders at some steps is a natural number.              *)
LEMMA PlaceNat ==
  ASSUME NEW pc, NEW S
  PROVE  InPlace(pc, S) \in Nat
<1>1. [r \in Recorders |-> IF pc[r] \in S THEN 1 ELSE 0] \in [Recorders -> Nat]
  OBVIOUS
<1>2. QED
  BY <1>1, NatTotal, TrackerAssumption DEF InPlace

(* A move of r changes that number by what r leaves and enters.            *)
LEMMA PlaceMoved ==
  ASSUME NEW r \in Recorders, Others(r), NEW S
  PROVE  InPlace(rpc, S)'
           = InPlace(rpc, S) + Here(rpc'[r], S) - Here(rpc[r], S)
<1> DEFINE f == [q \in Recorders |-> IF rpc[q] \in S THEN 1 ELSE 0]
           g == [q \in Recorders |-> IF rpc'[q] \in S THEN 1 ELSE 0]
<1>1. /\ f \in [Recorders -> Int] /\ g \in [Recorders -> Int]
      /\ \A q \in Recorders \ {r} : g[q] = f[q]
      /\ f[r] = Here(rpc[r], S) /\ g[r] = Here(rpc'[r], S)
  BY DEF Here, Others
<1>2. InPlace(rpc, S) = Total(f) /\ InPlace(rpc, S)' = Total(g)
  BY DEF InPlace
<1> HIDE DEF f, g
<1>3. Total(g) = Total(f) + g[r] - f[r]
  BY <1>1, TotalChange, TrackerAssumption
<1>4. QED
  BY <1>1, <1>2, <1>3

(* For one step, which of the six sets of steps have it.                   *)
Row(place, started, listed, shown, decided, coded, broken) ==
  /\ Here(place, Started) = started /\ Here(place, Listed) = listed
  /\ Here(place, Shown) = shown /\ Here(place, Decided) = decided
  /\ Here(place, Coded) = coded /\ Here(place, {"breakdown"}) = broken

(* Which steps of Record are past which: a row for each step.              *)
LEMMA Rows ==
  /\ Row("idle",      0, 0, 0, 0, 0, 0) /\ Row("latency",   1, 0, 0, 0, 0, 0)
  /\ Row("duration",  1, 1, 0, 0, 0, 0) /\ Row("window",    1, 1, 0, 0, 0, 0)
  /\ Row("outcome",   1, 1, 1, 0, 0, 0) /\ Row("breakdown", 1, 1, 1, 1, 0, 1)
  /\ Row("code",      1, 1, 1, 1, 0, 0) /\ Row("bytes",     1, 1, 1, 1, 1, 0)
  /\ Row("stage",     1, 1, 1, 1, 1, 0)
BY DEF Row, Here, Started, Listed, Timed, Shown, Decided, Coded

(* How the six numbers change when one recorder moves.                     *)
CountsMoved(from, to) ==
  LET Moved(S) ==
        InPlace(rpc, S)' = InPlace(rpc, S) + Here(to, S) - Here(from, S)
  IN  /\ Moved(Started) /\ Moved(Listed) /\ Moved(Shown) /\ Moved(Decided)
      /\ Moved(Coded) /\ Moved({"breakdown"})

(* A recorder's move changes them so.                                      *)
LEMMA Moves ==
  ASSUME NEW r \in Recorders, Others(r), NEW from, rpc[r] = from,
         NEW to, rpc'[r] = to
  PROVE  CountsMoved(from, to)
BY PlaceMoved DEF CountsMoved

(* A step of Record moves one recorder, which keeps its result until it is *)
(* done.                                                                   *)
LEMMA RecordMoves ==
  ASSUME RecordTypes, NEW r \in Recorders, Record(r)
  PROVE  /\ Others(r) /\ RecordTypes'
         /\ rpc[r] # "idle" =>
              /\ result[r] \in Results /\ result[r].latency \in Nat
              /\ Microseconds(result[r].latency) \in Latencies
         /\ rpc[r] \notin {"idle", "stage"} => result'[r] = result[r]

BY RecordTypesKept, ResultFacts DEF RecordTypes, Record, Count, AppendLatency,
   AddDuration, AppendWindow, AddSuccess, AddFailure, CountErrorType,
   CountCode, AddBytes, CountStage, Goto, Others

-----------------------------------------------------------------------------
(***************************************************************************)
(* The books: each step of Record keeps them.                              *)
(***************************************************************************)

(* All that Counting and Timing compare are natural numbers.               *)
LEMMA CountingNat ==
  ASSUME RecordTypes
  PROVE  /\ requestCount \in Nat /\ successCount \in Nat
         /\ failureCount \in Nat /\ totalDuration \in Nat
         /\ Total(latencies) \in Nat /\ Total(windowLatency) \in Nat
         /\ Total(errorBreakdown) \in Nat /\ Total(statusCodeDist) \in Nat
         /\ Total(stageTimes) \in Nat /\ Total(stageCounts) \in Nat
         /\ InPlace(rpc, Started) \in Nat /\ InPlace(rpc, Listed) \in Nat
         /\ InPlace(rpc, Shown) \in Nat /\ InPlace(rpc, Decided) \in Nat
         /\ InPlace(rpc, Coded) \in Nat /\ InPlace(rpc, {"breakdown"}) \in Nat
BY NatTotal, PlaceNat, TrackerAssumption, LatencyFacts DEF RecordTypes

(* Each step of Record keeps Counting: it adds to the counter of its step  *)
(* exactly when it moves past it, and the last one turns a record under    *)
(* way into a complete one.                                                *)
LEMMA CountingKept ==
  ASSUME RecordTypes, Counting, NEW r \in Recorders, Record(r)
  PROVE  Counting'
<1>1. Others(r)
  BY RecordMoves
<1>2. rpc \in [Recorders -> Places]
  BY DEF RecordTypes
<1>3. CASE Count(r)
  <2>1. rpc[r] = "idle" /\ rpc'[r] = "latency"
    BY <1>2, <1>3 DEF Count, Goto
  <2>2. CountsMoved("idle", "latency")
    BY <1>1, <2>1, Moves
  <2>3. QED
    BY <1>3, <2>2, CountingNat, Rows
    DEF Count, Counting, CountsMoved, Row, guarded
<1>4. CASE AppendLatency(r)
  <2>1. rpc[r] = "latency" /\ rpc'[r] = "duration"
    BY <1>2, <1>4 DEF AppendLatency, Goto
  <2>2. CountsMoved("latency", "duration")
    BY <1>1, <2>1, Moves
  <2>3. Microseconds(result[r].latency) \in Latencies
    BY <2>1, ResultFacts DEF RecordTypes
  <2>4. Total(latencies') = Total(latencies) + 1
    <3>1. /\ latencies \in [Latencies -> Nat] /\ IsFiniteSet(Latencies)
          /\ latencies' = [latencies EXCEPT
                             ![Microseconds(result[r].latency)] = @ + 1]
      BY <1>4, LatencyFacts DEF AppendLatency, RecordTypes
    <3>2. QED
      BY <2>3, <3>1, OneMore, Zenon
  <2>5. UNCHANGED <<atomics, windowLatency, errorBreakdown, statusCodeDist,
                  stageCounts>>
    BY <1>4 DEF AppendLatency
  <2>6. QED
    BY <2>2, <2>4, <2>5, CountingNat, Rows
    DEF Counting, CountsMoved, Row, atomics
<1>5. CASE AddDuration(r)
  <2>1. rpc[r] = "duration" /\ rpc'[r] = "window"
    BY <1>2, <1>5 DEF AddDuration, Goto
  <2>2. CountsMoved("duration", "window")
    BY <1>1, <2>1, Moves
  <2>3. QED
    BY <1>5, <2>2, CountingNat, Rows
    DEF AddDuration, Counting, CountsMoved, Row, guarded
<1>6. CASE AppendWindow(r)
  <2>1. rpc[r] = "window" /\ rpc'[r] = "outcome"
    BY <1>2, <1>6 DEF AppendWindow, Goto
  <2>2. CountsMoved("window", "outcome")
    BY <1>1, <2>1, Moves
  <2>3. Microseconds(result[r].latency) \in Latencies
    BY <2>1, ResultFacts DEF RecordTypes
  <2>4. Total(windowLatency') = Total(windowLatency) + 1
    <3>1. /\ windowLatency \in [Latencies -> Nat] /\ IsFiniteSet(Latencies)
          /\ windowLatency' = [windowLatency EXCEPT
                                 ![Microseconds(result[r].latency)] = @ + 1]
      BY <1>6, LatencyFacts DEF AppendWindow, RecordTypes
    <3>2. QED
      BY <2>3, <3>1, OneMore, Zenon
  <2>5. UNCHANGED <<atomics, latencies, errorBreakdown, statusCodeDist,
                  stageCounts>>
    BY <1>6 DEF AppendWindow
  <2>6. QED
    BY <2>2, <2>4, <2>5, CountingNat, Rows
    DEF Counting, CountsMoved, Row, atomics
<1>7. CASE AddSuccess(r)
  <2>1. rpc[r] = "outcome" /\ rpc'[r] = "code"
    BY <1>2, <1>7 DEF AddSuccess, Goto
  <2>2. CountsMoved("outcome", "code")
    BY <1>1, <2>1, Moves
  <2>3. QED
    BY <1>7, <2>2, CountingNat, Rows
    DEF AddSuccess, Counting, CountsMoved, Row, guarded
<1>8. CASE AddFailure(r)
  <2>1. rpc[r] = "outcome" /\ rpc'[r] \in {"code", "breakdown"}
    BY <1>2, <1>8 DEF AddFailure, Goto
  <2>2. CountsMoved("outcome", "code") \/ CountsMoved("outcome", "breakdown")
    BY <1>1, <2>1, Moves
  <2>3. QED
    BY <1>8, <2>2, CountingNat, Rows
    DEF AddFailure, Counting, CountsMoved, Row, guarded
<1>9. CASE CountErrorType(r)
  <2>1. rpc[r] = "breakdown" /\ rpc'[r] = "code"
    BY <1>2, <1>9 DEF CountErrorType, Goto
  <2>2. CountsMoved("breakdown", "code")
    BY <1>1, <2>1, Moves
  <2>3. result[r].errorType \in ErrorTypes
    BY <2>1, ResultFacts DEF RecordTypes
  <2>4. Total(errorBreakdown') = Total(errorBreakdown) + 1
    <3>1. /\ errorBreakdown \in [ErrorTypes -> Nat] /\ IsFiniteSet(ErrorTypes)
          /\ errorBreakdown' = [errorBreakdown EXCEPT
                                  ![result[r].errorType] = @ + 1]
      BY <1>9, TrackerAssumption DEF CountErrorType, RecordTypes
    <3>2. QED
      BY <2>3, <3>1, OneMore, Zenon
  <2>5. UNCHANGED <<atomics, latencies, windowLatency, statusCodeDist,
                  stageCounts>>
    BY <1>9 DEF CountErrorType
  <2>6. QED
    BY <2>2, <2>4, <2>5, CountingNat, Rows
    DEF Counting, CountsMoved, Row, atomics
<1>10. CASE CountCode(r)
  <2>1. rpc[r] = "code" /\ rpc'[r] = "bytes"
    BY <1>2, <1>10 DEF CountCode, Goto
  <2>2. CountsMoved("code", "bytes")
    BY <1>1, <2>1, Moves
  <2>3. result[r].code \in Codes
    BY <2>1, ResultFacts DEF RecordTypes
  <2>4. Total(statusCodeDist') = Total(statusCodeDist) + 1
    <3>1. /\ statusCodeDist \in [Codes -> Nat] /\ IsFiniteSet(Codes)
          /\ statusCodeDist' = [statusCodeDist EXCEPT
                                  ![result[r].code] = @ + 1]
      BY <1>10, TrackerAssumption DEF CountCode, RecordTypes
    <3>2. QED
      BY <2>3, <3>1, OneMore, Zenon
  <2>5. UNCHANGED <<atomics, latencies, windowLatency, errorBreakdown,
                    stageCounts>>
    BY <1>10 DEF CountCode
  <2>6. QED
    BY <2>2, <2>4, <2>5, CountingNat, Rows
    DEF Counting, CountsMoved, Row, atomics
<1>11. CASE AddBytes(r)
  <2>1. rpc[r] = "bytes" /\ rpc'[r] = "stage"
    BY <1>2, <1>11 DEF AddBytes, Goto
  <2>2. CountsMoved("bytes", "stage")
    BY <1>1, <2>1, Moves
  <2>3. QED
    BY <1>11, <2>2, CountingNat, Rows
    DEF AddBytes, Counting, CountsMoved, Row, guarded
<1>12. CASE CountStage(r)
  <2>1. rpc[r] = "stage" /\ rpc'[r] = "idle"
    BY <1>2, <1>12 DEF CountStage, Goto
  <2>2. CountsMoved("stage", "idle")
    BY <1>1, <2>1, Moves
  <2>3. result[r].stage \in Stages
    BY <2>1, ResultFacts DEF RecordTypes
  <2>4. Total(stageCounts') = Total(stageCounts) + 1
    <3>1. /\ stageCounts \in [Stages -> Nat] /\ IsFiniteSet(Stages)
          /\ stageCounts' = [stageCounts EXCEPT ![result[r].stage] = @ + 1]
      BY <1>12, TrackerAssumption DEF CountStage, RecordTypes
    <3>2. QED
      BY <2>3, <3>1, OneMore, Zenon
  <2>5. UNCHANGED <<atomics, latencies, windowLatency, errorBreakdown,
                  statusCodeDist>>
    BY <1>12 DEF CountStage
  <2>6. /\ InPlace(rpc, Started)' = InPlace(rpc, Started) - 1
        /\ InPlace(rpc, Listed)' = InPlace(rpc, Listed) - 1
        /\ InPlace(rpc, Shown)' = InPlace(rpc, Shown) - 1
        /\ InPlace(rpc, Decided)' = InPlace(rpc, Decided) - 1
        /\ InPlace(rpc, Coded)' = InPlace(rpc, Coded) - 1
        /\ InPlace(rpc, {"breakdown"})' = InPlace(rpc, {"breakdown"})
    BY <2>2, CountingNat, Rows DEF CountsMoved, Row
  <2>7. QED
    BY <2>4, <2>5, <2>6, CountingNat DEF Counting, atomics
<1>13. QED
  BY <1>3, <1>4, <1>5, <1>6, <1>7, <1>8, <1>9, <1>10, <1>11, <1>12 DEF Record

(* What the recorder r adds to Elapsed.                                    *)
Held(r, S) == IF rpc[r] \in S THEN result[r].latency ELSE 0

(* A duration that is held is a natural number.                             *)
LEMMA HeldNat ==
  ASSUME RecordTypes, NEW r \in Recorders, NEW S, "idle" \notin S
  PROVE  Held(r, S) \in Nat
BY ResultFacts DEF Held, RecordTypes

(* So is the sum of those that are held.                                   *)
LEMMA ElapsedNat ==
  ASSUME RecordTypes, NEW S, "idle" \notin S
  PROVE  Elapsed(rpc, result, S) \in Nat
<1> DEFINE f == [r \in Recorders |-> Held(r, S)]
<1>1. f \in [Recorders -> Nat]
  BY HeldNat
<1>2. Elapsed(rpc, result, S) = Total(f)
  BY DEF Elapsed, Held
<1> HIDE DEF f
<1>3. QED
  BY <1>1, <1>2, NatTotal, TrackerAssumption

(* A move of r changes that sum by what r leaves and enters.               *)
LEMMA ElapsedMoved ==
  ASSUME RecordTypes, RecordTypes', NEW r \in Recorders, Others(r),
         NEW S, "idle" \notin S
  PROVE  Elapsed(rpc, result, S)'
           = Elapsed(rpc, result, S) + Held(r, S)' - Held(r, S)
<1> DEFINE f == [q \in Recorders |-> Held(q, S)]
           g == [q \in Recorders |-> Held(q, S)']
<1>1. /\ Elapsed(rpc, result, S) = Total(f)
      /\ Elapsed(rpc, result, S)' = Total(g)
  BY DEF Elapsed, Held
<1>2. \A q \in Recorders : Held(q, S) \in Int
  BY HeldNat
<1>3. \A q \in Recorders : Held(q, S)' \in Int
  BY ResultFacts DEF Held, RecordTypes
<1>4. \A q \in Recorders \ {r} : Held(q, S)' = Held(q, S)
  BY DEF Others, Held
<1>5. /\ f \in [Recorders -> Int] /\ g \in [Recorders -> Int]
      /\ \A q \in Recorders \ {r} : g[q] = f[q]
      /\ f[r] = Held(r, S) /\ g[r] = Held(r, S)'
  BY <1>2, <1>3, <1>4
<1> HIDE DEF f, g
<1>6. Total(g) = Total(f) + g[r] - f[r]
  BY <1>5, TotalChange, TrackerAssumption
<1>7. QED
  BY <1>1, <1>5, <1>6

(* An idle recorder holds no duration.                                     *)
LEMMA NotIdle == "idle" \notin Timed /\ "idle" \notin Listed
BY DEF Timed, Listed, Shown, Decided

(* The sums Timing compares are natural numbers.                           *)
LEMMA TimingNat ==
  ASSUME RecordTypes
  PROVE  /\ totalDuration \in Nat /\ Total(stageTimes) \in Nat
         /\ Least(latencies) \in Nat /\ Most(latencies) \in Nat
         /\ Elapsed(rpc, result, Timed) \in Nat
         /\ Elapsed(rpc, result, Listed) \in Nat
<1>1. /\ totalDuration \in Nat /\ stageTimes \in [Stages -> Nat]
      /\ latencies \in [Latencies -> Nat]
  BY DEF RecordTypes
<1>2. Total(stageTimes) \in Nat
  BY <1>1, NatTotal, TrackerAssumption
<1>3. Least(latencies) \in Nat /\ Most(latencies) \in Nat
  BY <1>1, LeastMostNat
<1>4. QED
  BY <1>1, <1>2, <1>3, ElapsedNat, NotIdle

(* Each step of Record keeps Timing: the sum of the slice, the total       *)
(* duration and the stage times each take the duration at their own step.  *)
LEMMA TimingKept ==
  ASSUME RecordTypes, Timing, NEW r \in Recorders, Record(r)
  PROVE  Timing'
<1> DEFINE d == result[r].latency
           l == Microseconds(d)
<1>1. /\ Others(r) /\ RecordTypes'
      /\ rpc[r] # "idle" => l \in Latencies /\ d \in Nat
      /\ rpc[r] \notin {"idle", "stage"} => result'[r] = result[r]
  BY RecordMoves
<1>2. /\ Elapsed(rpc, result, Timed)'
           = Elapsed(rpc, result, Timed) + Held(r, Timed)' - Held(r, Timed)
      /\ Elapsed(rpc, result, Listed)'
           = Elapsed(rpc, result, Listed) + Held(r, Listed)' - Held(r, Listed)
  BY <1>1, ElapsedMoved, NotIdle
<1>3. rpc \in [Recorders -> Places]
  BY DEF RecordTypes
<1>4. CASE AppendLatency(r)
  <2>1. rpc[r] = "latency" /\ rpc'[r] = "duration"
    BY <1>3, <1>4 DEF AppendLatency, Goto
  <2>2. /\ Held(r, Timed) = 0 /\ Held(r, Timed)' = 0
        /\ Held(r, Listed) = 0 /\ Held(r, Listed)' = d
    BY <1>1, <2>1 DEF Held, Listed, Timed, Shown, Decided
  <2>3. latencies' = [latencies EXCEPT ![l] = @ + 1]
    BY <1>4 DEF AppendLatency
  <2>4. l \in Latencies /\ d \in Nat /\ latencies \in [Latencies -> Nat]
    BY <1>1, <2>1 DEF RecordTypes
  <2>5. /\ Nanos(l) \in Nat /\ Cut \in Nat
        /\ Nanos(l) <= d /\ d <= Nanos(l) + Cut
    BY <2>4, CutFacts
  <2> HIDE DEF d, l
  <2>6. /\ Least(latencies') = Least(latencies) + Nanos(l)
        /\ Most(latencies') = Most(latencies) + Nanos(l) + Cut
    BY <2>3, <2>4, LeastMostAdd, Zenon
  <2>7. totalDuration' = totalDuration /\ stageTimes' = stageTimes
    BY <1>4 DEF AppendLatency, atomics
  <2>8. ListedTime' = ListedTime + d
    BY <1>2, <2>2, <2>4, <2>7, TimingNat DEF ListedTime
  <2>9. QED
    BY <1>2, <2>2, <2>4, <2>5, <2>6, <2>7, <2>8, TimingNat
    DEF Timing, ListedTime
<1>5. CASE AddDuration(r)
  <2>1. rpc[r] = "duration" /\ rpc'[r] = "window"
    BY <1>3, <1>5 DEF AddDuration, Goto
  <2>2. /\ Held(r, Timed) = 0 /\ Held(r, Timed)' = d
        /\ Held(r, Listed) = d /\ Held(r, Listed)' = d
    BY <1>1, <2>1 DEF Held, Listed, Timed, Shown, Decided
  <2>3. d \in Nat
    BY <1>1, <2>1
  <2>4. /\ totalDuration' = totalDuration + d /\ stageTimes' = stageTimes
        /\ latencies' = latencies
    BY <1>5 DEF AddDuration, guarded
  <2> HIDE DEF d
  <2>5. QED
    BY <1>2, <2>2, <2>3, <2>4, TimingNat DEF Timing, ListedTime
<1>6. CASE CountStage(r)
  <2>1. rpc[r] = "stage" /\ rpc'[r] = "idle"
    BY <1>3, <1>6 DEF CountStage, Goto
  <2>2. /\ Held(r, Timed) = d /\ Held(r, Timed)' = 0
        /\ Held(r, Listed) = d /\ Held(r, Listed)' = 0
    BY <1>1, <2>1 DEF Held, Listed, Timed, Shown, Decided
  <2>3. /\ d \in Nat /\ result[r].stage \in Stages
        /\ stageTimes \in [Stages -> Nat] /\ IsFiniteSet(Stages)
    BY <1>1, <2>1, ResultFacts, TrackerAssumption DEF RecordTypes
  <2>4. stageTimes' = [stageTimes EXCEPT ![result[r].stage] = @ + d]
    BY <1>6 DEF CountStage
  <2>5. totalDuration' = totalDuration /\ latencies' = latencies
    BY <1>6 DEF CountStage, atomics
  <2> HIDE DEF d
  <2>6. Total(stageTimes') = Total(stageTimes) + d
    BY <2>3, <2>4, TotalAdd, Zenon
  <2>7. QED
    BY <1>2, <2>2, <2>3, <2>5, <2>6, TimingNat DEF Timing, ListedTime
<1>7. CASE \/ Count(r) \/ AppendWindow(r) \/ AddSuccess(r) \/ AddFailure(r)
           \/ CountErrorType(r) \/ CountCode(r) \/ AddBytes(r)
  <2>1. UNCHANGED <<totalDuration, latencies, stageTimes>>
    BY <1>7 DEF Count, AppendWindow, AddSuccess, AddFailure, CountErrorType,
       CountCode, AddBytes, atomics, guarded
  <2>2. \/ rpc[r] = "idle" /\ rpc'[r] = "latency"
        \/ /\ rpc[r] \in Shown \cup {"window"} /\ rpc[r] # "stage"
           /\ rpc'[r] \in Shown
    BY <1>3, <1>7 DEF Count, AppendWindow, AddSuccess, AddFailure,
       CountErrorType, CountCode, AddBytes, Goto, Shown, Decided
  <2>3. \/ /\ rpc[r] \notin Listed /\ rpc'[r] \notin Listed
           /\ rpc[r] \notin Timed /\ rpc'[r] \notin Timed
        \/ /\ rpc[r] \in Timed /\ rpc'[r] \in Timed
           /\ rpc[r] \in Listed /\ rpc'[r] \in Listed
           /\ result'[r] = result[r]
    BY <1>1, <2>2 DEF Listed, Timed, Shown, Decided
  <2>4. Held(r, Timed)' = Held(r, Timed) /\ Held(r, Listed)' = Held(r, Listed)
    BY <2>3 DEF Held
  <2>5. Held(r, Timed) \in Nat /\ Held(r, Listed) \in Nat
    BY HeldNat, NotIdle
  <2>6. QED
    BY <1>2, <2>1, <2>4, <2>5, TimingNat DEF Timing, ListedTime
<1>8. QED
  BY <1>4, <1>5, <1>6, <1>7 DEF Record

(* A move of r changes how often l is missing from the window.             *)
LEMMA MissingMoved ==
  ASSUME NEW r \in Recorders, Others(r), NEW l
  PROVE  LET Mine == IF /\ rpc[r] \in Unshown
                        /\ Microseconds(result[r].latency) = l
                     THEN 1 ELSE 0
         IN  /\ Missing(rpc, result, l) \in Nat
             /\ Missing(rpc, result, l)'
                  = Missing(rpc, result, l) + Mine' - Mine
<1> DEFINE Of(q) == IF /\ rpc[q] \in Unshown
                       /\ Microseconds(result[q].latency) = l
                    THEN 1 ELSE 0
           f == [q \in Recorders |-> Of(q)]
           g == [q \in Recorders |-> Of(q)']
<1>1. Missing(rpc, result, l) = Total(f) /\ Missing(rpc, result, l)' = Total(g)
  BY DEF Missing
<1>2. \A q \in Recorders : Of(q) \in Nat /\ Of(q)' \in Nat
  OBVIOUS
<1>3. \A q \in Recorders \ {r} : Of(q)' = Of(q)
  BY DEF Others
<1>4. /\ f \in [Recorders -> Nat] /\ g \in [Recorders -> Nat]
      /\ \A q \in Recorders \ {r} : g[q] = f[q]
      /\ f[r] = Of(r) /\ g[r] = Of(r)'
  BY <1>2, <1>3
<1>5. Of(r) \in Nat /\ Of(r)' \in Nat
  BY <1>2
<1> HIDE DEF f, g
<1>6. /\ Total(f) \in Nat
      /\ Total(g) = Total(f) + g[r] - f[r]
  BY <1>4, NatFunction, NatTotal, TotalChange, TrackerAssumption
<1>7. QED
  BY <1>1, <1>4, <1>5, <1>6

(* Each step of Record keeps Windowing.                                    *)
LEMMA WindowingKept ==
  ASSUME RecordTypes, Windowing, NEW r \in Recorders, Record(r)
  PROVE  Windowing'
<1> SUFFICES ASSUME NEW l \in Latencies
             PROVE  latencies'[l] = windowLatency'[l]
                                      + Missing(rpc, result, l)'
  BY DEF Windowing
<1> DEFINE mine == Microseconds(result[r].latency)
           Mine == IF rpc[r] \in Unshown /\ mine = l THEN 1 ELSE 0
<1>1. /\ Others(r) /\ RecordTypes'
      /\ rpc[r] # "idle" => mine \in Latencies
      /\ rpc[r] \notin {"idle", "stage"} => result'[r] = result[r]
  BY RecordMoves
<1>2. /\ Missing(rpc, result, l) \in Nat
      /\ Missing(rpc, result, l)' = Missing(rpc, result, l) + Mine' - Mine
  BY <1>1, MissingMoved
<1>3. /\ rpc \in [Recorders -> Places]
      /\ latencies \in [Latencies -> Nat]
      /\ windowLatency \in [Latencies -> Nat]
      /\ latencies[l] = windowLatency[l] + Missing(rpc, result, l)
  BY DEF RecordTypes, Windowing
<1>4. CASE AppendLatency(r)
  <2>1. rpc[r] = "latency" /\ rpc'[r] = "duration" /\ result'[r] = result[r]
    BY <1>1, <1>3, <1>4 DEF AppendLatency, Goto
  <2>2. Mine = 0 /\ Mine' = IF mine = l THEN 1 ELSE 0
    BY <2>1 DEF Unshown
  <2>3. /\ latencies'[l] = latencies[l] + (IF mine = l THEN 1 ELSE 0)
        /\ windowLatency' = windowLatency
    BY <1>3, <1>4 DEF AppendLatency
  <2> HIDE DEF Mine
  <2>4. QED
    BY <1>2, <1>3, <2>2, <2>3
<1>5. CASE AppendWindow(r)
  <2>1. rpc[r] = "window" /\ rpc'[r] = "outcome" /\ result'[r] = result[r]
    BY <1>1, <1>3, <1>5 DEF AppendWindow, Goto
  <2>2. Mine' = 0 /\ Mine = IF mine = l THEN 1 ELSE 0
    BY <2>1 DEF Unshown
  <2>3. /\ windowLatency'[l]
             = windowLatency[l] + (IF mine = l THEN 1 ELSE 0)
        /\ latencies' = latencies
    BY <1>3, <1>5 DEF AppendWindow
  <2> HIDE DEF Mine
  <2>4. QED
    BY <1>2, <1>3, <2>2, <2>3
<1>6. CASE \/ Count(r) \/ AddDuration(r) \/ AddSuccess(r) \/ AddFailure(r)
           \/ CountErrorType(r) \/ CountCode(r) \/ AddBytes(r)
           \/ CountStage(r)
  <2>1. UNCHANGED <<latencies, windowLatency>>
    BY <1>6 DEF Count, AddDuration, AddSuccess, AddFailure, CountErrorType,
       CountCode, AddBytes, CountStage, guarded
  <2>2. \/ rpc[r] \notin Unshown /\ rpc'[r] \notin Unshown
        \/ rpc[r] = "duration" /\ rpc'[r] = "window"
    BY <1>3, <1>6 DEF Count, AddDuration, AddSuccess, AddFailure,
       CountErrorType, CountCode, AddBytes, CountStage, Goto, Unshown
  <2>3. Mine' = Mine /\ Mine \in Nat
    BY <1>1, <2>2 DEF Unshown
  <2> HIDE DEF Mine
  <2>4. QED
    BY <1>2, <1>3, <2>1, <2>3
<1>7. QED
  BY <1>4, <1>5, <1>6 DEF Record

-----------------------------------------------------------------------------
(***************************************************************************)
(* The books at rest.                                                      *)
(***************************************************************************)

(* Nobody is at any step when all are idle.                                *)
LEMMA IdlePlaces ==
  ASSUME NEW pc, \A r \in Recorders : pc[r] = "idle", NEW res,
         NEW S, "idle" \notin S
  PROVE  InPlace(pc, S) = 0 /\ Elapsed(pc, res, S) = 0
<1> DEFINE f == [r \in Recorders |-> IF pc[r] \in S THEN 1 ELSE 0]
           g == [r \in Recorders |-> IF pc[r] \in S THEN res[r].latency ELSE 0]
<1>1. f = Zero(Recorders) /\ g = Zero(Recorders)
  BY DEF Zero
<1>2. Total(Zero(Recorders)) = 0
  BY TotalZero, TrackerAssumption
<1>3. QED
  BY <1>1, <1>2 DEF InPlace, Elapsed

(* Nothing is missing from the window when all are idle.                   *)
LEMMA IdleMissing ==
  ASSUME NEW pc, \A r \in Recorders : pc[r] = "idle", NEW res, NEW l
  PROVE  Missing(pc, res, l) = 0
<1>1. "idle" \notin Unshown
  BY DEF Unshown
<1>2. [r \in Recorders |-> IF /\ pc[r] \in Unshown
                              /\ Microseconds(res[r].latency) = l
                           THEN 1 ELSE 0] = Zero(Recorders)
  BY <1>1 DEF Zero
<1>3. Total(Zero(Recorders)) = 0
  BY TotalZero, TrackerAssumption
<1>4. QED
  BY <1>2, <1>3 DEF Missing

(* Idle is past no step.                                                   *)
LEMMA PlaceSets ==
  /\ "idle" \notin Started /\ "idle" \notin Listed /\ "idle" \notin Timed
  /\ "idle" \notin Shown /\ "idle" \notin Decided /\ "idle" \notin Coded
  /\ "idle" \notin {"breakdown"} /\ "idle" \notin Unshown
BY DEF Started, Listed, Timed, Shown, Decided, Coded, Unshown

(* No latency adds up to 0.                                                *)
LEMMA WeightedZero ==
  Least(Zero(Latencies)) = 0 /\ Most(Zero(Latencies)) = 0
<1>1. [l \in DOMAIN Zero(Latencies) |-> l * Zero(Latencies)[l]]
        = Zero(Latencies)
  BY LatencyFacts DEF Zero
<1>2. Weighted(Zero(Latencies)) = 0 /\ Total(Zero(Latencies)) = 0
  BY <1>1, TotalZero, LatencyFacts DEF Weighted
<1>3. NanosPerMicro \in Nat /\ Cut \in Nat
  BY LatencyAssumption, NanosNat
<1>4. QED
  BY <1>2, <1>3 DEF Least, Most, Nanos

(* When all recorders are idle, none of the numbers counts any.            *)
LEMMA EmptyBooks ==
  ASSUME NEW pc, NEW res, \A r \in Recorders : pc[r] = "idle"
  PROVE  /\ InPlace(pc, Started) = 0 /\ InPlace(pc, Listed) = 0
         /\ InPlace(pc, Shown) = 0 /\ InPlace(pc, Decided) = 0
         /\ InPlace(pc, Coded) = 0 /\ InPlace(pc, {"breakdown"}) = 0
         /\ Elapsed(pc, res, Timed) = 0 /\ Elapsed(pc, res, Listed) = 0
         /\ \A l : Missing(pc, res, l) = 0
BY IdlePlaces, IdleMissing, PlaceSets

(* Cleared maps and slices have the total 0.                               *)
LEMMA ZeroBooks ==
  /\ Total(Zero(Latencies)) = 0 /\ Total(Zero(ErrorTypes)) = 0
  /\ Total(Zero(Codes)) = 0 /\ Total(Zero(Stages)) = 0
BY TotalZero, TrackerAssumption, LatencyFacts

(* The books balance initially.                                            *)
LEMMA BookInit == Init => Bookkeeping
<1> SUFFICES ASSUME Init
             PROVE  Bookkeeping
  OBVIOUS
<1>1. \A r \in Recorders : rpc[r] = "idle"
  BY DEF Init
<1>2. /\ Total(latencies) = 0 /\ Total(windowLatency) = 0
      /\ Total(errorBreakdown) = 0 /\ Total(statusCodeDist) = 0
      /\ Total(stageTimes) = 0 /\ Total(stageCounts) = 0
      /\ Least(latencies) = 0 /\ Most(latencies) = 0
  BY ZeroBooks, WeightedZero DEF Init
<1>3. \A l \in Latencies : latencies[l] = 0 /\ windowLatency[l] = 0
  BY DEF Init, Zero
<1>4. /\ requestCount = 0 /\ successCount = 0 /\ failureCount = 0
      /\ totalDuration = 0
  BY DEF Init
<1>5. QED
  BY <1>1, <1>2, <1>3, <1>4, EmptyBooks DEF Bookkeeping, Counting, Timing,
     ListedTime, Windowing

(* The books balance after Reset: it clears all of them, and runs while no *)
(* Record is under way.                                                    *)
LEMMA BookReset == ASSUME Reset PROVE Bookkeeping'
<1>1. \A r \in Recorders : rpc'[r] = "idle"
  BY DEF Reset, Clear, Quiescent
<1>2. /\ Total(latencies') = 0 /\ Total(windowLatency') = 0
      /\ Total(errorBreakdown') = 0 /\ Total(statusCodeDist') = 0
      /\ Total(stageTimes') = 0 /\ Total(stageCounts') = 0
      /\ Least(latencies') = 0 /\ Most(latencies') = 0
  BY ZeroBooks, WeightedZero DEF Reset, Clear
<1>3. \A l \in Latencies : latencies'[l] = 0 /\ windowLatency'[l] = 0
  BY DEF Reset, Clear, Zero
<1>4. /\ requestCount' = 0 /\ successCount' = 0 /\ failureCount' = 0
      /\ totalDuration' = 0
  BY DEF Reset, Clear
<1>5. QED
  BY <1>1, <1>2, <1>3, <1>4, EmptyBooks DEF Bookkeeping, Counting, Timing,
     ListedTime, Windowing

(* Every step keeps the books.                                             *)
LEMMA BookNext == RecordTypes /\ Bookkeeping /\ [Next]_vars => Bookkeeping'
<1> SUFFICES ASSUME RecordTypes, Bookkeeping, [Next]_vars
             PROVE  Bookkeeping'
  OBVIOUS
<1>1. ASSUME NEW r \in Recorders, Record(r)
      PROVE  Bookkeeping'
  BY <1>1, CountingKept, TimingKept, WindowingKept DEF Bookkeeping
<1>2. ASSUME UNCHANGED <<atomics, guarded, rpc, result>>
      PROVE  Bookkeeping'
  BY <1>2 DEF Bookkeeping, Counting, Timing, ListedTime, Windowing, atomics,
     guarded
<1>3. CASE SnapshotStep \/ LiveStep
  BY <1>2, <1>3, SnapKeeps
<1>4. CASE Reset
  BY <1>4, BookReset
<1>5. CASE UNCHANGED vars
  BY <1>2, <1>5 DEF vars
<1>6. QED
  BY <1>1, <1>3, <1>4, <1>5 DEF Next

(* Books that balance are exact when no Record is under way.               *)
LEMMA BooksBalanced == RecordTypes /\ Bookkeeping => QuiescentExact
<1> SUFFICES ASSUME RecordTypes, Bookkeeping, Quiescent
             PROVE  /\ requestCount = successCount + failureCount
                    /\ requestCount = Total(latencies)
                    /\ requestCount = Total(statusCodeDist)
                    /\ requestCount = Total(stageCounts)
                    /\ Total(errorBreakdown) <= failureCount
                    /\ totalDuration = Total(stageTimes)
                    /\ Least(latencies) <= totalDuration
                    /\ totalDuration <= Most(latencies)
                    /\ windowLatency = latencies
  BY DEF QuiescentExact
<1>1. \A r \in Recorders : rpc[r] = "idle"
  BY DEF Quiescent
<1>2. /\ InPlace(rpc, Started) = 0 /\ InPlace(rpc, Listed) = 0
      /\ InPlace(rpc, Shown) = 0 /\ InPlace(rpc, Decided) = 0
      /\ InPlace(rpc, Coded) = 0 /\ InPlace(rpc, {"breakdown"}) = 0
      /\ Elapsed(rpc, result, Timed) = 0 /\ Elapsed(rpc, result, Listed) = 0
      /\ \A l : Missing(rpc, result, l) = 0
  BY <1>1, EmptyBooks
<1>3. /\ requestCount = successCount + failureCount
      /\ requestCount = Total(latencies)
      /\ requestCount = Total(statusCodeDist)
      /\ requestCount = Total(stageCounts)
      /\ Total(errorBreakdown) <= failureCount
  BY <1>2, CountingNat DEF Bookkeeping, Counting
<1>4. /\ totalDuration = Total(stageTimes)
      /\ Least(latencies) <= totalDuration
      /\ totalDuration <= Most(latencies)
  BY <1>2, TimingNat DEF Bookkeeping, Timing, ListedTime
<1>5. windowLatency = latencies
  <2>1. /\ latencies \in [Latencies -> Nat]
        /\ windowLatency \in [Latencies -> Nat]
    BY DEF RecordTypes
  <2>2. \A l \in Latencies : latencies[l] = windowLatency[l]
    BY <1>2, <2>1 DEF Bookkeeping, Windowing
  <2>3. QED
    BY <2>1, <2>2
<1>6. QED
  BY <1>3, <1>4, <1>5

(* At every moment, in the middle of any number of calls of Record, every  *)
(* counter of the tracker is off from the records that are complete by     *)
(* exactly those that are past its step: no update is lost and none is     *)
(* made twice.                                                             *)
THEOREM BooksBalance == Spec => []Bookkeeping
<1>1. Init => RecordTypes /\ Bookkeeping
  BY RecordTypesInit, BookInit
<1>2. RecordTypes /\ Bookkeeping /\ [Next]_vars
        => RecordTypes' /\ Bookkeeping'
  BY RecordTypesNext, BookNext
<1>3. QED
  BY <1>1, <1>2, PTL DEF Spec

(* When no Record is under way the counters, the slices and the maps all   *)
(* agree on how many requests there were and, but for the cut of a latency *)
(* to microseconds, on how long they took, for any number of workers and   *)
(* any results.                                                            *)
THEOREM BooksAgree == Spec => []QuiescentExact
<1>1. Types => RecordTypes
  BY DEF Types
<1>2. QED
  BY <1>1, TypesInvariant, BooksBalance, BooksBalanced, PTL

-----------------------------------------------------------------------------
(***************************************************************************)
(* Snapshots while workers record.                                         *)
(***************************************************************************)

(* What a Snapshot under way has loaded, related to what it has yet to     *)
(* load: the latencies and maps are frozen by its read lock, the counters  *)
(* only grow.                                                              *)
SnapshotInv ==
  /\ Snapshotting => Total(latencies) <= stats.total
  /\ spc = "failure" =>
       /\ stats.success <= successCount
       /\ Total(statusCodeDist) <= stats.success + failureCount
  /\ spc \in {"duration", "bytes", "maps"} =>
       /\ Total(statusCodeDist) <= stats.success + stats.failure
       /\ stats.success + stats.failure <= Total(latencies)
       /\ Total(errorBreakdown) <= stats.failure
  /\ spc \in {"bytes", "maps"} => stats.latencies = latencies
  /\ SnapshotOrdered

(* The same for a LiveSnapshot, which holds no lock while it loads.        *)
LiveInv ==
  /\ spc = "live-failure" => stats.success <= successCount
  /\ spc = "live-window" =>
       stats.success + stats.failure <= Total(windowLatency)
  /\ LiveOrdered

(* Fewer steps have fewer recorders.                                       *)
LEMMA FewerPlaces ==
  ASSUME NEW pc, NEW S, NEW T, S \subseteq T
  PROVE  InPlace(pc, S) <= InPlace(pc, T)
<1> DEFINE f == [r \in Recorders |-> IF pc[r] \in S THEN 1 ELSE 0]
           g == [r \in Recorders |-> IF pc[r] \in T THEN 1 ELSE 0]
<1>1. /\ f \in [Recorders -> Int] /\ g \in [Recorders -> Int]
      /\ \A r \in Recorders : f[r] <= g[r]
      /\ DOMAIN f = Recorders /\ DOMAIN g = Recorders
  OBVIOUS
<1>2. InPlace(pc, S) = Total(f) /\ InPlace(pc, T) = Total(g)
  BY DEF InPlace
<1> HIDE DEF f, g
<1>3. Part(f, Recorders) <= Part(g, Recorders)
  BY <1>1, PartMonotone, TrackerAssumption
<1>4. QED
  BY <1>1, <1>2, <1>3, TotalIsPart

(* What is in the total duration is in the slice.                          *)
LEMMA TimedIsListed ==
  ASSUME RecordTypes
  PROVE  Elapsed(rpc, result, Timed) <= Elapsed(rpc, result, Listed)
<1> DEFINE f == [r \in Recorders |-> Held(r, Timed)]
           g == [r \in Recorders |-> Held(r, Listed)]
<1>1. \A r \in Recorders : Held(r, Timed) \in Nat /\ Held(r, Listed) \in Nat
  BY HeldNat, NotIdle
<1>2. \A r \in Recorders : Held(r, Timed) <= Held(r, Listed)
  BY <1>1 DEF Held, Listed
<1>3. /\ f \in [Recorders -> Int] /\ g \in [Recorders -> Int]
      /\ \A r \in Recorders : f[r] <= g[r]
      /\ DOMAIN f = Recorders /\ DOMAIN g = Recorders
  BY <1>1, <1>2
<1>4. /\ Elapsed(rpc, result, Timed) = Total(f)
      /\ Elapsed(rpc, result, Listed) = Total(g)
  BY DEF Elapsed, Held
<1> HIDE DEF f, g
<1>5. Part(f, Recorders) <= Part(g, Recorders)
  BY <1>3, PartMonotone, TrackerAssumption
<1>6. QED
  BY <1>3, <1>4, <1>5, TotalIsPart

(* What each counter is never ahead of, from the order of Record's steps.  *)
LEMMA Inequalities ==
  ASSUME RecordTypes, Bookkeeping
  PROVE  /\ Total(latencies) <= requestCount
         /\ Total(windowLatency) <= Total(latencies)
         /\ successCount + failureCount <= Total(windowLatency)
         /\ Total(statusCodeDist) <= successCount + failureCount
         /\ Total(errorBreakdown) <= failureCount
         /\ totalDuration <= Most(latencies)
<1>1. /\ Listed \subseteq Started /\ Shown \subseteq Listed
      /\ Decided \subseteq Shown /\ Coded \subseteq Decided
  BY DEF Started, Listed, Timed, Shown, Decided, Coded
<1>2. /\ InPlace(rpc, Listed) <= InPlace(rpc, Started)
      /\ InPlace(rpc, Shown) <= InPlace(rpc, Listed)
      /\ InPlace(rpc, Decided) <= InPlace(rpc, Shown)
      /\ InPlace(rpc, Coded) <= InPlace(rpc, Decided)
  BY <1>1, FewerPlaces
<1>3. /\ Total(latencies) <= requestCount
      /\ Total(windowLatency) <= Total(latencies)
      /\ successCount + failureCount <= Total(windowLatency)
      /\ Total(statusCodeDist) <= successCount + failureCount
      /\ Total(errorBreakdown) <= failureCount
  BY <1>2, CountingNat DEF Bookkeeping, Counting
<1>4. totalDuration <= Most(latencies)
  BY TimedIsListed, TimingNat DEF Bookkeeping, Timing, ListedTime
<1>5. QED
  BY <1>3, <1>4

(* Record only adds, changes nothing under a read lock but the atomics,    *)
(* and never a snapshot.                                                   *)
LEMMA RecordGrows ==
  ASSUME RecordTypes, NEW r \in Recorders, Record(r)
  PROVE  /\ successCount <= successCount' /\ failureCount <= failureCount'
         /\ Total(windowLatency) <= Total(windowLatency')
         /\ Snapshotting =>
              UNCHANGED <<latencies, statusCodeDist, errorBreakdown>>
         /\ UNCHANGED snapVars
<1>1. /\ successCount <= successCount' /\ failureCount <= failureCount'
      /\ Snapshotting =>
           UNCHANGED <<latencies, statusCodeDist, errorBreakdown>>
      /\ UNCHANGED snapVars
  BY DEF RecordTypes, Record, Count, AppendLatency, AddDuration,
     AppendWindow, AddSuccess, AddFailure, CountErrorType, CountCode,
     AddBytes, CountStage, Goto, Locked, atomics, guarded
<1>2. Total(windowLatency) <= Total(windowLatency')
  <2>1. CASE AppendWindow(r)
    <3>1. /\ windowLatency \in [Latencies -> Nat] /\ IsFiniteSet(Latencies)
          /\ windowLatency' = [windowLatency EXCEPT
                                 ![Microseconds(result[r].latency)] = @ + 1]
      BY <2>1, LatencyFacts DEF AppendWindow, RecordTypes
    <3>2. Microseconds(result[r].latency) \in Latencies
      BY <2>1, RecordMoves DEF AppendWindow, Goto
    <3>3. Total(windowLatency') = Total(windowLatency) + 1
      BY <3>1, <3>2, OneMore, Zenon
    <3>4. QED
      BY <3>3, CountingNat
  <2>2. CASE ~AppendWindow(r)
    <3>1. windowLatency' = windowLatency
      BY <2>2 DEF Record, Count, AppendLatency, AddDuration, AddSuccess,
         AddFailure, CountErrorType, CountCode, AddBytes, CountStage, guarded
    <3>2. QED
      BY <3>1, CountingNat
  <2>3. QED
    BY <2>1, <2>2
<1>3. QED
  BY <1>1, <1>2

(* Every step keeps SnapshotInv.                                           *)
LEMMA SnapshotInvNext ==
  ASSUME Types, Types', Bookkeeping, SnapshotInv, [Next]_vars
  PROVE  SnapshotInv'
<1> USE DEF SnapshotInv, SnapshotOrdered, Snapshotting
<1>1. /\ RecordTypes /\ StatsType
      /\ stats.success \in Nat /\ stats.failure \in Nat /\ stats.total \in Nat
  BY DEF Types, StatsType
<1>2. CASE \E r \in Recorders : Record(r)
  <2>1. /\ successCount <= successCount' /\ failureCount <= failureCount'
        /\ Snapshotting =>
             UNCHANGED <<latencies, statusCodeDist, errorBreakdown>>
        /\ spc' = spc /\ stats' = stats
    BY <1>1, <1>2, RecordGrows DEF snapVars
  <2>2. /\ successCount' \in Nat /\ failureCount' \in Nat
        /\ successCount \in Nat /\ failureCount \in Nat
        /\ Total(statusCodeDist) \in Nat
    BY <1>1, CountingNat DEF Types, RecordTypes
  <2>3. QED
    BY <1>1, <2>1, <2>2
<1>3. CASE SnapshotStep \/ LiveStep
  <2>1. UNCHANGED <<atomics, guarded>>
    BY <1>3, SnapKeeps
  <2>2. /\ Total(latencies) <= requestCount
        /\ successCount + failureCount <= Total(latencies)
        /\ Total(statusCodeDist) <= successCount + failureCount
        /\ Total(errorBreakdown) <= failureCount
    BY <1>1, Inequalities, CountingNat
  <2>3. /\ successCount \in Nat /\ failureCount \in Nat
        /\ requestCount \in Nat /\ Total(statusCodeDist) \in Nat
        /\ Total(latencies) \in Nat
    BY <1>1, CountingNat
  <2>4. CASE LoadTotal
    <3>1. stats'.total = requestCount /\ spc' = "success"
      BY <2>4 DEF LoadTotal, Snap, EmptyStats
    <3>2. QED
      BY <2>1, <2>2, <3>1 DEF guarded
  <2>5. CASE LoadSuccess
    <3>1. /\ stats'.total = stats.total /\ stats'.success = successCount
          /\ spc = "success" /\ spc' = "failure"
      BY <1>1, <2>5 DEF LoadSuccess, Snap, StatsType
    <3>2. QED
      BY <2>1, <2>2, <2>3, <3>1 DEF guarded, atomics
  <2>6. CASE LoadFailure
    <3>1. /\ stats'.total = stats.total /\ stats'.success = stats.success
          /\ stats'.failure = failureCount
          /\ spc = "failure" /\ spc' = "duration"
      BY <1>1, <2>6 DEF LoadFailure, Snap, StatsType
    <3>2. stats.success + failureCount <= Total(latencies)
      BY <1>1, <2>2, <2>3, <3>1
    <3>3. QED
      BY <2>1, <2>2, <3>1, <3>2 DEF guarded
  <2>7. CASE LoadDuration
    <3>1. /\ stats'.total = stats.total /\ stats'.success = stats.success
          /\ stats'.failure = stats.failure /\ stats'.latencies = latencies
      BY <1>1, <2>7, LoadDurationStats
    <3>2. spc = "duration" /\ spc' = "bytes"
      BY <2>7 DEF LoadDuration, Snap
    <3>3. QED
      BY <2>1, <3>1, <3>2 DEF guarded
  <2>8. CASE LoadBytes
    <3>1. /\ stats'.total = stats.total /\ stats'.success = stats.success
          /\ stats'.failure = stats.failure
          /\ stats'.latencies = stats.latencies
          /\ spc = "bytes" /\ spc' = "maps"
      BY <1>1, <2>8 DEF LoadBytes, Snap, StatsType
    <3>2. QED
      BY <2>1, <3>1 DEF guarded
  <2>9. CASE CopyMaps
    <3>1. /\ stats'.total = stats.total /\ stats'.success = stats.success
          /\ stats'.failure = stats.failure
          /\ stats'.latencies = stats.latencies
          /\ stats'.errors = errorBreakdown /\ stats'.codes = statusCodeDist
      BY <1>1, <2>9, CopyMapsStats
    <3>2. spc = "maps" /\ spc' = "done"
      BY <2>9 DEF CopyMaps, Snap
    <3>3. QED
      BY <3>1, <3>2
  <2>10. CASE Forget \/ LiveStep
    <3>1. spc' \in {"idle", "live-success", "live-failure", "live-window",
                    "live-done"}
      BY <2>10 DEF Forget, LiveStep, LiveTotal, LiveSuccess, LiveFailure,
         LiveWindow, Snap
    <3>2. QED
      BY <3>1
  <2>11. QED
    BY <1>3, <2>4, <2>5, <2>6, <2>7, <2>8, <2>9, <2>10 DEF SnapshotStep
<1>4. CASE Reset
  BY <1>4 DEF Reset, Clear
<1>5. CASE UNCHANGED vars
  BY <1>5 DEF vars, atomics, guarded, snapVars
<1>6. QED
  BY <1>2, <1>3, <1>4, <1>5 DEF Next

(* Every step keeps LiveInv.                                               *)
LEMMA LiveInvNext ==
  ASSUME Types, Types', Bookkeeping, LiveInv, [Next]_vars
  PROVE  LiveInv'
<1> USE DEF LiveInv, LiveOrdered
<1>1. /\ RecordTypes /\ StatsType
      /\ stats.success \in Nat /\ stats.failure \in Nat
  BY DEF Types, StatsType
<1>2. CASE \E r \in Recorders : Record(r)
  <2>1. /\ successCount <= successCount'
        /\ Total(windowLatency) <= Total(windowLatency')
        /\ spc' = spc /\ stats' = stats
    BY <1>1, <1>2, RecordGrows DEF snapVars
  <2>2. successCount \in Nat /\ successCount' \in Nat
    BY <1>1 DEF Types, RecordTypes
  <2>3. Total(windowLatency) \in Nat /\ Total(windowLatency') \in Nat
    BY <1>1, NatTotal, LatencyFacts DEF Types, RecordTypes
  <2>4. QED
    BY <1>1, <2>1, <2>2, <2>3
<1>3. CASE LiveStep
  <2>1. UNCHANGED <<atomics, guarded>>
    BY <1>3, SnapKeeps
  <2>2. successCount + failureCount <= Total(windowLatency)
    BY <1>1, Inequalities
  <2>3. /\ successCount \in Nat /\ failureCount \in Nat
        /\ Total(windowLatency) \in Nat
    BY <1>1, CountingNat
  <2>4. CASE LiveTotal
    BY <2>4 DEF LiveTotal, Snap
  <2>5. CASE LiveSuccess
    <3>1. stats'.success = successCount /\ spc' = "live-failure"
      BY <1>1, <2>5 DEF LiveSuccess, Snap, StatsType
    <3>2. QED
      BY <2>1, <2>3, <3>1 DEF atomics
  <2>6. CASE LiveFailure
    <3>1. /\ stats'.success = stats.success /\ stats'.failure = failureCount
          /\ spc = "live-failure" /\ spc' = "live-window"
      BY <1>1, <2>6 DEF LiveFailure, Snap, StatsType
    <3>2. stats.success + failureCount <= Total(windowLatency)
      BY <1>1, <2>2, <2>3, <3>1
    <3>3. QED
      BY <2>1, <3>1, <3>2 DEF guarded
  <2>7. CASE LiveWindow
    <3>1. /\ stats'.success = stats.success
          /\ stats'.failure = stats.failure
          /\ stats'.latencies = windowLatency
          /\ spc = "live-window" /\ spc' = "live-done"
      BY <1>1, <2>7 DEF LiveWindow, Snap, StatsType
    <3>2. QED
      BY <3>1
  <2>8. QED
    BY <1>3, <2>4, <2>5, <2>6, <2>7 DEF LiveStep
<1>4. CASE SnapshotStep \/ Reset
  <2>1. spc' \notin {"live-failure", "live-window", "live-done"}
    BY <1>4 DEF SnapshotStep, LoadTotal, LoadSuccess, LoadFailure,
       LoadDuration, LoadBytes, CopyMaps, Forget, Snap, Reset, Clear
  <2>2. QED
    BY <2>1
<1>5. CASE UNCHANGED vars
  BY <1>5 DEF vars, atomics, guarded, snapVars
<1>6. QED
  BY <1>2, <1>3, <1>4, <1>5 DEF Next

(* The inductive invariant.                                                *)
TrackerInv == Types /\ Bookkeeping /\ SnapshotInv /\ LiveInv

(* It is one.                                                              *)
LEMMA TrackerInvariant == Spec => []TrackerInv
<1>1. Init => TrackerInv
  BY TypesInit, BookInit
  DEF Init, TrackerInv, SnapshotInv, LiveInv, Snapshotting, SnapshotOrdered,
      LiveOrdered
<1>2. TrackerInv /\ [Next]_vars => TrackerInv'
  <2> SUFFICES ASSUME TrackerInv, [Next]_vars
               PROVE  TrackerInv'
    OBVIOUS
  <2>1. Types /\ RecordTypes /\ Bookkeeping /\ SnapshotInv /\ LiveInv
    BY DEF TrackerInv, Types
  <2>2. Types' /\ Bookkeeping'
    BY <2>1, TypesNext, BookNext
  <2>3. SnapshotInv' /\ LiveInv'
    BY <2>1, <2>2, SnapshotInvNext, LiveInvNext
  <2>4. QED
    BY <2>2, <2>3 DEF TrackerInv
<1>3. QED
  BY <1>1, <1>2, PTL DEF Spec

(* A snapshot taken while any number of workers record is consistent in    *)
(* one direction: codes, outcomes, latencies and requests never outnumber  *)
(* one another in that order, nor the errors broken down those that        *)
(* failed.                                                                 *)
THEOREM SnapshotsOrdered == Spec => []SnapshotOrdered
<1>1. TrackerInv => SnapshotOrdered
  BY DEF TrackerInv, SnapshotInv
<1>2. QED
  BY <1>1, TrackerInvariant, PTL

(* A LiveSnapshot, which takes no lock but for the window, never shows     *)
(* more outcomes than latencies, whatever workers record meanwhile.        *)
THEOREM LiveSnapshotsOrdered == Spec => []LiveOrdered
<1>1. TrackerInv => LiveOrdered
  BY DEF TrackerInv, LiveInv
<1>2. QED
  BY <1>1, TrackerInvariant, PTL

-----------------------------------------------------------------------------
(***************************************************************************)
(* The statistics of a snapshot.                                           *)
(***************************************************************************)

(* From the copy of the latencies on, the statistics are functions of that *)
(* copy; the duration, loaded in the same step, exceeds it by no more than *)
(* it was cut by.                                                          *)
ComputedInv ==
  LET data == SortedCopy(stats.latencies) IN
  /\ spc \in {"bytes", "maps", "done"} =>
       /\ stats.min = minOrZero(data) /\ stats.max = maxOrZero(data)
       /\ stats.percentiles = CalcPercentiles(data)
       /\ stats.histogram = CalcHistogram(data)
       /\ stats.duration
            <= (Nanos(stats.max) + Cut) * Total(stats.latencies)
       /\ stats.mean = IF stats.total = 0 THEN 0
                       ELSE stats.duration \div stats.total
  /\ spc = "done" =>
       stats.squares = IF Len(data) <= 1 THEN 0
                       ELSE SquaredDeviations(data, stats.mean)

(* The sum of the latencies is at most their number times the largest.     *)
LEMMA WeightedBound ==
  ASSUME NEW bag \in [Latencies -> Nat]
  PROVE  Weighted(bag) <= maxOrZero(SortedCopy(bag)) * Total(bag)
<1> DEFINE f == [l \in Latencies |-> l * bag[l]]
           hi == maxOrZero(SortedCopy(bag))
<1>1. IsBag(bag) /\ DOMAIN bag = Latencies
  BY BagOfLatencies
<1>2. Latencies \subseteq Nat /\ IsFiniteSet(Latencies)
  BY LatencyFacts
<1>3. hi \in Nat
  BY <1>1, EndsBound
<1>4. \A l \in Latencies : bag[l] > 0 => l <= hi
  BY <1>1, EndsBound, SortedEnds
<1>5. Weighted(bag) = Total(f)
  BY <1>1 DEF Weighted
<1>6. \A x, y \in Nat : x * y \in Int
  OBVIOUS
<1>7. f \in [Latencies -> Int] /\ bag \in [Latencies -> Int]
  BY <1>2, <1>6
<1> HIDE DEF hi
<1>8. \A l \in Latencies : 1 * f[l] <= hi * bag[l]
  <2> SUFFICES ASSUME NEW l \in Latencies
               PROVE  1 * (l * bag[l]) <= hi * bag[l]
    OBVIOUS
  <2>1. l \in Nat /\ bag[l] \in Nat
    BY <1>2
  <2>2. \A x, y, z \in Nat : x <= y \/ z = 0 => 1 * (x * z) <= y * z
    OBVIOUS
  <2>3. QED
    BY <1>3, <1>4, <2>1, <2>2
<1> HIDE DEF f
<1>9. 1 * Part(f, Latencies) <= hi * Part(bag, Latencies)
  <2>1. 1 \in Int /\ hi \in Int
    BY <1>3
  <2>2. QED
    BY <1>2, <1>7, <1>8, <2>1, PartScaled
<1>10. Total(f) = Part(f, Latencies) /\ Total(bag) = Part(bag, Latencies)
  <2>1. DOMAIN f = Latencies
    BY <1>7
  <2>2. QED
    BY <1>1, <2>1, TotalIsPart
<1>11. Part(f, Latencies) \in Int
  BY <1>2, <1>7, PartInt
<1>12. QED
  BY <1>5, <1>9, <1>10, <1>11 DEF hi

(* So what they were cut from adds up to at most their number times the    *)
(* longest duration that is cut to the largest.                            *)
LEMMA WeightBound ==
  ASSUME NEW bag \in [Latencies -> Nat]
  PROVE  Most(bag) <= (Nanos(maxOrZero(SortedCopy(bag))) + Cut) * Total(bag)
<1> DEFINE hi == maxOrZero(SortedCopy(bag))
           w == Weighted(bag)
           n == Total(bag)
<1>1. /\ hi \in Nat /\ w \in Nat /\ n \in Nat
      /\ NanosPerMicro \in Nat /\ Cut \in Nat
  BY BagOfLatencies, EndsBound, WeightedNat, NatTotal, LatencyFacts,
     LatencyAssumption, NanosNat
<1>2. w <= hi * n
  BY WeightedBound
<1>3. \A k, c, h, x, t \in Nat :
        x <= h * t => k * x + c * t <= (k * h + c) * t
  <2> SUFFICES ASSUME NEW k \in Nat, NEW c \in Nat, NEW h \in Nat,
                      NEW x \in Nat, NEW t \in Nat, x <= h * t
               PROVE  k * x + c * t <= (k * h + c) * t
    OBVIOUS
  <2>1. h * t \in Nat /\ k * x \in Nat /\ c * t \in Nat
    OBVIOUS
  <2>2. \A a, b \in Nat : a <= b => k * a <= k * b
    OBVIOUS
  <2>3. k * x <= k * (h * t)
    BY <2>1, <2>2
  <2>4. (k * h + c) * t = k * (h * t) + c * t
    OBVIOUS
  <2>5. k * (h * t) \in Nat
    BY <2>1
  <2>6. QED
    BY <2>1, <2>3, <2>4, <2>5
<1> HIDE DEF hi, w, n
<1>4. Nanos(w) + Cut * n <= (Nanos(hi) + Cut) * n
  BY <1>1, <1>2, <1>3 DEF Nanos
<1>5. QED
  BY <1>4 DEF hi, w, n, Most, Least

(* Every step keeps ComputedInv.                                           *)
LEMMA ComputedInvNext ==
  ASSUME Types, Bookkeeping, ComputedInv, [Next]_vars
  PROVE  ComputedInv'
<1>1. RecordTypes /\ StatsType
  BY DEF Types
<1>2. ASSUME UNCHANGED snapVars
      PROVE  ComputedInv'
  BY <1>2 DEF ComputedInv, snapVars
<1>3. CASE \E r \in Recorders : Record(r)
  BY <1>1, <1>2, <1>3, RecordGrows
<1>4. CASE LoadDuration
  <2>1. /\ stats'.total = stats.total /\ stats'.latencies = latencies
        /\ stats'.min = minOrZero(SortedCopy(latencies))
        /\ stats'.max = maxOrZero(SortedCopy(latencies))
        /\ stats'.percentiles = CalcPercentiles(SortedCopy(latencies))
        /\ stats'.histogram = CalcHistogram(SortedCopy(latencies))
        /\ stats'.duration = totalDuration
        /\ stats'.mean = IF stats.total = 0 THEN 0
                         ELSE totalDuration \div stats.total
    BY <1>1, <1>4, LoadDurationStats
  <2>2. spc' = "bytes"
    BY <1>4 DEF LoadDuration, Snap
  <2>3. latencies \in [Latencies -> Nat]
    BY <1>1 DEF RecordTypes
  <2> DEFINE top == Nanos(maxOrZero(SortedCopy(latencies))) + Cut
  <2>4. /\ totalDuration <= Most(latencies)
        /\ Most(latencies) <= top * Total(latencies)
    BY <1>1, <2>3, Inequalities, WeightBound
  <2>5. totalDuration <= top * Total(latencies)
    <3>1. top \in Nat
      BY <2>3, BagOfLatencies, EndsBound, NanosNat
    <3> HIDE DEF top
    <3>2. /\ totalDuration \in Nat /\ Most(latencies) \in Nat
          /\ Total(latencies) \in Nat
      BY <1>1, TimingNat, CountingNat
    <3>3. \A x, y \in Nat : x * y \in Nat
      OBVIOUS
    <3>4. QED
      BY <2>4, <3>1, <3>2, <3>3
  <2>6. QED
    BY <2>1, <2>2, <2>5 DEF ComputedInv
<1>5. CASE LoadBytes
  <2>1. /\ stats' = [stats EXCEPT !.bytes = totalBytes]
        /\ spc = "bytes" /\ spc' = "maps"
    BY <1>5 DEF LoadBytes, Snap
  <2>2. /\ stats'.total = stats.total /\ stats'.latencies = stats.latencies
        /\ stats'.min = stats.min /\ stats'.max = stats.max
        /\ stats'.percentiles = stats.percentiles
        /\ stats'.histogram = stats.histogram
        /\ stats'.duration = stats.duration /\ stats'.mean = stats.mean
    BY <1>1, <2>1 DEF StatsType
  <2>3. QED
    BY <2>1, <2>2 DEF ComputedInv
<1>6. CASE CopyMaps
  <2>1. /\ stats'.total = stats.total /\ stats'.latencies = stats.latencies
        /\ stats'.min = stats.min /\ stats'.max = stats.max
        /\ stats'.percentiles = stats.percentiles
        /\ stats'.histogram = stats.histogram
        /\ stats'.duration = stats.duration /\ stats'.mean = stats.mean
        /\ stats'.squares =
             IF Len(SortedCopy(stats.latencies)) <= 1 THEN 0
             ELSE SquaredDeviations(SortedCopy(stats.latencies), stats.mean)
    BY <1>1, <1>6, CopyMapsStats
  <2>2. spc = "maps" /\ spc' = "done"
    BY <1>6 DEF CopyMaps, Snap
  <2>3. QED
    BY <2>1, <2>2 DEF ComputedInv
<1>7. CASE \/ LoadTotal \/ LoadSuccess \/ LoadFailure \/ Forget
           \/ LiveStep \/ Reset
  <2>1. spc' \notin {"bytes", "maps", "done"}
    BY <1>7 DEF LoadTotal, LoadSuccess, LoadFailure, Forget, LiveStep,
       LiveTotal, LiveSuccess, LiveFailure, LiveWindow, Snap, Reset, Clear
  <2>2. QED
    BY <2>1 DEF ComputedInv
<1>8. CASE UNCHANGED vars
  BY <1>2, <1>8 DEF vars
<1>9. QED
  BY <1>3, <1>4, <1>5, <1>6, <1>7, <1>8 DEF Next, SnapshotStep

(* ComputedInv is an invariant.                                            *)
LEMMA ComputedInvariant == Spec => []ComputedInv
<1>1. Init => ComputedInv
  BY DEF Init, ComputedInv
<1>2. TrackerInv /\ ComputedInv /\ [Next]_vars => ComputedInv'
  BY ComputedInvNext DEF TrackerInv
<1>3. QED
  BY <1>1, <1>2, TrackerInvariant, PTL DEF Spec

(* The types of a snapshot that is returned, and its latencies are never   *)
(* more than its requests.                                                 *)
LEMMA DoneFacts ==
  ASSUME TrackerInv, spc = "done"
  PROVE  /\ stats.latencies \in [Latencies -> Nat] /\ IsBag(stats.latencies)
         /\ stats.total \in Nat /\ stats.duration \in Nat
         /\ stats.mean \in Nat /\ Nanos(stats.max) + Cut \in Nat
         /\ Total(stats.latencies) \in Nat
         /\ Total(stats.latencies) <= stats.total
<1>1. StatsType /\ SnapshotOrdered
  BY DEF TrackerInv, Types, SnapshotInv
<1>2. stats.latencies \in [Latencies -> Nat]
  BY <1>1 DEF StatsType
<1>3. IsBag(stats.latencies) /\ Total(stats.latencies) \in Nat
  BY <1>2, BagOfLatencies, NatTotal, LatencyFacts
<1>4. Nanos(stats.max) + Cut \in Nat
  <2>1. stats.max \in Nat
    BY <1>1 DEF StatsType
  <2>2. Nanos(stats.max) \in Nat /\ Cut \in Nat
    BY <2>1, NanosNat
  <2>3. QED
    BY <2>2
<1>5. QED
  BY <1>1, <1>2, <1>3, <1>4 DEF StatsType, SnapshotOrdered

(* The quotient of a number that is at most b * c by c is at most b.       *)
LEMMA MeanBounded ==
  ASSUME NEW a \in Nat, NEW b \in Nat, NEW c \in Nat, c # 0, a <= b * c
  PROVE  a \div c <= b
<1> DEFINE q == a \div c
<1>1. q \in Nat /\ c * q <= a
  OBVIOUS
<1> HIDE DEF q
<1>2. SUFFICES ASSUME q >= b + 1 PROVE FALSE
  BY <1>1 DEF q
<1>3. \A x, y, z \in Nat : x >= y + 1 => z * x >= y * z + z
  OBVIOUS
<1>4. c * q >= b * c + c
  BY <1>1, <1>2, <1>3
<1>5. c * q \in Nat /\ b * c \in Nat
  BY <1>1
<1>6. QED
  BY <1>1, <1>4, <1>5

(* The mean is bounded by what may have been cut to the maximum, as the    *)
(* duration is by the sum of that for every latency, and these are not     *)
(* more than the requests.                                                 *)
LEMMA MeanFollows == TrackerInv /\ ComputedInv => MeanNearMax
<1> SUFFICES ASSUME TrackerInv, ComputedInv, spc = "done"
             PROVE  /\ stats.duration
                         <= (Nanos(stats.max) + Cut) * stats.total
                    /\ DeviationCorrect(stats.latencies, stats.squares,
                                        stats.mean, stats.min, stats.max)
  BY DEF MeanNearMax
<1> DEFINE data == SortedCopy(stats.latencies)
           top == Nanos(stats.max) + Cut
<1>1. /\ stats.latencies \in [Latencies -> Nat] /\ IsBag(stats.latencies)
      /\ stats.total \in Nat /\ stats.duration \in Nat
      /\ stats.mean \in Nat /\ top \in Nat
      /\ Total(stats.latencies) \in Nat
      /\ Total(stats.latencies) <= stats.total
  BY DoneFacts
<1>2. /\ stats.min = minOrZero(data) /\ stats.max = maxOrZero(data)
      /\ stats.duration <= top * Total(stats.latencies)
      /\ stats.mean = IF stats.total = 0 THEN 0
                      ELSE stats.duration \div stats.total
      /\ stats.squares = IF Len(data) <= 1 THEN 0
                         ELSE SquaredDeviations(data, stats.mean)
  BY DEF ComputedInv
<1> HIDE DEF top
<1>3. stats.duration <= top * stats.total
  <2>1. \A d, x, y, z \in Nat : d <= x * y /\ y <= z => d <= x * z
    <3>1. \A x, y, z \in Nat : y <= z => x * y <= x * z
      OBVIOUS
    <3>2. \A x, y \in Nat : x * y \in Nat
      OBVIOUS
    <3>3. QED
      BY <3>1, <3>2
  <2>2. QED
    BY <1>1, <1>2, <2>1
<1>4. stats.mean <= top
  <2>1. CASE stats.total = 0
    BY <1>1, <1>2, <2>1
  <2>2. CASE stats.total # 0
    BY <1>1, <1>2, <1>3, <2>2, MeanBounded
  <2>3. QED
    BY <2>1, <2>2
<1>5. DeviationCorrect(stats.latencies,
                       IF Len(data) <= 1 THEN 0
                       ELSE SquaredDeviations(data, stats.mean),
                       stats.mean, minOrZero(data), maxOrZero(data))
  BY <1>1, <1>2, <1>4, DeviationIsCorrect DEF top
<1>6. QED
  BY <1>2, <1>3, <1>5 DEF top

(* The percentiles are those of the copied latencies.                      *)
LEMMA PercentilesFollow == TrackerInv /\ ComputedInv => PercentilesRight
<1> SUFFICES ASSUME TrackerInv, ComputedInv, spc = "done"
             PROVE  /\ PercentilesCorrect(stats.latencies, stats.percentiles)
                    /\ 100 * stats.min <= stats.percentiles[50]
                    /\ stats.percentiles[99] <= 100 * stats.max
  BY DEF PercentilesRight
<1> DEFINE bag == stats.latencies
           data == SortedCopy(bag)
<1>1. IsBag(bag)
  BY DoneFacts
<1>2. /\ stats.min = minOrZero(data) /\ stats.max = maxOrZero(data)
      /\ stats.percentiles = CalcPercentiles(data)
  BY DEF ComputedInv
<1>3. PercentilesCorrect(bag, stats.percentiles)
  BY <1>1, <1>2, PercentilesAreCorrect
<1>4. /\ 100 * stats.min <= stats.percentiles[50]
      /\ stats.percentiles[99] <= 100 * stats.max
  BY <1>1, <1>2, PercentilesBetween DEF CalcPercentiles, Percentiles
<1>5. QED
  BY <1>3, <1>4

(* The histogram is that of the copied latencies.                          *)
LEMMA HistogramFollows == TrackerInv /\ ComputedInv => HistogramRight
<1> SUFFICES ASSUME TrackerInv, ComputedInv, spc = "done"
             PROVE  /\ HistogramCorrect(stats.latencies, stats.histogram)
                    /\ HistogramsAgree(stats.latencies, stats.histogram,
                          BuildHistogram(SortedCopy(stats.latencies)))
  BY DEF HistogramRight
<1>1. IsBag(stats.latencies)
  BY DoneFacts
<1>2. stats.histogram = CalcHistogram(SortedCopy(stats.latencies))
  BY DEF ComputedInv
<1>3. QED
  BY <1>1, <1>2, HistogramIsCorrect, HistogramsDoAgree

(* The mean a snapshot reports exceeds the maximum it reports by less than *)
(* the microsecond to which latencies are cut, although it divides one     *)
(* atomic counter by another while workers record, and so does the         *)
(* standard deviation around it; for any number of workers, any durations  *)
(* and any size of the microsecond.                                        *)
THEOREM MeansBounded == Spec => []MeanNearMax
BY TrackerInvariant, ComputedInvariant, MeanFollows, PTL

(* The percentiles of every snapshot are those of the latencies it copied  *)
(* and lie between its minimum and its maximum.                            *)
THEOREM PercentilesAreRight == Spec => []PercentilesRight
BY TrackerInvariant, ComputedInvariant, PercentilesFollow, PTL

(* The histogram of every snapshot counts the latencies it copied, and     *)
(* differs from that of BuildHistogram at the thresholds only.             *)
THEOREM HistogramsAreRight == Spec => []HistogramRight
BY TrackerInvariant, ComputedInvariant, HistogramFollows, PTL

-----------------------------------------------------------------------------
(***************************************************************************)
(* The reports made of a snapshot.                                         *)
(***************************************************************************)

(* A share of a total that is not 0 is a number, and rounds down.          *)
LEMMA ShareBounds ==
  ASSUME NEW count \in Nat, NEW total \in Nat, total # 0
  PROVE  /\ Share(count, total) \in Nat
         /\ total * Share(count, total) <= 1000 * count
<1>1. \A a \in Nat : \A b \in Nat \ {0} :
        a \div b \in Nat /\ b * (a \div b) <= a
  OBVIOUS
<1>2. 1000 * count \in Nat
  OBVIOUS
<1>3. QED
  BY <1>1, <1>2 DEF Share

(* Shares that, times the total, are at most 1000 times the whole do not   *)
(* exceed 1000 tenths of a percent.                                        *)
LEMMA SumBounded ==
  ASSUME NEW total \in Nat, total # 0, NEW sum \in Int, NEW whole \in Int,
         total * sum <= 1000 * whole, whole <= total
  PROVE  sum <= 1000
<1>1. SUFFICES ASSUME sum >= 1001
               PROVE  FALSE
  OBVIOUS
<1>2. \A a \in Nat : \A b \in Int : b >= 1001 => a * b >= 1001 * a
  OBVIOUS
<1>3. total * sum >= 1001 * total /\ total * sum \in Int
  BY <1>1, <1>2
<1>4. 1000 * whole <= 1000 * total
  OBVIOUS
<1>5. QED
  BY <1>3, <1>4

(* Counts that are at most the total have shares of one whole.             *)
LEMMA SharesOfTotal ==
  ASSUME NEW D, IsFiniteSet(D), NEW counts \in [D -> Nat],
         NEW total \in Nat, total # 0, Total(counts) <= total
  PROVE  PartsOfAWhole(Shares(counts, total))
<1> DEFINE shares == Shares(counts, total)
<1>1. /\ shares \in [D -> Nat] /\ DOMAIN shares = D /\ DOMAIN counts = D
      /\ \A k \in D : total * shares[k] <= 1000 * counts[k]
  <2>1. shares = [k \in D |-> Share(counts[k], total)] /\ DOMAIN counts = D
    BY DEF Shares
  <2>2. \A k \in D : /\ Share(counts[k], total) \in Nat
                     /\ total * Share(counts[k], total) <= 1000 * counts[k]
    BY ShareBounds
  <2>3. QED
    BY <2>1, <2>2
<1>2. shares \in [D -> Int] /\ counts \in [D -> Int] /\ total \in Int
  BY <1>1
<1> HIDE DEF shares
<1>3. total * Part(shares, D) <= 1000 * Part(counts, D)
  <2>1. \A S \in SUBSET D :
          (\A k \in S : total * shares[k] <= 1000 * counts[k])
            => total * Part(shares, S) <= 1000 * Part(counts, S)
    <3>1. IsFiniteSet(D) /\ 1000 \in Int
      OBVIOUS
    <3>2. QED
      BY <1>2, <3>1, PartScaled, SMTT(20)
  <2>2. D \in SUBSET D
    OBVIOUS
  <2>3. QED
    BY <1>1, <2>1, <2>2
<1>4. /\ Total(shares) = Part(shares, D) /\ Total(counts) = Part(counts, D)
      /\ Total(shares) \in Int /\ Total(counts) \in Int
  BY <1>1, <1>2, TotalIsPart, PartInt
<1>5. Total(shares) <= 1000
  BY <1>3, <1>4, SumBounded
<1>6. \A k \in D : shares[k] # NotANumber
  BY <1>1 DEF NotANumber
<1>7. QED
  BY <1>1, <1>5, <1>6 DEF PartsOfAWhole, shares

(* So have the entries of a Go map, which has no key with the count 0:     *)
(* when the total is 0 there is no entry to divide by it.                  *)
LEMMA PresentShares ==
  ASSUME NEW D, IsFiniteSet(D), NEW counts \in [D -> Nat],
         NEW total \in Nat, Total(counts) <= total
  PROVE  PartsOfAWhole(Shares(RestrictValues(counts, LAMBDA n : n > 0),
                              total))
<1> DEFINE S == {k \in D : counts[k] > 0}
           present == [k \in S |-> counts[k]]
<1>1. RestrictValues(counts, LAMBDA n : n > 0) = present
  BY DEF RestrictValues, Restrict
<1>2. S \in SUBSET D /\ IsFiniteSet(S)
  BY FS_Subset
<1>3. counts \in [D -> Int]
  OBVIOUS
<1>4. Total(present) = Part(counts, S)
  <2> HIDE DEF S
  <2>1. QED
    BY <1>2, <1>3, RestrictedTotal
<1>5. present \in [S -> Nat]
  OBVIOUS
<1>6. Part(counts, S) \in Nat /\ Part(counts, S) <= Total(counts)
  BY <1>2, TotalOfPart
<1>7. Total(counts) \in Nat
  BY NatTotal
<1>8. Total(present) <= total
  BY <1>4, <1>6, <1>7
<1>9. CASE total # 0
  <2> HIDE DEF S, present
  <2>1. QED
    BY <1>1, <1>2, <1>5, <1>8, <1>9, SharesOfTotal
<1>10. CASE total = 0
  <2>1. S = {}
    <3> SUFFICES ASSUME NEW k \in D, counts[k] > 0
                 PROVE  FALSE
      OBVIOUS
    <3>1. Part(counts, {k}) = counts[k] + Part(counts, {k} \ {k})
      BY <1>3, PartRemove
    <3>2. Part(counts, {k} \ {k}) \in Nat /\ Part(counts, {k}) <= Total(counts)
      <4>1. {k} \in SUBSET D /\ ({k} \ {k}) \in SUBSET D
        OBVIOUS
      <4>2. QED
        BY <4>1, TotalOfPart
    <3>3. QED
      BY <1>7, <1>10, <3>1, <3>2
  <2>2. DOMAIN Shares(present, total) = {}
    BY <2>1 DEF Shares
  <2>3. Shares(present, total) = Zero({})
    BY <2>1 DEF Shares, Zero
  <2>4. Total(Zero({})) = 0
    BY TotalZero, FS_EmptySet
  <2> HIDE DEF S, present
  <2>5. PartsOfAWhole(Shares(present, total))
    BY <2>2, <2>3, <2>4 DEF PartsOfAWhole
  <2>6. QED
    BY <1>1, <2>5
<1>11. QED
  BY <1>9, <1>10

(* The total of a pair is the sum of its members.                          *)
LEMMA PairTotal ==
  ASSUME NEW a \in Int, NEW b \in Int
  PROVE  Total(<<a, b>>) = a + b
<1> DEFINE f == <<a, b>>
           D == {1, 2}
<1>1. f \in [D -> Int] /\ DOMAIN f = D /\ f[1] = a /\ f[2] = b
  OBVIOUS
<1>2. IsFiniteSet(D)
  <2>1. IsFiniteSet({1}) /\ {1} \cup {2} = D
    BY FS_Singleton
  <2>2. QED
    BY <2>1, FS_AddElement
<1> HIDE DEF f
<1>3. Part(f, D) = f[1] + Part(f, D \ {1})
  BY <1>1, <1>2, PartRemove
<1>4. D \ {1} = {2} /\ {2} \ {2} = {}
  OBVIOUS
<1>5. Part(f, {2}) = f[2] + Part(f, {2} \ {2})
  BY <1>1, <1>2, PartRemove
<1>6. Part(f, {}) = 0
  BY <1>1, <1>2, PartEmpty
<1>7. Total(f) = a + b
  BY <1>1, <1>3, <1>4, <1>5, <1>6, TotalIsPart
<1>8. QED
  BY <1>7 DEF f

(* The success and the failure rate are shares of one whole.               *)
LEMMA RatesOfTotal ==
  ASSUME NEW success \in Nat, NEW failure \in Nat, NEW total \in Nat,
         success + failure <= total
  PROVE  PartsOfAWhole(<<Rate(success, total), Rate(failure, total)>>)
<1> DEFINE a == Rate(success, total)
           b == Rate(failure, total)
<1>1. a \in Nat /\ b \in Nat /\ a + b <= 1000
  <2>1. CASE total = 0
    BY <2>1 DEF Rate
  <2>2. CASE total # 0
    <3>1. /\ a \in Nat /\ b \in Nat
          /\ total * a <= 1000 * success /\ total * b <= 1000 * failure
      BY <2>2, ShareBounds DEF Rate
    <3> HIDE DEF a, b
    <3>2. \A x, y, z \in Nat : x * (y + z) = x * y + x * z /\ x * y \in Nat
      OBVIOUS
    <3>3. total * (a + b) <= 1000 * (success + failure)
      BY <3>1, <3>2
    <3>4. a + b \in Int /\ success + failure \in Int
      BY <3>1
    <3>5. a + b <= 1000
      BY <2>2, <3>3, <3>4, SumBounded
    <3>6. QED
      BY <3>1, <3>5
  <2>3. QED
    BY <2>1, <2>2
<1> HIDE DEF a, b
<1>2. Total(<<a, b>>) = a + b
  BY <1>1, PairTotal
<1>3. \A k \in DOMAIN <<a, b>> : <<a, b>>[k] # NotANumber
  BY <1>1 DEF NotANumber
<1>4. QED
  BY <1>1, <1>2, <1>3 DEF PartsOfAWhole, a, b

(* A bar fits, and is visible exactly if its bucket is not empty.          *)
LEMMA BarsFit ==
  ASSUME NEW count \in Nat, NEW total \in Nat, count <= total
  PROVE  /\ histogramBar(count, total) \in 0 .. MaxBar
         /\ histogramBar(count, total) = 0 <=> count = 0
<1> DEFINE part == (MaxBar * count) \div total
           barLen == Min({MaxBar, part})
<1>1. MaxBar \in Nat /\ MaxBar >= 1
  BY ReportsAssumption
<1>2. CASE total = 0
  BY <1>1, <1>2 DEF histogramBar
<1>3. CASE total # 0
  <2>1. part \in Nat
    <3>1. \A x, y \in Nat : x * y \in Nat /\ (y # 0 => x \div y \in Nat)
      OBVIOUS
    <3>2. QED
      BY <1>1, <1>3, <3>1
  <2>2. count = 0 => part = 0
    <3>1. \A x \in Nat : x * 0 = 0 /\ (x # 0 => 0 \div x = 0)
      OBVIOUS
    <3>2. QED
      BY <1>1, <1>3, <3>1
  <2>3. histogramBar(count, total)
          = IF barLen < 1 /\ count > 0 THEN 1 ELSE barLen
    BY <1>3 DEF histogramBar
  <2> HIDE DEF part
  <2>4. barLen \in {MaxBar, part} /\ barLen <= MaxBar /\ barLen <= part
    <3>1. \E x \in {MaxBar, part} : \A y \in {MaxBar, part} : x <= y
      BY <1>1, <2>1
    <3>2. QED
      BY <3>1 DEF Min
  <2> HIDE DEF barLen
  <2>5. QED
    BY <1>1, <2>1, <2>2, <2>3, <2>4
<1>4. QED
  BY <1>2, <1>3

(* The reports are right about every snapshot that is in order.            *)
LEMMA SharesFollow == TrackerInv /\ ComputedInv => SharesRight
<1> SUFFICES ASSUME TrackerInv, ComputedInv, spc = "done"
             PROVE  ReportsCorrect(toReporterStats(stats))
  BY DEF SharesRight
<1> DEFINE s == toReporterStats(stats)
           total == stats.total
           hist == stats.histogram
<1>1. /\ total \in Nat /\ stats.success \in Nat /\ stats.failure \in Nat
      /\ stats.codes \in [Codes -> Nat] /\ stats.errors \in [ErrorTypes -> Nat]
      /\ hist \in [Buckets -> Nat]
  BY DEF TrackerInv, Types, StatsType
<1>2. /\ Total(stats.codes) <= stats.success + stats.failure
      /\ stats.success + stats.failure <= Total(stats.latencies)
      /\ Total(stats.latencies) <= total
      /\ Total(stats.errors) <= stats.failure
  BY DEF TrackerInv, SnapshotInv, SnapshotOrdered
<1>3. IsBag(stats.latencies) /\ Total(stats.latencies) \in Nat
  BY DoneFacts
<1>4. Total(hist) = Total(stats.latencies)
  BY <1>3, HistogramTotal DEF ComputedInv
<1>5. Total(stats.codes) \in Nat
  BY <1>1, NatTotal, TrackerAssumption
<1>6. /\ stats.success + stats.failure <= total
      /\ Total(stats.codes) <= total /\ Total(hist) <= total
  BY <1>1, <1>2, <1>3, <1>4, <1>5
<1>7. /\ s.total = total /\ s.success = stats.success
      /\ s.failure = stats.failure /\ s.histogram = hist
      /\ s.codes = RestrictValues(stats.codes, LAMBDA n : n > 0)
      /\ s.errors = RestrictValues(stats.errors, LAMBDA n : n > 0)
  BY DEF toReporterStats
<1> HIDE DEF s, total, hist
<1>8. PartsOfAWhole(<<Rate(s.success, s.total), Rate(s.failure, s.total)>>)
  BY <1>1, <1>6, <1>7, RatesOfTotal
<1>9. PartsOfAWhole(Shares(s.codes, s.total))
  BY <1>1, <1>6, <1>7, PresentShares, TrackerAssumption
<1>10. PartsOfAWhole(Shares(s.errors, s.failure))
  BY <1>1, <1>2, <1>7, PresentShares, TrackerAssumption
<1>11. IsFiniteSet(Buckets)
  BY BucketsFinite
<1>12. \A b \in Buckets : hist[b] <= total
  <2> SUFFICES ASSUME NEW b \in Buckets
               PROVE  hist[b] <= total
    OBVIOUS
  <2>1. hist \in [Buckets -> Int] /\ {b} \in SUBSET Buckets
        /\ ({b} \ {b}) \in SUBSET Buckets
    BY <1>1
  <2>2. Part(hist, {b}) = hist[b] + Part(hist, {b} \ {b})
    BY <1>11, <2>1, PartRemove
  <2>3. Part(hist, {b} \ {b}) \in Nat /\ Part(hist, {b}) <= Total(hist)
    BY <1>1, <1>11, <2>1, TotalOfPart
  <2>4. hist[b] \in Nat /\ Total(hist) \in Nat
    BY <1>1, <1>3, <1>4
  <2>5. QED
    BY <1>1, <1>6, <2>2, <2>3, <2>4
<1>13. \A b \in Buckets :
         /\ histogramBar(s.histogram[b], s.total) \in 0 .. MaxBar
         /\ histogramBar(s.histogram[b], s.total) = 0 <=> s.histogram[b] = 0
  BY <1>1, <1>7, <1>12, BarsFit
<1>14. s.total > 0 => PartsOfAWhole(Shares(s.histogram, s.total))
  BY <1>1, <1>6, <1>7, <1>11, SharesOfTotal
<1>15. DOMAIN s.histogram = Buckets
  BY <1>1, <1>7
<1>16. ReportsCorrect(s)
  BY <1>8, <1>9, <1>10, <1>13, <1>14, <1>15
  DEF ReportsCorrect, PrintSummary, reportData
<1>17. QED
  BY <1>16 DEF s

(* Whatever workers record while a snapshot is taken, the console and the  *)
(* HTML report made of it divide by zero only where ReportsCorrect says    *)
(* so, and show shares of one whole and bars that fit.                     *)
THEOREM ReportsAreRight == Spec => []SharesRight
BY TrackerInvariant, ComputedInvariant, SharesFollow, PTL
=============================================================================
