---------------------------- MODULE LatencyStats ----------------------------
(***************************************************************************)
(* The statistics Tracker.Snapshot computes from its copy of the latencies:*)
(* the sort, minimum, maximum, percentiles, deviation and histogram. A     *)
(* latency of that copy is a whole number of microseconds, as Record cuts  *)
(* it, and a percentile a hundredth of one, so that the interpolation      *)
(* between two latencies is exact. The mean is taken from the durations    *)
(* that were not cut, and is a whole number of nanoseconds.                *)
(***************************************************************************)
EXTENDS Integers, Sequences, FiniteSets, Functions

CONSTANTS
  NanosPerMicro,    \* 1000 in the code, and less in an instance for TLC
  MicrosPerMilli    \* the same

ASSUME LatencyAssumption ==
  NanosPerMicro \in Nat \ {0} /\ MicrosPerMilli \in Nat \ {0}

Nanos(us)  == NanosPerMicro * us
Millis(ms) == MicrosPerMilli * ms

(* The most that a cut to microseconds takes off a duration.               *)
Cut == NanosPerMicro - 1

Total(f) == FoldFunction(LAMBDA a, b : a + b, 0, f)

(* How many elements of the bag satisfy a condition on latencies.          *)
CountIf(bag, Test(_)) == Total([l \in {x \in DOMAIN bag : Test(x)} |-> bag[l]])

(* Mutant of SortedCopy: the largest first.                                *)
DescendingCopy(bag) ==
  [i \in 1 .. Total(bag) |->
     CHOOSE l \in DOMAIN bag :
       /\ CountIf(bag, LAMBDA x : x >= l) >= i
       /\ CountIf(bag, LAMBDA x : x > l) < i]

(* slices.Sort of the copied slice: the order statistics of the bag.       *)
SortedCopy(bag) ==
  [i \in 1 .. Total(bag) |->
     CHOOSE l \in DOMAIN bag :
       /\ CountIf(bag, LAMBDA x : x <= l) >= i
       /\ CountIf(bag, LAMBDA x : x < l) < i]

minOrZero(data) == IF data = <<>> THEN 0 ELSE data[1]
maxOrZero(data) == IF data = <<>> THEN 0 ELSE data[Len(data)]

(* CalcPercentiles for 0 < p < 100: the rank p/100 * (n - 1), counted from *)
(* 0, falls on a latency or between two, which are then interpolated. On   *)
(* no data the result is empty, which the caller reads as 0.               *)
Percentile(data, p) ==
  LET rank  == p * (Len(data) - 1)
      lower == rank \div 100
      frac  == rank % 100
  IN  IF data = <<>> THEN 0
      ELSE IF frac = 0 THEN 100 * data[lower + 1]
      ELSE data[lower + 1] * (100 - frac) + data[lower + 2] * frac

Percentiles == {50, 90, 95, 99}
CalcPercentiles(data) == [p \in Percentiles |-> Percentile(data, p)]

(* CalcStandardDeviation before the division and the root: the sum of the  *)
(* squared distances from the mean, in nanoseconds.                        *)
SquaredDeviations(data, mean) ==
  Total([i \in DOMAIN data |-> (Nanos(data[i]) - mean)
                                 * (Nanos(data[i]) - mean)])

(* The thresholds of CalcHistogram; the last bucket has none.              *)
Thresholds ==
  <<Millis(10), Millis(25), Millis(50), Millis(100), Millis(250),
    Millis(500), Millis(1000), Millis(2500), Millis(5000), Millis(10000)>>
Buckets == 1 .. Len(Thresholds) + 1

(* Mutant of Below: the threshold belongs to its bucket.                   *)
BelowOrAt(l, b) == b = Len(Thresholds) + 1 \/ l <= Thresholds[b]

Below(l, b) == b = Len(Thresholds) + 1 \/ l < Thresholds[b]

(* A latency goes into the first bucket whose threshold it is below.       *)
BucketOf(l) ==
  CHOOSE b \in Buckets : Below(l, b) /\ \A c \in 1 .. b - 1 : ~Below(l, c)

CalcHistogram(data) ==
  [b \in Buckets |-> Cardinality({i \in DOMAIN data : BucketOf(data[i]) = b})]

(* BuildHistogram over the default buckets: here a latency that equals a   *)
(* boundary goes below it, and what is beyond the last is the overflow.    *)
BuildHistogram(data) ==
  LET Bounds    == DOMAIN Thresholds
      Fits(i)   == {b \in Bounds : data[i] <= Thresholds[b]}
      Into(b)   == {i \in DOMAIN data : b \in Fits(i) /\ b - 1 \notin Fits(i)}
  IN  [counts   |-> [b \in Bounds |-> Cardinality(Into(b))],
       overflow |-> Cardinality({i \in DOMAIN data : Fits(i) = {}})]
-----------------------------------------------------------------------------
(***************************************************************************)
(* What these functions compute, said of the bag and not of its order.     *)
(***************************************************************************)

(* At least the share p of the latencies is not above the percentile p and *)
(* at least the rest not below it; percentiles grow with p, between the    *)
(* minimum and the maximum.                                                *)
PercentilesCorrect(bag, values) ==
  LET n == Total(bag) IN
  n > 0 => \A p \in Percentiles :
    /\ 100 * (CountIf(bag, LAMBDA x : 100 * x <= values[p]) - 1)
         > p * (n - 1) - 100
    /\ 100 * (n - CountIf(bag, LAMBDA x : 100 * x >= values[p]))
         < p * (n - 1) + 100
    /\ \A q \in Percentiles : p <= q => values[p] <= values[q]

(* The bucket "<b" holds the latencies from the threshold before it up to, *)
(* and without, b.                                                         *)
HistogramCorrect(bag, hist) ==
  \A b \in Buckets :
    hist[b] = CountIf(bag, LAMBDA x :
                /\ b <= Len(Thresholds) => x < Thresholds[b]
                /\ b > 1 => x >= Thresholds[b - 1])

(* The two histograms of the same latencies differ by those that equal a   *)
(* threshold, and by nothing else.                                         *)
HistogramsAgree(bag, hist, built) ==
  LET At(b) == IF b \notin DOMAIN Thresholds THEN 0
               ELSE CountIf(bag, LAMBDA x : x = Thresholds[b])
  IN  \A b \in Buckets :
        hist[b] - At(b - 1) + At(b)
          = IF b \in DOMAIN built.counts THEN built.counts[b]
            ELSE built.overflow

(* The standard deviation does not exceed the largest duration that is cut *)
(* to max, nor its distance from the smallest latency if the mean is not   *)
(* below that.                                                             *)
DeviationCorrect(bag, squares, mean, min, max) ==
  LET n   == Total(bag)
      low == Nanos(min)
      top == Nanos(max) + Cut
  IN  /\ squares <= n * top * top
      /\ mean >= low => squares <= n * (top - low) * (top - low)
=============================================================================
