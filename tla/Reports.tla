------------------------------- MODULE Reports -------------------------------
(***************************************************************************)
(* What the reports make of a snapshot: toReporterStats, the shares and    *)
(* bars of the console summary and of the HTML report. A share is counted  *)
(* in tenths of a percent, the digit the reports print; how it is rounded  *)
(* to it, and all other layout, is left out. An absent key of a Go map is  *)
(* a count of 0.                                                           *)
(***************************************************************************)
EXTENDS LatencyStats, FiniteSetsExt

CONSTANT MaxBar   \* the longest bar: 40 characters in the code

ASSUME ReportsAssumption == MaxBar \in Nat \ {0}

(* A float64 division by zero: NaN or infinite, and printed as such.       *)
NotANumber == -1

Share(count, total) ==
  IF total = 0 THEN NotANumber ELSE (1000 * count) \div total

(* A loop over a map meets the keys that are there.                        *)
Shares(counts, total) == [k \in DOMAIN counts |-> Share(counts[k], total)]

(* main.go copies the two maps and leaves the bytes behind.                *)
toReporterStats(s) ==
  LET Present(f) == RestrictValues(f, LAMBDA n : n > 0)
  IN  [total |-> s.total, success |-> s.success, failure |-> s.failure,
       codes |-> Present(s.codes), errors |-> Present(s.errors),
       histogram |-> s.histogram]

(* Mutant of Rate: the division without the guard, as histogramRows has it.*)
UnguardedRate(count, total) == Share(count, total)

(* The same guard in successRate, failRate and successRateFloat.           *)
Rate(count, total) == IF total = 0 THEN 0 ELSE Share(count, total)

(* The length of a bar: never beyond MaxBar, never invisible.              *)
histogramBar(count, total) ==
  LET barLen == Min({MaxBar, (MaxBar * count) \div total})
  IN  IF total = 0 THEN 0
      ELSE IF barLen < 1 /\ count > 0 THEN 1
      ELSE barLen

PrintSummary(s) ==
  [success |-> Rate(s.success, s.total),
   failure |-> Rate(s.failure, s.total),
   codes   |-> Shares(s.codes, s.total),
   errors  |-> Shares(s.errors, s.failure),
   bars    |-> [b \in DOMAIN s.histogram
                  |-> histogramBar(s.histogram[b], s.total)]]

reportData(s) ==
  [success   |-> Rate(s.success, s.total),
   codes     |-> Shares(s.codes, s.total),
   histogram |-> Shares(s.histogram, s.total)]
-----------------------------------------------------------------------------
(***************************************************************************)
(* What a reader of the reports relies on.                                 *)
(***************************************************************************)

(* Shares of one whole: numbers that together are at most that whole.      *)
PartsOfAWhole(shares) ==
  /\ \A k \in DOMAIN shares : shares[k] # NotANumber
  /\ Total(shares) <= 1000

(* The shares of a report are shares of one whole, a bar is visible        *)
(* exactly if its bucket is not empty, and the bars fit on their lines.    *)
(* The one exception is the histogram of the HTML report, whose shares are *)
(* no numbers when there was no request.                                   *)
ReportsCorrect(s) ==
  LET console == PrintSummary(s)
      html    == reportData(s)
  IN  /\ PartsOfAWhole(<<console.success, console.failure>>)
      /\ PartsOfAWhole(console.codes) /\ PartsOfAWhole(console.errors)
      /\ \A b \in Buckets :
           /\ console.bars[b] \in 0 .. MaxBar
           /\ console.bars[b] = 0 <=> s.histogram[b] = 0
      /\ html.success = console.success /\ html.codes = console.codes
      /\ s.total > 0 => PartsOfAWhole(html.histogram)
=============================================================================
