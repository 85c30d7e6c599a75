-------------------------- MODULE TokenBucketProofs --------------------------
(***************************************************************************)
(* Proofs about TokenBucket for every rate, burst and unit of time: types  *)
(* for any number of callers, and, when there is one caller, the rate. The *)
(* second is what NewTokenBucket's arithmetic is worth on its own; with    *)
(* two callers it fails, because refill runs without the mutex.            *)
(***************************************************************************)
EXTENDS TokenBucket, TLAPS

(* The constants as the arithmetic needs them.                             *)
LEMMA Constants == /\ Rate \in Nat /\ Unit \in Nat /\ Burst \in Nat
                   /\ Rate > 0 /\ Unit > 0
                   /\ Capacity \in Nat
BY TokenBucketAssumption DEF Capacity

(* A longer time adds no fewer fractions.                                  *)
LEMMA MoreTime ==
  ASSUME NEW s \in Nat, NEW t \in Nat, s <= t
  PROVE  /\ s * Rate \in Nat /\ t * Rate \in Nat
         /\ s * Rate <= t * Rate
         /\ (t - s) * Rate = t * Rate - s * Rate
<1>1. PICK d \in Nat : t = s + d
  <2>1. t - s \in Nat /\ t = s + (t - s)
    OBVIOUS
  <2> QED  BY <2>1
<1>2. d * Rate \in Nat /\ s * Rate \in Nat
  BY Constants
<1>3. t * Rate = s * Rate + d * Rate
  BY <1>1, Constants
<1>4. t - s = d
  BY <1>1
<1> QED  BY <1>1, <1>2, <1>3, <1>4

(* What one caller adds up is a number, whatever the time.                 *)
LEMMA Elapse ==
  ASSUME NEW n \in Int
  PROVE  n * Rate \in Int
BY Constants

(* A sleep ends after it has begun.                                        *)
LEMMA SleepIsPositive ==
  ASSUME tokens \in Int
  PROVE  SleepTime \in Nat
<1>1. (Unit - tokens) \div Rate \in Int
  BY Constants
<1> QED  BY <1>1 DEF SleepTime
-----------------------------------------------------------------------------
(***************************************************************************)
(* Types. Two parts, one of the integers and one of the rest.              *)
(***************************************************************************)
NumbersOK == /\ clock \in Nat /\ tokens \in Int /\ lastRefill \in Nat
             /\ granted \in Nat
             /\ now \in [Callers -> Nat] /\ elapsed \in [Callers -> Int]
             /\ loaded \in [Callers -> Int] /\ wake \in [Callers -> Nat]
PlacesOK == /\ mu \in Callers \cup {NoOwner}
            /\ pc \in [Callers -> {"idle", "clock", "load", "add", "store",
                  "cap", "stamp", "lock", "test", "take", "put", "sleep"}]
            /\ call \in [Callers -> {"Wait", "Allow", "CurrentTokens"}]

(* TypeOK is these two parts.                                              *)
LEMMA TypeParts == TypeOK <=> NumbersOK /\ PlacesOK
BY DEF TypeOK, NumbersOK, PlacesOK

(* A step moves one caller to a place of the method, or none.              *)
LEMMA PlacesStep ==
  ASSUME PlacesOK, [Next]_vars
  PROVE  PlacesOK'
<1> USE DEF PlacesOK, Goto, locals, bucket
<1>1. ASSUME NEW w \in Callers, Begin(w) PROVE PlacesOK'
  BY <1>1, TokenBucketAssumption DEF Begin
<1>2. ASSUME NEW w \in Callers, Refill(w) PROVE PlacesOK'
  BY <1>2
  DEF Refill, ReadClock, LoadLastRefill, AddElapsed, StoreTokens, Cap, Stamp
<1>3. ASSUME NEW w \in Callers, Lock(w) \/ TokenThere(w) \/ ReturnNothing(w)
      PROVE  PlacesOK'
  BY <1>3 DEF Lock, TokenThere, ReturnNothing
<1>4. ASSUME NEW w \in Callers,
             Sleep(w) \/ Wake(w) \/ LoadTokens(w) \/ Take(w)
      PROVE  PlacesOK'
  BY <1>4 DEF Sleep, Wake, LoadTokens, Take
<1>5. CASE Tick \/ OutOfTime \/ UNCHANGED vars
  BY <1>5 DEF Tick, OutOfTime, vars
<1> QED  BY <1>1, <1>2, <1>3, <1>4, <1>5 DEF Next, Step

(* A step computes integers from integers, and no negative times.          *)
LEMMA NumbersStep ==
  ASSUME NumbersOK, PlacesOK, [Next]_vars
  PROVE  NumbersOK'
<1> USE DEF NumbersOK, locals, bucket
<1>1. ASSUME NEW w \in Callers,
             Begin(w) \/ ReadClock(w) \/ StoreTokens(w) \/ Stamp(w)
             \/ Lock(w) \/ TokenThere(w) \/ ReturnNothing(w) \/ Wake(w)
             \/ LoadTokens(w)
      PROVE  NumbersOK'
  BY <1>1
  DEF Begin, ReadClock, StoreTokens, Stamp, Lock, TokenThere, ReturnNothing,
      Wake, LoadTokens
<1>2. ASSUME NEW w \in Callers, AddElapsed(w) PROVE NumbersOK'
  <2>1. tokens + elapsed[w] * Rate \in Int
    BY Elapse
  <2> QED  BY <1>2, <2>1 DEF AddElapsed
<1>7. ASSUME NEW w \in Callers, LoadLastRefill(w) PROVE NumbersOK'
  <2>1. Since(w) \in Int
    BY DEF Since
  <2> QED  BY <1>7, <2>1 DEF LoadLastRefill
<1>3. ASSUME NEW w \in Callers, Cap(w) PROVE NumbersOK'
  BY <1>3, Constants DEF Cap
<1>4. ASSUME NEW w \in Callers, Sleep(w) PROVE NumbersOK'
  <2>1. clock + SleepTime \in Nat
    BY SleepIsPositive
  <2> QED  BY <1>4, <2>1 DEF Sleep
<1>5. ASSUME NEW w \in Callers, Take(w) PROVE NumbersOK'
  BY <1>5, Constants DEF Take
<1>6. CASE Tick \/ OutOfTime \/ UNCHANGED vars
  BY <1>6 DEF Tick, OutOfTime, vars
<1> QED
  BY <1>1, <1>2, <1>3, <1>4, <1>5, <1>6, <1>7 DEF Next, Step, Refill

(* Initially the bucket is full.                                           *)
LEMMA TypeInit == Init => NumbersOK /\ PlacesOK
BY Constants DEF Init, NumbersOK, PlacesOK

(* Every variable has its type, whatever the number of callers and however *)
(* their loads and stores race: tokens is an integer, and a sleep never    *)
(* ends before time 0.                                                     *)
THEOREM TypeCorrect == Spec => []TypeOK
<1>1. NumbersOK /\ PlacesOK /\ [Next]_vars => (NumbersOK /\ PlacesOK)'
  BY NumbersStep, PlacesStep
<1>2. Spec => [](NumbersOK /\ PlacesOK)
  BY <1>1, TypeInit, PTL DEF Spec
<1> QED  BY <1>2, TypeParts, PTL
-----------------------------------------------------------------------------
(***************************************************************************)
(* One caller. Nothing is granted that has not been poured in: what the    *)
(* bucket holds and what it has given away do not exceed the capacity and  *)
(* what the time up to lastRefill was worth; in the middle of refill, up   *)
(* to the reading of the clock that will become lastRefill. The number k   *)
(* is how far the grants were ahead of the rate where the account begins:  *)
(* 0 in the initial state.                                                 *)
(***************************************************************************)
Poured(k, t) == granted * Unit + tokens <= k + Capacity + t * Rate

TimeInv(c) ==
  /\ lastRefill <= clock
  /\ pc[c] \in {"load", "add", "store", "cap", "stamp"} =>
       lastRefill <= now[c] /\ now[c] <= clock

LocalInv(c) ==
  /\ pc[c] = "add" => elapsed[c] = now[c] - lastRefill
  /\ pc[c] = "store" => loaded[c] = tokens + (now[c] - lastRefill) * Rate
  /\ pc[c] \in {"cap", "put"} => loaded[c] = tokens
  /\ pc[c] \in {"take", "put"} => tokens >= Unit
  /\ pc[c] = "stamp" =>
       tokens = IF loaded[c] > Capacity THEN Capacity ELSE loaded[c]

AmountInv(c, k) ==
  /\ tokens >= 0
  /\ pc[c] # "cap" => tokens <= Capacity
  /\ IF pc[c] \in {"cap", "stamp"} THEN Poured(k, now[c])
                                 ELSE Poured(k, lastRefill)

CallerInv(c) == TimeInv(c) /\ LocalInv(c) /\ AmountInv(c, 0)

(* The clock and the readings of it only go forward.                       *)
LEMMA TimeStep ==
  ASSUME NEW c, Callers = {c}, NumbersOK, PlacesOK, TimeInv(c), [Next]_vars
  PROVE  TimeInv(c)'
<1> USE DEF NumbersOK, PlacesOK, TimeInv, Goto, locals, bucket
<1>1. CASE \/ Begin(c) \/ ReadClock(c) \/ LoadLastRefill(c) \/ AddElapsed(c)
           \/ StoreTokens(c)
  BY <1>1 DEF Begin, ReadClock, LoadLastRefill, AddElapsed, StoreTokens
<1>2. CASE Cap(c) \/ Stamp(c) \/ Lock(c) \/ TokenThere(c)
  BY <1>2 DEF Cap, Stamp, Lock, TokenThere
<1>3. CASE ReturnNothing(c) \/ Sleep(c) \/ Wake(c) \/ LoadTokens(c) \/ Take(c)
  BY <1>3 DEF ReturnNothing, Sleep, Wake, LoadTokens, Take
<1>4. CASE Tick \/ OutOfTime \/ UNCHANGED vars
  BY <1>4 DEF Tick, OutOfTime, vars
<1> QED  BY <1>1, <1>2, <1>3, <1>4 DEF Next, Step, Refill

(* Alone, a caller finds the fields as it left them.                       *)
LEMMA LocalStep ==
  ASSUME NEW c, Callers = {c}, NumbersOK, PlacesOK, LocalInv(c), [Next]_vars
  PROVE  LocalInv(c)'
<1> USE DEF NumbersOK, PlacesOK, LocalInv, Goto, locals, bucket
<1>1. CASE Begin(c) \/ ReadClock(c) \/ StoreTokens(c)
  BY <1>1 DEF Begin, ReadClock, StoreTokens
<1>2. CASE LoadLastRefill(c) \/ AddElapsed(c)
  BY <1>2 DEF LoadLastRefill, AddElapsed, Since
<1>3. CASE Cap(c) \/ Stamp(c) \/ Lock(c) \/ TokenThere(c)
  BY <1>3 DEF Cap, Stamp, Lock, TokenThere
<1>4. CASE ReturnNothing(c) \/ Sleep(c) \/ Wake(c) \/ LoadTokens(c) \/ Take(c)
  BY <1>4 DEF ReturnNothing, Sleep, Wake, LoadTokens, Take
<1>5. CASE Tick \/ OutOfTime \/ UNCHANGED vars
  BY <1>5 DEF Tick, OutOfTime, vars
<1> QED  BY <1>1, <1>2, <1>3, <1>4, <1>5 DEF Next, Step, Refill

(* Steps that leave the bucket and the grants alone, and do not enter or   *)
(* leave the middle of refill.                                             *)
LEMMA AmountFrame ==
  ASSUME NEW c, NEW k, AmountInv(c, k),
         tokens' = tokens, lastRefill' = lastRefill, granted' = granted,
         pc[c] \notin {"cap", "stamp"}, pc'[c] \notin {"cap", "stamp"}
  PROVE  AmountInv(c, k)'
BY DEF AmountInv, Poured, Capacity

(* A step keeps the balance of what was poured in and given away.          *)
LEMMA AmountStep ==
  ASSUME NEW c, Callers = {c}, NEW k \in Int, NumbersOK, PlacesOK,
         TimeInv(c), LocalInv(c), AmountInv(c, k), [Next]_vars
  PROVE  AmountInv(c, k)'
<1>0. /\ now[c] \in Nat /\ loaded[c] \in Int /\ c \in DOMAIN pc
      /\ Capacity' = Capacity
  BY DEF NumbersOK, PlacesOK, Capacity
<1>1. CASE Begin(c) \/ ReadClock(c) \/ LoadLastRefill(c) \/ AddElapsed(c)
  BY <1>0, <1>1, AmountFrame
  DEF Begin, ReadClock, LoadLastRefill, AddElapsed, Goto, bucket, locals
<1>2. CASE StoreTokens(c)
  <2> USE <1>2 DEF StoreTokens, Goto, locals
  <2>1. /\ pc'[c] = "cap" /\ now'[c] = now[c] /\ granted' = granted
        /\ tokens' = tokens + (now[c] - lastRefill) * Rate
    BY <1>0 DEF LocalInv
  <2>2. lastRefill <= now[c]
    BY DEF TimeInv
  <2>3. /\ (now[c] - lastRefill) * Rate = now[c] * Rate - lastRefill * Rate
        /\ lastRefill * Rate <= now[c] * Rate
        /\ lastRefill * Rate \in Nat /\ now[c] * Rate \in Nat
    BY <1>0, <2>2, MoreTime DEF NumbersOK
  <2>4. granted * Unit \in Nat /\ tokens \in Int /\ tokens >= 0
        /\ granted * Unit + tokens <= k + Capacity + lastRefill * Rate
    BY Constants DEF NumbersOK, AmountInv, Poured
  <2>5. granted' * Unit + tokens' <= k + Capacity + now'[c] * Rate /\ tokens' >= 0
    BY <2>1, <2>3, <2>4, Constants
  <2> QED  BY <1>0, <2>1, <2>5 DEF AmountInv, Poured
<1>3. CASE Cap(c)
  <2> USE <1>3 DEF Cap, Goto, locals
  <2>1. /\ pc'[c] = "stamp" /\ now'[c] = now[c] /\ granted' = granted
        /\ tokens' = IF tokens > Capacity THEN Capacity ELSE tokens
    BY <1>0 DEF LocalInv
  <2>2. granted * Unit \in Nat /\ now[c] * Rate \in Nat /\ tokens \in Int
        /\ tokens >= 0 /\ Capacity \in Nat
        /\ granted * Unit + tokens <= k + Capacity + now[c] * Rate
    BY <1>0, Constants DEF NumbersOK, AmountInv, Poured
  <2> QED  BY <1>0, <2>1, <2>2 DEF AmountInv, Poured
<1>4. CASE Stamp(c)
  BY <1>0, <1>4 DEF Stamp, Goto, locals, AmountInv, Poured
<1>5. CASE Lock(c) \/ TokenThere(c) \/ ReturnNothing(c)
  BY <1>0, <1>5, AmountFrame
  DEF Lock, TokenThere, ReturnNothing, Goto, bucket
<1>6. CASE Sleep(c) \/ Wake(c) \/ LoadTokens(c)
  BY <1>0, <1>6, AmountFrame DEF Sleep, Wake, LoadTokens, Goto, bucket
<1>7. CASE Take(c)
  <2> USE <1>7 DEF Take, Goto, locals
  <2>1. /\ pc'[c] = "idle" /\ lastRefill' = lastRefill
        /\ granted' = granted + 1 /\ tokens' = tokens - Unit
        /\ tokens >= Unit
    BY <1>0 DEF LocalInv
  <2>2. granted * Unit \in Nat /\ lastRefill * Rate \in Nat
        /\ tokens \in Int /\ Capacity \in Nat /\ Unit \in Nat
        /\ tokens <= Capacity /\ granted \in Nat
        /\ granted * Unit + tokens <= k + Capacity + lastRefill * Rate
    BY Constants DEF NumbersOK, AmountInv, Poured
  <2>3. granted' * Unit = granted * Unit + Unit
    BY <2>1, <2>2
  <2>4. tokens' >= 0 /\ tokens' <= Capacity
    BY <2>1, <2>2
  <2>5. granted' * Unit + tokens' <= k + Capacity + lastRefill' * Rate
    BY <2>1, <2>2, <2>3
  <2> QED  BY <1>0, <2>1, <2>4, <2>5 DEF AmountInv, Poured
<1>8. CASE Tick \/ OutOfTime \/ UNCHANGED vars
  BY <1>0, <1>8 DEF Tick, OutOfTime, vars, bucket, locals, AmountInv, Poured
<1> QED
  BY <1>1, <1>2, <1>3, <1>4, <1>5, <1>6, <1>7, <1>8 DEF Next, Step, Refill

(* What one caller knows gives the rate: the tokens poured in up to the    *)
(* last reading of the clock are no more than those poured in up to now.   *)
LEMMA CallerBound ==
  ASSUME NEW c, Callers = {c}, NumbersOK, CallerInv(c)
  PROVE  RateBound
<1>0. now[c] \in Nat /\ granted * Unit \in Nat /\ Capacity \in Nat
      /\ tokens \in Int /\ tokens >= 0
  BY Constants DEF NumbersOK, CallerInv, AmountInv
<1>1. PICK t \in Nat : t <= clock /\ Poured(0, t)
  BY <1>0 DEF NumbersOK, CallerInv, AmountInv, TimeInv
<1>2. t * Rate <= clock * Rate /\ t * Rate \in Nat /\ clock * Rate \in Nat
  BY <1>1, MoreTime DEF NumbersOK
<1> QED  BY <1>0, <1>1, <1>2 DEF Poured, RateBound

CallersInv == NumbersOK /\ PlacesOK /\ \A c \in Callers : CallerInv(c)

(* The invariant of a bucket with one caller.                              *)
LEMMA OneCallerInvariance ==
  ASSUME NEW c, Callers = {c}
  PROVE  Spec => []CallersInv
<1>1. Init => CallersInv
  <2> SUFFICES ASSUME Init PROVE CallerInv(c)
    BY TypeInit DEF CallersInv
  <2>1. 0 * Unit = 0 /\ 0 * Rate = 0
    BY Constants
  <2> QED
    BY <2>1, Constants
    DEF Init, CallerInv, TimeInv, LocalInv, AmountInv, Poured
<1>2. CallersInv /\ [Next]_vars => CallersInv'
  <2> SUFFICES ASSUME CallersInv, [Next]_vars PROVE CallersInv'
    OBVIOUS
  <2>1. NumbersOK /\ PlacesOK /\ TimeInv(c) /\ LocalInv(c) /\ AmountInv(c, 0)
    BY DEF CallersInv, CallerInv
  <2>2. CallerInv(c)'
    BY <2>1, TimeStep, LocalStep, AmountStep DEF CallerInv
  <2> QED  BY <2>1, <2>2, NumbersStep, PlacesStep DEF CallersInv
<1> QED  BY <1>1, <1>2, PTL DEF Spec

(* With one caller no more requests are let through than the burst and the *)
(* rate allow, at any moment and for every rate, burst and granularity of  *)
(* the clock, although refill reads and writes the bucket step by step.    *)
THEOREM OneCallerKeepsTheRate ==
  ASSUME NEW c, Callers = {c}
  PROVE  Spec => []RateBound
<1>1. CallersInv => RateBound
  BY CallerBound DEF CallersInv
<1> QED  BY <1>1, OneCallerInvariance, PTL

(* Outside refill the bucket holds between no token and its capacity, and  *)
(* nobody owes it one.                                                     *)
TokensInRange ==
  (\A w \in Callers : pc[w] # "cap") => tokens \in 0 .. Capacity

(* With one caller the bucket never holds more than its burst, but in the  *)
(* middle of refill, and never owes a token.                               *)
THEOREM OneCallerKeepsTheBucket ==
  ASSUME NEW c, Callers = {c}
  PROVE  Spec => []TokensInRange
<1>1. CallersInv => TokensInRange
  BY Constants
  DEF CallersInv, NumbersOK, CallerInv, AmountInv, TokensInRange
<1> QED  BY <1>1, OneCallerInvariance, PTL
-----------------------------------------------------------------------------
(***************************************************************************)
(* One caller, and a period that begins while it is idle. Until the caller *)
(* reads the clock it grants nothing; from then on, until it has filled    *)
(* the bucket, neither; what the bucket holds after that is no more than   *)
(* its capacity, however long it was left alone, and the account of the    *)
(* tokens starts again from there.                                         *)
(***************************************************************************)
Early(c, k) ==
  /\ pc[c] \in {"idle", "clock"}
  /\ granted * Unit - clock * Rate <= k

Filling(c, k) ==
  /\ pc[c] \in {"load", "add", "store", "cap", "stamp"}
  /\ granted * Unit - now[c] * Rate <= k

PeriodInv(c, k) == Early(c, k) \/ Filling(c, k) \/ AmountInv(c, k)

(* How far the grants are ahead, in products.                              *)
LEMMA AheadIs ==
  ASSUME NumbersOK
  PROVE  Ahead = granted * Unit - clock * Rate
BY Constants DEF NumbersOK, Ahead, Cost, Gain

(* The products that occur are natural numbers.                            *)
LEMMA Products ==
  ASSUME NEW c \in Callers, NumbersOK
  PROVE  /\ granted * Unit \in Nat /\ clock * Rate \in Nat
         /\ now[c] \in Nat /\ now[c] * Rate \in Nat
         /\ lastRefill * Rate \in Nat
BY Constants DEF NumbersOK

(* Before refill has stamped the bucket, nothing is granted.               *)
LEMMA EarlyStep ==
  ASSUME NEW c, Callers = {c}, NEW k \in Int, NumbersOK, PlacesOK,
         CallerInv(c), Early(c, k), [Next]_vars
  PROVE  PeriodInv(c, k)'
<1>0. /\ c \in DOMAIN pc /\ c \in DOMAIN now /\ now[c] \in Nat
      /\ granted * Unit \in Nat /\ clock * Rate \in Nat
  BY Products DEF NumbersOK, PlacesOK
<1>1. CASE Begin(c)
  BY <1>0, <1>1 DEF Begin, Goto, Early, PeriodInv
<1>2. CASE ReadClock(c)
  BY <1>0, <1>2 DEF ReadClock, Goto, Early, Filling, PeriodInv
<1>3. CASE Tick
  <2>1. clock \in Nat /\ clock' \in Nat /\ clock <= clock'
        /\ granted' = granted /\ pc' = pc
    BY <1>3 DEF Tick, NumbersOK
  <2>2. clock * Rate <= clock' * Rate /\ clock' * Rate \in Nat
    BY <2>1, MoreTime
  <2>3. granted' * Unit - clock' * Rate <= k
    BY <1>0, <2>1, <2>2 DEF Early
  <2> QED  BY <2>1, <2>3 DEF Early, PeriodInv
<1>4. CASE OutOfTime \/ UNCHANGED vars
  BY <1>4 DEF OutOfTime, vars, Early, PeriodInv
<1>5. CASE Step(c) /\ ~Begin(c) /\ ~ReadClock(c)
  BY <1>5
  DEF Early, Step, Refill, LoadLastRefill, AddElapsed, StoreTokens, Cap, Stamp, Lock,
      TokenThere, ReturnNothing, Sleep, Wake, LoadTokens, Take, Goto
<1> QED  BY <1>1, <1>2, <1>3, <1>4, <1>5 DEF Next

(* Refill leaves no more than the capacity in the bucket.                  *)
LEMMA FillingStep ==
  ASSUME NEW c, Callers = {c}, NEW k \in Int, NumbersOK, PlacesOK,
         CallerInv(c), Filling(c, k), [Next]_vars
  PROVE  PeriodInv(c, k)'
<1>0. /\ c \in DOMAIN pc /\ now[c] \in Nat /\ now[c] * Rate \in Nat
      /\ granted * Unit \in Nat /\ tokens \in Int /\ Capacity \in Nat
      /\ Capacity' = Capacity
  BY Products, Constants DEF NumbersOK, PlacesOK, Capacity
<1>1. CASE LoadLastRefill(c) \/ AddElapsed(c) \/ StoreTokens(c) \/ Cap(c)
  BY <1>0, <1>1
  DEF LoadLastRefill, AddElapsed, StoreTokens, Cap, Goto, locals, Filling,
      PeriodInv
<1>2. CASE Stamp(c)
  <2>1. /\ pc'[c] = "lock" /\ tokens' = tokens /\ granted' = granted
        /\ lastRefill' = now[c]
    BY <1>0, <1>2 DEF Stamp, Goto, locals
  <2>2. tokens >= 0 /\ tokens <= Capacity
    BY <1>2 DEF Stamp, Goto, CallerInv, AmountInv
  <2>3. granted * Unit + tokens <= k + Capacity + now[c] * Rate
    BY <1>0, <2>2 DEF Filling
  <2> QED  BY <1>0, <2>1, <2>2, <2>3 DEF AmountInv, Poured, PeriodInv
<1>3. CASE Tick \/ OutOfTime \/ UNCHANGED vars
  BY <1>0, <1>3
  DEF Tick, OutOfTime, vars, bucket, locals, Filling, PeriodInv
<1>4. CASE /\ Step(c) /\ ~LoadLastRefill(c) /\ ~AddElapsed(c)
           /\ ~StoreTokens(c) /\ ~Cap(c) /\ ~Stamp(c)
  BY <1>4
  DEF Filling, Step, Refill, Begin, ReadClock, Lock, TokenThere,
      ReturnNothing, Sleep, Wake, LoadTokens, Take, Goto
<1> QED  BY <1>1, <1>2, <1>3, <1>4 DEF Next

(* Whatever the account says, the grants are ahead by what it started from *)
(* and the capacity at most.                                               *)
LEMMA PeriodBound ==
  ASSUME NEW c, Callers = {c}, NEW k \in Int, NumbersOK, CallerInv(c),
         PeriodInv(c, k)
  PROVE  Ahead <= k + Capacity
<1>0. /\ now[c] \in Nat /\ granted * Unit \in Nat /\ clock * Rate \in Nat
      /\ now[c] * Rate \in Nat /\ lastRefill * Rate \in Nat
      /\ Capacity \in Nat /\ tokens \in Int /\ tokens >= 0
      /\ clock \in Nat /\ lastRefill \in Nat
  BY Products, Constants DEF NumbersOK, CallerInv, AmountInv
<1>1. /\ lastRefill * Rate <= clock * Rate
      /\ pc[c] \in {"load", "add", "store", "cap", "stamp"} =>
           now[c] * Rate <= clock * Rate
  BY <1>0, MoreTime DEF CallerInv, TimeInv
<1>2. granted * Unit - clock * Rate <= k + Capacity
  <2>1. CASE Early(c, k)
    BY <1>0, <2>1 DEF Early
  <2>2. CASE Filling(c, k)
    BY <1>0, <1>1, <2>2 DEF Filling
  <2>3. CASE AmountInv(c, k)
    BY <1>0, <1>1, <2>3 DEF AmountInv, Poured
  <2> QED  BY <2>1, <2>2, <2>3 DEF PeriodInv
<1> QED  BY <1>2, AheadIs

(* With one caller, in every period that begins while it is idle, however  *)
(* long the bucket was left alone before, the grants run ahead of the rate *)
(* by no more than the burst: for every rate, burst, granularity of the    *)
(* clock, and every amount by which they were ahead or behind before.      *)
THEOREM OneCallerKeepsEveryPeriod ==
  ASSUME NEW c, Callers = {c}
  PROVE  Spec => RateInEveryPeriod
<1> DEFINE Start(k) == (\A w \in Callers : pc[w] = "idle") /\ Ahead <= k
<1>1. ASSUME NEW k \in -(MaxClock * Rate) .. Capacity
      PROVE  Spec => [](Start(k) => [](Ahead <= k + Capacity))
  <2>1. k \in Int
    BY <1>1, Constants, TokenBucketAssumption
  <2>2. CallersInv /\ Start(k) => PeriodInv(c, k)
    BY AheadIs DEF CallersInv, Early, PeriodInv
  <2>3. CallersInv /\ PeriodInv(c, k) /\ [Next]_vars => PeriodInv(c, k)'
    <3> SUFFICES ASSUME CallersInv, PeriodInv(c, k), [Next]_vars
                 PROVE  PeriodInv(c, k)'
      OBVIOUS
    <3>1. NumbersOK /\ PlacesOK /\ CallerInv(c)
      BY DEF CallersInv
    <3>2. CASE AmountInv(c, k)
      BY <2>1, <3>1, <3>2, AmountStep DEF CallerInv, PeriodInv
    <3> QED  BY <2>1, <3>1, <3>2, EarlyStep, FillingStep DEF PeriodInv
  <2>4. CallersInv /\ PeriodInv(c, k) => Ahead <= k + Capacity
    BY <2>1, PeriodBound DEF CallersInv
  <2> HIDE DEF Start
  <2> QED  BY <2>2, <2>3, <2>4, OneCallerInvariance, PTL DEF Spec
<1> QED  BY <1>1 DEF RateInEveryPeriod
-----------------------------------------------------------------------------
(***************************************************************************)
(* One caller. The bucket does what Bucket promises: its refill, six       *)
(* steps of its own, is one, at the last of them.                          *)
(***************************************************************************)

(* The bucket's level, for the only caller, before and after a step.       *)
LEMMA LevelIs ==
  ASSUME NEW c, Callers = {c}
  PROVE  /\ Level = IF pc[c] \in {"cap", "stamp"}
                    THEN loaded[c] - (now[c] - lastRefill) * Rate
                    ELSE tokens
         /\ Level' = IF pc'[c] \in {"cap", "stamp"}
                     THEN loaded'[c] - (now'[c] - lastRefill') * Rate
                     ELSE tokens'
<1>1. ASSUME pc[c] \in {"cap", "stamp"}
      PROVE  (CHOOSE v \in Callers : pc[v] \in {"cap", "stamp"}) = c
  BY <1>1
<1>2. ASSUME pc'[c] \in {"cap", "stamp"}
      PROVE  (CHOOSE v \in Callers : pc'[v] \in {"cap", "stamp"}) = c
  BY <1>2
<1>3. (\E w \in Callers : pc[w] \in {"cap", "stamp"})
        <=> pc[c] \in {"cap", "stamp"}
  OBVIOUS
<1>4. (\E w \in Callers : pc'[w] \in {"cap", "stamp"})
        <=> pc'[c] \in {"cap", "stamp"}
  OBVIOUS
<1> QED  BY <1>1, <1>2, <1>3, <1>4 DEF Level, Since

(* Initially the bucket is full.                                           *)
LEMMA BucketInit ==
  ASSUME NEW c, Callers = {c}, Init
  PROVE  Promised!Init
BY LevelIs DEF Init, Promised!Init

(* A step of the caller or of the clock is one of Bucket, or none.         *)
LEMMA BucketStep ==
  ASSUME NEW c, Callers = {c}, CallersInv, [Next]_vars
  PROVE  [Promised!Next]_(Promised!vars)
<1> DEFINE owed == (now[c] - lastRefill) * Rate
<1>0. /\ c \in DOMAIN pc /\ c \in DOMAIN loaded
      /\ now[c] \in Nat /\ lastRefill \in Nat /\ tokens \in Int
      /\ loaded[c] \in Int /\ owed \in Int
      /\ LocalInv(c) /\ TimeInv(c)
  <2>1. now[c] - lastRefill \in Int
    BY DEF CallersInv, NumbersOK
  <2> QED  BY <2>1, Elapse DEF CallersInv, NumbersOK, PlacesOK, CallerInv
<1>1. /\ Level = IF pc[c] \in {"cap", "stamp"} THEN loaded[c] - owed
                 ELSE tokens
      /\ Level' = IF pc'[c] \in {"cap", "stamp"}
                  THEN loaded'[c] - (now'[c] - lastRefill') * Rate
                  ELSE tokens'
  BY LevelIs
<1>2. SUFFICES \/ Promised!Next
               \/ Level' = Level /\ lastRefill' = lastRefill /\ granted' = granted
  BY DEF Promised!vars
<1>3. CASE \/ Begin(c) \/ ReadClock(c) \/ LoadLastRefill(c)
           \/ AddElapsed(c) \/ Lock(c) \/ TokenThere(c)
           \/ ReturnNothing(c) \/ Sleep(c) \/ Wake(c) \/ LoadTokens(c)
  BY <1>0, <1>1, <1>3
  DEF Begin, ReadClock, LoadLastRefill, AddElapsed, Lock, TokenThere,
      ReturnNothing, Sleep, Wake, LoadTokens, Goto, bucket, locals
<1>4. CASE StoreTokens(c)
  <2>1. /\ pc'[c] = "cap" /\ pc[c] = "store" /\ loaded' = loaded /\ now' = now
        /\ lastRefill' = lastRefill /\ granted' = granted
        /\ loaded[c] = tokens + owed
    BY <1>0, <1>4 DEF StoreTokens, Goto, locals, LocalInv
  <2> HIDE DEF owed
  <2>2. Level' = loaded[c] - owed /\ Level = tokens
    BY <1>1, <2>1 DEF owed
  <2> QED  BY <1>0, <2>1, <2>2
<1>5. CASE Cap(c)
  BY <1>0, <1>1, <1>5 DEF Cap, Goto, locals
<1>6. CASE Stamp(c)
  <2>1. /\ pc[c] = "stamp" /\ pc'[c] = "lock" /\ tokens' = tokens
        /\ lastRefill' = now[c] /\ granted' = granted
        /\ lastRefill <= now[c]
        /\ tokens = IF loaded[c] > Capacity THEN Capacity ELSE loaded[c]
    BY <1>0, <1>6 DEF Stamp, Goto, locals, LocalInv, TimeInv
  <2> HIDE DEF owed
  <2>2. Level = loaded[c] - owed /\ Level' = tokens
    BY <1>1, <2>1 DEF owed
  <2>3. Level + owed = loaded[c]
    BY <1>0, <2>2
  <2>4. Level' = Promised!Filled(Level + owed)
    BY <2>1, <2>2, <2>3 DEF Promised!Filled
  <2>5. Promised!Refill
    BY <1>0, <2>1, <2>4 DEF Promised!Refill, owed
  <2> QED  BY <2>5 DEF Promised!Next
<1>7. CASE Take(c)
  <2>1. /\ pc[c] = "put" /\ pc'[c] = "idle" /\ tokens' = tokens - Unit
        /\ lastRefill' = lastRefill /\ granted' = granted + 1
        /\ tokens >= Unit
    BY <1>0, <1>7 DEF Take, Goto, LocalInv
  <2>2. Promised!Grant
    BY <1>1, <2>1 DEF Promised!Grant
  <2> QED  BY <2>2 DEF Promised!Next
<1>8. CASE Tick \/ OutOfTime \/ UNCHANGED vars
  BY <1>1, <1>8 DEF Tick, OutOfTime, vars, bucket, locals
<1> QED
  BY <1>3, <1>4, <1>5, <1>6, <1>7, <1>8 DEF Next, Step, Refill

(* With one caller the bucket, load by load and store by store, does what  *)
(* Bucket promises in one step each: for every rate, burst and granularity *)
(* of the clock, time is never poured in twice, the capacity is kept, and  *)
(* only tokens that are there are granted.                                 *)
THEOREM OneCallerImplementsBucket ==
  ASSUME NEW c, Callers = {c}
  PROVE  Spec => ImplementsBucket
<1>1. Init => Promised!Init
  BY BucketInit
<1>2. CallersInv /\ [Next]_vars => [Promised!Next]_(Promised!vars)
  BY BucketStep
<1> QED
  BY <1>1, <1>2, OneCallerInvariance, PTL
  DEF Spec, ImplementsBucket, Promised!Spec
=============================================================================
