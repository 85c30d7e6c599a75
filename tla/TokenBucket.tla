----------------------------- MODULE TokenBucket -----------------------------
(***************************************************************************)
(* concurrency.TokenBucket, shared by the workers of a stage that has a    *)
(* rate_limit.                                                             *)
(*                                                                         *)
(* Tokens are counted in fractions of a token and time in ticks: a second  *)
(* has Unit ticks, a token has Unit fractions, and a tick (a millisecond   *)
(* of the code) adds Rate fractions.                                       *)
(*                                                                         *)
(* Wait, Allow and CurrentTokens call refill before they take the mutex,   *)
(* so its loads and stores of tokens and lastRefill are separate steps     *)
(* that race with those of the other callers. A load and a store of a      *)
(* float64 or of the monotonic clock reading are single.                   *)
(***************************************************************************)
EXTENDS Integers

CONSTANTS
  Callers,    \* the goroutines that share the bucket
  Calls,      \* the methods they call
  Rate,       \* refillRate, in tokens per second
  Burst,      \* capacity, in tokens
  Unit,       \* ticks per second, fractions per token
  NoOwner,    \* the mutex is free
  MaxClock    \* bound: ticks of the clock

ASSUME TokenBucketAssumption ==
  /\ Calls \subseteq {"Wait", "Allow", "CurrentTokens"}
  /\ Rate \in Nat \ {0}
  /\ Burst \in Nat \ {0}
  /\ Unit \in Nat \ {0}
  /\ NoOwner \notin Callers
  /\ MaxClock \in Nat

VARIABLES
  clock,       \* time.Now()
  tokens,      \* TokenBucket.tokens, in fractions
  lastRefill,  \* TokenBucket.lastRefill
  mu,          \* the owner of the mutex
  pc,          \* where each caller is
  call,        \* the method each caller is in
  now,         \* the local now of refill
  elapsed,     \* the local elapsed of refill, in ticks
  loaded,      \* the tokens each caller has loaded
  wake,        \* the end of each caller's sleep
  granted      \* requests let through so far

bucket == <<tokens, lastRefill>>
locals == <<call, now, elapsed, loaded, wake>>
vars == <<clock, bucket, mu, pc, locals, granted>>

Capacity == Burst * Unit

(* NewTokenBucket: fully filled.                                           *)
Init ==
  /\ clock = 0
  /\ tokens = Capacity /\ lastRefill = 0
  /\ mu = NoOwner
  /\ pc     = [w \in Callers |-> "idle"]
  /\ call   = [w \in Callers |-> "Wait"]
  /\ now    = [w \in Callers |-> 0]
  /\ elapsed = [w \in Callers |-> 0]
  /\ loaded = [w \in Callers |-> 0]
  /\ wake   = [w \in Callers |-> 0]
  /\ granted = 0

Goto(w, from, to) ==
  /\ pc[w] = from
  /\ pc' = [pc EXCEPT ![w] = to]

Begin(w) ==
  /\ Goto(w, "idle", "clock")
  /\ \E m \in Calls : call' = [call EXCEPT ![w] = m]
  /\ UNCHANGED <<clock, bucket, mu, now, elapsed, loaded, wake, granted>>
-----------------------------------------------------------------------------
(***************************************************************************)
(* refill.                                                                 *)
(***************************************************************************)
ReadClock(w) ==
  /\ Goto(w, "clock", "load")
  /\ now' = [now EXCEPT ![w] = clock]
  /\ UNCHANGED <<clock, bucket, mu, call, elapsed, loaded, wake, granted>>

(* elapsed := now.Sub(lastRefill)                                          *)
Since(w) == now[w] - lastRefill

LoadLastRefill(w) ==
  /\ Goto(w, "load", "add")
  /\ elapsed' = [elapsed EXCEPT ![w] = Since(w)]
  /\ UNCHANGED <<clock, bucket, mu, call, now, loaded, wake, granted>>

(* Mutant of AddElapsed: lastRefill is taken for the start of the bucket.  *)
AddSinceStart(w) ==
  /\ Goto(w, "add", "store")
  /\ loaded' = [loaded EXCEPT ![w] = tokens + now[w] * Rate]
  /\ elapsed' = [elapsed EXCEPT ![w] = 0]
  /\ UNCHANGED <<clock, bucket, mu, call, now, wake, granted>>

(* The load of tokens, and the sum, which is the last use of elapsed.      *)
AddElapsed(w) ==
  /\ Goto(w, "add", "store")
  /\ loaded' = [loaded EXCEPT ![w] = tokens + elapsed[w] * Rate]
  /\ elapsed' = [elapsed EXCEPT ![w] = 0]
  /\ UNCHANGED <<clock, bucket, mu, call, now, wake, granted>>

StoreTokens(w) ==
  /\ Goto(w, "store", "cap")
  /\ tokens' = loaded[w]
  /\ UNCHANGED <<clock, lastRefill, mu, locals, granted>>

(* Mutant of Cap: the comparison with the capacity is missing.             *)
NoCap(w) ==
  /\ Goto(w, "cap", "stamp")
  /\ UNCHANGED <<clock, bucket, mu, locals, granted>>

(* The test against the capacity sees the value just stored or, when the   *)
(* compiler reads the field again, what is there now.                      *)
Cap(w) ==
  /\ Goto(w, "cap", "stamp")
  /\ \E seen \in {loaded[w], tokens} :
       tokens' = IF seen > Capacity THEN Capacity ELSE tokens
  /\ UNCHANGED <<clock, lastRefill, mu, locals, granted>>

(* lastRefill = now, the last step of refill.                              *)
Stamp(w) ==
  /\ Goto(w, "stamp", "lock")
  /\ lastRefill' = now[w]
  /\ UNCHANGED <<clock, tokens, mu, locals, granted>>

Refill(w) ==
  \/ ReadClock(w) \/ LoadLastRefill(w) \/ AddElapsed(w)
  \/ StoreTokens(w) \/ Cap(w) \/ Stamp(w)
-----------------------------------------------------------------------------
(***************************************************************************)
(* The part under the mutex.                                               *)
(***************************************************************************)
Lock(w) ==
  /\ Goto(w, "lock", "test")
  /\ mu = NoOwner
  /\ mu' = w
  /\ UNCHANGED <<clock, bucket, locals, granted>>

(* A token is there: go on to tokens--, still under the mutex.             *)
TokenThere(w) ==
  /\ Goto(w, "test", "take")
  /\ call[w] # "CurrentTokens"
  /\ tokens >= Unit
  /\ UNCHANGED <<clock, bucket, mu, locals, granted>>

(* Allow without a token, and CurrentTokens: return.                       *)
ReturnNothing(w) ==
  /\ Goto(w, "test", "idle")
  /\ call[w] = "CurrentTokens" \/ (call[w] = "Allow" /\ tokens < Unit)
  /\ mu' = NoOwner
  /\ UNCHANGED <<clock, bucket, locals, granted>>

(* The sleep is the missing fraction over the rate in whole milliseconds,  *)
(* at least one.                                                           *)
SleepTime == LET ticks == (Unit - tokens) \div Rate
             IN  IF ticks < 1 THEN 1 ELSE ticks

(* Mutant of Sleep: the difference is taken the wrong way round, and not   *)
(* bounded below.                                                          *)
SleepBackwards(w) ==
  /\ Goto(w, "test", "sleep")
  /\ call[w] = "Wait"
  /\ tokens < Unit
  /\ wake' = [wake EXCEPT ![w] = clock + ((tokens - Unit) \div Rate)]
  /\ mu' = NoOwner
  /\ UNCHANGED <<clock, bucket, call, now, elapsed, loaded, granted>>

(* Wait without a token: unlock and sleep.                                 *)
Sleep(w) ==
  /\ Goto(w, "test", "sleep")
  /\ call[w] = "Wait"
  /\ tokens < Unit
  /\ wake' = [wake EXCEPT ![w] = clock + SleepTime]
  /\ mu' = NoOwner
  /\ UNCHANGED <<clock, bucket, call, now, elapsed, loaded, granted>>

Wake(w) ==
  /\ Goto(w, "sleep", "clock")
  /\ clock >= wake[w]
  /\ UNCHANGED <<clock, bucket, mu, locals, granted>>

(* tokens--, the unlock and the return. The load and the store are two     *)
(* steps: the refill of another caller may fall between them, and between  *)
(* them and the test.                                                      *)
LoadTokens(w) ==
  /\ Goto(w, "take", "put")
  /\ loaded' = [loaded EXCEPT ![w] = tokens]
  /\ UNCHANGED <<clock, bucket, mu, call, now, elapsed, wake, granted>>

Take(w) ==
  /\ Goto(w, "put", "idle")
  /\ tokens' = loaded[w] - Unit
  /\ granted' = granted + 1
  /\ mu' = NoOwner
  /\ UNCHANGED <<clock, lastRefill, locals>>

Step(w) ==
  \/ Begin(w) \/ Refill(w) \/ Lock(w) \/ TokenThere(w) \/ ReturnNothing(w)
  \/ Sleep(w) \/ Wake(w) \/ LoadTokens(w) \/ Take(w)

Tick ==
  /\ clock < MaxClock
  /\ clock' = clock + 1
  /\ UNCHANGED <<bucket, mu, pc, locals, granted>>

(* The end of the period that is modelled: callers may be asleep for       *)
(* longer.                                                                 *)
OutOfTime == clock = MaxClock /\ UNCHANGED vars

Next == Tick \/ OutOfTime \/ \E w \in Callers : Step(w)

Spec == Init /\ [][Next]_vars
-----------------------------------------------------------------------------
(* Every variable has its type.                                            *)
TypeOK ==
  /\ clock \in Nat
  /\ tokens \in Int
  /\ lastRefill \in Nat
  /\ mu \in Callers \cup {NoOwner}
  /\ pc \in [Callers -> {"idle", "clock", "load", "add", "store", "cap",
                         "stamp", "lock", "test", "take", "put", "sleep"}]
  /\ call \in [Callers -> {"Wait", "Allow", "CurrentTokens"}]
  /\ now \in [Callers -> Nat]
  /\ elapsed \in [Callers -> Int]
  /\ loaded \in [Callers -> Int]
  /\ wake \in [Callers -> Nat]
  /\ granted \in Nat

(* The rate the bucket is named for: up to any moment no more requests     *)
(* were let through than the burst and the tokens of the time that passed. *)
(* (tokenbucket.go: "Tokens are added at a fixed rate", "Each call to      *)
(* Wait() consumes one token".)                                            *)
RateBound == granted * Unit <= Capacity + clock * Rate

(* What requests cost and what time brings in, in fractions. (Functions:   *)
(* TLC takes no product of a variable in a quantified temporal formula.)   *)
Cost == [requests \in Nat |-> requests * Unit]
Gain == [ticks \in Nat |-> ticks * Rate]

(* How far the grants are ahead of the rate.                               *)
Ahead == Cost[granted] - Gain[clock]

(* The same for every period that begins while nobody is in a method, not  *)
(* only for those that begin with the run: however far behind the rate the *)
(* grants have fallen, they catch up by no more than the burst. ("smooth   *)
(* traffic shaping with burst allowance up to the configured capacity".)   *)
(* From the initial state, where Ahead is 0, this is RateBound.            *)
RateInEveryPeriod ==
  \A k \in -(MaxClock * Rate) .. Capacity :
    []((\A w \in Callers : pc[w] = "idle") /\ Ahead <= k
         => [](Ahead <= k + Capacity))

(* The bucket as it was before a refill that has stored the new value but  *)
(* not yet capped and stamped it.                                          *)
Level ==
  IF \E w \in Callers : pc[w] \in {"cap", "stamp"}
  THEN LET w == CHOOSE v \in Callers : pc[v] \in {"cap", "stamp"}
       IN  loaded[w] - Since(w) * Rate
  ELSE tokens

(* Refill and the rest of the methods, load by load and store by store,    *)
(* are the atomic steps of a Bucket, refill at its last store: no time is  *)
(* poured in twice, none is lost but by the capacity, and only tokens that *)
(* are there are granted.                                                  *)
Promised == INSTANCE Bucket WITH level <- Level, upTo <- lastRefill
ImplementsBucket == Promised!Spec
=============================================================================
