# Verification of stress-test-tool

This directory holds a TLA+ model of the stress test tool: modules translated
from the Go source, TLC configurations that check them on small instances, and
proofs that TLAPS checks for every value of the constants. `PROJECT.json` ties
every definition to the lines of code it stands for.

1. [The system](#1-the-system) 2. [Modules](#2-modules) 3. [Runs](#3-runs)
4. [Proofs](#4-proofs) 5. [Disagreements](#5-where-code-and-text-disagree)
6. [Left out](#6-what-is-not-modelled) 7. [Plan](#7-plan)

## 1. The system

`stresstest run` loads a YAML file, validates it, hands it to the engine, and
writes the reports. The engine runs the configured *stages* one after the other.
A stage is a number of worker goroutines that send requests until the stage's
timer fires; a signal ends the run early.

```
 main.runAction -> config.Load -> config.Validate -> engine.New -> Engine.Run -> writeReports
                                                                    |
   signal --> Coordinator goroutine --softShutdown, shutdownCh--> Run's goroutine
                                                                    | go, ctx, WaitGroup
                                                                 workers (Worker.Run)
                                                                    |
   TokenBucket.Wait -> Semaphore.Acquire -> RequestPool.Next -> BuildRequest
        -> Client.Do -> EvaluateAll -> classify -> Tracker.Record -> Semaphore.Release
```

| Component | State | Operations | What makes it correct |
|---|---|---|---|
| engine (`engine.go`) | stage index, context, WaitGroup | `New`, `Run` | every request has a timeout; stages in order, none after a shutdown; no reset or replacement under a live worker; a complete report; it ends |
| worker (`worker.go`) | the request it has | `Run` | one record and one release per request on every path; stops soon after its context is cancelled |
| coordinator (`coordinator.go`) | `sigCh`, `softShutdown`, `shutdownCh`, the context in force | `Start`, `Stop`, `ResetContext` | a signal ends the run, once; `Stop` cancels the context in force |
| request pool (`engine.go`) | index, mutex | `Next` | round robin under all interleavings |
| request building (`request.go`) | the maps of the shared requests | `BuildRequest` | own values before defaults; all of the defaults; does not break the requests other workers share |
| http client (`client.go`) | retries | `Do` | no more calls than retries allow; none after an answer |
| assertions (`assertion.go`) | none | `Evaluate`, `EvaluateAll` | a request counts as a success exactly if its response meets what was configured |
| classification (`engine.go`) | none | `classifyNetworkError`, `classifyError` | every failure has a type |
| tracker (`tracker.go`) | counters, slices, maps, RWMutex | `Record`, `Snapshot`, `LiveSnapshot`, `Reset` | adds up when idle; a snapshot in between is consistent in one direction |
| statistics (`stats.go`, `histogram.go`) | none | `CalcPercentiles`, `CalcHistogram`, `CalcStandardDeviation`, `BuildHistogram` | the order statistics of the data; two histograms that agree |
| shares in the reports (`console.go`, `html.go`) | none | `PrintSummary`, `statusRows`, `histogramRows` | shares of one whole, no division by zero |
| token bucket (`tokenbucket.go`) | tokens, last refill, mutex | `Wait`, `Allow`, `CurrentTokens` | no more grants than burst and rate, in any period |
| semaphore (`semaphore.go`) | channel | `Acquire`, `Release` | never blocks a worker for ever |
| config (`loader.go`, `resolver.go`, `validator.go`) | none | `Load`, `ResolveEnvVars`, `Validate` | the engine gets what its code relies on |
| commands and reports (`main.go`, `html.go`, `json.go`) | report files | `run`, `validate` | success means every report is there; failure spoils at most one; `validate` predicts `run` |

Hard to test, and so what the properties are about: the end of a stage, where
`Run` cancels, waits, resets, and, less obviously, starts a *second batch* of
workers for the same stage (engine.go:158-166), which works through the next
one; a signal at each of these points; the ten steps of `Record` against the
steps of `Snapshot`; refill without the mutex; maps of the configuration
written by all workers; retries and a server that falls silent; thresholds, paths
and printed numbers at the edge of an assertion; a kill while a report is written.
`PROJECT.json` lists these hazards with their lines.

## 2. Modules

| Module | Models | Uses |
|---|---|---|
| `StagedRun` | what `Run` promises its caller: the abstract specification | |
| `Engine` | `Run`, the workers' loops, the coordinator; composes engine, worker, semaphore, coordinator | refines `StagedRun` |
| `Bucket` | what the rate limiter promises: a bucket whose methods are atomic | |
| `TokenBucket` | the rate limiter, load by load and store by store | refines `Bucket` |
| `LatencyStats` | sort, percentiles, deviation, histograms, as operators, and what they should compute | |
| `Reports` | the shares and bars of the reports, as operators, and what they should be | `LatencyStats` |
| `Tracker` | `Record`, `Snapshot`, `LiveSnapshot`, `Reset`, and the reports made of a snapshot | `LatencyStats`, `Reports` |
| `Requests` | `RequestPool.Next` and the merge of defaults in `BuildRequest` | |
| `Assertions` | the evaluation of assertions, as operators, and what an assertion means | |
| `Exchange` | `engine.New`, and every path through the loop body of a worker, with `Client.Do`, the assertions and the classification | `Assertions` |
| `Command` | the two commands, from the config file to the report files | |
| `EngineProofs`, `ExchangeProofs`, `TokenBucketProofs`, `RequestsProofs`, `CommandProofs`, `LatencyStatsProofs`, `TrackerProofs` | theorems | TLAPS |
| `MC*` | instances for TLC | |

### Engine

`mpc` is the point of `Run` that the goroutine has reached: `top` is the loop
head, `spawn` the first spawning loop and then the `select`, `wait` and `drain`
the two `wg.Wait()`s, `reset` the code between stages, `respawn` the second
spawning loop, `done` the label. Contexts are numbered: `ctx` is the one in
`Run`'s variable, `coordCtx` the one the coordinator's `cancel` cancels,
`cancelled` those already cancelled. `wctx[w]` is what worker `w` read *when it
started*, as the closure in the source does. A worker is `<<stage, batch, index>>`; its `wpc` is the place
where it can block or be overtaken: `limit` (limiter.Wait), `acquire`
(sem.Acquire), `next` (pool), `send` (BuildRequest to the result, then the
first step of `Record`), `settle` (the rest of `Record`), `release`.
Both batches of a stage share `sem[stage]`, as they do in the code.

`sent` and `late` are history: requests taken, and those taken although the
context was cancelled.

### TokenBucket

Time is a clock in ticks and tokens are counted in fractions, such that a tick
adds `Rate` fractions: the arithmetic is exact. `refill` is six steps (clock,
load of `lastRefill`, load of `tokens`, store, cap, stamp), outside the mutex. Loads of a `float64` are taken to
be whole; the Go memory model promises less.

### Tracker and LatencyStats

One action per atomic operation or critical section of `Record`. `Locked`
is the writer's side of the RWMutex: no step of `Record` that takes the lock
happens while `Snapshot` is under way, all others do. `Reset` needs `Quiescent`,
which is what `Engine!ResetQuiescent` establishes for its only call. A slice of
latencies is a bag (how many of each), because `Snapshot` sorts its copy.
`Record` cuts a duration to microseconds for the two slices (tracker.go:109), and
adds all of its nanoseconds to the total and to its stage (:115, :141). So the slices
hold whole microseconds (`Microseconds(d)`), and percentiles are hundredths of one,
so that interpolation is exact; durations and the mean are whole nanoseconds.
`NanosPerMicro` and `MicrosPerMilli` are constants, 1000 each in the code; `Cut` is
the most a cut takes off, a nanosecond less than a microsecond. The root of the
deviation is left out.

`LiveSnapshot` loads the counters without the lock. A `Reset` that falls into it
makes the model drop it, since nothing can be said of what it returns. Nothing in
the repository but a test calls it. `Reports` computes what is printed, in
tenths of a percent, from the snapshot in `stats`; an absent key of a Go map is a
count of 0. `MaxBar` is 40 in the code; 2 in the instance, because three requests
never make a bar shorter than one character of 40.

### Requests

`maps[i][f]` is the map of headers or query parameters of request `i`: its slots, each
with a key and where the value came from. The loop over the defaults takes keys in any
order, as ranging over a Go map does. A data race on a map is undefined in Go, and
what it does is a choice among what the runtime of go.mod's Go (1.25) can do with a
map of up to eight entries, whose slots do not move. `headers[k] = v`
(request.go:50) is three steps: `FindSlot` marks the map as being written and looks for
the slot of the key or the first empty one; `PutKey` puts the key there and takes the
mark away; `StoreValue` is the caller's store of `v` into the slot. Between the last
two, another worker sees the key with an empty value, skips the default and copies ""
into its request. Two workers that found the same empty slot put their keys over one another, and
one key is lost, or gets the other's value. The runtime may notice that a map is
accessed between the first two steps and kill the process (`RaceNoticed`); a string
that is copied while its two words are being stored kills it too (`TornValue`); a write to
a nil map always does. The copy of a whole map is one step. A map of more than eight
entries, which Go splits and moves while others read it, is not modelled. `Copies` is
the second loop: a header may be in the map under several spellings, and any of them may be
the last. The token comes after the headers and the `X-Timeout` header at the end, as in
the source.

### Exchange

One worker, because nothing in it is shared but what `Engine`, `Requests` and
`Tracker` model. `cfg` is the part of the configuration that `New` reads; `New`
and `NewRequestPool` give the client its timeout and its retries, and the pool
its size. The network chooses among: no connection (refused, timed out,
TLS), a connection that breaks while the request is written, before the headers or
in the body, an answer, and silence (`silent` before, `stalled` after the headers).
`writing` is the request on its way, `sent` the request written out; an answer may come
in either. `calls` counts what `Client.Do` does, its calls of `httpClient.Do`;
`SendAgain` is what net/http does by itself inside of one: it replaces a connection that
was dead before anything was written, and it sends a `replayable` request again on
another connection, or to where it is redirected. `delivered` counts the copies
written out by both. Silence ends by the
client's timeout (`ClientTimeout`) if it is positive, and never otherwise. An
error is the set of the words in it that the classification looks for; the URL,
the body of an error response and what an assertion is configured with may
bring words in. A body that has been drained makes net/http refuse a retry, or
not: that depends on whether the connection is a reused one, and the model
allows both.

An assertion's value is a text, told apart by how the evaluators read it: a
number, a range, a time in microseconds (with a flag for decimal fractions whose
binary product with 1000 falls short of the whole number), a number with an
exponent, or any other text. A response has a latency in microseconds, headers,
the texts its body contains and, if the body is a JSON object, its nodes with
their paths. `Assertions` has every branch of the five evaluators over these.
`Meets`, the reference, says what an assertion means without cutting off and
printing, and `Lenient` what the code lets pass without looking.

### Command

A config file is abstracted to what `Load` and `Validate` look at. Commands come
one after another, with other files and another environment each time; report
files stay. Creating the directory, creating a file and writing it may each
fail, a worker may panic in the engine, and the process may be killed anywhere.
Closing a file may fail too (`CloseFails`), but its error is dropped by the `defer`
(json.go:54, html.go:58): such a file is in `lost`, and nobody can say what it holds.
A URL may be a reference as a whole (`"ref"`, which does not parse until it is resolved) or
have one in its path (`"path"`, which does).

## 3. Runs

| Run | Instance | States | Shows |
|---|---|---|---|
| `engine_wide` | 2 stages of 2 and 1 workers, the first rate limited, 1 signal, 1 request per worker, a pool with a request or an empty one | 294,000 | types, WaitGroup, reset, semaphore, overlap, report, refinement of `StagedRun`, end of all workers |
| `engine_three` | 3 stages of 1 worker, 2 requests per worker, 1 signal | 1,000,000 | one late request at most; the statistics' window |
| `tracker` | 2 recorders, 4 kinds of results (two durations that are cut to the same latency), both snapshots, resets | 306,000 | sums, snapshots, percentiles, histograms, deviation, shares |
| `bucket_single` | 1 caller, rate 2, burst 2, 5 ticks a second, 10 ticks | 166,000 | the rate in every period, refinement of `Bucket` |
| `requests_shared` | 3 workers, 4 requests of different kinds, a header spelled in two ways | 146,000 | round robin; the merge |
| `exchange_all` | retries -1, 0, 2; no timeout, the default, 5 s; pool of 0, 1 or 3; 15 lists of assertions, 6 answers; 2 requests, sent again at most twice | 160,000 | record, release, breakdown, retries, assertions, silence |
| `command_sequence` | 13 files, 3 values of the flags, 3 environments, 2 commands | 71,000 | reports, validation |
| `requests_enterprise` | 1 worker, the requests of examples/enterprise.yml | | violation, section 5 |
| `engine_accumulate` | 2 stages of 1 worker, no signal | | violation, section 5 |
| `bucket_race` | 2 callers of `Wait` | | violation, section 5 |
| `exchange_code` | the same | | violation, section 5 |
| `command_environment` | one file with a reference in a header | | violation, section 5 |

### What the properties say

*Engine.* `WaitGroupExact`: the counter is the number of goroutines alive, also
across `wg = sync.WaitGroup{}`. `ResetQuiescent`: nobody is alive at the reset.
`OverlapBound`: alive are only workers of the current stage, and of the second
batch of the one before. `SemaphoreNeverBlocks`: the two batches of a stage are
never alive together, so the semaphore, sized for one batch, never makes a worker wait. This also says that it limits nothing.
`LastBatchSendsNothing`: the second batch of the last stage finds a cancelled context.
`OneLateRequest`: after its context is cancelled a worker sends at most
one request. `StatsWindow`: the statistics hold the current stage and the one
before, at most. `ReportComplete`: a report counts every request and outcome and
nothing is in flight, *unless* `Run` left through the break at the loop head,
which does not wait. `ImplementsStagedRun`: the refinement, with its liveness.
`WorkersExit`: all goroutines end.

*Tracker.* `QuiescentExact`: counters, slice and maps agree when nobody records; the
total duration and the stages to the nanosecond, the slice up to a microsecond for
each of its latencies.
`SnapshotOrdered`: codes ≤ outcomes ≤ latencies ≤ requests in every snapshot.
`LiveOrdered`: the weaker promise of `LiveSnapshot`, outcomes ≤ latencies in
the window; it may show more outcomes than requests.
`MeanNearMax`: the mean, a quotient of two atomics, exceeds the maximum, which comes
from the slice, by less than the microsecond a latency is cut by: true because a latency
enters the slice before the duration is added, and the count before both. It may exceed it: one request of
1.0005 ms is reported with a maximum of 1.000 and a mean of 1.0005. The standard
deviation is bounded by the latencies, up to the same microsecond.
`PercentilesRight`, `HistogramRight`: against definitions that count in the bag;
`BuildHistogram` puts a latency that equals a threshold one bucket lower than
`CalcHistogram`, and differs in nothing else.
`SharesRight`: the reports of a snapshot, whenever it was taken, show shares of one
whole, and a bar for each bucket that is not empty; the counts and what
they are divided by are loaded apart. Without a request, the shares in the HTML
histogram are 0/0 and print as NaN: this case is excepted.

*TokenBucket.* `RateBound`: grants ≤ burst + rate × time, counted from the start;
`bucket_race` refutes it for two callers, by a lost update in which no time passes. `RateInEveryPeriod` says the same of
every period that begins while the caller is idle, so that a bucket that was left alone for long
cannot make up for it; from the initial state it is `RateBound`. A period that
begins inside a call may see one request more, the one of that call.
`ImplementsBucket`: the refinement; refill takes effect at its last store.

*Requests.* `RoundRobin`. `BuiltRight`: a finished request has all the values it is
configured with, in spite of the races, and each default from the default of
its key; a header that the request and the
defaults spell differently, from either. The exception is a default it lacks, when
another worker has had the request too: it may be empty or another default it
lacks. `BuiltComplete`: a finished request
has every default if it is configured with it, or if no other worker has had
the request so far. `OnlySparseKills`: such requests are
never written to, so that only others can make the process die.

*Exchange.* `RecordedOnce`: each request once recorded, each slot once released.
`BreakdownSums`: failures and error types match, whatever the texts.
`DeliveriesBounded`: at most retries + 1 calls of net/http, each copy that is
written out is one of a call or one that net/http sends again, and an answer comes from a call only. `NoRetryAfterAnswer`. `EveryRequestEnds`: with the default timeout
or a positive one, also when the server falls silent.
`NoFalsePass`: a request recorded as a success meets each of its assertions,
whichever is the last and whatever is cut off, printed and looked up; the
exceptions are in `Lenient`. `NoFalseFail`: a failed assertion is recorded only if
the response misses one, up to a millisecond and the printing of numbers of a million
or more, or minus a million or less.

*Command.* `SuccessIsComplete`: exit without an error means that every report
asked for was written by this command, in full. `FailureKeepsPrefix`: any other
end leaves the reports before the failing one whole, at most one truncated, and
touches no other. Both except files in `lost`, of which the code does not learn. `EngineGetsRunnable`: what `Validate` is for.
`ValidatePredictsRun`: what `validate` accepts, `run` does not refuse.

### Bounds, and why they are enough

`MaxSends` bounds the requests of a worker: nothing in `Run` depends on the
number, one request per worker shows every place a worker can be in, and two are
needed for a second late one. A worker at the bound waits at its loop head until its context is
cancelled, as it would after any number of requests. `MaxSignals` is 1 because
the second signal changes nothing: the channel is read once. Three
stages are the fewest where a reset can meet the batch of a stage that is not
the first. `MaxRecords` bounds the results between two resets; three
are in the slice at once at most, enough for two ranks to
fall apart. `MaxClock` covers two seconds of a bucket whose rate does not
divide the second. In the instance of `tracker` a microsecond has two nanoseconds and a
millisecond one microsecond, so that durations are cut or not and
the buckets are near. `MaxNext` is 8, twice the requests: each is handed out more than once.
`MaxRequests` is 2 so that one exchange follows another. `MaxResends` is 2: one
for each of the causes, before and after the request is written out. The lists of assertions in
`MCExchange` hold each type and nearly every operator, with values that some
answer meets and another misses; times at, between and just short of whole
milliseconds; unreadable values; paths that end at a leaf, beyond one and at
nothing; and lists of two in which the first, the second or both fail. `MaxCommands` is 2:
only the files and the history pass from one command to the next.
The proofs of section 4 have none of these bounds.

### Fairness

`Engine` assumes weak fairness of `Run`'s goroutine, of each worker and of the
coordinator's goroutine. The Go scheduler gives every runnable goroutine its
turn. For a blocked one it stands for: the stage's timer fires; a channel
operation or `wg.Wait` that can proceed does; `TokenBucket.Wait` returns,
because `NewTokenBucket` turns a rate of 0 into 1, and with racing callers
because tokens keep being added; `Client.Do` returns, which is
what `Exchange!EveryRequestEnds` says under the condition that the file does not
set the timeout to 0 (that switches it off, and the assumption with it). No
fairness is assumed of signals. `Exchange` has weak fairness of its only process:
the goroutine runs on, the timer of the client fires, and the network does
something or falls silent. The other modules have no liveness property.

`CHECK_DEADLOCK` is off in `MCCommand` and `MCRequests` only: after the last
command nothing is left to do; and a dead process takes no step, nor does a pool
whose bound on the calls of `Next` is reached.

## 4. Proofs

Assumed are only the named assumptions on the constants (`EngineAssumption` and
its like), which say that numbers are numbers and that sets of options are what they should be.
`TrackerAssumption` also says that the recorders, error types, codes, latencies and stages are
finitely many, without which no sum over them is defined: goroutines and stages
are counted by the config file, the others are values of machine types or words of the
classification.

**EngineProofs.** The invariants `runs` check are not inductive: that nobody is
alive at the reset, for example, follows from the counter being exact, which
needs to know that no goroutine is started twice, which needs to know who can
have been started at which point of `Run`. `IInv` in `Engine.tla` adds:
`PhaseInv` (what Run's variables say to each other), `ContextInv` (when the
context is cancelled), `LiveInv` and `StartedInv` (which workers can be alive,
and have been started, at each `mpc`), `CountInv`, `SemInv`, `SettleInv` (three
counters that count sets), `LateInv`, `LastInv`, `WindowInv`, `ReportInv`. One
lemma per group and side (Run's steps, the workers' and the rest) shows that a
step keeps it; `Invariance` puts them together. From it follow all eight
invariants the runs check, and `Refinement`: `Init` and every step of `Engine`
map to `StagedRun`.

**ExchangeProofs.** `ExchangeInv` adds to the four invariants the number of calls and of
copies at each point of `Do`, and that an answer which has been read is what `Do`
returns with. The action property `NoRetryAfterAnswer` follows from the same
invariant. `NoFalsePass` and `NoFalseFail` rest on lemmas about the operators:
`Cut` bounds what the division to milliseconds loses, `LatencyRight` and
`JSONRight` compare two evaluators with `Meets`, `EvaluationRight` joins them. They
assume of an assertion that its times are not negative (`AssertionOK`), and of
a response that each path leads to one node, through objects (`ResponseOK`).

**TokenBucketProofs.** Types hold for any number of callers. With one caller,
`Poured` is the balance: what the bucket holds plus what it gave away is at most
the capacity plus what the time up to `lastRefill` is worth; in the middle of
`refill`, the time up to the clock reading that is about to be stored. Its parameter
`k` is how far the grants were ahead when the account was opened. For
`RateInEveryPeriod` the account of a period is opened only when the first refill
in it is done (`PeriodInv`): before that nothing is granted, and what the bucket
holds then is its capacity at most. `ImplementsBucket` is proved step by
step; while `refill` has stored but not yet stamped, `Level` takes the addition
back, which is possible because a lone caller still knows what it added. That the
theorems need the assumption of one caller is the finding of `bucket_race`.

**RequestsProofs.** `RoundRobin` needs to know that `handed` is some full rounds
and the part of the last one that `idx`, counted with an index already read but not yet
advanced, says; that only one worker is between the two is what the mutex is for.
`BuiltRight` and `OnlySparseKills` need the keys of the loop: a worker writes only
a default key its request was not configured with. So the slots a request is
configured with are never written (`MapsOK`, `SlotsOK`), and the others hold
defaults that it lacks, each under its own key unless another worker has had the request
(`ExactOK`).
`BuiltComplete` has an invariant of its own, `CompleteInv`, on top of `IInv`: a
request handed out once is one worker's alone (`AloneOK`), so none of its inserts is
lost, every value is there or about to be stored, and a key leaves the loop only when it
is in the map (`DoneOK`).
The first part of the module is the arithmetic of a successor's remainder.

**CommandProofs.** For the reports, the invariant (`ReportInv`) says what the loop
over the formats has done at any moment: the formats before `pos` are written by
this command and whole, the one at `pos` may be open, and no other is touched. A
format may come twice in the list. For the files, `Runnable` is what becomes of a
file in an environment by `Load` and `Validate`; `FileInv` says that both
commands compute it, so that their answers agree, and that it is what the engine
gets (`ValidRuns`). `EndKeeps` treats all the ways a command can end at once.

**LatencyStatsProofs.** The operators of `LatencyStats` compared with their
definitions for *every* bag of latencies, with no state in sight. A sum is a fold over
a finite set, and a proof about it is an induction. The library's induction
theorems take a predicate, which the provers cannot instantiate; `SetInduction`
states the same with a *set* of sets instead (those for which the claim holds), and
follows from the well-foundedness of inclusion. From it come the facts all else
rests on: a sum over a part (`Part`), with one element more or less, of two
disjoint parts, of sums term by term. `SortIsCorrect` says what the sorted copy
is; `PercentilesAreCorrect` counts the positions at and beyond the rank, where
the interpolation takes two neighbours; `HistogramIsCorrect` and `HistogramsDoAgree`
count positions by thresholds; `DeviationIsCorrect` bounds each square, for any mean
less than a microsecond above the largest latency, which is what `MeansBounded` shows of a
snapshot's.

**TrackerProofs.** `QuiescentExact` speaks of idle recorders only, so the invariant has
to say what the counters are in the middle of any number of calls: `Bookkeeping`
has each counter equal to the records that are complete (the sum of
`stageCounts`, the last step) plus the recorders that are past its step;
`Timing` says the same of the durations, the slice's within `Least` and `Most` of what
they were before the cut, and `Windowing` of each latency in the
live window. A step of `Record` moves one recorder past one step and counts one,
`Reset` needs them all idle. `SnapshotInv` holds between the steps of
`Snapshot`: what it has copied under the lock is what the locked variables still are,
and what it loads from the atomics before and after can only be on one side of that. `LiveInv`
is the same for `LiveSnapshot`, with less. `TrackerInv` joins them.
`ComputedInv` says that the statistics of a finished snapshot are those
operators of the copied latencies, so that the theorems of `LatencyStatsProofs`
carry over, and that its duration is at most its maximum (and what was cut of it)
times its count, which is what the mean needs. For `SharesRight`, `SharesOfTotal` and `BarsFit` are
the arithmetic of the reports, and `SnapshotInv` what it needs: nothing is divided
by less than it counts.

Every invariant and every safety action property that a passing run checks is stated by a
theorem. Only model-checked is what the prover cannot do: liveness (`WorkersExit`,
`EveryRequestEnds`, and the fair part of `ImplementsStagedRun`, whose safety
part is `Refinement`).

## 5. Where code and text disagree

Each of the first five has a run that expects the violation.

1. A default for a request that has no headers (or query parameters) of its own
   panics (request.go:50, against config/types.go:20). `requests_enterprise`.
2. The statistics of earlier stages are dropped (engine.go:155, against
   test/engine_test.go:120). `engine_accumulate`.
3. `refill` runs without the mutex it says must be held (tokenbucket.go:77): one caller
   loads the tokens there, another takes one under the mutex, and the first stores its
   earlier count back over it (:81 against :73). More requests pass than the burst,
   before any time has passed. `bucket_race`.
4. An environment reference in a header panics once the variable is set
   (resolver.go:45, against README.md:12). `command_environment`.
5. An answer of 400 or more is recorded under code 0 (worker.go:84, against
   metrics/tracker.go:28 "HTTP status code"). `exchange_code`.

Seen while modelling, without a run of their own:

- Every stage gets a second batch of workers that runs beside the next stage, so
  that a stage has more goroutines than its `concurrency` (README.md:102,
  "Number of concurrent goroutines"). `OverlapBound` says exactly which.
- A signal that arrives between two stages ends the run with requests in flight;
  the report may count a request without its outcome (README.md:15, "Graceful
  shutdown"). `ReportComplete` excludes this case by `BrokeOff`.
- The burst of a bucket is its rate, so the first second of a stage may see twice
  the `rate_limit` (README.md:104, "Maximum RPS").
- A default replaces a request's own header, or not, by the order of a Go map, if the
  two are spelled differently (request.go:49, :55; types.go:20, "default values").
  `BuiltRight` allows this case only.
- The type `http_error` is never produced, and the assertions of a request are not
  evaluated on an answer of 400 or more: a `status equal 404` cannot pass.
- A timeout of 0 or below is not refused by `Validate`; it switches the client's
  limit off, and one silent server then keeps the command from ending.
- TPS is the number of requests over the sum of their latencies, not over the time
  they took together, and that sum is printed as "Total Duration".
- `ResponseSize` is never set by the worker: the bytes in the statistics are 0.
- Latencies and thresholds of assertions are cut to whole milliseconds; "1.001s"
  becomes 1000.
- A header is found only under its canonical spelling, and only its first value
  is compared.
- A json assertion: `type` ignores the value, an unknown operator passes, a
  number of a million or more, or minus a million or less, is compared as 1e+06 or
  -1e+06, and a missing node equals
  "<nil>".
- A `tls` section with a `min_version` only is ignored, "1.3" and anything unknown
  mean 1.2, and certificates that cannot be read are skipped (transport.go:36-52,
  :90-101, against README.md:11).
- `BuildHistogram` and `CalcHistogram` disagree about a latency at a threshold.
- The HTML report of a run without requests shows NaN% (html.go:113; the console
  guards the same division, console.go:102).
- The error of the client's own timeout has no lower-case "timeout" in it and is
  recorded as `other`.
- `retry_delay`, `follow_redirects`, and a request's own `retries` and `timeout`
  are never used (README.md:91-94); the timeout becomes an `X-Timeout` header.
- `--formats` has a default, so that `output.formats` of the file is never used
  (README.md:49-51), and is not validated; the same for `--output-dir`.
- `--formats csv` writes nothing (README.md:111).
- "Missing variables are logged as warnings" (resolver.go:14): nothing is logged.
- "duration must be positive" (validator.go:24): a negative one is accepted, and
  its stage ends at once.
- The mean of the latencies may exceed their maximum (tracker.go:109, :115), by less than a
  microsecond.
- A value of a default may be sent as an empty string, or as another one's, when two
  workers fill it into the same request at a time (request.go:50).
- The error of closing a report file is dropped (json.go:54, html.go:58).
- A file without requests and without a default URL is valid; the run sends
  nothing, keeps all workers spinning and reports success.

## 6. What is not modelled

- `transport.go`: settings for crypto/tls and net/http, no control of its own.
- `csv.go`, `LoadJSON`, `ExecuteRequest`, `NewResponse`, `BuildRequestWithTimeout`,
  `RandInt`: no caller.
- Layout: the text of the reports, the labels of buckets, how shares are rounded.
- TPS, QPS and the average of the live window: quotients of modelled quantities.
- `Acquire(n)` for n > 1: no caller; planned, because n slots are taken one by one.
- YAML, net/http, the Go runtime: external, modelled by what the code can see. Maps of
  more than eight entries, in which a race can do more than in small ones.

## 7. Plan

Done in this order, the most important behaviour first: `StagedRun` and `Engine`
with its proofs; `Tracker` with `LatencyStats`; `TokenBucket` with its proofs; `Requests`
with its proofs; `Exchange` with its proofs; `Command`; `Assertions`, in `Exchange`,
with its proofs; `Reports`; `CommandProofs`; `LatencyStatsProofs`; `TrackerProofs`; `Bucket`.

Next, in this order:

1. `Engine`'s `limit` step on a shared `Bucket`, to see the rate in the engine; with
   the racing refills of several workers it would need a weaker `Bucket`.
2. `Semaphore`: `Acquire(n)` slot by slot, should the program ever call it with
   more than one.
