------------------------------ MODULE Exchange ------------------------------
(***************************************************************************)
(* One turn of a worker's loop after another, from the slot to the result: *)
(* build the request, Client.Do with its retries, the assertions, the      *)
(* classification of what went wrong, Tracker.Record, the slot again.      *)
(*                                                                         *)
(* The network chooses what happens to an attempt, which may be that       *)
(* nothing happens any more: then only the client's timeout, if it has     *)
(* one, ends the attempt. An error is abstracted to the words in its text  *)
(* that the classification looks for: net/http puts the URL into its       *)
(* errors, Client.Do puts the body of a response with a status of 400 or   *)
(* more into its own, an assertion what it was configured with. The error  *)
(* of the client's own timeout says "Client.Timeout exceeded while         *)
(* awaiting headers" and has none of these words.                          *)
(*                                                                         *)
(* net/http may write a request out more often than Client.Do asks it to.  *)
(* When nothing has been written to a connection that turns out to be      *)
(* dead, it takes another. What has been written out it sends again when   *)
(* the request is idempotent and the reused connection died, when the      *)
(* server refuses it over HTTP/2, and when it is redirected. A server may  *)
(* also answer before a request is written out.                            *)
(*                                                                         *)
(* The body of a request is a reader. An attempt that writes it drains it, *)
(* and Client.Do does not rewind it for the next attempt. Then it depends  *)
(* on net/http: on a fresh connection it refuses to send a request that is *)
(* shorter than its ContentLength, on a reused one it takes a new reader   *)
(* from the request and tries again by itself. The model allows both.      *)
(***************************************************************************)
EXTENDS Assertions, FiniteSetsExt

CONSTANTS
  Configs,       \* the parts of a TestConfig that New reads
  Kinds,         \* the kinds of requests the pool may hold
  Responses,     \* what the server may answer
  UrlWords,      \* the words in the request's URL
  BodyWords,     \* the words in the body of an error response
  MaxRequests,   \* bound: requests the worker takes
  MaxResends     \* bound: times net/http sends a request again by itself

Words == {"timeout", "refused", "tls", "assertion"}

(* The timeout is a pointer: <<>> is nil, or else it is <<seconds>>. A     *)
(* request can be built or not, has a body or not, and assertions; it is   *)
(* replayable when net/http may send it again by itself after it has been  *)
(* written out.                                                            *)
ASSUME ExchangeAssumption ==
  /\ \A c \in Configs : /\ c.timeout \in Seq(Int) /\ c.retries \in Int
                       /\ c.requests \in Nat /\ c.url \in BOOLEAN
  /\ \A r \in Responses : ResponseOK(r)
  /\ \A k \in Kinds :
       /\ {k.buildable, k.body, k.replayable} \subseteq BOOLEAN
       /\ \A i \in DOMAIN k.asserts : AssertionOK(k.asserts[i])
  /\ UrlWords \subseteq Words /\ BodyWords \subseteq Words
  /\ MaxRequests \in Nat /\ MaxResends \in Nat

VARIABLES
  cfg,        \* the configuration
  pc,         \* where the worker is
  slot,       \* slots of the semaphore it holds
  taken,      \* requests it has taken
  records,    \* calls of Tracker.Record
  kind,       \* what the request it has is like
  attempt,    \* Client.Do: attempt
  calls,      \* its calls of httpClient.Do for this request
  resends,    \* times net/http has sent this request again by itself
  bodyLeft,   \* the reader of the body has not been touched
  delivered,  \* copies of this request written out in full
  response,   \* the response read in full, with the latency the worker takes
  errText,    \* lastErr, then the error Do returned: its words
  cause,      \* why the last attempt, or the exchange, failed
  result      \* the Result recorded for it

sending == <<calls, resends, bodyLeft, delivered>>
request == <<kind, attempt, sending, response, errText, cause>>
vars == <<cfg, pc, slot, taken, records, request, result>>

NoKind == [buildable |-> FALSE, body |-> FALSE, replayable |-> FALSE,
           asserts |-> <<>>]

NoResult == [failed |-> FALSE, code |-> 0, type |-> "", asserted |-> FALSE]

NoResponse == [code |-> 0]
answer == response.code

(***************************************************************************)
(* New: the client it makes, and the number of requests of the pool.       *)
(***************************************************************************)
(* Mutant of New: without the default.                                     *)
NewWithoutDefault(c) ==
  [timeout |-> IF c.timeout = <<>> THEN 0 ELSE c.timeout[1],
   retries |-> c.retries]

New(c) == [timeout |-> IF c.timeout = <<>> THEN 30 ELSE c.timeout[1],
           retries |-> c.retries]

NewRequestPool(c) ==
  IF c.requests = 0 /\ c.url THEN 1 ELSE c.requests

client == New(cfg)

Init ==
  /\ cfg \in Configs
  /\ pc = "idle" /\ slot = 0 /\ taken = 0 /\ records = 0
  /\ kind = NoKind /\ attempt = 0
  /\ calls = 0 /\ resends = 0 /\ bodyLeft = TRUE /\ delivered = 0
  /\ response = NoResponse /\ errText = {} /\ cause = "none"
  /\ result = NoResult

Goto(from, to) == pc = from /\ pc' = to
-----------------------------------------------------------------------------
(***************************************************************************)
(* Worker.Run up to Client.Do.                                             *)
(***************************************************************************)
(* The context is cancelled: the loop ends.                                *)
ContextDone ==
  /\ Goto("idle", "exit")
  /\ UNCHANGED <<cfg, slot, taken, records, request, result>>

AcquireSlot ==
  /\ Goto("idle", "next")
  /\ taken < MaxRequests
  /\ slot' = slot + 1
  /\ UNCHANGED <<cfg, taken, records, request, result>>

(* The pool is empty.                                                      *)
NoRequest ==
  /\ Goto("next", "idle")
  /\ NewRequestPool(cfg) = 0
  /\ slot' = slot - 1
  /\ UNCHANGED <<cfg, taken, records, request, result>>

TakeRequest ==
  /\ Goto("next", "build")
  /\ NewRequestPool(cfg) > 0
  /\ taken' = taken + 1
  /\ \E k \in Kinds : kind' = k
  /\ attempt' = 0
  /\ calls' = 0 /\ resends' = 0 /\ bodyLeft' = TRUE /\ delivered' = 0
  /\ response' = NoResponse /\ errText' = {} /\ cause' = "none"
  /\ result' = NoResult
  /\ UNCHANGED <<cfg, slot, records>>

Build ==
  /\ Goto("build", "head")
  /\ kind.buildable
  /\ UNCHANGED <<cfg, slot, taken, records, request, result>>

RecordResult(r) ==
  /\ result' = r
  /\ records' = records + 1
  /\ UNCHANGED <<cfg, slot, taken, request>>

(* Mutant of BuildError: back to the loop head without Record and Release. *)
BuildErrorUnrecorded ==
  /\ Goto("build", "idle")
  /\ ~kind.buildable
  /\ UNCHANGED <<cfg, slot, taken, records, request, result>>

(* BuildRequest fails: recorded as ErrorOther.                             *)
BuildError ==
  /\ Goto("build", "release")
  /\ ~kind.buildable
  /\ RecordResult([failed |-> TRUE, code |-> 0, type |-> "other",
                   asserted |-> FALSE])
-----------------------------------------------------------------------------
(***************************************************************************)
(* Client.Do.                                                              *)
(***************************************************************************)

(* The loop head of an attempt, with the sleep before a retry, and its     *)
(* call of httpClient.Do.                                                  *)
Call ==
  /\ Goto("head", "try")
  /\ calls' = calls + 1
  /\ UNCHANGED <<cfg, slot, taken, records, kind, attempt, resends, bodyLeft,
                 delivered, response, errText, cause, result>>

(* Mutant of NextAttempt: one attempt too many.                            *)
NextAttemptTooMany == Call /\ attempt <= client.retries + 1

NextAttempt == Call /\ attempt <= client.retries

OutOfAttempts ==
  /\ Goto("head", "failed")
  /\ attempt > client.retries
  /\ UNCHANGED <<cfg, slot, taken, records, request, result>>

(* lastErr = err and continue.                                             *)
FailAttempt(from, words, why) ==
  /\ Goto(from, "head")
  /\ errText' = words /\ cause' = why
  /\ attempt' = attempt + 1
  /\ UNCHANGED <<cfg, slot, taken, records, kind, sending, response, result>>

Drained == kind.body /\ ~bodyLeft

(* No connection: nothing of the request is written. The dialer and the    *)
(* TLS handshake have timeouts of their own.                               *)
ConnectFails ==
  \E from \in {"try", "again"} :
    \/ FailAttempt(from, {"refused"} \cup UrlWords, "refused")
    \/ FailAttempt(from, {"refused", "timeout"} \cup UrlWords, "timeout")
    \/ FailAttempt(from, {"tls"} \cup UrlWords, "tls")

(* The reader has nothing left: ContentLength=n with Body length 0.        *)
DrainedBody == Drained /\ FailAttempt("try", UrlWords, "drained")

(* The connection is there, and the request is being written.              *)
WriteRequest ==
  /\ \E from \in {"try", "again"} : Goto(from, "writing")
  /\ bodyLeft' = FALSE
  /\ UNCHANGED <<cfg, slot, taken, records, kind, attempt, calls, resends,
                 delivered, response, errText, cause, result>>

WrittenOut ==
  /\ Goto("writing", "sent")
  /\ delivered' = delivered + 1
  /\ UNCHANGED <<cfg, slot, taken, records, kind, attempt, calls, resends,
                 bodyLeft, response, errText, cause, result>>

(* net/http sends the request again, with a new reader of its own: any     *)
(* request when nothing of it has been written, and a replayable one.      *)
SendAgain ==
  /\ Goto("writing", "again") \/ (Goto("sent", "again") /\ kind.replayable)
  /\ resends < MaxResends
  /\ resends' = resends + 1
  /\ UNCHANGED <<cfg, slot, taken, records, kind, attempt, calls, bodyLeft,
                 delivered, response, errText, cause, result>>

(* The headers of an answer, which may come before all is written.         *)
HeadersArrive ==
  /\ Goto("writing", "read") \/ Goto("sent", "read")
  /\ UNCHANGED <<cfg, slot, taken, records, request, result>>

(* The connection breaks before the headers are there, or while io.ReadAll *)
(* reads the body: "read body: ..." without the URL.                       *)
ConnectionBreaks ==
  \/ \E from \in {"writing", "sent"} : FailAttempt(from, UrlWords, "reset")
  \/ FailAttempt("read", {}, "reset")

(* The server takes and says nothing any more, before its answer or in the *)
(* middle of it.                                                           *)
FallSilent ==
  /\ \/ \E from \in {"writing", "sent"} : Goto(from, "silent")
     \/ Goto("read", "stalled")
  /\ UNCHANGED <<cfg, slot, taken, records, request, result>>

(* http.Client.Timeout; zero or less is none.                              *)
ClientTimeout ==
  /\ client.timeout > 0
  /\ \/ FailAttempt("silent", UrlWords, "timeout")
     \/ FailAttempt("stalled", {}, "timeout")

(* Mutant of ErrorResponse: a status of 400 or more is retried.            *)
RetryErrorResponse ==
  \E r \in Responses :
    /\ r.code >= 400
    /\ Goto("read", "head")
    /\ response' = r /\ errText' = BodyWords /\ cause' = "http"
    /\ attempt' = attempt + 1
    /\ UNCHANGED <<cfg, slot, taken, records, kind, sending, result>>

(* The body is read. Do returns the response and, from 400 on, an error    *)
(* with the body in its text as well.                                      *)
ErrorResponse ==
  \E r \in Responses :
    /\ r.code >= 400
    /\ Goto("read", "failed")
    /\ response' = r /\ errText' = BodyWords /\ cause' = "http"
    /\ UNCHANGED <<cfg, slot, taken, records, kind, attempt, sending, result>>

GoodResponse ==
  \E r \in Responses :
    /\ r.code < 400
    /\ Goto("read", "answered")
    /\ response' = r
    /\ UNCHANGED <<cfg, slot, taken, records, kind, attempt, sending, errText,
                   cause, result>>

Do ==
  \/ NextAttempt \/ OutOfAttempts \/ ConnectFails \/ DrainedBody
  \/ WriteRequest \/ WrittenOut \/ SendAgain
  \/ HeadersArrive \/ ConnectionBreaks
  \/ FallSilent \/ ClientTimeout
  \/ ErrorResponse \/ GoodResponse
-----------------------------------------------------------------------------
(***************************************************************************)
(* Worker.Run after Client.Do.                                             *)
(***************************************************************************)
classifyNetworkError(words) ==
  CASE "timeout" \in words -> "timeout"
    [] "timeout" \notin words /\ "refused" \in words -> "connection_refused"
    [] words \cap {"timeout", "refused"} = {} /\ "tls" \in words -> "tls_error"
    [] OTHER -> "other"

(* Mutant of classifyError: an unknown text has no type.                   *)
classifyKnownOnly(words) ==
  IF "assertion" \in words THEN "assertion_failed" ELSE ""

classifyError(words) ==
  IF words \cap {"timeout", "refused", "tls"} = {} /\ "assertion" \in words
  THEN "assertion_failed" ELSE classifyNetworkError(words)

(* Whatever Do returned with the error, the response included, is dropped. *)
RecordError ==
  /\ Goto("failed", "release")
  /\ RecordResult([failed |-> TRUE, code |-> 0,
                   type |-> classifyNetworkError(errText),
                   asserted |-> FALSE])

(* Mutant of Failing: an assertion that passes clears the error before it. *)
FailingLast ==
  LET results == EvaluateAll(kind.asserts, response)
  IN  {i \in DOMAIN results : i = Len(kind.asserts) /\ ~results[i].pass}

(* The assertions of the request that do not pass.                         *)
Failing ==
  LET results == EvaluateAll(kind.asserts, response)
  IN  {i \in DOMAIN results : ~results[i].pass}

RecordSuccess ==
  /\ Goto("answered", "release")
  /\ Failing = {}
  /\ RecordResult([failed |-> FALSE, code |-> answer, type |-> "",
                   asserted |-> FALSE])

(* The last failing assertion leaves its text: the evaluator's own error,  *)
(* with the assertion's operator or value in it, or "assertion failed: "   *)
(* and its name.                                                           *)
RecordAssertion ==
  /\ Goto("answered", "release")
  /\ Failing # {}
  /\ RecordResult([failed |-> TRUE, code |-> answer,
                   type |-> classifyError(
                     Evaluate(kind.asserts[Max(Failing)], response).words),
                   asserted |-> TRUE])

(* Mutant of ReleaseSlot: deferred, and called once more.                  *)
ReleaseTwice ==
  /\ Goto("release", "idle")
  /\ slot' = slot - 2
  /\ UNCHANGED <<cfg, taken, records, request, result>>

ReleaseSlot ==
  /\ Goto("release", "idle")
  /\ slot' = slot - 1
  /\ UNCHANGED <<cfg, taken, records, request, result>>

(* The worker has returned, or waits for an answer without a timeout.      *)
Stopped ==
  /\ pc = "exit" \/ (pc \in {"silent", "stalled"} /\ client.timeout <= 0)
  /\ UNCHANGED vars

Next ==
  \/ ContextDone \/ AcquireSlot \/ NoRequest \/ TakeRequest
  \/ Build \/ BuildError
  \/ Do
  \/ RecordError \/ RecordSuccess \/ RecordAssertion \/ ReleaseSlot
  \/ Stopped

(* The goroutine goes on when it can, and a timer fires. The network only  *)
(* has to do something, or fall silent.                                    *)
Spec == Init /\ [][Next]_vars /\ WF_vars(Next)
-----------------------------------------------------------------------------
(* Every variable has its type.                                            *)
ErrorType == {"timeout", "connection_refused", "tls_error",
              "assertion_failed", "other"}
ResultCodes == {r.code : r \in Responses} \cup {0}
Unrecorded == {"build", "head", "try", "again", "writing", "sent", "silent",
               "read", "stalled", "failed", "answered"}

TypeOK ==
  /\ cfg \in Configs
  /\ pc \in {"exit", "idle", "next"} \cup Unrecorded \cup {"release"}
  /\ slot \in {0, 1} /\ taken \in Nat /\ records \in Nat
  /\ kind \in Kinds \cup {NoKind}
  /\ attempt \in Nat /\ calls \in Nat /\ resends \in 0 .. MaxResends
  /\ bodyLeft \in BOOLEAN /\ delivered \in Nat
  /\ response \in Responses \cup {NoResponse}
  /\ errText \subseteq Words
  /\ cause \in {"none", "refused", "timeout", "tls", "drained", "reset",
                "http"}
  /\ result \in [failed : BOOLEAN, code : ResultCodes,
                 type : ErrorType \cup {""}, asserted : BOOLEAN]

(* On each of the five ways through the loop body a request that was taken *)
(* is recorded exactly once, and the slot is given back.                   *)
RecordedOnce ==
  /\ taken = records + (IF pc \in Unrecorded THEN 1 ELSE 0)
  /\ slot = (IF pc \in {"idle", "exit"} THEN 0 ELSE 1)

(* The breakdown by ErrorType sums up to the failures: a result has an     *)
(* ErrorType exactly when the tracker counts it as a failure, and a failed *)
(* assertion comes with the code of an answer below 400.                   *)
BreakdownSums ==
  /\ result.failed <=> result.type # ""
  /\ result.asserted => result.failed /\ result.code \in 200 .. 399

(* Whatever the errors, a request is given to net/http at most retries + 1 *)
(* times, never when that is not positive, and one that net/http does not  *)
(* send again by itself is written out at most as often: a retry never     *)
(* follows an attempt that goes on. Of the others each further copy is one *)
(* that net/http sent again. An answer comes from one of the calls.        *)
Copies == IF kind.replayable THEN calls + resends ELSE calls

DeliveriesBounded ==
  /\ IF client.retries >= 0 THEN calls <= client.retries + 1 ELSE calls = 0
  /\ delivered <= Copies
  /\ answer # 0 => calls > 0

(* Once an answer has been read, good or bad, the request is not sent      *)
(* again.                                                                  *)
NoRetryAfterAnswer ==
  [][answer # 0 /\ pc # "next" =>
       calls' = calls /\ delivered' = delivered /\ attempt' = attempt]_vars

(* A request recorded as a success meets every assertion it was configured *)
(* with, in the sense of Meets: whatever the evaluation cuts off, prints   *)
(* and looks up, and whichever of the assertions is the last. The only     *)
(* exceptions are those of Lenient.                                        *)
Recorded == pc = "release" /\ answer \in 200 .. 399
NoFalsePass ==
  Recorded /\ ~result.failed =>
    \A i \in DOMAIN kind.asserts :
      Lenient(kind.asserts[i]) \/ Meets(kind.asserts[i], response, 0)

(* A request recorded as a failed assertion has an assertion which its     *)
(* response does not meet, or only by less than a millisecond or with a    *)
(* number that is printed with an exponent: a million or more, or minus a  *)
(* million or less.                                                        *)
NoFalseFail ==
  Recorded /\ result.asserted =>
    \E i \in DOMAIN kind.asserts : ~Meets(kind.asserts[i], response, 1000)

(* With the default timeout or a positive one, every request that is taken *)
(* is recorded in the end, also when the server falls silent.              *)
HasTimeout == cfg.timeout = <<>> \/ cfg.timeout[1] > 0
EveryRequestEnds == HasTimeout /\ pc = "build" ~> pc = "release"
-----------------------------------------------------------------------------
(***************************************************************************)
(* What a comment says and the code does not do.                           *)
(***************************************************************************)

(* metrics/tracker.go, of Result: "StatusCode int // HTTP status code". An *)
(* answer of 400 or more is recorded without its code.                     *)
CodeRecorded == pc = "release" /\ answer # 0 => result.code = answer
=============================================================================
