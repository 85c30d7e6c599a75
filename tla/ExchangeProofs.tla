--------------------------- MODULE ExchangeProofs ---------------------------
(***************************************************************************)
(* Proofs about Exchange for every configuration, every set of responses,  *)
(* assertions and words in the texts, and every number of requests.        *)
(***************************************************************************)
EXTENDS Exchange, TLAPS

(* What is true of the request at each point of the loop body.             *)
(*  - Do makes at most retries + 1 attempts, each with one call; a copy    *)
(*    that goes out is the first of a call, or one net/http sends again;   *)
(*  - an answer that has been read is what Do returns with, and is below   *)
(*    400 when it returns without an error.                                *)
Unwritten == {"try", "again", "writing"}
Waiting   == {"sent", "silent", "read", "stalled"}
Calling   == Unwritten \cup Waiting
Doing     == {"head"} \cup Calling

AttemptInv ==
  /\ pc = "build" => attempt = 0 /\ calls = 0
  /\ pc = "head" => calls = attempt
  /\ pc \in Calling => calls = attempt + 1 /\ attempt <= client.retries
  /\ pc \in Unwritten => delivered < Copies

AnswerInv ==
  /\ answer # 0 => pc \notin {"build"} \cup Doing
  /\ pc = "answered" => response \in Responses /\ answer < 400

ExchangeInv ==
  /\ TypeOK /\ RecordedOnce /\ BreakdownSums /\ DeliveriesBounded
  /\ AttemptInv /\ AnswerInv /\ NoFalsePass /\ NoFalseFail

(* The steps outside Do: between two requests and up to the building of    *)
(* one; and the four that record a result.                                 *)
LoopStep ==
  \/ ContextDone \/ AcquireSlot \/ NoRequest \/ TakeRequest \/ Build
  \/ ReleaseSlot \/ Stopped \/ UNCHANGED vars
RecordStep == BuildError \/ RecordError \/ RecordSuccess \/ RecordAssertion

(* A step is one of three kinds.                                           *)
LEMMA NextKinds ==
  ASSUME [Next]_vars
  PROVE  LoopStep \/ RecordStep \/ Do
BY DEF Next, LoopStep, RecordStep

(* The numbers a state holds.                                              *)
Numbers == /\ client.retries \in Int /\ attempt \in Nat /\ calls \in Nat
           /\ resends \in 0 .. MaxResends /\ delivered \in Nat
           /\ MaxResends \in Nat /\ taken \in Nat /\ records \in Nat

(* TypeOK says so.                                                         *)
LEMMA TypedNumbers == ASSUME TypeOK PROVE Numbers
BY ExchangeAssumption DEF TypeOK, Numbers, client, New

(* The status codes of the assumption.                                     *)
LEMMA CodesInRange == \A r \in Responses : r.code \in 200 .. 599
BY ExchangeAssumption DEF ResponseOK

(* A good answer has a code below 400.                                     *)
LEMMA GoodCode ==
  ASSUME response \in Responses, answer < 400
  PROVE  answer \in 200 .. 399
BY CodesInRange DEF answer

(* The client is made once.                                                *)
LEMMA ClientKept == ASSUME cfg' = cfg PROVE client' = client
BY DEF client

(* The classification always finds a type.                                 *)
LEMMA Classified ==
  ASSUME NEW words
  PROVE  /\ classifyNetworkError(words) \in ErrorType
         /\ classifyError(words) \in ErrorType
BY DEF classifyNetworkError, classifyError, ErrorType

(* The empty type is not among them.                                       *)
LEMMA TypesNotEmpty == \A t \in ErrorType : t # ""
BY DEF ErrorType

-----------------------------------------------------------------------------
(***************************************************************************)
(* What the steps leave alone.                                             *)
(***************************************************************************)

(* The steps of Do: the call of an attempt; none is left; a failed one;    *)
(* the request goes out, is sent again; nothing is read yet, or no more;   *)
(* the end of Do.                                                          *)
Calls ==
  /\ pc = "head" /\ pc' = "try" /\ attempt <= client.retries
  /\ calls' = calls + 1
  /\ UNCHANGED <<attempt, resends, delivered, response>>
GivesUp ==
  /\ pc = "head" /\ pc' = "failed"
  /\ UNCHANGED <<attempt, calls, resends, delivered, response>>
Failed ==
  /\ pc \in Calling /\ pc' = "head"
  /\ attempt' = attempt + 1
  /\ UNCHANGED <<calls, resends, delivered, response>>
Writes ==
  /\ pc \in Unwritten
  /\ \/ pc' = "writing" /\ delivered' = delivered
     \/ pc' = "sent" /\ delivered' = delivered + 1
  /\ UNCHANGED <<attempt, calls, resends, response>>
Resends ==
  /\ pc = "writing" \/ (pc = "sent" /\ kind.replayable)
  /\ pc' = "again" /\ resends < MaxResends /\ resends' = resends + 1
  /\ UNCHANGED <<attempt, calls, delivered, response>>
Waits ==
  /\ pc \in Calling /\ pc' \in Waiting
  /\ UNCHANGED <<attempt, calls, resends, delivered, response>>
Ends ==
  /\ pc = "read" /\ response' \in Responses
  /\ pc' = "failed" \/ (pc' = "answered" /\ answer' < 400)
  /\ UNCHANGED <<attempt, calls, resends, delivered>>

DoStep == Calls \/ GivesUp \/ Failed \/ Writes \/ Resends \/ Waits \/ Ends

(* Do happens between the taking of a request and its recording.           *)
LEMMA DoFrame ==
  ASSUME Do
  PROVE  /\ UNCHANGED <<cfg, slot, taken, records, kind, result>>
         /\ DoStep
<1> USE DEF Goto, request, sending, DoStep, Calling, Unwritten, Waiting
<1>1. CASE NextAttempt
  BY <1>1 DEF NextAttempt, Call, Calls
<1>2. CASE OutOfAttempts
  BY <1>2 DEF OutOfAttempts, GivesUp
<1>3. CASE ConnectFails
  BY <1>3 DEF ConnectFails, FailAttempt, Failed
<1>4. CASE DrainedBody
  BY <1>4 DEF DrainedBody, FailAttempt, Failed
<1>5. CASE WriteRequest
  BY <1>5 DEF WriteRequest, Writes
<1>12. CASE WrittenOut
  BY <1>12 DEF WrittenOut, Writes
<1>13. CASE SendAgain
  BY <1>13 DEF SendAgain, Resends
<1>6. CASE HeadersArrive
  BY <1>6 DEF HeadersArrive, Waits
<1>7. CASE ConnectionBreaks
  BY <1>7 DEF ConnectionBreaks, FailAttempt, Failed
<1>8. CASE FallSilent
  BY <1>8 DEF FallSilent, Waits
<1>9. CASE ClientTimeout
  BY <1>9 DEF ClientTimeout, FailAttempt, Failed
<1>10. CASE ErrorResponse
  BY <1>10 DEF ErrorResponse, Ends
<1>11. CASE GoodResponse
  BY <1>11 DEF GoodResponse, Ends, answer
<1> QED
  BY <1>1, <1>2, <1>3, <1>4, <1>5, <1>6, <1>7, <1>8, <1>9, <1>10, <1>11,
     <1>12, <1>13
  DEF Do

(* Do starts and ends at these points.                                     *)
LEMMA DoPlaces ==
  ASSUME Do
  PROVE  pc \in Doing /\ pc' \in Doing \cup {"failed", "answered"}
BY DoFrame
DEF DoStep, Calls, GivesUp, Failed, Writes, Resends, Waits, Ends, Doing,
    Calling, Unwritten, Waiting

(* Recording is one call of Record, and leaves the request as it is.       *)
LEMMA RecordFrame ==
  ASSUME RecordStep
  PROVE  /\ UNCHANGED <<cfg, slot, taken, kind, attempt, calls, resends,
                        bodyLeft, delivered, response, errText, cause>>
         /\ pc \in {"build", "answered", "failed"} /\ pc' = "release"
         /\ records' = records + 1
BY DEF RecordStep, BuildError, RecordError, RecordSuccess, RecordAssertion,
       RecordResult, Goto, request, sending

-----------------------------------------------------------------------------
(***************************************************************************)
(* Each part of the invariant is kept.                                     *)
(***************************************************************************)

(* The records keep up with the requests, and the slot with both.          *)
LEMMA RecordedStep ==
  ASSUME Numbers, RecordedOnce, [Next]_vars
  PROVE  RecordedOnce'
<1>1. CASE LoopStep
  BY <1>1
  DEF Numbers, RecordedOnce, Unrecorded, LoopStep, ContextDone, AcquireSlot,
      NoRequest, TakeRequest, Build, ReleaseSlot, Stopped, Goto, request,
      vars
<1>2. CASE RecordStep
  BY <1>2, RecordFrame DEF Numbers, RecordedOnce, Unrecorded
<1>3. CASE Do
  BY <1>3, DoFrame, DoPlaces
  DEF RecordedOnce, Unrecorded, Doing, Calling, Unwritten, Waiting
<1> QED  BY <1>1, <1>2, <1>3, NextKinds

(* An answer is what Do returns with.                                      *)
LEMMA AnswerLoop == ASSUME AnswerInv, LoopStep PROVE AnswerInv'
BY DEF AnswerInv, LoopStep, ContextDone, AcquireSlot, NoRequest, TakeRequest,
       Build, ReleaseSlot, Stopped, Goto, request, vars, answer, NoResponse,
       Doing, Calling, Unwritten, Waiting

(* Do sets it once, below 400 when there is no error.                      *)
LEMMA AnswerDo == ASSUME AnswerInv, Do PROVE AnswerInv'
BY DoFrame
DEF AnswerInv, DoStep, Calls, GivesUp, Failed, Writes, Resends, Waits, Ends,
    Doing, Calling, Unwritten, Waiting, answer

(* A step keeps what is known of the answer.                               *)
LEMMA AnswerStep ==
  ASSUME AnswerInv, [Next]_vars
  PROVE  AnswerInv'
<1>1. CASE RecordStep
  BY <1>1, RecordFrame
  DEF AnswerInv, Doing, Calling, Unwritten, Waiting, answer
<1> QED  BY <1>1, AnswerLoop, AnswerDo, NextKinds

(* Whichever way a result is recorded, it has a type exactly when it is a  *)
(* failure.                                                                *)
LEMMA BreakdownStep ==
  ASSUME BreakdownSums, AnswerInv, [Next]_vars
  PROVE  BreakdownSums'
<1> USE DEF BreakdownSums
<1>1. CASE BuildError
  BY <1>1 DEF BuildError, RecordResult
<1>2. CASE RecordError
  BY <1>2, Classified, TypesNotEmpty DEF RecordError, RecordResult
<1>3. CASE RecordSuccess
  BY <1>3 DEF RecordSuccess, RecordResult
<1>4. CASE RecordAssertion
  <2>1. answer \in 200 .. 399
    BY <1>4, GoodCode DEF RecordAssertion, AnswerInv, Goto
  <2>2. PICK words : result' = [failed |-> TRUE, code |-> answer,
                                type |-> classifyError(words),
                                asserted |-> TRUE]
    BY <1>4 DEF RecordAssertion, RecordResult
  <2> QED  BY <2>1, <2>2, Classified, TypesNotEmpty
<1>5. CASE LoopStep
  <2>1. result' \in {result, NoResult}
    BY <1>5
    DEF LoopStep, ContextDone, AcquireSlot, NoRequest, TakeRequest, Build,
        ReleaseSlot, Stopped, vars
  <2>2. /\ NoResult.failed = FALSE /\ NoResult.asserted = FALSE
        /\ NoResult.type = ""
    BY DEF NoResult
  <2> QED  BY <2>1, <2>2
<1>6. CASE Do
  BY <1>6, DoFrame
<1> QED  BY <1>1, <1>2, <1>3, <1>4, <1>5, <1>6, NextKinds DEF RecordStep

-----------------------------------------------------------------------------
(***************************************************************************)
(* What the evaluation says and what an assertion means.                   *)
(***************************************************************************)

(* Cutting off loses less than a millisecond, or a whole one of a value    *)
(* that came out short.                                                    *)
LEMMA Cut ==
  ASSUME NEW a, AssertionOK(a), IsTime(a.value)
  PROVE  /\ Micros(a.value) \in Int /\ Milliseconds(a.value) \in Int
         /\ 1000 * Milliseconds(a.value) <= Micros(a.value)
         /\ Micros(a.value) <= 1000 * Milliseconds(a.value) + 1000
BY DEF AssertionOK, IsTime, Micros, Milliseconds

(* Two times that are cut to the same millisecond or not, where the second *)
(* may have lost a whole one.                                              *)
LEMMA CutsCompared ==
  ASSUME NEW l \in Int, NEW v \in Int, NEW us \in Int, NEW at \in Int,
         1000 * l <= us, us < 1000 * l + 1000,
         1000 * v <= at, at <= 1000 * v + 1000
  PROVE  /\ l < v => us < at
         /\ ~(l < v) => ~(us + 1000 < at)
         /\ l > v => us >= at
         /\ ~(l > v) => ~(us >= at + 1000)
         /\ l = v => us - at \in -1000 .. 1000
OBVIOUS

(* A passed latency is on the right side of the value, one that failed at  *)
(* most a millisecond on it.                                               *)
LEMMA LatencyRight ==
  ASSUME NEW a, NEW r, AssertionOK(a), ResponseOK(r), a.type = "latency"
  PROVE  /\ Evaluate(a, r).pass => Meets(a, r, 0)
         /\ ~Evaluate(a, r).pass => ~Meets(a, r, 1000)
<1> DEFINE latencyMs == r.latency \div 1000
           valueMs == Milliseconds(a.value)
<1>1. CASE ~IsTime(a.value)
  <2>1. Evaluate(a, r).pass = FALSE
    BY <1>1 DEF Evaluate, evalLatency, Errorf
  <2> QED  BY <1>1, <2>1 DEF Meets, LatencyMeets
<1>2. CASE IsTime(a.value)
  <2>1. r.latency \in Nat /\ latencyMs \in Int
        /\ 1000 * latencyMs <= r.latency /\ r.latency < 1000 * latencyMs + 1000
    <3>1. r.latency \in Nat
      BY DEF ResponseOK
    <3> QED  BY <3>1
  <2>2. /\ Micros(a.value) \in Int /\ valueMs \in Int
        /\ 1000 * valueMs <= Micros(a.value)
        /\ Micros(a.value) <= 1000 * valueMs + 1000
    BY <1>2, Cut
  <2>3. Evaluate(a, r) = evalLatency(a, r)
    BY DEF Evaluate
  <2> DEFINE at == Micros(a.value)
  <2>8. /\ latencyMs < valueMs => r.latency < at
        /\ ~(latencyMs < valueMs) => ~(r.latency + 1000 < at)
        /\ latencyMs > valueMs => r.latency >= at
        /\ ~(latencyMs > valueMs) => ~(r.latency >= at + 1000)
        /\ latencyMs = valueMs => r.latency - at \in -1000 .. 1000
    <3>1. r.latency \in Int
      BY <2>1
    <3> HIDE DEF latencyMs, valueMs, at
    <3> QED  BY <2>1, <2>2, <3>1, CutsCompared, SMTT(30) DEF at
  <2>9. /\ Meets(a, r, 0) <=> LatencyMeets(a, r.latency, 0)
        /\ Meets(a, r, 1000) <=> LatencyMeets(a, r.latency, 1000)
    BY DEF Meets
  <2>4. CASE a.operator \in {"less_than", "<"}
    <3>1. Evaluate(a, r).pass <=> latencyMs < valueMs
      BY <1>2, <2>3, <2>4
      DEF evalLatency, Verdict, PassResult, FailResult, Errorf
    <3>2. /\ Meets(a, r, 0) <=> r.latency + 0 < Micros(a.value)
          /\ Meets(a, r, 1000) <=> r.latency + 1000 < Micros(a.value)
      BY <1>2, <2>4, <2>9 DEF LatencyMeets
    <3>3. r.latency + 0 = r.latency
      BY <2>1
    <3> HIDE DEF latencyMs, valueMs
    <3> QED  BY <2>8, <3>1, <3>2, <3>3
  <2>5. CASE a.operator \in {"greater_than", ">"}
    <3>1. Evaluate(a, r).pass <=> latencyMs > valueMs
      BY <1>2, <2>3, <2>5
      DEF evalLatency, Verdict, PassResult, FailResult, Errorf
    <3>2. /\ Meets(a, r, 0) <=> r.latency >= Micros(a.value) + 0
          /\ Meets(a, r, 1000) <=> r.latency >= Micros(a.value) + 1000
      BY <1>2, <2>5, <2>9 DEF LatencyMeets
    <3>3. Micros(a.value) + 0 = Micros(a.value)
      BY <2>2
    <3> HIDE DEF latencyMs, valueMs
    <3> QED  BY <2>8, <3>1, <3>2, <3>3
  <2>6. CASE a.operator \in {"equal", "=="}
    <3>1. Evaluate(a, r).pass <=> latencyMs = valueMs
      BY <1>2, <2>3, <2>6
      DEF evalLatency, Verdict, PassResult, FailResult, Errorf
    <3> DEFINE near == r.latency - Micros(a.value) \in -1000 .. 1000
    <3>2. /\ a.operator \notin {"less_than", "<"}
          /\ a.operator \notin {"greater_than", ">"}
      BY <2>6
    <3>3. LatencyMeets(a, r.latency, 0) <=> near
      BY <1>2, <2>6, <3>2, SMTT(30) DEF LatencyMeets
    <3>4. ~LatencyMeets(a, r.latency, 1000)
      BY <3>2, SMTT(30) DEF LatencyMeets
    <3>5. latencyMs = valueMs => near
      BY <2>8
    <3> HIDE DEF latencyMs, valueMs, near
    <3> QED  BY <2>9, <3>1, <3>3, <3>4, <3>5
  <2>7. CASE a.operator \notin {"less_than", "<", "greater_than", ">", "equal",
                               "=="}
    <3>1. Evaluate(a, r).pass = FALSE
      BY <2>3, <2>7 DEF evalLatency, Errorf
    <3>2. ~Meets(a, r, 1000)
      BY <2>7 DEF Meets, LatencyMeets
    <3> QED  BY <3>1, <3>2
  <2> QED  BY <2>4, <2>5, <2>6, <2>7
<1> QED  BY <1>1, <1>2

(* The node the loop finds is the only one there, and what it prints is    *)
(* the number or the text of it.                                           *)
LEMMA JSONRight ==
  ASSUME NEW a, NEW r, ResponseOK(r), a.type = "json"
  PROVE  /\ Evaluate(a, r).pass => Lenient(a) \/ Meets(a, r, 0)
         /\ ~Evaluate(a, r).pass => ~Meets(a, r, 1000)
<1> DEFINE here == NodeAt(r, a.target)
           text == IF here = {} THEN Nil
                   ELSE Printed(CHOOSE node \in here : TRUE)
<1>1. Evaluate(a, r).pass =
        /\ r.body.object
        /\ Reachable(r, a.target)
        /\ a.operator \in {"exists", "type"} => here # {}
        /\ a.operator \in {"equal", "=="} => text = a.value
  BY DEF Evaluate, evalJSON, Verdict, PassResult, FailResult, Errorf
<1>2. \A slack : Meets(a, r, slack) = JSONMeets(a, r, slack)
  BY DEF Meets
<1>3. CASE here = {}
  <2>1. \A slack : ~Meets(a, r, slack)
    BY <1>2, <1>3 DEF JSONMeets
  <2> QED  BY <1>1, <1>3, <2>1 DEF Lenient
<1>4. CASE here # {}
  <2>1. PICK node \in here : here = {node}
    BY <1>4 DEF ResponseOK, NodeAt
  <2>2. text = Printed(node)
    BY <2>1
  <2>5. Reachable(r, a.target)
    <3>1. node \in r.body.nodes /\ node.path = a.target
      BY <2>1 DEF NodeAt
    <3>2. ASSUME NEW k \in 1 .. Len(a.target) - 1
          PROVE  \E inner \in NodeAt(r, SubSeq(a.target, 1, k)) :
                   inner.kind = "object"
      <4>1. PICK inner \in r.body.nodes :
              inner.path = SubSeq(a.target, 1, k) /\ inner.kind = "object"
        BY <3>1 DEF ResponseOK
      <4> QED  BY <4>1, SMTT(30) DEF NodeAt
    <3> QED  BY <3>2 DEF Reachable
  <2>3. \/ Printed(node) = node.value
        \/ node.kind = "number" /\ Printed(node) = Exponent(node.value.n)
    BY DEF Printed, Large
  <2>4. \A slack : Meets(a, r, slack) <=>
          /\ r.body.object
          /\ a.operator = "type" => a.value = Text(node.kind)
          /\ a.operator \in {"equal", "=="} =>
               /\ \/ node.value = a.value
                  \/ node.kind = "number" /\ a.value = Exponent(node.value.n)
               /\ slack = 0 \/ Printed(node) = a.value
    BY <1>2, <2>1 DEF JSONMeets
  <2> QED  BY <1>1, <1>4, <2>2, <2>3, <2>4, <2>5 DEF Lenient
<1> QED  BY <1>3, <1>4


(* A passed assertion is met, and one that failed is not clearly met.      *)
LEMMA EvaluationRight ==
  ASSUME NEW a, NEW r, AssertionOK(a), ResponseOK(r)
  PROVE  /\ Evaluate(a, r).pass => Lenient(a) \/ Meets(a, r, 0)
         /\ ~Evaluate(a, r).pass => ~Meets(a, r, 1000)
<1>1. CASE a.type \notin {"latency", "json"}
  BY <1>1 DEF Meets
<1> QED  BY <1>1, LatencyRight, JSONRight

(* The results of EvaluateAll decide what is recorded.                     *)
LEMMA MeetsStep ==
  ASSUME NoFalsePass, NoFalseFail, TypeOK, AnswerInv, [Next]_vars
  PROVE  NoFalsePass' /\ NoFalseFail'
<1> USE DEF NoFalsePass, NoFalseFail, Recorded
<1>1. CASE Do
  BY <1>1, DoPlaces DEF Doing, Calling, Unwritten, Waiting
<1>2. CASE LoopStep
  BY <1>2
  DEF LoopStep, ContextDone, AcquireSlot, NoRequest, TakeRequest, Build,
      ReleaseSlot, Stopped, Goto, vars, request, answer
<1>3. CASE BuildError \/ RecordError
  <2>1. result'.failed /\ ~result'.asserted
    BY <1>3 DEF BuildError, RecordError, RecordResult
  <2> QED  BY <2>1
<1>4. CASE RecordSuccess \/ RecordAssertion
  <2>1. response \in Responses /\ UNCHANGED <<response, kind>>
    BY <1>4, RecordFrame
    DEF RecordSuccess, RecordAssertion, RecordStep, Goto, AnswerInv
  <2>2. \A i \in DOMAIN kind.asserts : AssertionOK(kind.asserts[i])
    <3>1. CASE kind \in Kinds
      BY <3>1, ExchangeAssumption
    <3>2. CASE kind = NoKind
      BY <3>2 DEF NoKind
    <3> QED  BY <3>1, <3>2 DEF TypeOK
  <2>3. ResponseOK(response)
    BY <2>1, ExchangeAssumption
  <2>4. Failing = {i \in DOMAIN kind.asserts :
                     ~Evaluate(kind.asserts[i], response).pass}
    BY DEF Failing, EvaluateAll
  <2>5. CASE RecordSuccess
    <3>1. ~result'.asserted /\ Failing = {}
      BY <2>5 DEF RecordSuccess, RecordResult
    <3> QED  BY <2>1, <2>2, <2>3, <2>4, <3>1, EvaluationRight
  <2>6. CASE RecordAssertion
    <3>1. result'.failed /\ Failing # {}
      BY <2>6 DEF RecordAssertion, RecordResult
    <3> QED  BY <2>1, <2>2, <2>3, <2>4, <3>1, EvaluationRight
  <2> QED  BY <1>4, <2>5, <2>6
<1> QED  BY <1>1, <1>2, <1>3, <1>4, NextKinds DEF RecordStep

-----------------------------------------------------------------------------
(* A new request starts with no attempt.                                   *)
LEMMA AttemptLoop ==
  ASSUME Numbers, AttemptInv, LoopStep
  PROVE  AttemptInv'
BY ClientKept
DEF Numbers, AttemptInv, Copies, Calling, Unwritten, Waiting, LoopStep,
    ContextDone, AcquireSlot, NoRequest, TakeRequest, Build, ReleaseSlot,
    Stopped, Goto, request, sending, vars

(* Before a copy goes out there is one less than calls and resends allow.  *)
LEMMA AttemptDo ==
  ASSUME Numbers, AttemptInv, DeliveriesBounded, Do
  PROVE  AttemptInv'
BY DoFrame, ClientKept
DEF Numbers, AttemptInv, DeliveriesBounded, Copies, DoStep, Calls, GivesUp,
    Failed, Writes, Resends, Waits, Ends, Calling, Unwritten, Waiting

(* A step keeps what is known of the attempts.                             *)
LEMMA AttemptStep ==
  ASSUME Numbers, AttemptInv, DeliveriesBounded, [Next]_vars
  PROVE  AttemptInv'
<1>1. CASE RecordStep
  BY <1>1, RecordFrame, ClientKept
  DEF AttemptInv, Copies, Calling, Unwritten, Waiting
<1> QED  BY <1>1, AttemptLoop, AttemptDo, NextKinds

(* So the copies stay below them, and the calls below the retries.         *)
LEMMA DeliveryLoop ==
  ASSUME Numbers, DeliveriesBounded, LoopStep
  PROVE  DeliveriesBounded'
BY ClientKept
DEF Numbers, DeliveriesBounded, Copies, answer, NoResponse, LoopStep,
    ContextDone, AcquireSlot, NoRequest, TakeRequest, Build, ReleaseSlot,
    Stopped, Goto, request, sending, vars

(* The same for the attempts of Do.                                        *)
LEMMA DeliveryDo ==
  ASSUME Numbers, DeliveriesBounded, AttemptInv, Do
  PROVE  DeliveriesBounded'
BY DoFrame, ClientKept
DEF Numbers, DeliveriesBounded, AttemptInv, Copies, DoStep, Calls, GivesUp,
    Failed, Writes, Resends, Waits, Ends, Calling, Unwritten, Waiting, answer

(* A step keeps the bounds on what is written out.                         *)
LEMMA DeliveryStep ==
  ASSUME Numbers, DeliveriesBounded, AttemptInv, [Next]_vars
  PROVE  DeliveriesBounded'
<1>1. CASE RecordStep
  BY <1>1, RecordFrame, ClientKept DEF DeliveriesBounded, Copies, answer
<1> QED  BY <1>1, DeliveryLoop, DeliveryDo, NextKinds
-----------------------------------------------------------------------------
(* The numbers stay numbers.                                               *)
LEMMA NumbersLoop ==
  ASSUME Numbers, LoopStep
  PROVE  /\ taken' \in Nat /\ records' \in Nat /\ attempt' \in Nat
         /\ calls' \in Nat /\ resends' \in 0 .. MaxResends
         /\ delivered' \in Nat
BY DEF Numbers, LoopStep, ContextDone, AcquireSlot, NoRequest, TakeRequest,
       Build, ReleaseSlot, Stopped, vars, request, sending

(* The numbers Do changes stay numbers.                                    *)
LEMMA NumbersDo ==
  ASSUME Numbers, Do
  PROVE  /\ attempt' \in Nat /\ calls' \in Nat /\ delivered' \in Nat
         /\ resends' \in 0 .. MaxResends
BY DoFrame
DEF Numbers, DoStep, Calls, GivesUp, Failed, Writes, Resends, Waits, Ends

(* Every step keeps the types; slot is 0 or 1 because a worker holds one   *)
(* exactly outside its idle times.                                         *)
LEMMA TypeStep ==
  ASSUME TypeOK, RecordedOnce', [Next]_vars
  PROVE  TypeOK'
<1> USE DEF Goto, request, sending
<1>0. slot' \in {0, 1}
  BY DEF RecordedOnce
<1>1. CASE LoopStep
  <2>2. /\ taken' \in Nat /\ records' \in Nat /\ attempt' \in Nat
        /\ calls' \in Nat /\ resends' \in 0 .. MaxResends
        /\ delivered' \in Nat
    BY <1>1, TypedNumbers, NumbersLoop
  <2> USE <1>1
      DEF TypeOK, LoopStep, ContextDone, AcquireSlot, NoRequest, TakeRequest,
          Build, ReleaseSlot, Stopped, vars
  <2>1. /\ cfg' \in Configs
        /\ pc' \in {"exit", "idle", "next"} \cup Unrecorded \cup {"release"}
    BY DEF Unrecorded
  <2>3. /\ kind' \in Kinds \cup {NoKind} /\ bodyLeft' \in BOOLEAN
        /\ response' \in Responses \cup {NoResponse} /\ errText' \subseteq Words
    OBVIOUS
  <2>4. cause' \in {"none", "refused", "timeout", "tls", "drained", "reset",
                   "http"}
    OBVIOUS
  <2>5. result' \in [failed : BOOLEAN, code : ResultCodes,
                     type : ErrorType \cup {""}, asserted : BOOLEAN]
    <3>1. result' = result \/ result' = NoResult
      OBVIOUS
    <3>2. NoResult \in [failed : BOOLEAN, code : ResultCodes,
                        type : ErrorType \cup {""}, asserted : BOOLEAN]
      BY DEF NoResult, ResultCodes
    <3> QED  BY <3>1, <3>2
  <2> QED  BY <1>0, <2>1, <2>2, <2>3, <2>4, <2>5 DEF TypeOK
<1>2. CASE RecordStep
  <2>1. result' \in [failed : BOOLEAN, code : ResultCodes,
                     type : ErrorType \cup {""}, asserted : BOOLEAN]
    <3>0. answer \in ResultCodes /\ 0 \in ResultCodes
      <4>1. response \in Responses \cup {NoResponse}
        BY DEF TypeOK
      <4>2. CASE response = NoResponse
        BY <4>2 DEF answer, NoResponse, ResultCodes
      <4>3. CASE response \in Responses
        BY <4>3 DEF answer, ResultCodes
      <4> QED  BY <4>1, <4>2, <4>3
    <3> USE <3>0 DEF RecordResult
    <3>1. CASE BuildError
      BY <3>1 DEF BuildError, ErrorType
    <3>2. CASE RecordError
      BY <3>2, Classified DEF RecordError
    <3>3. CASE RecordSuccess
      BY <3>3 DEF RecordSuccess
    <3>4. CASE RecordAssertion
      <4>1. PICK words : result' = [failed |-> TRUE, code |-> answer,
                                    type |-> classifyError(words),
                                    asserted |-> TRUE]
        BY <3>4 DEF RecordAssertion
      <4> QED  BY <4>1, Classified
    <3> QED  BY <1>2, <3>1, <3>2, <3>3, <3>4 DEF RecordStep
  <2>2. records' \in Nat
    BY <1>2, TypedNumbers, RecordFrame DEF Numbers
  <2>3. /\ UNCHANGED <<cfg, slot, taken, kind, attempt, calls, resends,
                       bodyLeft, delivered, response, errText, cause>>
        /\ pc' = "release"
    BY <1>2, RecordFrame
  <2> QED  BY <1>0, <2>1, <2>2, <2>3 DEF TypeOK
<1>3. CASE Do
  <2>1. /\ attempt' \in Nat /\ calls' \in Nat /\ delivered' \in Nat
        /\ resends' \in 0 .. MaxResends
    BY <1>3, TypedNumbers, NumbersDo
  <2> USE <1>3
      DEF TypeOK, Do, NextAttempt, Call, OutOfAttempts, ConnectFails,
          DrainedBody, WriteRequest, WrittenOut, SendAgain, HeadersArrive,
          ConnectionBreaks, FallSilent, ClientTimeout, ErrorResponse,
          GoodResponse, FailAttempt
  <2>2. bodyLeft' \in BOOLEAN /\ response' \in Responses \cup {NoResponse}
    OBVIOUS
  <2>3. cause' \in {"none", "refused", "timeout", "tls", "drained", "reset",
                   "http"}
    OBVIOUS
  <2>4. errText' \subseteq Words
    BY ExchangeAssumption DEF Words
  <2> QED
    BY <1>0, <2>1, <2>2, <2>3, <2>4, DoFrame, DoPlaces
    DEF Doing, Calling, Unwritten, Waiting, Unrecorded
<1> QED  BY <1>1, <1>2, <1>3, NextKinds

(* The initial states satisfy the invariant.                               *)
LEMMA InvInit == Init => ExchangeInv
<1> SUFFICES ASSUME Init PROVE ExchangeInv
  OBVIOUS
<1>1. TypeOK
  <2>1. kind \in Kinds \cup {NoKind}
    BY DEF Init
  <2>2. result \in [failed : BOOLEAN, code : ResultCodes,
                   type : ErrorType \cup {""}, asserted : BOOLEAN]
    BY DEF Init, NoResult, ResultCodes
  <2>3. resends \in 0 .. MaxResends
    BY ExchangeAssumption DEF Init
  <2> QED  BY <2>1, <2>2, <2>3 DEF Init, TypeOK
<1>2. RecordedOnce
  BY DEF Init, RecordedOnce, Unrecorded
<1>5. BreakdownSums
  BY DEF Init, BreakdownSums, NoResult
<1>4. DeliveriesBounded
  <2>1. /\ client.retries \in Int
        /\ calls = 0 /\ resends = 0 /\ delivered = 0 /\ answer = 0
    BY <1>1, TypedNumbers DEF Init, Numbers, answer, NoResponse
  <2> QED  BY <2>1 DEF DeliveriesBounded, Copies
<1>3. /\ AttemptInv /\ AnswerInv
      /\ NoFalsePass /\ NoFalseFail
  BY DEF Init, AttemptInv, AnswerInv, Calling, Unwritten, Waiting, Doing,
         answer, NoResponse, NoFalsePass, NoFalseFail, Recorded
<1> QED  BY <1>1, <1>2, <1>3, <1>4, <1>5 DEF ExchangeInv

(* The invariant holds in every reachable state.                           *)
THEOREM ExchangeInvariance == Spec => []ExchangeInv
<1>1. ExchangeInv /\ [Next]_vars => ExchangeInv'
  BY TypedNumbers, RecordedStep, AnswerStep, BreakdownStep, AttemptStep,
     DeliveryStep, TypeStep, MeetsStep
  DEF ExchangeInv
<1> QED  BY InvInit, <1>1, PTL DEF Spec

(* Every variable has its type.                                            *)
THEOREM ExchangeTypes == Spec => []TypeOK
<1>1. ExchangeInv => TypeOK
  BY DEF ExchangeInv
<1> QED  BY ExchangeInvariance, <1>1, PTL

(* Worker.Run records every request it takes exactly once, and holds a     *)
(* slot exactly while it has one, on every path through the loop body.     *)
THEOREM RequestsAreRecordedOnce == Spec => []RecordedOnce
<1>1. ExchangeInv => RecordedOnce
  BY DEF ExchangeInv
<1> QED  BY ExchangeInvariance, <1>1, PTL

(* Whatever the words in an error's text, a failure has an ErrorType.      *)
THEOREM BreakdownIsComplete == Spec => []BreakdownSums
<1>1. ExchangeInv => BreakdownSums
  BY DEF ExchangeInv
<1> QED  BY ExchangeInvariance, <1>1, PTL

(* A success meets every assertion of its request, for all latencies,      *)
(* values and documents, whatever EvaluateAll cuts off and prints.         *)
THEOREM SuccessesMeetAssertions == Spec => []NoFalsePass
<1>1. ExchangeInv => NoFalsePass
  BY DEF ExchangeInv
<1> QED  BY ExchangeInvariance, <1>1, PTL

(* A failed assertion is one that is not clearly met.                      *)
THEOREM FailuresMissAnAssertion == Spec => []NoFalseFail
<1>1. ExchangeInv => NoFalseFail
  BY DEF ExchangeInv
<1> QED  BY ExchangeInvariance, <1>1, PTL

(* Client.Do gives a request to net/http at most once more than the        *)
(* retries that are configured, not at all when that is not positive; and  *)
(* each copy that goes out is one of a call, or one net/http sends again.  *)
THEOREM DeliveriesAreBounded == Spec => []DeliveriesBounded
<1>1. ExchangeInv => DeliveriesBounded
  BY DEF ExchangeInv
<1> QED  BY ExchangeInvariance, <1>1, PTL

(* Client.Do sends nothing after it has read an answer.                    *)
THEOREM AnswersEndTheExchange == Spec => NoRetryAfterAnswer
<1>1. ExchangeInv /\ [Next]_vars =>
        [answer # 0 /\ pc # "next" =>
           calls' = calls /\ delivered' = delivered /\ attempt' = attempt]_vars
  <2> SUFFICES ASSUME ExchangeInv, Next, answer # 0, pc # "next"
               PROVE  /\ calls' = calls
                      /\ delivered' = delivered /\ attempt' = attempt
    OBVIOUS
  <2>1. pc \notin {"next", "build"} \cup Doing
    BY DEF ExchangeInv, AnswerInv
  <2>2. CASE Do
    BY <2>1, <2>2, DoPlaces
  <2>3. CASE RecordStep
    BY <2>3, RecordFrame
  <2>4. CASE LoopStep
    BY <2>1, <2>4
    DEF LoopStep, ContextDone, AcquireSlot, NoRequest, TakeRequest, Build,
        ReleaseSlot, Stopped, Goto, request, sending, vars
  <2> QED  BY <2>2, <2>3, <2>4, NextKinds
<1> QED  BY ExchangeInvariance, <1>1, PTL DEF Spec, NoRetryAfterAnswer
=============================================================================
