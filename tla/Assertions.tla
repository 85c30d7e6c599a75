----------------------------- MODULE Assertions -----------------------------
(***************************************************************************)
(* Evaluator.Evaluate: what an assertion of the configuration says of a    *)
(* response. Pure operators, used by Exchange.                             *)
(*                                                                         *)
(* An assertion is a record of its type, target, operator and value, and   *)
(* of the words in its name, and in its type, operator or value, that the  *)
(* classification of errors looks for. Its target is the sequence of the   *)
(* keys between the dots; the name of a header is the only one.            *)
(*                                                                         *)
(* A value is a text of the file. Different records are different texts,   *)
(* told apart by how the evaluators read them.                             *)
(***************************************************************************)
EXTENDS Integers, Sequences

Number(n)      == [form |-> "number", n |-> n]          \* "200"
NumRange(a, b) == [form |-> "range", n |-> a, m |-> b]  \* "200-299"
Exponent(n)    == [form |-> "exponent", n |-> n]        \* "-1e+06"
Text(t)        == [form |-> "text", text |-> t]         \* any other

(* "250ms" or "0.25s", in microseconds. ParseFloat and the product with    *)
(* 1000 are binary: "1.001s" comes out just short of 1001 milliseconds.    *)
TimeText(us, short) == [form |-> "time", us |-> us, short |-> short]

(***************************************************************************)
(* A response is a record of its code, the latency in microseconds, the    *)
(* headers (a sequence of pieces for each canonical name) and the body. A  *)
(* piece of text is the text and the texts it contains. A body also has a  *)
(* length and is a JSON object (or null) or not; an object is the set of   *)
(* its nodes, at any depth, each with its path, kind and text.             *)
(***************************************************************************)
Nothing == [is |-> Text(""), has |-> {Text("")}]

(* A null, "%v" of which is <nil>.                                         *)
Nil == Text("<nil>")

PassResult      == [pass |-> TRUE, words |-> {}]
Errorf(words)   == [pass |-> FALSE, words |-> words]
(* FailResult has no error of its own: the worker reports the name.        *)
FailResult(a)   == Errorf({"assertion"} \cup a.nameWords)
Verdict(a, met) == IF met THEN PassResult ELSE FailResult(a)

evalStatus(a, resp) ==
  CASE a.operator \in {"equal", "=="} ->
         Verdict(a, a.value = Number(resp.code))
    [] a.operator \in {"not_equal", "!="} ->
         Verdict(a, a.value # Number(resp.code))
    [] a.operator \in {"in_range", "between"} /\ a.value.form = "range" ->
         Verdict(a, resp.code \in a.value.n .. a.value.m)
    [] OTHER -> Errorf(a.oddWords)

IsTime(v) == v.form \in {"time", "number"}
Micros(v) == IF v.form = "time" THEN v.us ELSE 1000 * v.n

(* The conversion to whole milliseconds cuts off.                          *)
Milliseconds(v) ==
  IF v.form = "time" /\ v.short THEN (v.us - 1) \div 1000
  ELSE Micros(v) \div 1000

evalLatency(a, resp) ==
  LET latencyMs == resp.latency \div 1000
      valueMs   == Milliseconds(a.value)
  IN  CASE ~IsTime(a.value) -> Errorf(a.oddWords)
        [] IsTime(a.value) /\ a.operator \in {"less_than", "<"} ->
             Verdict(a, latencyMs < valueMs)
        [] IsTime(a.value) /\ a.operator \in {"greater_than", ">"} ->
             Verdict(a, latencyMs > valueMs)
        [] IsTime(a.value) /\ a.operator \in {"equal", "=="} ->
             Verdict(a, latencyMs = valueMs)
        [] OTHER -> Errorf(a.oddWords)

evalBody(a, resp) ==
  CASE a.operator = "contains" -> Verdict(a, a.value \in resp.body.has)
    [] a.operator = "not_contains" -> Verdict(a, a.value \notin resp.body.has)
    [] a.operator \in {"equal", "=="} -> Verdict(a, a.value = resp.body.is)
    [] a.operator = "length" -> Verdict(a, a.value = Number(resp.body.length))
    [] OTHER -> Errorf(a.oddWords)

(* respHeadersMap keeps the first piece of each header; a name that is not *)
(* in the map, for its spelling or because the header is missing, reads as *)
(* the empty text.                                                         *)
HeaderOf(resp, name) ==
  IF name \in DOMAIN resp.headers /\ resp.headers[name] # <<>>
  THEN resp.headers[name][1] ELSE Nothing

evalHeader(a, resp) ==
  LET actual == HeaderOf(resp, a.target[1])
  IN  CASE a.operator \in {"equal", "=="} -> Verdict(a, a.value = actual.is)
        [] a.operator = "contains" -> Verdict(a, a.value \in actual.has)
        [] a.operator \in {"present", "exists"} ->
             Verdict(a, actual.is # Nothing.is)
        [] OTHER -> Errorf(a.oddWords)

(* "%v" of a node: from a million on, either way from zero, a number gets  *)
(* an exponent. Numbers are whole, and what a float can tell apart.         *)
Million == 1000000
Large(n) == n >= Million \/ n <= -Million
Printed(node) ==
  IF node.kind = "number" /\ Large(node.value.n)
  THEN Exponent(node.value.n) ELSE node.value

NodeAt(resp, path) ==
  {node \in resp.body.nodes : node.path = path /\ node.kind # "null"}

(* Mutant of Reachable: the last key, too, has to be an object.            *)
ReachableAsObject(resp, path) ==
  \A k \in 1 .. Len(path) :
    \E node \in NodeAt(resp, SubSeq(path, 1, k)) : node.kind = "object"

(* The loop over the keys: all but the last have to be objects.            *)
Reachable(resp, path) ==
  \A k \in 1 .. Len(path) - 1 :
    \E node \in NodeAt(resp, SubSeq(path, 1, k)) : node.kind = "object"

(* The operator "type" does not look at the value, and an operator that is *)
(* none of these passes.                                                   *)
evalJSON(a, resp) ==
  LET here == NodeAt(resp, a.target)
      text == IF here = {} THEN Nil
              ELSE Printed(CHOOSE node \in here : TRUE)
  IN  IF ~resp.body.object THEN Errorf({})
      ELSE Verdict(a, /\ Reachable(resp, a.target)
                      /\ a.operator \in {"exists", "type"} => here # {}
                      /\ a.operator \in {"equal", "=="} => text = a.value)

Evaluate(a, resp) ==
  CASE a.type = "status"  -> evalStatus(a, resp)
    [] a.type = "latency" -> evalLatency(a, resp)
    [] a.type = "body"    -> evalBody(a, resp)
    [] a.type = "header"  -> evalHeader(a, resp)
    [] a.type = "json"    -> evalJSON(a, resp)
    [] OTHER              -> Errorf({"assertion"} \cup a.oddWords)

EvaluateAll(asserts, resp) ==
  [i \in DOMAIN asserts |-> Evaluate(asserts[i], resp)]
-----------------------------------------------------------------------------
(***************************************************************************)
(* What an assertion means, without milliseconds, prefixes and printing.   *)
(* slack is what a measured latency has to be on the right side of the     *)
(* value by, in microseconds; without slack an equal one may be off by a   *)
(* millisecond, and a number may be written in either way. The other types *)
(* have no meaning but the evaluation.                                     *)
(***************************************************************************)
LatencyMeets(a, us, slack) ==
  /\ IsTime(a.value)
  /\ \/ a.operator \in {"less_than", "<"} /\ us + slack < Micros(a.value)
     \/ a.operator \in {"greater_than", ">"} /\ us >= Micros(a.value) + slack
     \/ /\ a.operator \in {"equal", "=="} /\ slack = 0
        /\ us - Micros(a.value) \in -1000 .. 1000

JSONMeets(a, resp, slack) ==
  /\ resp.body.object
  /\ \E node \in NodeAt(resp, a.target) :
       /\ a.operator = "type" => a.value = Text(node.kind)
       /\ a.operator \in {"equal", "=="} =>
            /\ \/ node.value = a.value
               \/ node.kind = "number" /\ a.value = Exponent(node.value.n)
            /\ slack = 0 \/ Printed(node) = a.value

Meets(a, resp, slack) ==
  CASE a.type = "latency" -> LatencyMeets(a, resp.latency, slack)
    [] a.type = "json"    -> JSONMeets(a, resp, slack)
    [] OTHER              -> Evaluate(a, resp).pass

(* What makes an assertion and a response one: times are not negative, and *)
(* the nodes of a document have a path each, of objects down to the node.  *)
AssertionOK(a) ==
  /\ a.value.form = "time" =>
       /\ a.value.us \in Nat /\ a.value.short \in BOOLEAN
       /\ a.value.short => a.value.us > 0
  /\ a.value.form = "number" => a.value.n \in Int
ResponseOK(r) ==
  /\ r.code \in 200 .. 599
  /\ r.latency \in Nat
  /\ \A node \in r.body.nodes :
       /\ node.kind = "number" =>
            node.value.n \in Int /\ node.value = Number(node.value.n)
       /\ \A k \in 1 .. Len(node.path) - 1 :
            \E inner \in r.body.nodes : /\ inner.path = SubSeq(node.path, 1, k)
                                       /\ inner.kind = "object"
       /\ \A other \in r.body.nodes : other.path = node.path => other = node

(* What the code passes without looking: the value of "type", an unknown   *)
(* operator; and a missing node, which equals the text <nil>.              *)
Lenient(a) ==
  /\ a.type = "json"
  /\ a.operator \notin {"exists", "equal", "=="} \/ a.value = Nil
=============================================================================
