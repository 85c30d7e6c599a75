----------------------------- MODULE MCExchange -----------------------------
(* Instances of Exchange for TLC: no, two and, as Validate lets it pass, a *)
(* negative number of retries; no, the default and another timeout; a pool *)
(* that is filled, empty, or filled by the default URL; words in the URL,  *)
(* in a body and in a name that the classification stumbles over.          *)
EXTENDS Exchange

Config(timeout, retry, requests, url) ==
  [timeout |-> timeout, retries |-> retry, requests |-> requests, url |-> url]
MCConfigs ==
  {Config(<<>>, -1, 3, FALSE), Config(<<>>, 2, 0, TRUE),
   Config(<<0>>, 0, 3, TRUE), Config(<<5>>, 0, 0, FALSE)}

MCUrl  == {"tls"}
MCBody == {"timeout"}

(* An assertion with a misleading name, and one with a misleading value or *)
(* operator.                                                               *)
Assertion(type, target, operator, value) ==
  [type |-> type, target |-> target, operator |-> operator, value |-> value,
   nameWords |-> {}, oddWords |-> {}]
Named(a) == [a EXCEPT !.nameWords = {"refused"}]
Odd(a)   == [a EXCEPT !.oddWords = {"timeout"}]

(* Lists: of each type one that some response meets and another does not,  *)
(* times at and between whole milliseconds, short of one, and unreadable;  *)
(* paths to a leaf, beyond one, and to nothing.                            *)
MCAsserts ==
  LET A(t, o, v) == Assertion(t, <<"id">>, o, v)
  IN {<<>>,
      <<Named(A("status", "not_equal", Number(200))),
        A("status", "between", NumRange(200, 299))>>,
      <<A("status", "in_range", Text("2xx")), A("status", "==", Number(200))>>,
      <<A("latency", "<", TimeText(1001000, TRUE))>>,
      <<A("latency", "greater_than", TimeText(1001000, TRUE)),
        A("latency", "<", TimeText(1001700, FALSE))>>,
      <<A("latency", "equal", Number(1001))>>,
      <<Odd(A("latency", "<", Text("5m"))), A("body", "contains", Text("ok"))>>,
      <<A("body", "length", Number(2)), Odd(A("body", "matches", Text("ok")))>>,
      <<A("header", "present", Text("")),
        Named(Assertion("header", <<"Etag">>, "equal", Text("v1")))>>,
      <<A("json", "==", Number(7)), A("json", "exists", Text(""))>>,
      <<A("json", "equal", Number(-2000000))>>,
      <<A("json", "==", Exponent(2000000))>>,
      <<A("json", "equal", Nil)>>,
      <<Assertion("json", <<"user", "id">>, "exists", Text("")),
        A("json", "type", Text("string"))>>,
      <<A("", "equal", Text("")), A("json", "differs", Text(""))>>}

(* Answers on both sides of 400, of different latencies, with and without  *)
(* the header, and with different bodies.                                  *)
Answer(code, us, headers, text, nodes) ==
  [code |-> code, latency |-> us, headers |-> headers,
   body |-> [is |-> text, has |-> {text, Text("")}, length |-> 2,
             object |-> nodes # {}, nodes |-> nodes]]
Leaf(path, n) == [path |-> path, kind |-> "number", value |-> Number(n)]
Inner(path)   == [path |-> path, kind |-> "object", value |-> Text("map")]
NoHeader == [name \in {} |-> <<>>]
Etag(v)  == [name \in {"Etag"} |->
               <<[is |-> Text(v), has |-> {Text(v), Text("")}]>>]

(* Every kind of request without assertions, and one with each list.       *)
Kind(buildable, body, replayable, asserts) ==
  [buildable |-> buildable, body |-> body, replayable |-> replayable,
   asserts |-> asserts]
MCKinds ==
  {Kind(FALSE, FALSE, FALSE, <<>>)}
  \cup {Kind(TRUE, b, r, <<>>) : b, r \in BOOLEAN}
  \cup {Kind(TRUE, FALSE, FALSE, l) : l \in MCAsserts}

MCResponses ==
  {Answer(200, 1000400, Etag("v1"), Text("ok"), {}),
   Answer(200, 1001000, NoHeader, Text("{}"), {Leaf(<<"id">>, 7)}),
   Answer(204, 1001300, Etag("v2"), Text("{}"), {Leaf(<<"id">>, 2000000)}),
   Answer(399, 1002000, NoHeader, Text("{}"),
          {Inner(<<"user">>), Leaf(<<"user", "id">>, 7),
           Leaf(<<"id">>, -2000000)}),
   Answer(400, 900, NoHeader, Text("ok"), {}),
   Answer(500, 900, NoHeader, Text("ok"), {})}
=============================================================================
