----------------------------- MODULE MCRequests -----------------------------
(* Instances of Requests for TLC. Request 0 sets every default itself, 1   *)
(* has maps that lack a default, and one under another spelling, 2 has no  *)
(* headers at all, 3 has no URL.                                           *)
EXTENDS Requests, TLC

CONSTANTS w1, w2, w3, accept, accept2, apikey, ctype, auth, xtimeout, page

OneWorker    == {w1}
ThreeWorkers == {w1, w2, w3}
Symmetry     == Permutations(Workers)

Both(h, q) == [f \in Fields |-> IF f = "headers" THEN h ELSE q]

MCDefaults == Both({accept, apikey}, {page})
MCOwn == 0 :> Both(<<accept, apikey, auth>>, <<page>>)
         @@ 1 :> Both(<<accept2>>, <<>>) @@ 2 :> Both(<<>>, <<page>>)
         @@ 3 :> Both(<<>>, <<>>)
MCNil         == {<<2, "headers">>, <<3, "headers">>, <<3, "query">>}
MCUnbuildable == {3}
MCWithToken   == {0}
MCWithTimeout == {1}
MCCanonical   == [k \in AllKeys |-> IF k = accept2 THEN accept ELSE k]

(* The two requests of examples/enterprise.yml.                            *)
EnterpriseDefaults == Both({accept, apikey}, {})
EnterpriseOwn == 0 :> Both(<<>>, <<>>) @@ 1 :> Both(<<ctype>>, <<>>)
EnterpriseNil == {<<0, "headers">>, <<0, "query">>, <<1, "query">>}
NoRequests    == {}
=============================================================================
