---------------------------- MODULE MCTokenBucket ----------------------------
(* Instances of TokenBucket for TLC: one caller, or two.                   *)
EXTENDS TokenBucket

CONSTANTS w1, w2

OneCaller  == {w1}
TwoCallers == {w1, w2}

AllCalls == {"Wait", "Allow", "CurrentTokens"}
OnlyWait == {"Wait"}
=============================================================================
