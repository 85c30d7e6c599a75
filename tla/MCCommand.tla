------------------------------ MODULE MCCommand ------------------------------
(* Instances of Command for TLC.                                           *)
EXTENDS Command

Stage(d, c) == [duration |-> d, concurrency |-> c]
Request(url) ==
  [id |-> TRUE, url |-> url, method |-> "GET", assertions |-> {"status"}]

(* A file with nothing wrong, and files with one thing different (one of    *)
(* them valid without the variable, too).                                  *)
Good ==
  [readable |-> TRUE, parses |-> TRUE, mapRef |-> FALSE, name |-> TRUE,
   stages |-> <<Stage(1, 1), Stage(-1, 2)>>,
   requests |-> <<Request("ref"), Request("path")>>,
   formats |-> <<"json", "html">>]

Faulty == {
  [Good EXCEPT !.readable = FALSE],
  [Good EXCEPT !.parses = FALSE],
  [Good EXCEPT !.mapRef = TRUE],
  [Good EXCEPT !.name = FALSE],
  [Good EXCEPT !.stages = <<>>],
  [Good EXCEPT !.stages = <<Stage(1, 1), Stage(1, 0)>>],
  [Good EXCEPT !.stages[1] = Stage(0, -1)],
  [Good EXCEPT !.requests = <<Request("path"), Request("")>>],
  [Good EXCEPT !.requests[2].id = FALSE],
  [Good EXCEPT !.requests[2].method = "TRACE"],
  [Good EXCEPT !.requests[2].assertions = {"status", "regexp"}],
  [Good EXCEPT !.formats = <<"html", "pdf">>] }

MCConfigFiles == {Good} \cup Faulty

(* The default of --formats, two that name files, one with a mistake.      *)
DefaultFormats == {<<"console">>}
MCFlagFormats == DefaultFormats \cup
  {<<"html", "json">>, <<"pdf", "json", "html", "json">>}

(* A file with a reference in a header.                                    *)
ReferenceFiles == {[Good EXCEPT !.mapRef = TRUE]}
=============================================================================
