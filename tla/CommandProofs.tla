---------------------------- MODULE CommandProofs ----------------------------
(***************************************************************************)
(* Proofs about Command, for all config files, flags and environments and  *)
(* any number of commands, with failures and kills at any moment.          *)
(*                                                                         *)
(* The argument has two parts. What a command may say of its reports is    *)
(* what the loop over the formats has done so far: the formats before pos, *)
(* and the open one. What validate and run say of a file is a function of  *)
(* the file and the environment, Runnable, which both of them compute.     *)
(***************************************************************************)
EXTENDS Command, TLAPS

(***************************************************************************)
(* What is made of a config file in an environment.                        *)
(***************************************************************************)
ResolveWith(url, e) ==
  IF url \notin {"ref", "path"} THEN url
  ELSE IF e = "" THEN Unresolved(url) ELSE e

ResolveRequests(reqs, e) ==
  [i \in DOMAIN reqs |-> [reqs[i] EXCEPT !.url = ResolveWith(@, e)]]

Resolved(g) == [g[1] EXCEPT !.requests = ResolveRequests(g[1].requests, g[2])]

Loadable(g) ==
  /\ g[1].readable /\ g[1].parses
  /\ g[1].mapRef => g[2] = ""

Runnable(g) == Loadable(g) /\ Validate(Resolved(g)) = {}

(***************************************************************************)
(* The inductive invariant.                                                *)
(***************************************************************************)
Places == {"idle", "load", "validate", "engine", "mkdir", "report", "encode"}
Given  == ConfigFiles \X EnvValues

(* TypeOK, with what was given narrowed down to what may be given.         *)
TypesInv == TypeOK /\ given \in Given

(* What the place in the code says of the other variables.                 *)
PlaceInv ==
  /\ pc # "idle" => exit = "none" /\ number > 0
  /\ exit # "none" => number > 0
  /\ pc \in {"engine", "mkdir", "report", "encode"} => cmd = "run"
  /\ pc \in {"load", "validate", "engine", "mkdir"} => pos = 1
  /\ pc = "encode" => pos <= Len(config.formats)
                      /\ config.formats[pos] \in FileFormats
  /\ exit = "ok" /\ cmd = "run" => pos = Len(config.formats) + 1

(* The reports: those before pos are written by this command and whole;    *)
(* the one at pos may be open, or may have been when the command ended.    *)
Open == IF pc \in {"encode", "idle"} THEN Current ELSE {}

ReportInv ==
  number > 0 =>
    /\ Asked(pos - 1) \subseteq Touched
    /\ Touched \subseteq Asked(pos - 1) \cup Open
    /\ Touched \ Open \subseteq whole \cup lost
    /\ pc = "encode" => Current \subseteq Touched

(* The config file on its way to the engine, and the two answers.          *)
FileInv ==
  /\ pc = "load" => given = <<config, env>>
  /\ pc = "validate" => Loadable(given) /\ config = Resolved(given)
  /\ \A g \in accepted : Runnable(g)
  /\ \A g \in refused : ~Runnable(g)

IInv == TypesInv /\ PlaceInv /\ ReportInv /\ FileInv /\ EngineGetsRunnable
-----------------------------------------------------------------------------
(***************************************************************************)
(* Lemmas about the operators.                                             *)
(***************************************************************************)

(* The formats asked for up to the next one.                               *)
LEMMA AskedNext ==
  ASSUME NEW n \in Nat
  PROVE  Asked(n + 1) = Asked(n) \cup ({config.formats[n + 1]} \cap FileFormats)
<1>1. 1 .. n + 1 = (1 .. n) \cup {n + 1}
  OBVIOUS
<1> QED  BY <1>1 DEF Asked

(* No format is before the first.                                          *)
LEMMA AskedNothing == Asked(0) = {}
<1>1. 1 .. 0 = {}
  OBVIOUS
<1> QED  BY <1>1 DEF Asked

(* Resolving a request keeps its type, and leaves no reference.            *)
LEMMA ResolvedRequest ==
  ASSUME NEW r \in RequestType, NEW e \in EnvValues
  PROVE  /\ [r EXCEPT !.url = ResolveWith(@, e)] \in RequestType
         /\ [r EXCEPT !.url = ResolveWith(@, e)].url \in {"", "good", "bad"}
<1>1. r.url \in Urls /\ DOMAIN r = {"id", "url", "method", "assertions"}
  BY DEF RequestType
<1>2. ResolveWith(r.url, e) \in {"", "good", "bad"}
  BY <1>1 DEF ResolveWith, Unresolved, Urls, EnvValues
<1>3. [r EXCEPT !.url = ResolveWith(@, e)].url = ResolveWith(r.url, e)
  BY <1>1
<1>4. ResolveWith(r.url, e) \in Urls
  BY <1>2 DEF Urls
<1>5. [r EXCEPT !.url = ResolveWith(@, e)] \in RequestType
  BY <1>4 DEF RequestType
<1> QED  BY <1>2, <1>3, <1>5

(* Resolving a config file keeps its type, and leaves no reference in a    *)
(* URL.                                                                    *)
LEMMA ResolvedType ==
  ASSUME NEW g \in Given
  PROVE  /\ Resolved(g) \in ConfigType
         /\ \A i \in DOMAIN Resolved(g).requests :
              Resolved(g).requests[i].url \in {"", "good", "bad"}
<1> DEFINE old == g[1].requests
           new == ResolveRequests(old, g[2])
<1>1. g[1] \in ConfigType /\ g[2] \in EnvValues
  BY CommandAssumption DEF Given
<1>2. old \in Seq(RequestType)
  BY <1>1 DEF ConfigType
<1>3. ASSUME NEW i \in DOMAIN old
      PROVE  /\ [old[i] EXCEPT !.url = ResolveWith(@, g[2])] \in RequestType
             /\ [old[i] EXCEPT !.url = ResolveWith(@, g[2])].url
                  \in {"", "good", "bad"}
  <2>1. old[i] \in RequestType
    BY <1>2, <1>3
  <2> QED  BY <1>1, <2>1, ResolvedRequest
<1>4. /\ DOMAIN new = DOMAIN old
      /\ \A i \in DOMAIN old :
           new[i] = [old[i] EXCEPT !.url = ResolveWith(@, g[2])]
  BY DEF ResolveRequests
<1>5. \A i \in DOMAIN new : new[i].url \in {"", "good", "bad"}
  BY <1>3, <1>4
<1>6. new \in Seq(RequestType)
  <2>1. DOMAIN old = 1 .. Len(old) /\ Len(old) \in Nat
    BY <1>2
  <2>2. new = [i \in 1 .. Len(old) |-> [old[i] EXCEPT !.url = ResolveWith(@, g[2])]]
    BY <2>1 DEF ResolveRequests
  <2>3. new \in [1 .. Len(old) -> RequestType]
    BY <1>3, <2>1, <2>2
  <2> QED  BY <2>1, <2>3
<1>7. Resolved(g) = [g[1] EXCEPT !.requests = new]
  BY DEF Resolved
<1> HIDE DEF old, new
<1>8. Resolved(g) \in ConfigType /\ Resolved(g).requests = new
  BY <1>1, <1>6, <1>7 DEF ConfigType
<1> QED  BY <1>5, <1>8

(* A stage nothing is wrong with has a worker.                             *)
LEMMA StagesHaveWorkers ==
  ASSUME NEW stages \in Seq(StageType),
         \A i \in DOMAIN stages : StageErrors(stages[i]) = {}
  PROVE  \A i \in DOMAIN stages : stages[i].concurrency >= 1
<1> TAKE i \in DOMAIN stages
<1>1. stages[i] \in StageType
  OBVIOUS
<1>2. stages[i].concurrency \in Int
  BY <1>1 DEF StageType
<1>3. ~(stages[i].concurrency <= 0)
  BY DEF StageErrors
<1> QED  BY <1>2, <1>3

(* What Validate lets through, the engine can run.                         *)
LEMMA ValidRuns ==
  ASSUME NEW c \in ConfigType, Validate(c) = {},
         \A i \in DOMAIN c.requests : c.requests[i].url \in {"", "good", "bad"}
  PROVE  /\ c.stages # <<>>
         /\ \A i \in DOMAIN c.stages : c.stages[i].concurrency >= 1
         /\ \A i \in DOMAIN c.requests : c.requests[i].url \in {"", "good"}
<1>1. c.stages # <<>>
  BY DEF Validate
<1>2. \A i \in DOMAIN c.stages : c.stages[i].concurrency >= 1
  <2>1. \A i \in DOMAIN c.stages : StageErrors(c.stages[i]) = {}
    BY DEF Validate
  <2>2. c.stages \in Seq(StageType)
    BY DEF ConfigType
  <2> QED  BY <2>1, <2>2, StagesHaveWorkers, Zenon
<1>3. ASSUME NEW i \in DOMAIN c.requests PROVE c.requests[i].url \in {"", "good"}
  <2>1. RequestErrors(c.requests[i]) = {}
    BY <1>3 DEF Validate
  <2>2. c.requests[i].url # "bad"
    BY <2>1 DEF RequestErrors
  <2> QED  BY <1>3, <2>2
<1> QED  BY <1>1, <1>2, <1>3
-----------------------------------------------------------------------------
(***************************************************************************)
(* The steps.                                                              *)
(***************************************************************************)

(* Before the first format no report is touched, whatever the formats are. *)
LEMMA UntouchedBefore ==
  ASSUME IInv, pos = 1, pc \notin {"idle", "encode"}, number > 0
  PROVE  Touched = {}
<1>1. Asked(pos - 1) = {}
  BY AskedNothing
<1>2. Open = {}
  BY DEF Open
<1>3. Touched \subseteq Asked(pos - 1) \cup Open
  BY DEF IInv, ReportInv
<1> QED  BY <1>1, <1>2, <1>3

(* A step that leaves the reports alone, and does not close the open one.  *)
LEMMA ReportsUnchanged ==
  ASSUME IInv, UNCHANGED <<number, pos, config, files, whole, lost>>,
         pc' # "encode", pc' = pc \/ pc' = "idle" \/ pc \notin {"idle", "encode"}
  PROVE  ReportInv'
<1>1. UNCHANGED <<Touched, Current>>
  BY DEF Touched, Current
<1>2. Asked(pos - 1)' = Asked(pos - 1)
  BY DEF Asked
<1>3. Open \subseteq Open'
  BY <1>1 DEF Open
<1>4. ReportInv
  BY DEF IInv
<1> QED  BY <1>1, <1>2, <1>3, <1>4 DEF ReportInv

(* The process ends: by an error or a panic or a kill anywhere, or well at *)
(* the two places where it may.                                            *)
LEMMA EndKeeps ==
  ASSUME IInv,
         NEW how \in {"ok", "error", "panic", "killed"},
         NEW from \in Places \ {"idle"},
         End(how, from), UNCHANGED config,
         how = "ok" =>
           \/ from = "report" /\ pos = Len(config.formats) + 1
           \/ from = "validate" /\ cmd = "validate" /\ Runnable(given),
         how \in {"error", "panic"} /\ from \in {"load", "validate"} =>
           ~Runnable(given)
  PROVE  IInv'
<1>1. /\ TypeOK /\ given \in Given /\ PlaceInv /\ FileInv
      /\ UNCHANGED <<cmd, number, flags, given, env, config, pos, files, whole, lost>>
      /\ pc = from /\ pc' = "idle" /\ exit' = how
  BY DEF IInv, TypesInv, End, Goto, inputs
<1>2. TypesInv'
  <2>1. accepted' \cup refused' \subseteq Given
    BY <1>1 DEF End, TypeOK, Given
  <2> QED  BY <1>1, <2>1 DEF TypesInv, TypeOK, Given
<1>3. PlaceInv'
  BY <1>1 DEF PlaceInv, Places
<1>4. ReportInv'
  BY <1>1, ReportsUnchanged
<1>5. FileInv'
  <2>1. \A g \in accepted' : Runnable(g)
    <3>1. CASE cmd = "validate" /\ how = "ok"
      <4>1. Runnable(given)
        BY <1>1, <3>1 DEF PlaceInv
      <4>2. accepted' = accepted \cup {given}
        BY <3>1 DEF End
      <4> QED  BY <1>1, <4>1, <4>2 DEF FileInv
    <3>2. CASE ~(cmd = "validate" /\ how = "ok")
      <4>1. accepted' = accepted
        BY <3>2 DEF End
      <4> QED  BY <1>1, <4>1 DEF FileInv
    <3> QED  BY <3>1, <3>2
  <2>2. \A g \in refused' : ~Runnable(g)
    <3>1. CASE cmd = "run" /\ from \in {"load", "validate"} /\ how # "killed"
      <4>1. ~Runnable(given)
        BY <3>1
      <4>2. refused' = refused \cup {given}
        BY <3>1 DEF End
      <4> QED  BY <1>1, <4>1, <4>2 DEF FileInv
    <3>2. CASE ~(cmd = "run" /\ from \in {"load", "validate"} /\ how # "killed")
      <4>1. refused' = refused
        BY <3>2 DEF End
      <4> QED  BY <1>1, <4>1 DEF FileInv
    <3> QED  BY <3>1, <3>2
  <2> QED  BY <1>1, <2>1, <2>2 DEF FileInv
<1>6. EngineGetsRunnable'
  BY <1>1 DEF EngineGetsRunnable
<1> QED  BY <1>2, <1>3, <1>4, <1>5, <1>6 DEF IInv

(* A command is given: nothing is left of the last one but its reports and *)
(* what validate and run have said.                                        *)
LEMMA GiveKeeps ==
  ASSUME IInv, NEW c \in {"run", "validate"}, Give(c)
  PROVE  IInv'
<1>1. /\ TypeOK /\ FileInv
      /\ pc = "idle" /\ pc' = "load" /\ number < MaxCommands
      /\ number' = number + 1 /\ cmd' = c /\ flags' \in FlagFormats
      /\ config' \in ConfigFiles /\ env' \in EnvValues
      /\ given' = <<config', env'>> /\ pos' = 1 /\ exit' = "none"
      /\ UNCHANGED <<files, whole, lost, accepted, refused>>
  BY DEF IInv, TypesInv, Give, history
<1>2. number \in Nat /\ MaxCommands \in Nat /\ number' \in 0 .. MaxCommands
  BY <1>1, CommandAssumption DEF TypeOK
<1>3. config' \in ConfigType /\ given' \in Given /\ given' \in ConfigType \X EnvValues
  BY <1>1, CommandAssumption DEF Given
<1>4. files' \in [FileFormats -> 0 .. number']
  BY <1>1, <1>2 DEF TypeOK
<1>5. pos' \in 1 .. Len(config'.formats) + 1
  <2>1. config'.formats \in Seq(Formats)
    BY <1>3 DEF ConfigType
  <2>2. Len(config'.formats) \in Nat
    BY <2>1
  <2> QED  BY <1>1, <2>2
<1>6. TypesInv'
  BY <1>1, <1>2, <1>3, <1>4, <1>5 DEF TypesInv, TypeOK
<1>7. PlaceInv'
  BY <1>1, <1>2 DEF PlaceInv
<1>8. ReportInv'
  <2>1. Touched' = {}
    BY <1>1, <1>2 DEF Touched, TypeOK
  <2>2. Asked(pos - 1)' = {}
    <3>1. 1 .. pos' - 1 = {}
      BY <1>1
    <3> QED  BY <3>1 DEF Asked
  <2> QED  BY <1>1, <2>1, <2>2 DEF ReportInv
<1>9. FileInv'
  BY <1>1 DEF FileInv
<1>10. EngineGetsRunnable'
  BY <1>1 DEF EngineGetsRunnable
<1> QED  BY <1>6, <1>7, <1>8, <1>9, <1>10 DEF IInv

(* Load fails, or panics on a reference: run would have done the same.     *)
LEMMA LoadEndsKeep ==
  ASSUME IInv, LoadFails \/ ResolvePanics
  PROVE  IInv'
<1>1. FileInv
  BY DEF IInv
<1>2. CASE LoadFails
  <2>1. pc = "load" /\ End("error", "load") /\ UNCHANGED config
    BY <1>2 DEF LoadFails, End, Goto
  <2>2. given = <<config, env>>
    BY <1>1, <2>1 DEF FileInv
  <2>3. ~Runnable(given)
    BY <1>2, <2>2 DEF LoadFails, Runnable, Loadable
  <2> QED  BY <2>1, <2>3, EndKeeps DEF Places
<1>3. CASE ResolvePanics
  <2>1. pc = "load" /\ End("panic", "load") /\ UNCHANGED config
    BY <1>3 DEF ResolvePanics, End, Goto
  <2>2. given = <<config, env>>
    BY <1>1, <2>1 DEF FileInv
  <2>3. ~Runnable(given)
    BY <1>3, <2>2 DEF ResolvePanics, Runnable, Loadable
  <2> QED  BY <2>1, <2>3, EndKeeps DEF Places
<1> QED  BY <1>2, <1>3

(* Load succeeds: what it made of the file is Resolved of what was given.  *)
LEMMA LoadedKeeps ==
  ASSUME IInv, Loaded
  PROVE  IInv'
<1>1. /\ TypeOK /\ given \in Given /\ PlaceInv /\ FileInv
      /\ pc = "load" /\ pc' = "validate"
      /\ given = <<config, env>> /\ Loadable(given)
      /\ UNCHANGED <<cmd, number, flags, given, env>>
      /\ UNCHANGED <<pos, exit, files, whole, lost, accepted, refused>>
  <2>1. TypeOK /\ given \in Given /\ PlaceInv /\ FileInv
    BY DEF IInv, TypesInv
  <2>2. pc = "load" /\ pc' = "validate"
        /\ UNCHANGED <<cmd, number, flags, given, env>>
        /\ UNCHANGED <<pos, exit, files, whole, lost, accepted, refused>>
    BY DEF Loaded, Goto, inputs, history
  <2>3. given = <<config, env>>
    BY <2>1, <2>2 DEF FileInv
  <2>4. Loadable(given)
    BY <2>3 DEF Loaded, Loadable
  <2> QED  BY <2>1, <2>2, <2>3, <2>4
<1>2. number > 0 /\ pos = 1 /\ exit = "none"
  BY <1>1 DEF PlaceInv
<1>3. config' = Resolved(given)
  <2> DEFINE old == config.requests
  <2>1. config' = [config EXCEPT !.requests =
          [i \in DOMAIN old |-> ResolveRequest(old[i])]]
    BY DEF Loaded
  <2>2. \A i \in DOMAIN old :
          ResolveRequest(old[i]) = [old[i] EXCEPT !.url = ResolveWith(@, env)]
    BY DEF ResolveRequest, ResolveString, ResolveWith
  <2>3. [i \in DOMAIN old |-> ResolveRequest(old[i])] = ResolveRequests(old, env)
    BY <2>2 DEF ResolveRequests
  <2>4. given[1] = config /\ given[2] = env
    BY <1>1
  <2> HIDE DEF old
  <2>5. config' = [config EXCEPT !.requests = ResolveRequests(old, env)]
    BY <2>1, <2>3
  <2> QED  BY <2>4, <2>5 DEF Resolved, old
<1>4. config' \in ConfigType
  BY <1>1, <1>3, ResolvedType
<1>5. pos' \in 1 .. Len(config'.formats) + 1
  <2>1. config'.formats \in Seq(Formats)
    BY <1>4 DEF ConfigType
  <2>2. Len(config'.formats) \in Nat
    BY <2>1
  <2> QED  BY <1>1, <1>2, <2>2
<1>6. TypesInv'
  BY <1>1, <1>4, <1>5 DEF TypesInv, TypeOK
<1>7. PlaceInv'
  BY <1>1 DEF PlaceInv
<1>8. ReportInv'
  <2>1. Touched = {} /\ Touched' = Touched
    BY <1>1, <1>2, UntouchedBefore DEF Touched
  <2>2. Asked(pos - 1)' = {}
    <3>1. 1 .. pos' - 1 = {}
      BY <1>1, <1>2
    <3> QED  BY <3>1 DEF Asked
  <2> QED  BY <1>1, <2>1, <2>2 DEF ReportInv
<1>9. FileInv'
  BY <1>1, <1>3 DEF FileInv
<1>10. EngineGetsRunnable'
  BY <1>1 DEF EngineGetsRunnable
<1> QED  BY <1>6, <1>7, <1>8, <1>9, <1>10 DEF IInv

(* Validate refuses or accepts what Load made of the file.                 *)
LEMMA ValidateEndsKeep ==
  ASSUME IInv, Rejected \/ ValidateAccepts
  PROVE  IInv'
<1>1. pc = "validate" => Loadable(given) /\ config = Resolved(given)
  BY DEF IInv, FileInv
<1>2. CASE Rejected
  <2>1. pc = "validate" /\ End("error", "validate") /\ UNCHANGED config
    BY <1>2 DEF Rejected, End, Goto
  <2>2. ~Runnable(given)
    BY <1>1, <1>2, <2>1 DEF Rejected, Runnable
  <2> QED  BY <2>1, <2>2, EndKeeps DEF Places
<1>3. CASE ValidateAccepts
  <2>1. /\ pc = "validate" /\ cmd = "validate"
        /\ End("ok", "validate") /\ UNCHANGED config
    BY <1>3 DEF ValidateAccepts, End, Goto
  <2>2. Runnable(given)
    BY <1>1, <1>3, <2>1 DEF ValidateAccepts, Runnable
  <2> QED  BY <2>1, <2>2, EndKeeps DEF Places
<1> QED  BY <1>2, <1>3

(* Run accepts the file and replaces its formats.                          *)
LEMMA RunAcceptsKeeps ==
  ASSUME IInv, RunAccepts
  PROVE  IInv'
<1>1. /\ TypeOK /\ given \in Given /\ PlaceInv /\ FileInv
      /\ pc = "validate" /\ pc' = "engine" /\ cmd = "run"
      /\ Validate(config) = {} /\ config' = Overridden(config)
      /\ UNCHANGED <<cmd, number, flags, given, env>>
      /\ UNCHANGED <<pos, exit, files, whole, lost, accepted, refused>>
  BY DEF IInv, TypesInv, RunAccepts, Goto, inputs, history
<1>2. number > 0 /\ pos = 1 /\ exit = "none"
  BY <1>1 DEF PlaceInv
<1>3. config = Resolved(given)
  BY <1>1 DEF FileInv
<1>4. /\ config' \in ConfigType
      /\ config'.stages = config.stages /\ config'.requests = config.requests
  <2>1. config \in ConfigType
    BY <1>1 DEF TypeOK
  <2>2. CASE flags = <<>>
    BY <1>1, <2>1, <2>2 DEF Overridden
  <2>3. CASE flags # <<>>
    <3>1. config' = [config EXCEPT !.formats = flags]
      BY <1>1, <2>3 DEF Overridden
    <3>2. flags \in Seq(Formats)
      BY <1>1, <2>3, CommandAssumption DEF TypeOK
    <3> QED  BY <2>1, <3>1, <3>2 DEF ConfigType
  <2> QED  BY <2>2, <2>3
<1>5. pos' \in 1 .. Len(config'.formats) + 1
  <2>1. config'.formats \in Seq(Formats)
    BY <1>4 DEF ConfigType
  <2>2. Len(config'.formats) \in Nat
    BY <2>1
  <2> QED  BY <1>1, <1>2, <2>2
<1>6. TypesInv'
  BY <1>1, <1>4, <1>5 DEF TypesInv, TypeOK
<1>7. PlaceInv'
  BY <1>1, <1>2 DEF PlaceInv
<1>8. ReportInv'
  <2>1. Touched = {} /\ Touched' = Touched
    BY <1>1, <1>2, UntouchedBefore DEF Touched
  <2>2. Asked(pos - 1)' = {}
    <3>1. 1 .. pos' - 1 = {}
      BY <1>1, <1>2
    <3> QED  BY <3>1 DEF Asked
  <2> QED  BY <1>1, <2>1, <2>2 DEF ReportInv
<1>9. FileInv'
  BY <1>1 DEF FileInv
<1>10. EngineGetsRunnable'
  <2>1. config \in ConfigType
    BY <1>1 DEF TypeOK
  <2>2. \A i \in DOMAIN config.requests :
          config.requests[i].url \in {"", "good", "bad"}
    BY <1>1, <1>3, ResolvedType
  <2>3. /\ config.stages # <<>>
        /\ \A i \in DOMAIN config.stages : config.stages[i].concurrency >= 1
        /\ \A i \in DOMAIN config.requests : config.requests[i].url \in {"", "good"}
    BY <1>1, <2>1, <2>2, ValidRuns
  <2> QED  BY <1>4, <2>3 DEF EngineGetsRunnable
<1> QED  BY <1>6, <1>7, <1>8, <1>9, <1>10 DEF IInv

(* The engine returns, and the output directory is made.                   *)
LEMMA BeforeReportsKeep ==
  ASSUME IInv, EngineDone \/ MakeDir
  PROVE  IInv'
<1>1. /\ TypeOK /\ given \in Given /\ PlaceInv /\ FileInv
      /\ pc \in {"engine", "mkdir"} /\ pc' \in {"mkdir", "report"}
      /\ UNCHANGED <<cmd, number, flags, given, env>>
      /\ UNCHANGED <<config, pos, exit, files, whole, lost, accepted, refused>>
  BY DEF IInv, TypesInv, EngineDone, MakeDir, Goto, inputs, history
<1>2. number > 0 /\ pos = 1 /\ exit = "none" /\ cmd = "run"
  BY <1>1 DEF PlaceInv
<1>3. TypesInv'
  BY <1>1 DEF TypesInv, TypeOK
<1>4. PlaceInv'
  BY <1>1, <1>2 DEF PlaceInv
<1>5. ReportInv'
  BY <1>1, ReportsUnchanged
<1>6. FileInv'
  BY <1>1 DEF FileInv
<1>7. EngineGetsRunnable'
  BY <1>1 DEF EngineGetsRunnable
<1> QED  BY <1>3, <1>4, <1>5, <1>6, <1>7 DEF IInv

(* What the three steps of the loop over the formats have in common.       *)
LEMMA LoopStep ==
  ASSUME IInv, NoFile \/ CreateFile \/ EncodeFile \/ CloseFails
  PROVE  /\ TypeOK /\ given \in Given /\ PlaceInv /\ FileInv
         /\ pc \in {"report", "encode"} /\ pc' \in {"report", "encode"}
         /\ number > 0 /\ number \in Nat /\ exit = "none" /\ cmd = "run"
         /\ UNCHANGED <<cmd, number, flags, given, env>>
         /\ UNCHANGED <<config, exit, accepted, refused>>
         /\ config.formats[pos] \in Formats
         /\ pos \in Nat /\ pos >= 1 /\ pos <= Len(config.formats)
         /\ Len(config.formats) \in Nat
         /\ Current = {config.formats[pos]}
<1>1. TypeOK /\ given \in Given /\ PlaceInv /\ FileInv
  BY DEF IInv, TypesInv
<1>2. /\ pc \in {"report", "encode"} /\ pc' \in {"report", "encode"}
      /\ UNCHANGED <<cmd, number, flags, given, env>>
      /\ UNCHANGED <<config, exit, accepted, refused>>
  BY DEF NoFile, CreateFile, EncodeFile, CloseFails, AtFormat, Goto, inputs, history
<1>3. number > 0 /\ exit = "none" /\ cmd = "run"
  BY <1>1, <1>2 DEF PlaceInv
<1>4. number \in Nat
  BY <1>1, CommandAssumption DEF TypeOK
<1>5. config.formats \in Seq(Formats)
  BY <1>1 DEF TypeOK, ConfigType
<1>6. Len(config.formats) \in Nat /\ pos \in Nat /\ pos >= 1
  BY <1>1, <1>5 DEF TypeOK
<1>7. pos <= Len(config.formats)
  BY <1>1 DEF PlaceInv, NoFile, CreateFile, EncodeFile, CloseFails, AtFormat, Goto
<1>8. config.formats[pos] \in Formats
  BY <1>5, <1>6, <1>7
<1>9. Current = {config.formats[pos]}
  BY <1>7 DEF Current
<1> QED  BY <1>1, <1>2, <1>3, <1>4, <1>6, <1>7, <1>8, <1>9

(* A format that has no file.                                              *)
LEMMA NoFileKeeps ==
  ASSUME IInv, NoFile
  PROVE  IInv'
<1>1. /\ TypeOK /\ given \in Given /\ PlaceInv /\ FileInv
      /\ number > 0 /\ exit = "none" /\ cmd = "run"
      /\ UNCHANGED <<cmd, number, flags, given, env>>
      /\ UNCHANGED <<config, exit, accepted, refused>>
      /\ pos \in Nat /\ pos >= 1 /\ pos <= Len(config.formats)
      /\ Len(config.formats) \in Nat
  BY LoopStep
<1>2. /\ pc = "report" /\ pc' = "report" /\ pos' = pos + 1
      /\ UNCHANGED <<files, whole, lost>>
      /\ config.formats[pos] \notin FileFormats
  BY DEF NoFile, AtFormat
<1>3. pos' \in 1 .. Len(config.formats) + 1
  BY <1>1, <1>2
<1>4. TypesInv'
  BY <1>1, <1>2, <1>3 DEF TypesInv, TypeOK
<1>5. PlaceInv'
  BY <1>1, <1>2 DEF PlaceInv
<1>6. ReportInv'
  <2>1. Asked(pos) = Asked(pos - 1)
    <3>1. pos - 1 \in Nat /\ (pos - 1) + 1 = pos
      BY <1>1
    <3>2. Asked(pos) = Asked(pos - 1) \cup ({config.formats[pos]} \cap FileFormats)
      BY <3>1, AskedNext
    <3> QED  BY <1>2, <3>2
  <2>2. Asked(pos - 1)' = Asked(pos)
    <3>1. pos' - 1 = pos
      BY <1>1, <1>2
    <3> QED  BY <1>1, <3>1 DEF Asked
  <2>3. Touched' = Touched /\ Open = {} /\ Open' = {}
    BY <1>1, <1>2 DEF Touched, Open
  <2>4. ReportInv
    BY DEF IInv
  <2> QED  BY <1>1, <1>2, <2>1, <2>2, <2>3, <2>4 DEF ReportInv
<1>7. FileInv'
  BY <1>1, <1>2 DEF FileInv
<1>8. EngineGetsRunnable'
  BY <1>2 DEF EngineGetsRunnable
<1> QED  BY <1>4, <1>5, <1>6, <1>7, <1>8 DEF IInv

(* The file of a format is created, or what an earlier command left in it  *)
(* is lost: it is the open one.                                            *)
LEMMA CreateFileKeeps ==
  ASSUME IInv, CreateFile
  PROVE  IInv'
<1>1. /\ TypeOK /\ given \in Given /\ PlaceInv /\ FileInv
      /\ number > 0 /\ number \in Nat /\ exit = "none" /\ cmd = "run"
      /\ UNCHANGED <<cmd, number, flags, given, env>>
      /\ UNCHANGED <<config, exit, accepted, refused>>
      /\ pos <= Len(config.formats)
      /\ Current = {config.formats[pos]}
  BY LoopStep
<1> DEFINE f == config.formats[pos]
<1>2. /\ pc = "report" /\ pc' = "encode" /\ pos' = pos
      /\ f \in FileFormats
      /\ files' = [files EXCEPT ![f] = number]
      /\ whole' = whole \ {f} /\ lost' = lost \ {f}
  BY DEF CreateFile, AtFormat
<1>3. files \in [FileFormats -> 0 .. number]
  BY <1>1 DEF TypeOK
<1>4. files' \in [FileFormats -> 0 .. number]
  BY <1>1, <1>2, <1>3
<1>5. TypesInv'
  BY <1>1, <1>2, <1>4 DEF TypesInv, TypeOK
<1>6. PlaceInv'
  BY <1>1, <1>2 DEF PlaceInv
<1>7. Current' = {f}
  BY <1>1, <1>2 DEF Current
<1>8. Touched' = Touched \cup {f}
  BY <1>1, <1>2, <1>3 DEF Touched
<1>9. Open = {} /\ Open' = {f}
  BY <1>2, <1>7 DEF Open
<1>10. ReportInv'
  <2>1. Asked(pos - 1)' = Asked(pos - 1)
    BY <1>1, <1>2 DEF Asked
  <2>2. /\ Asked(pos - 1) \subseteq Touched
        /\ Touched \subseteq Asked(pos - 1) \cup Open
        /\ Touched \ Open \subseteq whole \cup lost
    BY <1>1 DEF IInv, ReportInv
  <2> HIDE DEF f
  <2> QED  BY <1>2, <1>7, <1>8, <1>9, <2>1, <2>2 DEF ReportInv
<1>11. FileInv'
  BY <1>1, <1>2 DEF FileInv
<1>12. EngineGetsRunnable'
  BY <1>2 DEF EngineGetsRunnable
<1> QED  BY <1>5, <1>6, <1>10, <1>11, <1>12 DEF IInv

(* The open file is written in full, or lost by its close.                 *)
LEMMA EncodeFileKeeps ==
  ASSUME IInv, EncodeFile \/ CloseFails
  PROVE  IInv'
<1>1. /\ TypeOK /\ given \in Given /\ PlaceInv /\ FileInv
      /\ number > 0 /\ exit = "none" /\ cmd = "run"
      /\ UNCHANGED <<cmd, number, flags, given, env>>
      /\ UNCHANGED <<config, exit, accepted, refused>>
      /\ pos \in Nat /\ pos >= 1 /\ pos <= Len(config.formats)
      /\ Len(config.formats) \in Nat
      /\ Current = {config.formats[pos]}
  BY LoopStep
<1> DEFINE f == config.formats[pos]
<1>2. /\ pc = "encode" /\ pc' = "report" /\ pos' = pos + 1
      /\ files' = files
      /\ \/ whole' = whole \cup {f} /\ lost' = lost
         \/ whole' = whole /\ lost' = lost \cup {f}
  BY DEF EncodeFile, CloseFails, Goto
<1>3. f \in FileFormats
  BY <1>1, <1>2 DEF PlaceInv
<1>4. pos' \in 1 .. Len(config.formats) + 1
  BY <1>1, <1>2
<1>5. whole' \subseteq FileFormats /\ lost' \subseteq FileFormats
  BY <1>1, <1>2, <1>3 DEF TypeOK
<1>6. TypesInv'
  BY <1>1, <1>2, <1>4, <1>5 DEF TypesInv, TypeOK
<1>7. PlaceInv'
  BY <1>1, <1>2 DEF PlaceInv
<1>8. ReportInv'
  <2>1. Asked(pos) = Asked(pos - 1) \cup {f}
    <3>1. pos - 1 \in Nat /\ (pos - 1) + 1 = pos
      BY <1>1
    <3>2. Asked(pos) = Asked(pos - 1) \cup ({config.formats[pos]} \cap FileFormats)
      BY <3>1, AskedNext
    <3> QED  BY <1>3, <3>2
  <2>2. Asked(pos - 1)' = Asked(pos)
    <3>1. pos' - 1 = pos
      BY <1>1, <1>2
    <3> QED  BY <1>1, <3>1 DEF Asked
  <2>3. Touched' = Touched /\ Open = {f} /\ Open' = {}
    BY <1>1, <1>2 DEF Touched, Open
  <2>4. /\ Asked(pos - 1) \subseteq Touched
        /\ Touched \subseteq Asked(pos - 1) \cup Open
        /\ Touched \ Open \subseteq whole \cup lost
        /\ Current \subseteq Touched
    BY <1>1, <1>2 DEF IInv, ReportInv
  <2>5. Current = {f}
    BY <1>1
  <2> HIDE DEF f
  <2> QED  BY <1>2, <2>1, <2>2, <2>3, <2>4, <2>5 DEF ReportInv
<1>9. FileInv'
  BY <1>1, <1>2 DEF FileInv
<1>10. EngineGetsRunnable'
  BY <1>2 DEF EngineGetsRunnable
<1> QED  BY <1>6, <1>7, <1>8, <1>9, <1>10 DEF IInv

(* The run ends after the file was accepted: by an error, by a panic of a  *)
(* worker, or well, after the last format.                                 *)
LEMMA RunEndsKeep ==
  ASSUME IInv,
         EngineDies \/ MakeDirFails \/ CreateFails \/ EncodeFails \/ ReportsWritten
  PROVE  IInv'
<1>1. CASE EngineDies
  <2>1. End("panic", "engine") /\ UNCHANGED config
    BY <1>1 DEF EngineDies
  <2> QED  BY <2>1, EndKeeps DEF Places
<1>2. CASE MakeDirFails
  <2>1. End("error", "mkdir") /\ UNCHANGED config
    BY <1>2 DEF MakeDirFails
  <2> QED  BY <2>1, EndKeeps DEF Places
<1>3. CASE CreateFails
  <2>1. End("error", "report") /\ UNCHANGED config
    BY <1>3 DEF CreateFails
  <2> QED  BY <2>1, EndKeeps DEF Places
<1>4. CASE EncodeFails
  <2>1. End("error", "encode") /\ UNCHANGED config
    BY <1>4 DEF EncodeFails
  <2> QED  BY <2>1, EndKeeps DEF Places
<1>5. CASE ReportsWritten
  <2>1. End("ok", "report") /\ UNCHANGED config /\ pos > Len(config.formats)
    BY <1>5 DEF ReportsWritten
  <2>2. config.formats \in Seq(Formats) /\ pos \in 1 .. Len(config.formats) + 1
    BY DEF IInv, TypesInv, TypeOK, ConfigType
  <2>3. Len(config.formats) \in Nat
    BY <2>2
  <2>4. pos = Len(config.formats) + 1
    BY <2>1, <2>2, <2>3
  <2> QED  BY <2>1, <2>4, EndKeeps DEF Places
<1> QED  BY <1>1, <1>2, <1>3, <1>4, <1>5

(* The process is killed.                                                  *)
LEMMA KilledKeeps ==
  ASSUME IInv, Killed
  PROVE  IInv'
<1>1. PICK from \in Places \ {"idle"} :
        End("killed", from) /\ UNCHANGED config
  BY DEF Killed, Places
<1> QED  BY <1>1, EndKeeps
-----------------------------------------------------------------------------
(***************************************************************************)
(* The theorems.                                                           *)
(***************************************************************************)

(* The invariant holds before the first command.                           *)
LEMMA InitIInv == Init => IInv
<1> SUFFICES ASSUME Init PROVE IInv
  OBVIOUS
<1>1. number = 0
  BY Zenon DEF Init
<1>2. pos = 1
  BY Zenon DEF Init
<1>3. files = [f \in FileFormats |-> 0]
  BY Zenon DEF Init
<1>4. /\ cmd = "none" /\ flags = <<>> /\ env = ""
      /\ config \in ConfigFiles /\ given = <<config, env>>
      /\ pc = "idle" /\ exit = "none"
      /\ whole = {} /\ lost = {} /\ accepted = {} /\ refused = {}
  BY Zenon DEF Init
<1>5. config \in ConfigType /\ given \in Given
      /\ given \in ConfigType \X EnvValues /\ env \in EnvValues
  BY <1>4, CommandAssumption DEF Given, EnvValues
<1>6. pos \in 1 .. Len(config.formats) + 1
  <2>1. config.formats \in Seq(Formats)
    BY <1>5 DEF ConfigType
  <2>2. Len(config.formats) \in Nat
    BY <2>1
  <2> QED  BY <1>2, <2>2
<1>7. number \in 0 .. MaxCommands
  BY <1>1, CommandAssumption
<1>8. files \in [FileFormats -> 0 .. number]
  BY <1>1, <1>3
<1>9. TypesInv
  BY <1>4, <1>5, <1>6, <1>7, <1>8 DEF TypesInv, TypeOK
<1>10. PlaceInv /\ FileInv /\ EngineGetsRunnable
  BY <1>4 DEF PlaceInv, FileInv, EngineGetsRunnable
<1>11. ReportInv
  BY <1>1 DEF ReportInv
<1> QED  BY <1>9, <1>10, <1>11 DEF IInv

(* A step of something else changes nothing.                               *)
LEMMA StutterKeeps ==
  ASSUME IInv, UNCHANGED vars
  PROVE  IInv'
<1>1. UNCHANGED <<cmd, number, flags, given, env, config, pc, pos, exit>>
      /\ UNCHANGED <<files, whole, lost, accepted, refused>>
  BY DEF vars, inputs, history
<1>2. TypesInv' /\ PlaceInv' /\ FileInv' /\ EngineGetsRunnable'
  BY <1>1 DEF IInv, TypesInv, TypeOK, PlaceInv, FileInv, EngineGetsRunnable
<1>3. ReportInv'
  BY <1>1 DEF IInv, ReportInv, Open, Current, Touched, Asked
<1> QED  BY <1>2, <1>3 DEF IInv

(* Every step of a command keeps it.                                       *)
LEMMA NextKeepsIInv ==
  ASSUME IInv, [Next]_vars
  PROVE  IInv'
<1>1. CASE GiveRun
  BY <1>1, GiveKeeps DEF GiveRun
<1>2. CASE GiveValidate
  BY <1>2, GiveKeeps DEF GiveValidate
<1>3. CASE LoadFails \/ ResolvePanics
  BY <1>3, LoadEndsKeep
<1>4. CASE Loaded
  BY <1>4, LoadedKeeps
<1>5. CASE Rejected \/ ValidateAccepts
  BY <1>5, ValidateEndsKeep
<1>6. CASE RunAccepts
  BY <1>6, RunAcceptsKeeps
<1>7. CASE EngineDone \/ MakeDir
  BY <1>7, BeforeReportsKeep
<1>8. CASE NoFile
  BY <1>8, NoFileKeeps
<1>9. CASE CreateFile
  BY <1>9, CreateFileKeeps
<1>10. CASE EncodeFile \/ CloseFails
  BY <1>10, EncodeFileKeeps
<1>11. CASE EngineDies \/ MakeDirFails \/ CreateFails \/ EncodeFails \/ ReportsWritten
  BY <1>11, RunEndsKeep
<1>12. CASE Killed
  BY <1>12, KilledKeeps
<1>13. CASE UNCHANGED vars
  BY <1>13, StutterKeeps
<1> QED
  BY <1>1, <1>2, <1>3, <1>4, <1>5, <1>6, <1>7, <1>8, <1>9, <1>10, <1>11,
     <1>12, <1>13 DEF Next

(* Every state any number of commands can reach satisfies the invariant.   *)
THEOREM Invariance == Spec => []IInv
<1>1. Init => IInv
  BY InitIInv
<1>2. IInv /\ [Next]_vars => IInv'
  BY NextKeepsIInv
<1> QED  BY <1>1, <1>2, PTL DEF Spec

(* Every variable has its type, and the loop over the formats ends where   *)
(* they end, whatever the files, the flags and the failures.               *)
THEOREM TypeCorrect == Spec => []TypeOK
<1>1. IInv => TypeOK
  BY DEF IInv, TypesInv
<1> QED  BY <1>1, Invariance, PTL

(* The engine is given a stage, a worker in each of them, and URLs that    *)
(* parse, whatever the file says and the environment puts in its place.    *)
THEOREM EngineInput == Spec => []EngineGetsRunnable
<1>1. IInv => EngineGetsRunnable
  BY DEF IInv
<1> QED  BY <1>1, Invariance, PTL

(* What validate accepts run does not refuse: both answers are Runnable of *)
(* the file and the environment, and the flags have no part in it.         *)
THEOREM PredictionHolds == Spec => []ValidatePredictsRun
<1>1. IInv => ValidatePredictsRun
  BY DEF IInv, FileInv, ValidatePredictsRun
<1> QED  BY <1>1, Invariance, PTL

(* A run that ends without an error has written every report it was asked  *)
(* for, in full.                                                           *)
THEOREM CompleteOnSuccess == Spec => []SuccessIsComplete
<1>1. IInv => SuccessIsComplete
  <2> SUFFICES ASSUME IInv, exit = "ok", cmd = "run",
                      NEW f \in Asked(Len(config.formats))
               PROVE  files[f] = number /\ f \in whole \cup lost
    BY DEF SuccessIsComplete
  <2>1. number > 0 /\ pos = Len(config.formats) + 1 /\ pc = "idle"
    BY DEF IInv, PlaceInv
  <2>2. Len(config.formats) \in Nat
    <3>1. config.formats \in Seq(Formats)
      BY DEF IInv, TypesInv, TypeOK, ConfigType
    <3> QED  BY <3>1
  <2>3. Open = {}
    BY <2>1, <2>2 DEF Open, Current
  <2>4. pos - 1 = Len(config.formats)
    BY <2>1, <2>2
  <2>5. /\ Asked(Len(config.formats)) \subseteq Touched
        /\ Touched \ Open \subseteq whole \cup lost
    BY <2>1, <2>4 DEF IInv, ReportInv
  <2>6. f \in Touched
    BY <2>5
  <2> QED  BY <2>3, <2>5, <2>6 DEF Touched
<1> QED  BY <1>1, Invariance, PTL

(* However a command ends, the reports before the one it was writing are   *)
(* there in full, and no other is touched.                                 *)
THEOREM PrefixOnFailure == Spec => []FailureKeepsPrefix
<1>1. IInv => FailureKeepsPrefix
  <2> SUFFICES ASSUME IInv, exit # "none"
               PROVE  /\ Asked(pos - 1) \subseteq Touched
                      /\ Touched \subseteq Asked(pos - 1) \cup Current
                      /\ Touched \ Current \subseteq whole \cup lost
    BY DEF FailureKeepsPrefix
  <2>1. number > 0
    BY DEF IInv, PlaceInv
  <2>2. /\ Asked(pos - 1) \subseteq Touched
        /\ Touched \subseteq Asked(pos - 1) \cup Open
        /\ Touched \ Open \subseteq whole \cup lost
    BY <2>1 DEF IInv, ReportInv
  <2>3. Open \subseteq Current
    BY DEF Open
  <2> QED  BY <2>2, <2>3
<1> QED  BY <1>1, Invariance, PTL
=============================================================================
