------------------------------- MODULE Command -------------------------------
(***************************************************************************)
(* The commands of cmd/stresstest: validate, and run from the config file  *)
(* to the report files. Engine.Run is one step here.                       *)
(*                                                                         *)
(* Commands are given one after another; between two of them the config    *)
(* file and the environment may change, and the report files stay. The     *)
(* process may be killed at any moment.                                    *)
(*                                                                         *)
(* A config file is abstracted to what Load and Validate look at. The      *)
(* environment is the value of the one variable its references name. All   *)
(* reports go to one directory.                                            *)
(***************************************************************************)
EXTENDS Integers, Sequences, SequencesExt

CONSTANTS
  ConfigFiles,   \* the config files that may be given
  FlagFormats,   \* the values of --formats
  MaxCommands    \* bound: commands given

(* A URL may be a reference ("$URL") or have one in its path               *)
(* ("http://host/$ID").                                                    *)
Urls    == {"", "good", "bad", "ref", "path"}
Formats == {"console", "html", "json", "csv", "pdf"}
Methods == {"", "GET", "TRACE"}
Types   == {"", "status", "regexp"}
EnvValues == {"", "good", "bad"}

StageType   == [duration : Int, concurrency : Int]
RequestType == [id : BOOLEAN, url : Urls, method : Methods,
                assertions : SUBSET Types]

(* readable: os.ReadFile succeeds; parses: yaml.Unmarshal does; mapRef: a  *)
(* header, query parameter or tag contains a reference.                    *)
ConfigType ==
  [readable : BOOLEAN, parses : BOOLEAN, mapRef : BOOLEAN, name : BOOLEAN,
   stages : Seq(StageType), requests : Seq(RequestType),
   formats : Seq(Formats)]

ASSUME CommandAssumption ==
  /\ \A c \in ConfigFiles : c \in ConfigType
  /\ FlagFormats \subseteq Seq(Formats)
  /\ MaxCommands \in Nat

FileFormats == {"html", "json"}

VARIABLES
  cmd,       \* the command given last
  number,    \* how many commands have been given
  flags,     \* its --formats
  config,    \* its config file, then what Load made of it
  given,     \* its config file and environment, as they were given
  env,       \* its environment
  pc,        \* where the process is
  pos,       \* the format writeReports has reached
  exit,      \* how the process ended
  files,     \* the report files: the command that wrote them, 0 for none
  whole,     \* the report files that hold a report in full
  lost,      \* the report files whose close failed, whatever they hold
  accepted,  \* what validate accepted
  refused    \* what run refused, or died of, before the engine

inputs  == <<cmd, number, flags, given, env>>
history == <<accepted, refused>>
vars == <<inputs, config, pc, pos, exit, files, whole, lost, history>>

Init ==
  /\ cmd = "none" /\ number = 0 /\ flags = <<>> /\ env = ""
  /\ config \in ConfigFiles
  /\ given = <<config, env>>
  /\ pc = "idle" /\ pos = 1 /\ exit = "none"
  /\ files = [f \in FileFormats |-> 0] /\ whole = {} /\ lost = {}
  /\ accepted = {} /\ refused = {}

Give(c) ==
  /\ pc = "idle" /\ pc' = "load"
  /\ number < MaxCommands /\ number' = number + 1
  /\ cmd' = c
  /\ flags' \in FlagFormats
  /\ config' \in ConfigFiles
  /\ env' \in EnvValues
  /\ given' = <<config', env'>>
  /\ pos' = 1 /\ exit' = "none"
  /\ UNCHANGED <<files, whole, lost, history>>

GiveRun      == Give("run")
GiveValidate == Give("validate")

Goto(from, to) == pc = from /\ pc' = to

(* The process ends. What it was given is remembered when run ends before  *)
(* the engine, and when validate accepts.                                  *)
End(how, from) ==
  /\ Goto(from, "idle")
  /\ exit' = how
  /\ accepted' = IF cmd = "validate" /\ how = "ok"
                 THEN accepted \cup {given} ELSE accepted
  /\ refused' = IF cmd = "run" /\ from \in {"load", "validate"} /\ how # "killed"
                THEN refused \cup {given} ELSE refused
  /\ UNCHANGED <<inputs, pos, files, whole, lost>>
-----------------------------------------------------------------------------
(***************************************************************************)
(* config.Load.                                                            *)
(***************************************************************************)
LoadFails ==
  /\ ~(config.readable /\ config.parses)
  /\ End("error", "load")
  /\ UNCHANGED config

(* resolveValue replaces a reference whose variable is set. In a map it    *)
(* does so through a value that cannot be assigned to, and panics.         *)
ResolvePanics ==
  /\ config.readable /\ config.parses
  /\ config.mapRef /\ env # ""
  /\ End("panic", "load")
  /\ UNCHANGED config

(* An unresolved reference is left as it is: "$URL" does not parse,        *)
(* "http://host/$ID" does.                                                 *)
Unresolved(url) == IF url = "path" THEN "good" ELSE "bad"

ResolveString(url) ==
  IF url \notin {"ref", "path"} THEN url
  ELSE IF env = "" THEN Unresolved(url) ELSE env

ResolveRequest(r) == [r EXCEPT !.url = ResolveString(@)]

Loaded ==
  /\ Goto("load", "validate")
  /\ config.readable /\ config.parses
  /\ config.mapRef => env = ""
  /\ config' = [config EXCEPT !.requests =
       [i \in DOMAIN @ |-> ResolveRequest(@[i])]]
  /\ UNCHANGED <<inputs, pos, exit, files, whole, lost, history>>
-----------------------------------------------------------------------------
(***************************************************************************)
(* config.Validate: the set of what is wrong. A duration is refused when   *)
(* it is zero, not when it is negative.                                    *)
(***************************************************************************)

(* Mutant of StageErrors: a concurrency of zero is let through.            *)
StageErrorsLax(s) ==
  (IF s.duration = 0 THEN {"duration"} ELSE {})
  \cup (IF s.concurrency < 0 THEN {"concurrency"} ELSE {})

StageErrors(s) ==
  (IF s.duration = 0 THEN {"duration"} ELSE {})
  \cup (IF s.concurrency <= 0 THEN {"concurrency"} ELSE {})

RequestErrors(r) ==
  (IF ~r.id THEN {"id"} ELSE {})
  \cup (IF r.url = "bad" THEN {"url"} ELSE {})
  \cup (IF r.method \notin {"", "GET"} THEN {"method"} ELSE {})
  \cup (IF r.assertions \subseteq {"", "status"} THEN {} ELSE {"assertion"})

ValidFormats == {"console", "html", "csv", "json"}

Validate(c) ==
  (IF c.name THEN {} ELSE {"name"})
  \cup (IF c.stages = <<>> THEN {"stages"} ELSE {})
  \cup (UNION {StageErrors(c.stages[i]) : i \in DOMAIN c.stages})
  \cup (UNION {RequestErrors(c.requests[i]) : i \in DOMAIN c.requests})
  \cup (IF ToSet(c.formats) \subseteq ValidFormats THEN {} ELSE {"format"})

Rejected ==
  /\ Validate(config) # {}
  /\ End("error", "validate")
  /\ UNCHANGED config

ValidateAccepts ==
  /\ cmd = "validate"
  /\ Validate(config) = {}
  /\ End("ok", "validate")
  /\ UNCHANGED config

(* The flags replace the formats of the file, unless they are empty.       *)
Overridden(c) == IF flags = <<>> THEN c ELSE [c EXCEPT !.formats = flags]

(* Mutant of RunAccepts: the formats are replaced first.                   *)
OverrideThenValidate ==
  /\ cmd = "run" /\ pc = "validate"
  /\ config' = Overridden(config)
  /\ IF Validate(config') = {}
     THEN /\ pc' = "engine"
          /\ UNCHANGED <<inputs, pos, exit, files, whole, lost, history>>
     ELSE End("error", "validate")

RunAccepts ==
  /\ Goto("validate", "engine")
  /\ cmd = "run"
  /\ Validate(config) = {}
  /\ config' = Overridden(config)
  /\ UNCHANGED <<inputs, pos, exit, files, whole, lost, history>>
-----------------------------------------------------------------------------
(***************************************************************************)
(* Engine.Run and writeReports.                                            *)
(***************************************************************************)
EngineDone ==
  /\ Goto("engine", "mkdir")
  /\ UNCHANGED <<inputs, config, pos, exit, files, whole, lost, history>>

(* A panic of a worker ends the process (see Requests).                    *)
EngineDies == End("panic", "engine") /\ UNCHANGED config

MakeDir ==
  /\ Goto("mkdir", "report")
  /\ UNCHANGED <<inputs, config, pos, exit, files, whole, lost, history>>

MakeDirFails == End("error", "mkdir") /\ UNCHANGED config

AtFormat(F) ==
  pc = "report" /\ pos <= Len(config.formats) /\ config.formats[pos] \in F

(* The console report; a note for csv and for an unknown format.           *)
NoFile ==
  /\ AtFormat(Formats \ FileFormats)
  /\ pos' = pos + 1
  /\ UNCHANGED <<inputs, config, pc, exit, files, whole, lost, history>>

(* os.Create truncates the file an earlier command left.                   *)
CreateFile ==
  /\ AtFormat(FileFormats)
  /\ pc' = "encode"
  /\ files' = [files EXCEPT ![config.formats[pos]] = number]
  /\ whole' = whole \ {config.formats[pos]}
  /\ lost' = lost \ {config.formats[pos]}
  /\ UNCHANGED <<inputs, config, pos, exit, history>>

(* Mutant of CreateFails: the loop goes on.                                *)
CreateFailsGoesOn ==
  /\ AtFormat(FileFormats)
  /\ pos' = pos + 1
  /\ UNCHANGED <<inputs, config, pc, exit, files, whole, lost, history>>

CreateFails ==
  /\ AtFormat(FileFormats)
  /\ End("error", "report")
  /\ UNCHANGED config

(* Mutant of EncodeFile: one format is skipped.                            *)
EncodeFileSkips ==
  /\ Goto("encode", "report")
  /\ whole' = whole \cup {config.formats[pos]}
  /\ pos' = pos + 2
  /\ UNCHANGED <<inputs, config, exit, files, lost, history>>

EncodeFile ==
  /\ Goto("encode", "report")
  /\ whole' = whole \cup {config.formats[pos]}
  /\ pos' = pos + 1
  /\ UNCHANGED <<inputs, config, exit, files, lost, history>>

(* The deferred Close reports that what was encoded is not all on the      *)
(* disk. Nobody looks at its error.                                        *)
CloseFails ==
  /\ Goto("encode", "report")
  /\ lost' = lost \cup {config.formats[pos]}
  /\ pos' = pos + 1
  /\ UNCHANGED <<inputs, config, exit, files, whole, history>>

EncodeFails == End("error", "encode") /\ UNCHANGED config

ReportsWritten ==
  /\ pos > Len(config.formats)
  /\ End("ok", "report")
  /\ UNCHANGED config

Killed == \E from \in {"load", "validate", "engine", "mkdir", "report", "encode"} :
            End("killed", from) /\ UNCHANGED config

Next ==
  \/ GiveRun \/ GiveValidate
  \/ LoadFails \/ ResolvePanics \/ Loaded
  \/ Rejected \/ ValidateAccepts \/ RunAccepts
  \/ EngineDone \/ EngineDies \/ MakeDir \/ MakeDirFails
  \/ NoFile \/ CreateFile \/ CreateFails
  \/ EncodeFile \/ CloseFails \/ EncodeFails
  \/ ReportsWritten
  \/ Killed

Spec == Init /\ [][Next]_vars
-----------------------------------------------------------------------------
(* Every variable has its type; the loop over the formats ends where they  *)
(* end.                                                                    *)
TypeOK ==
  /\ cmd \in {"none", "run", "validate"} /\ number \in 0 .. MaxCommands
  /\ flags \in FlagFormats \cup {<<>>}
  /\ config \in ConfigType /\ given \in ConfigType \X EnvValues
  /\ env \in EnvValues
  /\ pc \in {"idle", "load", "validate", "engine", "mkdir", "report", "encode"}
  /\ pos \in 1 .. Len(config.formats) + 1
  /\ exit \in {"none", "ok", "error", "panic", "killed"}
  /\ files \in [FileFormats -> 0 .. number]
  /\ whole \subseteq FileFormats /\ lost \subseteq FileFormats
  /\ accepted \cup refused \subseteq ConfigFiles \X EnvValues

Asked(n) == {config.formats[i] : i \in 1 .. n} \cap FileFormats

(* When run ends without an error, every report it was asked for has been  *)
(* written by it, in full: none is missing and none is left from an earlier*)
(* command. The exception is a file whose close failed, of which the code  *)
(* does not learn.                                                         *)
SuccessIsComplete ==
  exit = "ok" /\ cmd = "run" =>
    \A f \in Asked(Len(config.formats)) : files[f] = number /\ f \in whole \cup lost

(* Wherever a command ends, by an error, a panic or a kill: the reports it *)
(* had finished are there in full (or lost by their close), at most the    *)
(* one it was writing is truncated, and it has not touched any other.      *)
Touched == {f \in FileFormats : number > 0 /\ files[f] = number}
Current == IF pos <= Len(config.formats) THEN {config.formats[pos]} ELSE {}
FailureKeepsPrefix ==
  exit # "none" =>
    /\ Asked(pos - 1) \subseteq Touched
    /\ Touched \subseteq Asked(pos - 1) \cup Current
    /\ Touched \ Current \subseteq whole \cup lost

(* The engine is given what its code relies on: a stage, in every stage a  *)
(* worker (NewSemaphore panics on a negative size), and in every request a *)
(* URL that parses or none, whatever the environment put there.            *)
EngineGetsRunnable ==
  pc = "engine" =>
    /\ config.stages # <<>>
    /\ \A i \in DOMAIN config.stages : config.stages[i].concurrency >= 1
    /\ \A i \in DOMAIN config.requests : config.requests[i].url \in {"", "good"}

(* What validate accepts run does not refuse, with the same environment,   *)
(* whatever its flags.                                                     *)
ValidatePredictsRun == accepted \cap refused = {}
-----------------------------------------------------------------------------
(***************************************************************************)
(* What the repository says and the code does not do.                      *)
(***************************************************************************)

(* README.md: "Environment variable references", as examples/gradient.yml  *)
(* has one in a header. Load panics on it once the variable is set.        *)
ReferencesResolve == pc = "idle" /\ exit = "panic" => given \notin refused
=============================================================================
