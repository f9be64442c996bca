------------------------------- MODULE JfRun -------------------------------
(* One run of jf, from what was typed to its end: main.go finds the command, *)
(* the library parses its flags (CommandRun) or not (NativeRun), the handler *)
(* runs, perhaps beside a goroutine that reports the usage of the command,   *)
(* and main cleans up.                                                       *)
EXTENDS CliCommands, CommandRun, NativeRun

CONSTANTS
  None,       \* no command
  Undeclared  \* flags known to be read although not declared, per handler

VARIABLES
  phase,   \* where the run is
  from,    \* "jf", or the alias of a package manager that was typed
  report,  \* the goroutine that reports the usage
  clean    \* main has removed old temporary directories

jvars == <<phase, from, report, clean>>
vars == <<cvars, nvars, jvars>>

(* packagealias.go; RubyGems and Bundler run below jf ruby.                  *)
SupportedTools ==
  {"mvn", "gradle", "npm", "yarn", "pnpm", "go", "pip", "pipenv", "poetry",
   "dotnet", "nuget", "docker", "gem", "bundle", "apk"}
RubyTools == {"gem", "bundle"}
(* Wrong: every tool has a command of its own.                               *)
MutantRunJFMode(alias) == alias

runJFMode(alias) == IF alias \in RubyTools THEN "ruby" ELSE alias

Phases == {"start", "unknown", "parsed", "native", "wait", "after", "exited"}
ReportStates == {"none", "running", "signalled", "closed", "received"}

Names(space) == UNION {{c.name, c.alias} : c \in getCommands[space]} \ {""}

Idle ==
  /\ cmd = None /\ line = None /\ at = 1 /\ used = {} /\ effects = {}
  /\ outcome = "idle"
  /\ tool = None /\ typed = <<>> /\ mode = "none" /\ place = 1 /\ args = {}
  /\ command = "" /\ image = "" /\ end = "idle"
Init ==
  /\ Idle
  /\ phase = "start" /\ from = "jf" /\ report = "none" /\ clean = FALSE

(* A namespace, and the commands that have no action of their own, print     *)
(* their help.                                                               *)
ShowsItsHelp(c) == c.action \in {"namespace", "subcommand", "none"}

(* Every package manager has a command of jf, and jf ruby takes the first    *)
(* word for the tool before it takes anything else out of the arguments.     *)
NamesItsTool(c) ==
  /\ HasStep(c, {"command"})
  /\ \A q \in DOMAIN ToolSteps[c] :
       ToolSteps[c][q].do = "command" =>
         /\ ToolSteps[c][q].only = {} /\ ToolSteps[c][q].but = {}
         /\ ToolSteps[c][q].modes = Modes
         /\ \A k \in 1 .. q - 1 :
              ToolSteps[c][k].do
                \notin Taking \cup Naming \cup Dropping \cup {"run"}
         /\ \A k \in DOMAIN ToolSteps[c] :
              k > q => ToolSteps[c][k].do \notin Naming
ASSUME AliasesAssumption ==
  /\ None \notin Tools /\ "jf" \notin SupportedTools
  /\ RubyTools \subseteq ArgNames
  /\ \A name \in (SupportedTools \ RubyTools) \cup {"ruby"} :
       /\ Lookup("", name) # {}
       /\ \A c \in Lookup("", name) :
            c.name = name /\ c \in Tools \ Commands /\ ~ShowsItsHelp(c)
  /\ \A c \in Lookup("", "ruby") : NamesItsTool(c)

Dispatch(alias, c) ==
  \/ /\ ShowsItsHelp(c)
     /\ phase' = "after" /\ UNCHANGED <<cvars, nvars>>
  \/ /\ c \in Commands
     /\ phase' = "parsed" /\ UNCHANGED nvars
     /\ \E l \in Lines(c) : Begin(c, l)
  \/ /\ c \in Tools
     /\ phase' = "native" /\ UNCHANGED cvars
     /\ \E l \in Typed[c], m \in ModesOf(c) :
          StartTool(c, IF alias \in RubyTools THEN <<Word(alias)>> \o l ELSE l,
                    m)

(* A word that is no command: the similar ones are printed and main exits.   *)
TypeCommand ==
  /\ phase = "start" /\ UNCHANGED <<from, report, clean>>
  /\ \E space \in DOMAIN getCommands : \E word \in Names(space) \cup {"typo"} :
       IF Lookup(space, word) = {}
         THEN phase' = "unknown" /\ UNCHANGED <<cvars, nvars>>
         ELSE \E c \in Lookup(space, word) : Dispatch("jf", c)
(* DispatchIfAlias has decided for jf and rewrites the line.                 *)
TypeAlias ==
  /\ phase = "start" /\ UNCHANGED <<report, clean>>
  /\ \E alias \in SupportedTools :
       /\ from' = alias
       /\ IF Lookup("", runJFMode(alias)) = {}
            THEN phase' = "unknown" /\ UNCHANGED <<cvars, nvars>>
            ELSE \E c \in Lookup("", runJFMode(alias)) : Dispatch(alias, c)

RunHandler ==
  /\ phase = "parsed" /\ HandlerStep
  /\ report' = IF Takes({"report"}) THEN "running" ELSE report
  /\ UNCHANGED <<nvars, phase, from, clean>>
RunNative ==
  /\ phase = "native" /\ ToolStep /\ UNCHANGED <<cvars, jvars>>

(* The goroutine: ReportUsage signals, or panics, which closes the channel.  *)
ReporterSignals ==
  /\ report = "running" /\ report' = "signalled"
  /\ UNCHANGED <<cvars, nvars, phase, from, clean>>
ReporterPanics ==
  /\ report = "running" /\ report' = "closed"
  /\ UNCHANGED <<cvars, nvars, phase, from, clean>>

(* The handler returned: the deferred WaitForReport, if a report was         *)
(* started.                                                                  *)
Return ==
  /\ \/ phase = "parsed" /\ outcome # "running"
     \/ phase = "native" /\ end \notin {"running", "panic"}
  /\ phase' = IF report = "none" THEN "after" ELSE "wait"
  /\ UNCHANGED <<cvars, nvars, from, report, clean>>
(* jf api without --timeout has a timeout of zero, which waits for ever.     *)
Timed == cmd.action = "Command" => "timeout" \in line.given
(* Wrong: the report stays to be received.                                   *)
MutantReceive ==
  /\ phase = "wait" /\ report \in {"signalled", "closed"}
  /\ phase' = "after" /\ report' = "done"
  /\ UNCHANGED <<cvars, nvars, from, clean>>

Receive ==
  /\ phase = "wait" /\ report \in {"signalled", "closed"}
  /\ phase' = "after" /\ report' = "received"
  /\ UNCHANGED <<cvars, nvars, from, clean>>
(* Wrong: times out only when the reporter has panicked.                     *)
MutantTimeOut ==
  /\ phase = "wait" /\ Timed /\ report = "closed"
  /\ phase' = "after" /\ UNCHANGED <<cvars, nvars, from, report, clean>>

TimeOut ==
  /\ phase = "wait" /\ Timed
  /\ phase' = "after" /\ UNCHANGED <<cvars, nvars, from, report, clean>>

Exit(cleaned) ==
  /\ phase' = "exited" /\ clean' = cleaned
  /\ UNCHANGED <<cvars, nvars, from, report>>
(* An HTTP error makes jf api return an exit code, on which the library ends *)
(* the process before main gets back.                                        *)
ExitInside ==
  \/ phase = "after" /\ cmd # None /\ cmd.action = "Command"
       /\ outcome = "failed" /\ "done" \in effects /\ Exit(FALSE)
  \/ phase = "unknown" /\ Exit(FALSE)
  \/ phase = "native" /\ end = "panic" /\ Exit(FALSE)
CleanUpAndExit ==
  /\ phase = "after"
  /\ ~(cmd # None /\ cmd.action = "Command" /\ outcome = "failed"
         /\ "done" \in effects)
  /\ Exit(TRUE)

Done == phase = "exited" /\ UNCHANGED vars

Proceeds ==
  RunHandler \/ RunNative \/ Return \/ Receive \/ TimeOut \/ ExitInside
    \/ CleanUpAndExit
Next ==
  TypeCommand \/ TypeAlias \/ Proceeds \/ ReporterSignals \/ ReporterPanics
    \/ Done

JSpec == Init /\ [][Next]_vars
(* The main goroutine runs on; the server may never answer the reporter.     *)
FairSpec == JSpec /\ WF_vars(Proceeds)

(* ------------------------------ Properties ------------------------------- *)

JTypeOK ==
  /\ phase \in Phases /\ from \in {"jf"} \cup SupportedTools
  /\ report \in ReportStates /\ clean \in BOOLEAN
  /\ phase = "parsed" => TypeOK
  /\ phase = "native" => tool \in Tools /\ mode \in Modes /\ end \in Ends

(* Every command of the tables can be run, by its name and by its alias: no  *)
(* other one of its namespace takes the word away from it. And its flags can *)
(* be built: a key that is in no table would crash jf at every start.        *)
EveryCommandCanBeRun ==
  phase = "start" =>
    \A space \in DOMAIN getCommands : \A c \in getCommands[space] :
      /\ Lookup(space, c.name) = {c}
      /\ c.alias = "" \/ Lookup(space, c.alias) = {c}
      /\ c.key = "" \/ c.key \in DOMAIN commandFlags
      /\ ~BuildPanics(KeysOf(c.key))

(* A handler reads only flags that its command declares: the library refuses *)
(* any other, so that what the handler does with it could never happen.      *)
FlagsRead(c) ==
  UNION {Steps[c][i].flags : i \in {j \in DOMAIN Steps[c] :
           Steps[c][j].do \notin {"server", "offer"}}}
ReadFlagsAreDeclared ==
  phase = "parsed" => FlagsRead(cmd) \subseteq Declared[cmd] \cup Undeclared[cmd]

(* Whoever types the name of a package manager gets the command of jf that   *)
(* wraps it, and below jf ruby the tool of that name.                        *)
AliasRunsItsTool ==
  from # "jf" =>
    /\ phase # "unknown" /\ tool # None
    /\ from \in RubyTools => tool.name = "ruby" /\ (end = "ran" => command = from)
    /\ from \notin RubyTools => tool.name = from

(* Every run of jf ends, whatever becomes of the report of its usage, except *)
(* jf api without --timeout, which waits as long as the reporter does.       *)
EveryRunEnds ==
  phase # "start" ~>
    \/ phase = "exited"
    \/ phase = "wait" /\ ~Timed /\ report = "running"
=============================================================================
