----------------------------- MODULE NativeRun -----------------------------
(* One run of a command that wraps the tool of a package manager: jf takes   *)
(* its own flags out of the typed arguments, finds the command of the tool   *)
(* in them and hands the rest to the tool. What is left of the arguments is  *)
(* given by their positions in the line: none is added, moved or changed.    *)
EXTENDS Integers, Sequences

CONSTANTS
  Tools,        \* the handlers
  ToolSteps,    \* the steps of each, as in NativeHandlers
  Promised,     \* the flags of jf that the help of each names
  Switches,     \* flags without a value
  Modes,        \* project configurations: ToolModes of NativeHandlers
  ArgNames,     \* what words and flags may be called
  Typed,        \* the lines that may be typed for each: see FlagsComeOnce
  SplitsFirst,  \* handlers known to look for the command among flags of jf
  DropsAWord,   \* handlers known to lose the first word
  Leaves(_, _, _)  \* flags that each leaves in the arguments, by its mode and
                   \* the command of the tool

ASSUME ModesAssumption == "none" \in Modes

(* An argument: a word, a flag of jf, a flag of jf joined with its value by  *)
(* =, a flag of the tool, or --help. All but words start with a dash.        *)
Word(name) == [kind |-> "word", name |-> name]
Flag(name) == [kind |-> "flag", name |-> name]
Joined(name) == [kind |-> "joined", name |-> name]
ToolFlag(name) == [kind |-> "tool flag", name |-> name]
HelpFlag == [kind |-> "help", name |-> "help"]
Tokens ==
  [kind : {"word", "flag", "joined", "tool flag", "help"}, name : ArgNames]

ASSUME LinesAssumption ==
  \A t \in Tools :
    /\ Typed[t] \subseteq Seq(Tokens)
    /\ ToolSteps[t] \in Seq({ToolSteps[t][i] : i \in DOMAIN ToolSteps[t]})

HasStep(t, kinds) ==
  \E i \in DOMAIN ToolSteps[t] : ToolSteps[t][i].do \in kinds

(* Whether a step is taken in a mode and for a command of the tool.          *)
AppliesIn(s, m, c) ==
  /\ s.only = {} \/ c \in s.only
  /\ c \notin s.but
  /\ m \in s.modes

(* Steps that take flags of jf out of the arguments, those that find the     *)
(* command of the tool, those that take it out.                              *)
Taking == {"values", "bools", "lenient", "greedy"}
Naming == {"command", "name", "image", "head"}
Dropping == {"command", "drop"}

(* What the table of a handler has done before it comes to step p.           *)
Passed(t, m, c, p) == {k \in 1 .. p - 1 : AppliesIn(ToolSteps[t][k], m, c)}
Did(t, m, c, p, kinds) ==
  \E k \in Passed(t, m, c, p) : ToolSteps[t][k].do \in kinds
TakenBefore(t, m, c, p) ==
  UNION {ToolSteps[t][k].flags :
           k \in {j \in Passed(t, m, c, p) : ToolSteps[t][j].do \in Taking}}

(* A handler comes to a step that applies if none before it ends the run, as *)
(* one does that needs a configuration, but for npm's --run-native.          *)
EndsRun(t, s, m) ==
  \/ s.do \in {"run", "refuse", "show"}
  \/ s.do = "config" /\ m \notin s.flags /\ "run-native" \notin Promised[t]
ComesTo(t, m, c, p) ==
  /\ AppliesIn(ToolSteps[t][p], m, c)
  /\ \A k \in Passed(t, m, c, p) : ~EndsRun(t, ToolSteps[t][k], m)

(* The command of the tool is known before anything depends on it.           *)
ASSUME CommandIsSettled ==
  \A t \in Tools : \A i, j \in DOMAIN ToolSteps[t] :
    i <= j /\ ToolSteps[t][j].do \in Naming =>
      ToolSteps[t][i].only = {} /\ ToolSteps[t][i].but = {}

(* A handler takes only its own flags, and none once it has taken the head   *)
(* of what was left.                                                         *)
TakesItsFlags(t, m, c, p) ==
  ToolSteps[t][p].do \in Taking =>
    /\ ToolSteps[t][p].flags \subseteq Promised[t]
    /\ ToolSteps[t][p].do = "greedy" => ToolSteps[t][p].flags \cap Switches = {}
    /\ ~Did(t, m, c, p, {"head"})
(* One that is not in SplitsFirst has taken them all when it looks for the   *)
(* command, and none takes a command away twice.                             *)
NamesTheCommand(t, m, c, p) ==
  /\ ToolSteps[t][p].do \in {"name", "image"} => t \in SplitsFirst
  /\ ToolSteps[t][p].do = "image" => ~Did(t, m, c, p, {"command", "name"})
  /\ ToolSteps[t][p].do \in Dropping =>
       /\ t \in SplitsFirst \/ Promised[t] \subseteq TakenBefore(t, m, c, p)
       /\ ~Did(t, m, c, p, Dropping)
(* The head is only for handlers that take values at once and before         *)
(* switches, and no command away.                                            *)
TakesTheHead(t, m, c, p) ==
  HasStep(t, {"head"}) =>
    /\ ToolSteps[t][p].do \notin {"command", "name", "drop", "image"}
    /\ ToolSteps[t][p].do \in Taking =>
         \/ /\ ToolSteps[t][p].do = "values"
            /\ TakenBefore(t, m, c, p) = {}
         \/ /\ ToolSteps[t][p].do = "bools"
            /\ ToolSteps[t][p].flags \subseteq Switches
    /\ ToolSteps[t][p].do = "head" =>
         /\ TakenBefore(t, m, c, p) = Promised[t]
         /\ ~Did(t, m, c, p, {"head"})
(* When the tool runs, all has been done but what Leaves says.               *)
RunsLast(t, m, c, p) ==
  ToolSteps[t][p].do = "run" =>
    /\ TakenBefore(t, m, c, p) = Promised[t] \ Leaves(t, m, c)
    /\ \A kinds \in {{"command", "name"}, {"image"}, {"head"}, Dropping} :
         HasStep(t, kinds) => Did(t, m, c, p, kinds)

CommandNames == ArgNames \cup {"", "buildx build"}
ASSUME ToolTablesAssumption ==
  /\ \A t \in DropsAWord : ~HasStep(t, Naming)
  /\ \A t \in Tools \ DropsAWord, m \in Modes, c \in CommandNames :
       \A p \in DOMAIN ToolSteps[t] :
         ComesTo(t, m, c, p) =>
           /\ TakesItsFlags(t, m, c, p)
           /\ NamesTheCommand(t, m, c, p)
           /\ TakesTheHead(t, m, c, p)
           /\ RunsLast(t, m, c, p)

VARIABLES
  tool,     \* the handler
  typed,    \* the arguments as they were typed
  mode,
  place,    \* the step it is at
  args,     \* the positions of the arguments that are left
  command,  \* the command of the tool
  image,    \* docker's image
  end

nvars == <<tool, typed, mode, place, args, command, image, end>>

Ends == {"running", "help", "usage", "failed", "panic", "ran"}

(* Of the arguments of a line that are at the positions in rest: j is the    *)
(* next after i; i is a flag with a value; j is the value of such a flag.    *)
Follows(rest, i, j) == i < j /\ \A k \in rest : k <= i \/ j <= k
Owns(token, flags) ==
  token.kind \in {"flag", "joined"} /\ token.name \in flags
Opens(token, flags) == token.kind = "flag" /\ token.name \in flags \ Switches
(* Of a flag of jf that is typed twice, the code takes the first away only:  *)
(* not modelled.                                                             *)
ASSUME FlagsComeOnce ==
  \A t \in Tools : \A line \in Typed[t] : \A i, j \in DOMAIN line :
    Owns(line[i], Promised[t]) /\ Owns(line[j], {line[i].name}) => i = j

IsValue(line, rest, j, flags) ==
  \E i \in rest : Opens(line[i], flags) /\ Follows(rest, i, j)
(* FindFlag and RemoveFlagFromCommand, FindBooleanFlag: a flag goes with its *)
(* value.                                                                    *)
Without(line, rest, flags) ==
  {i \in rest : ~Owns(line[i], flags) /\ ~IsValue(line, rest, i, flags)}
(* A flag that ends the line or is followed by one has no value.             *)
Torn(line, rest, flags) ==
  \E i \in rest :
    /\ Opens(line[i], flags)
    /\ \A j \in rest : Follows(rest, i, j) => line[j].kind # "word"
AtEnd(line, rest, flags) ==
  \E i \in rest :
    /\ line[i].kind = "flag" /\ line[i].name \in flags
    /\ \A j \in rest : j <= i

First(positions) ==
  IF positions = {} THEN 0
  ELSE CHOOSE i \in positions : \A j \in positions : i <= j
FirstWord(line, rest) == First({i \in rest : line[i].kind = "word"})
NameAt(line, i) == IF i = 0 THEN "" ELSE line[i].name
(* getCommandName: the first argument that is not a flag.                    *)
getCommandName(line, rest) == NameAt(line, FirstWord(line, rest))
WithoutCommand(line, rest) == rest \ {FirstWord(line, rest)}
SecondWord(line, rest) == FirstWord(line, WithoutCommand(line, rest))

(* Without a step that depends on it, the project's configuration is none.   *)
ModesOf(t) ==
  IF \E i \in DOMAIN ToolSteps[t] :
       ToolSteps[t][i].do = "config" \/ ToolSteps[t][i].modes # Modes
  THEN Modes ELSE {"none"}
StartTool(t, line, m) ==
  /\ tool' = t /\ typed' = line /\ mode' = m /\ place' = 1
  /\ args' = 1 .. Len(line)
  /\ command' = "" /\ image' = "" /\ end' = "running"

All == 1 .. Len(typed)
nstep == ToolSteps[tool][place]
Applicable(s) == AppliesIn(s, mode, command)
Does(kinds) ==
  /\ end = "running" /\ place \in 1 .. Len(ToolSteps[tool])
  /\ nstep.do \in kinds /\ Applicable(nstep)

Go(left) ==
  place' = place + 1 /\ args' = left
    /\ UNCHANGED <<tool, typed, mode, command, image, end>>
EndTool(how) ==
  end' = how /\ UNCHANGED <<tool, typed, mode, place, args, command, image>>
Split(cmd, left) ==
  place' = place + 1 /\ command' = cmd /\ args' = left
    /\ UNCHANGED <<tool, typed, mode, image, end>>

SkipStep ==
  /\ end = "running" /\ place \in 1 .. Len(ToolSteps[tool])
  /\ ~Applicable(nstep) /\ Go(args)
(* ShowCmdHelpIfNeeded shows help if --help is the only argument,            *)
(* ShowGenericCmdHelpIfNeeded if it is any of them.                          *)
HelpWanted ==
  \/ nstep.do = "help" /\ typed = <<HelpFlag>>
  \/ nstep.do = "any help" /\ \E i \in DOMAIN typed : typed[i] = HelpFlag
  \/ nstep.do = "show"
ShowsHelp ==
  /\ Does({"help", "any help", "show"})
  /\ IF HelpWanted THEN EndTool("help") ELSE Go(args)
CountArgs ==
  Does({"args"}) /\ IF typed = <<>> THEN EndTool("usage") ELSE Go(args)
(* --run-native asks npm for its native mode.                                *)
FindConfig ==
  /\ Does({"config"})
  /\ IF \/ mode \in nstep.flags
        \/ /\ "run-native" \in Promised[tool]
           /\ \E i \in DOMAIN typed : Owns(typed[i], {"run-native"})
       THEN Go(args) ELSE EndTool("failed")
LoadsServer == Does({"load"}) /\ (Go(args) \/ EndTool("failed"))
(* Wrong: looks among all that was typed.                                    *)
MutantSplitCommand ==
  /\ Does({"command"})
  /\ Split(getCommandName(typed, All), WithoutCommand(typed, args))

SplitCommand ==
  /\ Does({"command"})
  /\ Split(getCommandName(typed, args), WithoutCommand(typed, args))
NameCommand == Does({"name"}) /\ Split(getCommandName(typed, All), args)
DropWord == Does({"drop"}) /\ Go(WithoutCommand(typed, args))
(* The first word is the command and the second the image, or what buildx is *)
(* to do.                                                                    *)
FindImage ==
  /\ Does({"image"})
  /\ place' = place + 1
  /\ image' = NameAt(typed, SecondWord(typed, All))
  /\ command' = IF getCommandName(typed, All) = "buildx" /\ image' = "build"
                  THEN "buildx build" ELSE getCommandName(typed, All)
  /\ UNCHANGED <<tool, typed, mode, args, end>>
(* Wrong: a value that is not joined to its flag stays.                      *)
MutantTakeValues ==
  /\ Does({"values"})
  /\ IF Torn(typed, args, nstep.flags) THEN EndTool("usage")
     ELSE Go({i \in args : ~Owns(typed[i], nstep.flags)})

TakeValues ==
  /\ Does({"values"})
  /\ IF Torn(typed, args, nstep.flags) THEN EndTool("usage")
     ELSE Go(Without(typed, args, nstep.flags))
TakeSwitches == Does({"bools"}) /\ Go(Without(typed, args, nstep.flags))
TakeLeniently ==
  \/ Does({"lenient"})
       /\ Go(IF Torn(typed, args, nstep.flags) THEN args
             ELSE Without(typed, args, nstep.flags))
  \/ Does({"greedy"})
       /\ Go(IF AtEnd(typed, args, nstep.flags) THEN args
             ELSE Without(typed, args, nstep.flags))
(* Wrong: a single argument is none.                                         *)
MutantTakeHead ==
  /\ Does({"head"})
  /\ IF \A i, j \in args : i = j THEN EndTool("panic")
     ELSE Split(typed[First(args)].name, args \ {First(args)})

(* filteredArgs[0], of an empty slice if only flags of jf were typed.        *)
TakeHead ==
  /\ Does({"head"})
  /\ IF args = {} THEN EndTool("panic")
     ELSE Split(typed[First(args)].name, args \ {First(args)})
NeedOne ==
  Does({"single"}) /\ IF \E i \in args : args = {i} THEN Go(args)
                       ELSE EndTool("usage")
NeedScan ==
  /\ Does({"needs scan"})
  /\ IF (\E i \in DOMAIN typed : Owns(typed[i], nstep.flags))
          /\ (\A i \in DOMAIN typed : ~Owns(typed[i], {"scan"}))
       THEN EndTool("usage") ELSE Go(args)
RefuseCommand == Does({"refuse"}) /\ EndTool("failed")
(* The tool runs, by itself or below the command object of another module.   *)
RunTool == Does({"run"}) /\ (EndTool("ran") \/ EndTool("failed"))

ToolStep ==
  SkipStep \/ ShowsHelp \/ CountArgs \/ FindConfig \/ LoadsServer
    \/ SplitCommand \/ NameCommand \/ DropWord \/ FindImage \/ TakeValues
    \/ TakeSwitches \/ TakeLeniently \/ TakeHead \/ NeedOne \/ NeedScan
    \/ RefuseCommand \/ RunTool

(* ------------------------------ Properties ------------------------------- *)

Meant == Without(typed, All, Promised[tool])
(* The first word that was typed, or docker's second, is the value of a flag *)
(* of jf, and the handler looks for the command before it takes these away.  *)
Misread ==
  /\ tool \in SplitsFirst
  /\ \/ IsValue(typed, All, FirstWord(typed, All), Promised[tool])
     \/ /\ HasStep(tool, {"image"})
        /\ IsValue(typed, All, SecondWord(typed, All), Promised[tool])
(* A line with a flag of jf that lacks its value is not what the user meant. *)
Taken == Promised[tool] \ Leaves(tool, mode, command)
Understood == ~Misread /\ ~Torn(typed, All, Taken)

(* The tool runs the command that the user typed, wherever flags of jf and   *)
(* their values stand: `jf uv --build-name b sync` syncs. Known not to hold  *)
(* for handlers that look for the command first, which take b for it.        *)
CommandAsTyped ==
  end = "ran" /\ Understood =>
    /\ HasStep(tool, {"command", "name"}) =>
         command = getCommandName(typed, Meant)
    /\ HasStep(tool, {"image"}) =>
         image = NameAt(typed, SecondWord(typed, Meant))

(* The tool gets every other argument that the user typed, in their order,   *)
(* and no flag of jf but those in Leaves. Known not to hold for the          *)
(* deprecated npm commands, which take their first argument for the command. *)
Mine == Without(typed, All, Taken)
Handed ==
  IF HasStep(tool, {"head"}) THEN Mine \ {First(Mine)}
  ELSE IF HasStep(tool, Dropping) THEN WithoutCommand(typed, Mine) ELSE Mine
ArgsReachTool ==
  end = "ran" /\ Understood /\ tool \notin DropsAWord => args = Handed

(* Only a line without a command of the tool can make a handler panic.       *)
OnlyEmptyPanics == end = "panic" => Meant = {}
=============================================================================
