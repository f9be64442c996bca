----------------------------- MODULE CommandRun -----------------------------
(* One run of a command whose flags the command line library parses: the     *)
(* library hands the handler the flags and arguments the user gave, and the  *)
(* handler takes the steps of its table.                                     *)
EXTENDS Integers, Sequences, FiniteSets

CONSTANTS
  Commands,    \* the handlers
  Declared,    \* the names of the flags that each declares
  Steps,       \* the steps of each, as in CliHandlers
  NArgs,       \* numbers of arguments
  FirstWords,  \* first arguments
  NoWord,      \* the first argument where there is none
  MaxFlags,    \* bound on the flags given besides those a handler needs
  ActsFirst,   \* handlers known to look at a flag after they have acted
  PrintsFew,   \* handlers known to act before they find that what they print
               \* has no form that a value they have accepted asks for
  Ignores,     \* flags known to have no effect, per handler
  Unchecked    \* values known not to be checked, per handler

VARIABLES
  cmd,      \* the handler that runs
  line,     \* what the user gave it, and whether the environment is a CI's
  at,       \* the step it is at
  used,     \* the given flags that it has read so far
  effects,  \* "done" its work, "config" saved a server, "error" of its work
            \* that it has kept for later
  outcome

cvars == <<cmd, line, at, used, effects, outcome>>

Kinds == {"refuse", "check", "lookup", "server", "offer", "load", "confirm",
          "read", "report", "exec", "try", "print", "return"}
Outcomes == {"running", "usage", "failed", "declined", "ok"}

ASSUME TablesAssumption ==
  /\ MaxFlags \in Nat
  /\ Declared \in [Commands -> SUBSET UNION {Declared[c] : c \in Commands}]
  /\ DOMAIN Steps = Commands
  /\ \A c \in Commands :
       /\ Steps[c] \in Seq(UNION {{Steps[d][i] : i \in 1 .. Len(Steps[d])} :
                                     d \in Commands})
       /\ \A i \in 1 .. Len(Steps[c]) : Steps[c][i].do \in Kinds

(* Steps that look at the flags given, or take them over.                    *)
Reading ==
  {"check", "load", "server", "offer", "confirm", "read", "exec", "try",
   "print"}
(* Steps that do the work of a handler.                                      *)
Work == {"exec", "try"}
(* Steps that can end a run with a usage error, and the guard of a step.     *)
Refusals == {"refuse", "check", "lookup", "print"}
Guard(s) == <<s.any, s.all, s.none, s.nargs, s.words, s.ci>>

(* A handler that has acted comes to no step that could refuse the line,     *)
(* unless a return on the same condition stands between or the step is the   *)
(* printing of one of PrintsFew.                                             *)
ASSUME RefusesFirst ==
  \A c \in Commands \ ActsFirst : \A i, j \in 1 .. Len(Steps[c]) :
    i < j /\ Steps[c][i].do \in Work /\ Steps[c][j].do \in Refusals =>
      \/ c \in PrintsFew /\ Steps[c][j].do = "print"
      \/ \E k \in i .. j :
           Steps[c][k].do = "return" /\ Guard(Steps[c][k]) = Guard(Steps[c][i])

(* Whether the guard of a step holds for a line.                             *)
AppliesTo(s, l) ==
  /\ s.any = {} \/ s.any \cap l.given # {}
  /\ s.all \subseteq l.given
  /\ s.none \cap l.given = {}
  /\ l.nargs \in s.nargs
  /\ l.word \in s.words
  /\ l.ci \in s.ci

step == Steps[cmd][at]
Running == outcome = "running" /\ at \in 1 .. Len(Steps[cmd])

(* The flags without which a handler always refuses.                         *)
Needed(c) ==
  UNION {Steps[c][i].none : i \in {j \in 1 .. Len(Steps[c]) :
           Steps[c][j].do = "refuse" /\ Steps[c][j].any = {}
             /\ Steps[c][j].all = {}}}

(* The flags of which it checks the value, and --format, which every handler *)
(* that has it checks on one branch at least.                                *)
Checkable(c) ==
  Declared[c] \cap
    ({"format"} \cup
       UNION {Steps[c][i].flags :
                i \in {j \in 1 .. Len(Steps[c]) : Steps[c][j].do = "check"}})

(* The flags that choose in which form it prints.                            *)
Printable(c) ==
  Declared[c] \cap
    UNION {Steps[c][i].flags :
             i \in {j \in 1 .. Len(Steps[c]) : Steps[c][j].do = "print"}}

(* The flags that guards of a handler ask for, and all that they can tell of *)
(* a line, however many other flags it has.                                  *)
GuardFlags(c) ==
  UNION {Steps[c][i].any \cup Steps[c][i].all \cup Steps[c][i].none :
           i \in 1 .. Len(Steps[c])}
Situations(c) ==
  [given : SUBSET (GuardFlags(c) \cap Declared[c]),
   nargs : NArgs, word : FirstWords, ci : BOOLEAN]

(* In this situation the handler refuses the line or, before it returns,     *)
(* comes to a step of these kinds that has the flag.                         *)
Reached(c, i, x) ==
  /\ AppliesTo(Steps[c][i], x)
  /\ \A j \in 1 .. i - 1 :
       Steps[c][j].do = "return" => ~AppliesTo(Steps[c][j], x)
Meets(c, x, f, kinds) ==
  \E i \in 1 .. Len(Steps[c]) :
    /\ Reached(c, i, x)
    /\ \/ Steps[c][i].do = "refuse"
       \/ Steps[c][i].do \in kinds /\ f \in Steps[c][i].flags
MeetsAll(c, flags, kinds) ==
  \A x \in Situations(c) : \A f \in flags :
    (f \in GuardFlags(c) => f \in x.given) => Meets(c, x, f, kinds)

(* Every flag that a handler declares is read, and every value of which it   *)
(* knows malformed ones is checked, on whichever of its branches it gets to  *)
(* the end, but for those that are known not to be.                          *)
ASSUME EveryFlagIsRead ==
  \A c \in Commands : MeetsAll(c, Declared[c] \ Ignores[c], Reading)
ASSUME EveryValueIsChecked ==
  \A c \in Commands :
    /\ MeetsAll(c, Checkable(c) \ Unchecked[c], {"check"})
    /\ MeetsAll(c, Printable(c) \ Unchecked[c], {"print"})

(* A line that the library accepts: declared flags and any arguments. The    *)
(* values given in bad are malformed. Those in unprinted are values that     *)
(* GetOutputFormat of the core knows, such as sarif, and that the handler    *)
(* has no way to print.                                                      *)
Lines(c) ==
  {l \in [given : {F \in SUBSET Declared[c] :
                     Cardinality(F \ Needed(c)) <= MaxFlags},
          bad : {{}} \cup {{f} : f \in Checkable(c)},
          unprinted : {{}} \cup {{f} : f \in Printable(c)},
          nargs : NArgs, word : FirstWords, ci : BOOLEAN] :
     /\ l.bad \subseteq l.given /\ l.unprinted \subseteq l.given \ l.bad
     /\ l.nargs = 0 => l.word = NoWord}

Begin(c, l) ==
  /\ cmd' = c /\ line' = l
  /\ at' = 1 /\ used' = {} /\ effects' = {} /\ outcome' = "running"

Applies(s) == AppliesTo(s, line)

Pass(flags, effect) ==
  /\ at' = at + 1
  /\ used' = used \cup (flags \cap line.given)
  /\ effects' = effects \cup effect
  /\ UNCHANGED <<cmd, line, outcome>>
Stop(how, effect) ==
  /\ outcome' = how
  /\ effects' = effects \cup effect
  /\ UNCHANGED <<cmd, line, at, used>>

Takes(kinds) == Running /\ step.do \in kinds /\ Applies(step)

(* An if whose condition does not hold.                                      *)
Skip == Running /\ ~Applies(step) /\ Pass({}, {})
(* PrintHelpAndReturnError, or another error for how the line was typed.     *)
RefuseLine == Takes({"refuse"}) /\ Stop("usage", {})
(* Wrong: takes a malformed value for the default one.                       *)
MutantCheckFlag == Takes({"check"}) /\ Pass(step.flags, {})

CheckFlag ==
  /\ Takes({"check"})
  /\ IF step.flags \cap line.bad # {} THEN Stop("usage", {})
     ELSE Pass(step.flags, {})
(* An argument or a setting of the environment that may be unacceptable.     *)
LookUp == Takes({"lookup"}) /\ (Pass({}, {}) \/ Stop("usage", {}))
(* Reading files, servers of the configuration, or Artifactory.              *)
Loads ==
  /\ Takes({"load", "server", "offer"})
  /\ Pass(step.flags, {}) \/ Stop("failed", {})
(* Wrong: goes on with the server that was saved, whatever flags were given. *)
MutantAcceptOffer ==
  /\ Takes({"offer"}) /\ ~line.ci
  /\ Pass({}, {"config"}) \/ Stop("failed", {"config"})

(* The user accepts the offer to configure a server first, and that may      *)
(* succeed or fail.                                                          *)
AcceptOffer ==
  /\ Takes({"offer"}) /\ ~line.ci
  /\ Pass(step.flags, {"config"}) \/ Stop("failed", {"config"})
(* AskYesNo, unless --quiet is given or the environment is a CI's.           *)
Ask ==
  /\ Takes({"confirm"})
  /\ \/ Pass(step.flags, {})
     \/ step.flags \cap line.given = {} /\ ~line.ci /\ Stop("declined", {})
Reads == Takes({"read"}) /\ Pass(step.flags, {})
(* StartReport; what the reporter does is in JfRun.                          *)
StartsReport == Takes({"report"}) /\ Pass({}, {})
(* The command object of another module runs; it can fail before or after    *)
(* it has changed something.                                                 *)
Act ==
  /\ Takes({"exec"})
  /\ \/ Pass(step.flags, {"done"})
     \/ \E effect \in {{}, {"done"}} : Stop("failed", effect)
(* As Act, with an error that is kept while the handler goes on.             *)
Try ==
  /\ Takes({"try"})
  /\ \/ Pass(step.flags, {"done"})
     \/ \E effect \in {{}, {"done"}} : Pass(step.flags, {"error"} \cup effect)
(* The switch over the formats: the default one refuses the format, and to   *)
(* print an answer as a table, which has to be parsed first, may fail.       *)
PrintResponse ==
  /\ Takes({"print"})
  /\ IF step.flags \cap line.unprinted # {} THEN Stop("usage", {})
     ELSE Pass(step.flags, {}) \/ Stop("failed", {})
(* Wrong: goes on.                                                           *)
MutantReturnEarly == Takes({"return"}) /\ Pass({}, {})

ReturnEarly == Takes({"return"}) /\ Stop("ok", {})

Finish ==
  /\ outcome = "running" /\ at = Len(Steps[cmd]) + 1
  /\ Stop(IF "error" \in effects THEN "failed" ELSE "ok", {})

HandlerStep ==
  Skip \/ RefuseLine \/ CheckFlag \/ LookUp \/ Loads \/ AcceptOffer \/ Ask
    \/ Reads \/ StartsReport \/ Act \/ Try \/ PrintResponse \/ ReturnEarly
    \/ Finish

(* ------------------------------ Properties ------------------------------- *)

TypeOK ==
  /\ cmd \in Commands
  /\ line.given \subseteq Declared[cmd]
  /\ line.bad \cup line.unprinted \subseteq line.given
  /\ at \in 1 .. Len(Steps[cmd]) + 1
  /\ used \subseteq line.given
  /\ effects \subseteq {"done", "config", "error"}
  /\ outcome \in Outcomes

(* A handler refuses a line before it does its work: whoever gets a usage    *)
(* error can correct the line and run it again. Two kinds of handlers are    *)
(* known to do otherwise: those of ActsFirst look at --format when the work  *)
(* is done, and those of PrintsFew, which have looked at it, find only then  *)
(* that they cannot print a format that the core knows.                      *)
RefusedUntouched ==
  outcome = "usage" /\ "done" \in effects =>
    cmd \in ActsFirst \/ (cmd \in PrintsFew /\ line.unprinted # {})

(* When a command succeeds, every flag the user gave has been read and taken *)
(* part in what it did. Ignores has the flags that are declared and have no  *)
(* effect, such as --admin of user-create.                                   *)
GivenFlagsCount ==
  outcome = "ok" => line.given \subseteq used \cup Ignores[cmd]

(* A command that succeeds was given no malformed value and no format that   *)
(* it cannot print, on whichever of its branches it ran.                     *)
AcceptedIsValid ==
  outcome = "ok" => line.bad \cup line.unprinted \subseteq Unchecked[cmd]
=============================================================================
