---------------------------- MODULE JfRun_proofs ----------------------------
(* Theorems about a run of jf, for all tables of commands, flags and steps   *)
(* that satisfy the assumptions of CommandRun and NativeRun.                 *)
EXTENDS JfRun, WellFoundedInduction, TLAPS

USE TablesAssumption

(* A table is a sequence.                                                    *)
LEMMA TableLength ==
  ASSUME NEW c \in Commands
  PROVE  Len(Steps[c]) \in Nat
  BY DEF Kinds

(* ------------------------------- Types ----------------------------------- *)

(* The library hands a handler a line of its own.                            *)
LEMMA BeginTypes ==
  ASSUME NEW c \in Commands, NEW l \in Lines(c), Begin(c, l)
  PROVE  TypeOK'
  <1>1. /\ l.given \subseteq Declared[c]
        /\ l.bad \cup l.unprinted \subseteq l.given
    BY DEF Lines
  <1>2. 1 \in 1 .. Len(Steps[c]) + 1
    BY TableLength
  <1> QED
    BY <1>1, <1>2 DEF Begin, TypeOK, Outcomes

(* Going to the next step, or stopping, keeps the types.                     *)
LEMMA PassTypes ==
  ASSUME TypeOK, Running, NEW flags,
         NEW effect \in SUBSET {"done", "config", "error"}, Pass(flags, effect)
  PROVE  TypeOK'
  <1>1. at + 1 \in 1 .. Len(Steps[cmd]) + 1
    BY TableLength DEF TypeOK, Running
  <1> QED
    BY <1>1 DEF TypeOK, Pass

LEMMA StopTypes ==
  ASSUME TypeOK, NEW how \in Outcomes,
         NEW effect \in SUBSET {"done", "config", "error"}, Stop(how, effect)
  PROVE  TypeOK'
  BY DEF TypeOK, Stop

LEMMA HandlerTypes ==
  ASSUME TypeOK, HandlerStep
  PROVE  TypeOK'
  <1> USE DEF Takes
  <1>1. CASE Skip
    BY <1>1, PassTypes DEF Skip
  <1>2. CASE RefuseLine
    BY <1>2, StopTypes DEF RefuseLine, Outcomes
  <1>3. CASE CheckFlag
    BY <1>3, PassTypes, StopTypes DEF CheckFlag, Outcomes
  <1>4. CASE LookUp
    BY <1>4, PassTypes, StopTypes DEF LookUp, Outcomes
  <1>5. CASE Loads
    BY <1>5, PassTypes, StopTypes DEF Loads, Outcomes
  <1>6. CASE AcceptOffer
    BY <1>6, PassTypes, StopTypes DEF AcceptOffer, Outcomes
  <1>7. CASE Ask
    BY <1>7, PassTypes, StopTypes DEF Ask, Outcomes
  <1>8. CASE Reads
    BY <1>8, PassTypes DEF Reads
  <1>9. CASE StartsReport
    BY <1>9, PassTypes DEF StartsReport
  <1>10. CASE Act
    <2>1. CASE Pass(step.flags, {"done"})
      BY <1>10, <2>1, PassTypes DEF Act
    <2>2. CASE \E effect \in {{}, {"done"}} : Stop("failed", effect)
      BY <2>2, StopTypes DEF Outcomes
    <2> QED
      BY <1>10, <2>1, <2>2 DEF Act
  <1>11. CASE ReturnEarly
    BY <1>11, StopTypes DEF ReturnEarly, Outcomes
  <1>12. CASE Finish
    BY <1>12, StopTypes DEF Finish, Outcomes
  <1>13. CASE Try
    <2>1. CASE Pass(step.flags, {"done"})
      BY <1>13, <2>1, PassTypes DEF Try
    <2>2. CASE \E effect \in {{}, {"done"}} :
                 Pass(step.flags, {"error"} \cup effect)
      BY <1>13, <2>2, PassTypes DEF Try
    <2> QED
      BY <1>13, <2>1, <2>2 DEF Try
  <1>14. CASE PrintResponse
    BY <1>14, PassTypes, StopTypes DEF PrintResponse, Outcomes
  <1> QED
    BY <1>1, <1>2, <1>3, <1>4, <1>5, <1>6, <1>7, <1>8, <1>9, <1>10, <1>11,
       <1>12, <1>13, <1>14 DEF HandlerStep

(* A wrapped command starts in a mode it can be in and keeps it.             *)
LEMMA StartToolTypes ==
  ASSUME NEW t \in Tools, NEW l, NEW m \in ModesOf(t), StartTool(t, l, m)
  PROVE  tool' \in Tools /\ mode' \in Modes /\ end' \in Ends
  BY ModesAssumption DEF ModesOf, StartTool, Ends

LEMMA ToolTypes ==
  ASSUME tool \in Tools, mode \in Modes, end \in Ends, ToolStep
  PROVE  tool' \in Tools /\ mode' \in Modes /\ end' \in Ends
  BY DEF ToolStep, SkipStep, ShowsHelp, CountArgs, FindConfig, LoadsServer,
         SplitCommand, NameCommand, DropWord, FindImage, TakeValues,
         TakeSwitches, TakeLeniently, TakeHead, NeedOne, NeedScan,
         RefuseCommand, RunTool, Go, Split, EndTool, Ends

LEMMA DispatchTypes ==
  ASSUME NEW alias, NEW c, Dispatch(alias, c)
  PROVE  /\ phase' \in {"after", "parsed", "native"}
         /\ phase' = "parsed" => TypeOK'
         /\ phase' = "native" =>
              tool' \in Tools /\ mode' \in Modes /\ end' \in Ends
  BY BeginTypes, StartToolTypes DEF Dispatch

LEMMA NextTypes ==
  ASSUME JTypeOK, [Next]_vars
  PROVE  JTypeOK'
  <1> USE DEF JTypeOK, Phases, ReportStates
  <1>1. CASE TypeCommand
    BY <1>1, DispatchTypes DEF TypeCommand
  <1>2. CASE TypeAlias
    BY <1>2, DispatchTypes DEF TypeAlias
  <1>3. CASE RunHandler
    BY <1>3, HandlerTypes DEF RunHandler
  <1>4. CASE RunNative
    BY <1>4, ToolTypes DEF RunNative, jvars
  <1>5. CASE ReporterSignals \/ ReporterPanics
    BY <1>5 DEF ReporterSignals, ReporterPanics, cvars, nvars, TypeOK
  <1>6. CASE Return \/ Receive \/ TimeOut
    BY <1>6 DEF Return, Receive, TimeOut
  <1>7. CASE ExitInside \/ CleanUpAndExit
    BY <1>7 DEF ExitInside, CleanUpAndExit, Exit
  <1>8. CASE UNCHANGED vars
    BY <1>8 DEF vars, cvars, nvars, jvars, TypeOK
  <1> QED
    BY <1>1, <1>2, <1>3, <1>4, <1>5, <1>6, <1>7, <1>8 DEF Next, Proceeds, Done

(* The variables of the handler and of the wrapped tool are of their types   *)
(* while one of them runs.                                                   *)
THEOREM RunTypes == JSpec => []JTypeOK
  <1>1. Init => JTypeOK
    BY DEF Init, JTypeOK, Phases, ReportStates
  <1> QED
    BY <1>1, NextTypes, PTL DEF JSpec

(* ------------------------ A refused line is untouched --------------------- *)

(* What a handler that still runs has behind it: no return whose condition   *)
(* held and, if it has done its work, the step that did it.                  *)
Behind ==
  /\ \A k \in 1 .. at - 1 : Steps[cmd][k].do = "return" =>
                              ~Applies(Steps[cmd][k])
  /\ "done" \in effects =>
       \E i \in 1 .. at - 1 : Steps[cmd][i].do \in Work
                                /\ Applies(Steps[cmd][i])
HandlerInv ==
  /\ outcome = "idle" => effects = {}
  /\ outcome = "running" =>
       cmd \in Commands /\ at \in 1 .. Len(Steps[cmd]) + 1 /\ Behind
  /\ RefusedUntouched

(* Whether a step applies depends on its guard alone.                        *)
LEMMA SameGuard ==
  ASSUME NEW s, NEW t, Guard(s) = Guard(t), Applies(s)
  PROVE  Applies(t)
  BY DEF Guard, Applies, AppliesTo

(* At a step that can refuse, the work has not been done, but where one of   *)
(* PrintsFew prints.                                                         *)
LEMMA RefusalsComeFirst ==
  ASSUME HandlerInv, Takes(Refusals), cmd \notin ActsFirst,
         ~(cmd \in PrintsFew /\ step.do = "print")
  PROVE  "done" \notin effects
  <1> SUFFICES ASSUME "done" \in effects PROVE FALSE
    OBVIOUS
  <1>1. /\ cmd \in Commands /\ at \in 1 .. Len(Steps[cmd]) /\ Behind
        /\ Steps[cmd][at].do \in Refusals
        /\ ~(cmd \in PrintsFew /\ Steps[cmd][at].do = "print")
    BY DEF HandlerInv, Takes, Running, step
  <1>2. Len(Steps[cmd]) \in Nat
    BY <1>1, TableLength
  <1>3. PICK i \in 1 .. at - 1 :
          Steps[cmd][i].do \in Work /\ Applies(Steps[cmd][i])
    BY <1>1 DEF Behind
  <1>4. i \in 1 .. Len(Steps[cmd]) /\ i < at
    BY <1>1, <1>2, <1>3
  <1>5. PICK k \in i .. at :
          /\ Steps[cmd][k].do = "return"
          /\ Guard(Steps[cmd][k]) = Guard(Steps[cmd][i])
    BY <1>1, <1>3, <1>4, RefusesFirst
  <1>6. Applies(Steps[cmd][k])
    BY <1>3, <1>5, SameGuard
  <1>7. k # at
    BY <1>1, <1>5 DEF Refusals
  <1>8. k \in 1 .. at - 1
    BY <1>1, <1>3, <1>4, <1>5, <1>7
  <1> QED
    BY <1>1, <1>5, <1>6, <1>8 DEF Behind

(* A step that goes on and does no work leaves behind what was behind it,    *)
(* and itself, if it was no return or did not apply.                         *)
LEMMA PassKeeps ==
  ASSUME HandlerInv, Running, NEW flags, NEW effect,
         Pass(flags, effect),
         step.do = "return" => ~Applies(step),
         "done" \in effect => step.do \in Work /\ Applies(step)
  PROVE  HandlerInv'
  <1>1. /\ cmd \in Commands /\ at \in 1 .. Len(Steps[cmd]) /\ Behind
        /\ cmd' = cmd /\ line' = line /\ at' = at + 1 /\ outcome' = "running"
        /\ effects' = effects \cup effect
    BY DEF HandlerInv, Running, Pass
  <1>2. Len(Steps[cmd]) \in Nat
    BY <1>1, TableLength
  <1>3. at' \in 1 .. Len(Steps[cmd]) + 1 /\ at' - 1 = at
    BY <1>1, <1>2
  <1>4. \A k \in 1 .. at : k = at \/ k \in 1 .. at - 1
    BY <1>1, <1>2
  <1>5. \A s : Applies(s)' = Applies(s)
    BY <1>1 DEF Applies
  <1>6. \A k \in 1 .. at : Steps[cmd][k].do = "return" =>
                             ~Applies(Steps[cmd][k])
    BY <1>1, <1>4 DEF Behind, step
  <1>7. "done" \in effects' =>
          \E i \in 1 .. at : Steps[cmd][i].do \in Work
                               /\ Applies(Steps[cmd][i])
    <2>1. CASE "done" \in effects
      <3>1. PICK i \in 1 .. at - 1 :
              Steps[cmd][i].do \in Work /\ Applies(Steps[cmd][i])
        BY <1>1, <2>1 DEF Behind
      <3>2. i \in 1 .. at
        BY <1>1, <1>2
      <3> QED
        BY <3>1, <3>2
    <2>2. CASE "done" \in effect
      <3>1. at \in 1 .. at
        BY <1>1, <1>2
      <3> QED
        BY <2>2, <3>1 DEF step
    <2> QED
      BY <1>1, <2>1, <2>2
  <1>8. Behind'
    BY <1>1, <1>3, <1>6, <1>7 DEF Behind, Applies
  <1> QED
    BY <1>1, <1>3, <1>8 DEF HandlerInv, RefusedUntouched

(* A step that ends the run otherwise than by refusing the line.             *)
LEMMA StopKeeps ==
  ASSUME NEW how \in Outcomes \ {"running", "usage"}, NEW effect,
         Stop(how, effect)
  PROVE  HandlerInv'
  BY DEF Stop, HandlerInv, RefusedUntouched, Outcomes

LEMMA UsageKeeps ==
  ASSUME HandlerInv, Takes(Refusals), Stop("usage", {}),
         step.do = "print" => line.unprinted # {}
  PROVE  HandlerInv'
  BY RefusalsComeFirst DEF Stop, HandlerInv, RefusedUntouched

LEMMA HandlerKeeps ==
  ASSUME HandlerInv, HandlerStep
  PROVE  HandlerInv'
  <1>1. CASE Skip
    BY <1>1, PassKeeps DEF Skip
  <1>2. CASE RefuseLine
    <2>1. Takes(Refusals) /\ step.do = "refuse" /\ Stop("usage", {})
      BY <1>2 DEF RefuseLine, Takes, Refusals
    <2> QED
      BY <2>1, UsageKeeps
  <1>3. CASE CheckFlag
    <2>1. Takes(Refusals) /\ Running /\ step.do = "check"
      BY <1>3 DEF CheckFlag, Takes, Refusals
    <2>2. Stop("usage", {}) \/ Pass(step.flags, {})
      BY <1>3 DEF CheckFlag
    <2> QED
      BY <2>1, <2>2, UsageKeeps, PassKeeps
  <1>4. CASE LookUp
    <2>1. Takes(Refusals) /\ Running /\ step.do = "lookup"
      BY <1>4 DEF LookUp, Takes, Refusals
    <2>2. Stop("usage", {}) \/ Pass({}, {})
      BY <1>4 DEF LookUp
    <2> QED
      BY <2>1, <2>2, UsageKeeps, PassKeeps
  <1>5. CASE Loads
    BY <1>5, PassKeeps, StopKeeps DEF Loads, Takes, Outcomes
  <1>6. CASE AcceptOffer
    BY <1>6, PassKeeps, StopKeeps DEF AcceptOffer, Takes, Outcomes
  <1>7. CASE Ask
    BY <1>7, PassKeeps, StopKeeps DEF Ask, Takes, Outcomes
  <1>8. CASE Reads
    BY <1>8, PassKeeps DEF Reads, Takes
  <1>9. CASE StartsReport
    BY <1>9, PassKeeps DEF StartsReport, Takes
  <1>10. CASE Act
    <2>1. CASE Pass(step.flags, {"done"})
      BY <1>10, <2>1, PassKeeps DEF Act, Takes, Work
    <2>2. CASE \E effect \in {{}, {"done"}} : Stop("failed", effect)
      BY <2>2, StopKeeps DEF Outcomes
    <2> QED
      BY <1>10, <2>1, <2>2 DEF Act
  <1>11. CASE ReturnEarly
    BY <1>11, StopKeeps DEF ReturnEarly, Outcomes
  <1>12. CASE Finish
    BY <1>12, StopKeeps DEF Finish, Outcomes
  <1>13. CASE Try
    <2>1. CASE Pass(step.flags, {"done"})
      BY <1>13, <2>1, PassKeeps DEF Try, Takes, Work
    <2>2. CASE \E effect \in {{}, {"done"}} :
                 Pass(step.flags, {"error"} \cup effect)
      BY <1>13, <2>2, PassKeeps DEF Try, Takes, Work
    <2> QED
      BY <1>13, <2>1, <2>2 DEF Try
  <1>14. CASE PrintResponse
    <2>1. Takes(Refusals) /\ Running /\ step.do = "print"
      BY <1>14 DEF PrintResponse, Takes, Refusals
    <2>2. CASE step.flags \cap line.unprinted # {} /\ Stop("usage", {})
      BY <2>1, <2>2, UsageKeeps
    <2>3. CASE Pass(step.flags, {})
      BY <2>1, <2>3, PassKeeps
    <2>4. CASE Stop("failed", {})
      BY <2>4, StopKeeps DEF Outcomes
    <2> QED
      BY <1>14, <2>2, <2>3, <2>4 DEF PrintResponse
  <1> QED
    BY <1>1, <1>2, <1>3, <1>4, <1>5, <1>6, <1>7, <1>8, <1>9, <1>10, <1>11,
       <1>12, <1>13, <1>14 DEF HandlerStep

(* A new line finds nothing done.                                            *)
LEMMA BeginKeeps ==
  ASSUME NEW c \in Commands, NEW l, Begin(c, l)
  PROVE  HandlerInv'
  <1>1. /\ cmd' = c /\ at' = 1 /\ effects' = {} /\ outcome' = "running"
    BY DEF Begin
  <1>2. 1 \in 1 .. Len(Steps[c]) + 1 /\ 1 .. 1 - 1 = {}
    BY TableLength
  <1> QED
    BY <1>1, <1>2 DEF HandlerInv, Behind, RefusedUntouched

LEMMA UnchangedKeeps ==
  ASSUME HandlerInv, UNCHANGED cvars
  PROVE  HandlerInv'
  BY DEF HandlerInv, Behind, RefusedUntouched, Applies, cvars

LEMMA DispatchKeeps ==
  ASSUME HandlerInv, NEW alias, NEW c, Dispatch(alias, c)
  PROVE  HandlerInv'
  BY BeginKeeps, UnchangedKeeps DEF Dispatch

LEMMA NextKeeps ==
  ASSUME HandlerInv, [Next]_vars
  PROVE  HandlerInv'
  <1>1. CASE TypeCommand
    BY <1>1, DispatchKeeps, UnchangedKeeps DEF TypeCommand
  <1>2. CASE TypeAlias
    BY <1>2, DispatchKeeps, UnchangedKeeps DEF TypeAlias
  <1>3. CASE RunHandler
    BY <1>3, HandlerKeeps DEF RunHandler
  <1>4. CASE RunNative \/ ReporterSignals \/ ReporterPanics
    BY <1>4, UnchangedKeeps DEF RunNative, ReporterSignals, ReporterPanics
  <1>5. CASE Return \/ Receive \/ TimeOut
    BY <1>5, UnchangedKeeps DEF Return, Receive, TimeOut
  <1>6. CASE ExitInside \/ CleanUpAndExit
    BY <1>6, UnchangedKeeps DEF ExitInside, CleanUpAndExit, Exit
  <1>7. CASE UNCHANGED vars
    BY <1>7, UnchangedKeeps DEF vars
  <1> QED
    BY <1>1, <1>2, <1>3, <1>4, <1>5, <1>6, <1>7 DEF Next, Proceeds, Done

(* Whatever handlers refuse, they refuse before they have done their work,   *)
(* if RefusesFirst says so of their tables: the branches that return early   *)
(* are never left for a later refusal. The handlers of PrintsFew refuse only *)
(* a format that they cannot print afterwards, and for no other reason.      *)
THEOREM RefusedLinesAreUntouched == JSpec => []RefusedUntouched
  <1>1. Init => HandlerInv
    BY DEF Init, Idle, HandlerInv, RefusedUntouched
  <1>2. HandlerInv => RefusedUntouched
    BY DEF HandlerInv
  <1> QED
    BY <1>1, <1>2, NextKeeps, PTL DEF JSpec

(* -------------- Given flags are read and their values checked ------------- *)

(* What a handler that still runs has read and checked: all that the steps   *)
(* behind it ask for that applied, none of which ended the run.              *)
ReadBehind ==
  \A k \in 1 .. at - 1 : Applies(Steps[cmd][k]) =>
    /\ Steps[cmd][k].do \notin {"refuse", "return"}
    /\ Steps[cmd][k].do \in Reading =>
         Steps[cmd][k].flags \cap line.given \subseteq used
    /\ Steps[cmd][k].do = "check" => Steps[cmd][k].flags \cap line.bad = {}
    /\ Steps[cmd][k].do = "print" =>
         Steps[cmd][k].flags \cap line.unprinted = {}
FlagsInv ==
  /\ outcome = "running" =>
       /\ cmd \in Commands /\ line \in Lines(cmd)
       /\ at \in 1 .. Len(Steps[cmd]) + 1
       /\ ReadBehind
  /\ GivenFlagsCount /\ AcceptedIsValid

(* Guards tell of a line only its situation.                                 *)
Situation(c, l) ==
  [given |-> l.given \cap GuardFlags(c), nargs |-> l.nargs, word |-> l.word,
   ci |-> l.ci]
LEMMA LineSituation ==
  ASSUME NEW c \in Commands, NEW l \in Lines(c)
  PROVE  /\ Situation(c, l) \in Situations(c)
         /\ \A i \in 1 .. Len(Steps[c]) :
              AppliesTo(Steps[c][i], Situation(c, l)) <=>
                AppliesTo(Steps[c][i], l)
  <1>1. /\ l.given \subseteq Declared[c] /\ l.nargs \in NArgs
        /\ l.word \in FirstWords /\ l.ci \in BOOLEAN
    BY DEF Lines
  <1>2. Situation(c, l) \in Situations(c)
    BY <1>1 DEF Situation, Situations
  <1>3. ASSUME NEW i \in 1 .. Len(Steps[c])
        PROVE  AppliesTo(Steps[c][i], Situation(c, l)) <=>
                 AppliesTo(Steps[c][i], l)
    <2>1. /\ Steps[c][i].any \subseteq GuardFlags(c)
          /\ Steps[c][i].all \subseteq GuardFlags(c)
          /\ Steps[c][i].none \subseteq GuardFlags(c)
      BY DEF GuardFlags
    <2> QED
      BY <2>1 DEF AppliesTo, Situation
  <1> QED
    BY <1>2, <1>3

(* A handler that gets to its end, or to a return, has behind it whatever    *)
(* the tables say that it meets.                                             *)
AtEnding ==
  /\ outcome = "running"
  /\ at = Len(Steps[cmd]) + 1 \/ Takes({"return"})
LEMMA MetIsBehind ==
  ASSUME FlagsInv, AtEnding, NEW f \in line.given, NEW flags, f \in flags,
         NEW kinds \in SUBSET Reading, MeetsAll(cmd, flags, kinds)
  PROVE  \E k \in 1 .. at - 1 :
           /\ Applies(Steps[cmd][k])
           /\ Steps[cmd][k].do \in kinds /\ f \in Steps[cmd][k].flags
  <1> DEFINE x == Situation(cmd, line)
  <1>1. /\ cmd \in Commands /\ line \in Lines(cmd)
        /\ at \in 1 .. Len(Steps[cmd]) + 1 /\ ReadBehind
    BY DEF FlagsInv, AtEnding
  <1>2. Len(Steps[cmd]) \in Nat
    BY <1>1, TableLength
  <1>3. /\ x \in Situations(cmd)
        /\ \A i \in 1 .. Len(Steps[cmd]) :
             AppliesTo(Steps[cmd][i], x) <=> Applies(Steps[cmd][i])
    BY <1>1, LineSituation DEF Applies
  <1>4. f \in GuardFlags(cmd) => f \in x.given
    BY DEF Situation
  <1>5. Meets(cmd, x, f, kinds)
    BY <1>3, <1>4 DEF MeetsAll
  <1>6. PICK i \in 1 .. Len(Steps[cmd]) :
          /\ Reached(cmd, i, x)
          /\ \/ Steps[cmd][i].do = "refuse"
             \/ Steps[cmd][i].do \in kinds /\ f \in Steps[cmd][i].flags
    BY <1>5 DEF Meets
  <1>7. Applies(Steps[cmd][i])
    BY <1>3, <1>6 DEF Reached
  <1>8. Steps[cmd][i].do # "return"
    BY <1>6 DEF Reading
  <1>9. i \in 1 .. at - 1
    <2>1. CASE at = Len(Steps[cmd]) + 1
      BY <2>1, <1>2, <1>6
    <2>2. CASE Takes({"return"})
      <3>1. /\ at \in 1 .. Len(Steps[cmd]) /\ Steps[cmd][at].do = "return"
            /\ Applies(Steps[cmd][at])
        BY <2>2 DEF Takes, Running, step
      <3>2. AppliesTo(Steps[cmd][at], x)
        BY <1>3, <3>1
      <3>3. at \notin 1 .. i - 1
        BY <1>6, <3>1, <3>2 DEF Reached
      <3>4. i # at
        BY <1>8, <3>1
      <3> QED
        BY <1>2, <1>6, <3>1, <3>3, <3>4
    <2> QED
      BY <2>1, <2>2 DEF AtEnding
  <1>10. Steps[cmd][i].do # "refuse"
    BY <1>1, <1>7, <1>9 DEF ReadBehind
  <1> QED
    BY <1>6, <1>7, <1>9, <1>10

(* A run that ends well has read every flag and checked every value.         *)
LEMMA EndingIsSound ==
  ASSUME FlagsInv, AtEnding
  PROVE  /\ line.given \subseteq used \cup Ignores[cmd]
         /\ line.bad \cup line.unprinted \subseteq Unchecked[cmd]
  <1>1. cmd \in Commands /\ line \in Lines(cmd) /\ ReadBehind
    BY DEF FlagsInv, AtEnding
  <1>2. ASSUME NEW f \in line.given, f \notin Ignores[cmd]
        PROVE  f \in used
    <2>1. f \in Declared[cmd] \ Ignores[cmd]
      BY <1>1, <1>2 DEF Lines
    <2>2. MeetsAll(cmd, Declared[cmd] \ Ignores[cmd], Reading)
      BY <1>1, EveryFlagIsRead
    <2>3. \E k \in 1 .. at - 1 :
            /\ Applies(Steps[cmd][k])
            /\ Steps[cmd][k].do \in Reading /\ f \in Steps[cmd][k].flags
      BY <2>1, <2>2, MetIsBehind
    <2> QED
      BY <1>1, <2>3 DEF ReadBehind
  <1>3. ASSUME NEW f \in line.bad, f \notin Unchecked[cmd]
        PROVE  FALSE
    <2>1. f \in line.given /\ f \in Checkable(cmd) \ Unchecked[cmd]
      BY <1>1, <1>3 DEF Lines
    <2>2. MeetsAll(cmd, Checkable(cmd) \ Unchecked[cmd], {"check"})
      BY <1>1, EveryValueIsChecked
    <2>3. {"check"} \in SUBSET Reading
      BY DEF Reading
    <2>4. \E k \in 1 .. at - 1 :
            /\ Applies(Steps[cmd][k])
            /\ Steps[cmd][k].do \in {"check"} /\ f \in Steps[cmd][k].flags
      BY <2>1, <2>2, <2>3, MetIsBehind
    <2> QED
      BY <1>1, <1>3, <2>4 DEF ReadBehind
  <1>4. ASSUME NEW f \in line.unprinted, f \notin Unchecked[cmd]
        PROVE  FALSE
    <2>1. f \in line.given /\ f \in Printable(cmd) \ Unchecked[cmd]
      BY <1>1, <1>4 DEF Lines
    <2>2. MeetsAll(cmd, Printable(cmd) \ Unchecked[cmd], {"print"})
      BY <1>1, EveryValueIsChecked
    <2>3. {"print"} \in SUBSET Reading
      BY DEF Reading
    <2>4. \E k \in 1 .. at - 1 :
            /\ Applies(Steps[cmd][k])
            /\ Steps[cmd][k].do \in {"print"} /\ f \in Steps[cmd][k].flags
      BY <2>1, <2>2, <2>3, MetIsBehind
    <2> QED
      BY <1>1, <1>4, <2>4 DEF ReadBehind
  <1> QED
    BY <1>2, <1>3, <1>4

(* A step that goes on adds what it asks for to what is behind.              *)
LEMMA PassReads ==
  ASSUME FlagsInv, Running, NEW flags, NEW effect, Pass(flags, effect),
         Applies(step) =>
           /\ step.do \notin {"refuse", "return"}
           /\ step.do \in Reading => flags = step.flags
           /\ step.do = "check" => flags \cap line.bad = {}
           /\ step.do = "print" => flags \cap line.unprinted = {}
  PROVE  FlagsInv'
  <1>1. /\ cmd \in Commands /\ line \in Lines(cmd)
        /\ at \in 1 .. Len(Steps[cmd]) /\ ReadBehind
        /\ cmd' = cmd /\ line' = line /\ at' = at + 1 /\ outcome' = "running"
        /\ used' = used \cup (flags \cap line.given)
    BY DEF FlagsInv, Running, Pass
  <1>2. Len(Steps[cmd]) \in Nat
    BY <1>1, TableLength
  <1>3. at' \in 1 .. Len(Steps[cmd]) + 1 /\ at' - 1 = at
    BY <1>1, <1>2
  <1>4. \A k \in 1 .. at : k = at \/ k \in 1 .. at - 1
    BY <1>1, <1>2
  <1>5. ASSUME NEW k \in 1 .. at, Applies(Steps[cmd][k])
        PROVE  /\ Steps[cmd][k].do \notin {"refuse", "return"}
               /\ Steps[cmd][k].do \in Reading =>
                    Steps[cmd][k].flags \cap line.given \subseteq used'
               /\ Steps[cmd][k].do = "check" =>
                    Steps[cmd][k].flags \cap line.bad = {}
               /\ Steps[cmd][k].do = "print" =>
                    Steps[cmd][k].flags \cap line.unprinted = {}
    <2>1. CASE k = at
      BY <1>1, <1>5, <2>1 DEF step, Reading
    <2>2. CASE k \in 1 .. at - 1
      BY <1>1, <1>5, <2>2 DEF ReadBehind
    <2> QED
      BY <1>4, <2>1, <2>2
  <1>6. ReadBehind'
    BY <1>1, <1>3, <1>5 DEF ReadBehind, Applies
  <1> QED
    BY <1>1, <1>3, <1>6 DEF FlagsInv, GivenFlagsCount, AcceptedIsValid

(* A step that ends the run, but not well.                                   *)
LEMMA StopReads ==
  ASSUME NEW how \in Outcomes \ {"running", "ok"}, NEW effect,
         Stop(how, effect)
  PROVE  FlagsInv'
  BY DEF Stop, FlagsInv, GivenFlagsCount, AcceptedIsValid, Outcomes

LEMMA EndReads ==
  ASSUME FlagsInv, AtEnding, Stop("ok", {})
  PROVE  FlagsInv'
  BY EndingIsSound DEF Stop, FlagsInv, GivenFlagsCount, AcceptedIsValid

LEMMA HandlerReads ==
  ASSUME FlagsInv, HandlerStep
  PROVE  FlagsInv'
  <1> USE DEF Takes, Reading
  <1>1. CASE Skip
    BY <1>1, PassReads DEF Skip
  <1>2. CASE RefuseLine
    BY <1>2, StopReads DEF RefuseLine, Outcomes
  <1>3. CASE CheckFlag
    BY <1>3, PassReads, StopReads DEF CheckFlag, Outcomes
  <1>4. CASE LookUp
    BY <1>4, PassReads, StopReads DEF LookUp, Outcomes
  <1>5. CASE Loads
    BY <1>5, PassReads, StopReads DEF Loads, Outcomes
  <1>6. CASE AcceptOffer
    BY <1>6, PassReads, StopReads DEF AcceptOffer, Outcomes
  <1>7. CASE Ask
    BY <1>7, PassReads, StopReads DEF Ask, Outcomes
  <1>8. CASE Reads
    BY <1>8, PassReads DEF Reads
  <1>9. CASE StartsReport
    BY <1>9, PassReads DEF StartsReport
  <1>10. CASE Act
    <2>1. CASE Pass(step.flags, {"done"})
      BY <1>10, <2>1, PassReads DEF Act
    <2>2. CASE \E effect \in {{}, {"done"}} : Stop("failed", effect)
      BY <2>2, StopReads DEF Outcomes
    <2> QED
      BY <1>10, <2>1, <2>2 DEF Act
  <1>11. CASE ReturnEarly
    BY <1>11, EndReads DEF ReturnEarly, AtEnding, Running
  <1>12. CASE Finish
    BY <1>12, EndReads, StopReads DEF Finish, AtEnding, Outcomes
  <1>13. CASE Try
    <2>1. CASE Pass(step.flags, {"done"})
      BY <1>13, <2>1, PassReads DEF Try
    <2>2. CASE \E effect \in {{}, {"done"}} :
                 Pass(step.flags, {"error"} \cup effect)
      BY <1>13, <2>2, PassReads DEF Try
    <2> QED
      BY <1>13, <2>1, <2>2 DEF Try
  <1>14. CASE PrintResponse
    BY <1>14, PassReads, StopReads DEF PrintResponse, Outcomes
  <1> QED
    BY <1>1, <1>2, <1>3, <1>4, <1>5, <1>6, <1>7, <1>8, <1>9, <1>10, <1>11,
       <1>12, <1>13, <1>14 DEF HandlerStep

LEMMA BeginReads ==
  ASSUME NEW c \in Commands, NEW l \in Lines(c), Begin(c, l)
  PROVE  FlagsInv'
  <1>1. cmd' = c /\ line' = l /\ at' = 1 /\ outcome' = "running"
    BY DEF Begin
  <1>2. 1 \in 1 .. Len(Steps[c]) + 1 /\ 1 .. 1 - 1 = {}
    BY TableLength
  <1> QED
    BY <1>1, <1>2 DEF FlagsInv, ReadBehind, GivenFlagsCount, AcceptedIsValid

LEMMA UnchangedReads ==
  ASSUME FlagsInv, UNCHANGED cvars
  PROVE  FlagsInv'
  BY DEF FlagsInv, ReadBehind, GivenFlagsCount, AcceptedIsValid, Applies,
         cvars

LEMMA DispatchReads ==
  ASSUME FlagsInv, NEW alias, NEW c, Dispatch(alias, c)
  PROVE  FlagsInv'
  BY BeginReads, UnchangedReads DEF Dispatch

LEMMA NextReads ==
  ASSUME FlagsInv, [Next]_vars
  PROVE  FlagsInv'
  <1>1. CASE TypeCommand
    BY <1>1, DispatchReads, UnchangedReads DEF TypeCommand
  <1>2. CASE TypeAlias
    BY <1>2, DispatchReads, UnchangedReads DEF TypeAlias
  <1>3. CASE RunHandler
    BY <1>3, HandlerReads DEF RunHandler
  <1>4. CASE RunNative \/ ReporterSignals \/ ReporterPanics
    BY <1>4, UnchangedReads DEF RunNative, ReporterSignals, ReporterPanics
  <1>5. CASE Return \/ Receive \/ TimeOut
    BY <1>5, UnchangedReads DEF Return, Receive, TimeOut
  <1>6. CASE ExitInside \/ CleanUpAndExit
    BY <1>6, UnchangedReads DEF ExitInside, CleanUpAndExit, Exit
  <1>7. CASE UNCHANGED vars
    BY <1>7, UnchangedReads DEF vars
  <1> QED
    BY <1>1, <1>2, <1>3, <1>4, <1>5, <1>6, <1>7 DEF Next, Proceeds, Done

LEMMA FlagsAlways == JSpec => []FlagsInv
  <1>1. Init => FlagsInv
    BY DEF Init, Idle, FlagsInv, GivenFlagsCount, AcceptedIsValid
  <1> QED
    BY <1>1, NextReads, PTL DEF JSpec

(* A command that succeeds has read every flag that was given, however many  *)
(* there are, if its table says so of every branch.                          *)
THEOREM GivenFlagsAreRead == JSpec => []GivenFlagsCount
  <1>1. FlagsInv => GivenFlagsCount
    BY DEF FlagsInv
  <1> QED
    BY <1>1, FlagsAlways, PTL

(* A command that succeeds was given no malformed value of a flag that its   *)
(* table has checked on every branch.                                        *)
THEOREM AcceptedLinesAreValid == JSpec => []AcceptedIsValid
  <1>1. FlagsInv => AcceptedIsValid
    BY DEF FlagsInv
  <1> QED
    BY <1>1, FlagsAlways, PTL

(* -------------------- Taking flags out of the arguments ------------------- *)

(* A set of positions has a first.                                           *)
Earlier == {p \in Nat \X Nat : p[1] < p[2]}
LEMMA EarlierIsWellFounded == IsWellFoundedOn(Earlier, Nat)
  BY NatLessThanWellFounded, Zenon DEF Earlier, OpToRel

LEMMA FirstIsLeast ==
  ASSUME NEW S \in SUBSET Nat, S # {}
  PROVE  First(S) \in S /\ \A j \in S : First(S) <= j
  <1>1. PICK i \in S : \A j \in S : <<j, i>> \notin Earlier
    BY EarlierIsWellFounded, WFMin, Zenon
  <1>2. ASSUME NEW j \in S PROVE i <= j
    <2>1. <<j, i>> \notin Earlier /\ <<j, i>> \in Nat \X Nat
      BY <1>1
    <2>2. ~ (j < i)
      BY <2>1 DEF Earlier
    <2> QED
      BY <2>2
  <1> QED
    BY <1>2 DEF First

(* The first of a set is the first of every part that has it.                *)
LEMMA FirstOfPart ==
  ASSUME NEW S \in SUBSET Nat, NEW T \in SUBSET S, S # {} => First(S) \in T
  PROVE  First(T) = First(S)
  <1>1. CASE S = {}
    BY <1>1
  <1>2. CASE S # {}
    <2>1. First(S) \in T /\ \A j \in T : First(S) <= j
      BY <1>2, FirstIsLeast
    <2>2. First(T) \in T /\ \A j \in T : First(T) <= j
      BY <2>1, FirstIsLeast
    <2>3. First(T) <= First(S) /\ First(S) <= First(T)
      BY <2>1, <2>2
    <2> QED
      BY <2>1, <2>2, <2>3
  <1> QED
    BY <1>1, <1>2

(* In a whole line, the next argument is the one at the next position.       *)
LEMMA NextPosition ==
  ASSUME NEW n \in Nat, NEW i \in 1 .. n, NEW j \in 1 .. n
  PROVE  Follows(1 .. n, i, j) <=> j = i + 1
  <1>1. ASSUME Follows(1 .. n, i, j) PROVE j = i + 1
    <2>1. i < j /\ i + 1 \in 1 .. n
      BY <1>1 DEF Follows
    <2>2. i + 1 <= i \/ j <= i + 1
      BY <1>1, <2>1 DEF Follows
    <2> QED
      BY <2>1, <2>2
  <1>2. ASSUME j = i + 1 PROVE Follows(1 .. n, i, j)
    BY <1>2 DEF Follows
  <1> QED
    BY <1>1, <1>2

LEMMA ValueAt ==
  ASSUME NEW n \in Nat, NEW l, NEW flags, NEW j \in 1 .. n
  PROVE  IsValue(l, 1 .. n, j, flags) <=>
           j - 1 \in 1 .. n /\ Opens(l[j - 1], flags)
  <1>1. ASSUME IsValue(l, 1 .. n, j, flags)
        PROVE  j - 1 \in 1 .. n /\ Opens(l[j - 1], flags)
    <2>1. PICK i \in 1 .. n :
            Opens(l[i], flags) /\ Follows(1 .. n, i, j)
      BY <1>1 DEF IsValue
    <2>2. j = i + 1
      BY <2>1, NextPosition
    <2>3. i = j - 1
      BY <2>2
    <2> QED
      BY <2>1, <2>3
  <1>2. ASSUME j - 1 \in 1 .. n, Opens(l[j - 1], flags)
        PROVE  IsValue(l, 1 .. n, j, flags)
    <2>1. j = (j - 1) + 1
      OBVIOUS
    <2>2. Follows(1 .. n, j - 1, j)
      BY <1>2, <2>1, NextPosition
    <2> QED
      BY <1>2, <2>2 DEF IsValue
  <1> QED
    BY <1>1, <1>2

(* In a line that is not torn, a flag with a value is before a word.         *)
LEMMA ValueFollows ==
  ASSUME NEW n \in Nat, NEW l, NEW flags, NEW i \in 1 .. n,
         ~Torn(l, 1 .. n, flags), Opens(l[i], flags)
  PROVE  i + 1 \in 1 .. n /\ l[i + 1].kind = "word"
  <1>1. PICK j \in 1 .. n : Follows(1 .. n, i, j) /\ l[j].kind = "word"
    BY DEF Torn
  <1>2. j = i + 1
    BY <1>1, NextPosition
  <1> QED
    BY <1>1, <1>2

LEMMA FewerFlags ==
  ASSUME NEW l, NEW rest, NEW flags, NEW some \in SUBSET flags
  PROVE  /\ Torn(l, rest, some) => Torn(l, rest, flags)
         /\ \A j : IsValue(l, rest, j, some) => IsValue(l, rest, j, flags)
         /\ Without(l, rest, flags) \subseteq Without(l, rest, some)
  <1>1. \A token : /\ Opens(token, some) => Opens(token, flags)
                   /\ Owns(token, some) => Owns(token, flags)
    BY DEF Opens, Owns
  <1> QED
    BY <1>1 DEF Torn, IsValue, Without

LEMMA NoFlags ==
  ASSUME NEW l, NEW rest
  PROVE  Without(l, rest, {}) = rest /\ ~Torn(l, rest, {})
  BY DEF Without, IsValue, Torn, Opens, Owns

(* What is left of a line from which flags were taken and then a word: it is *)
(* torn for no other flags of jf if the line was not, and taking them leaves *)
(* what taking all at once would have left.                                  *)
WordsApart(l, n, X, flags) ==
  \A w \in X \cap (1 .. n) :
    l[w].kind = "word" /\ ~IsValue(l, 1 .. n, w, flags)

TakesMore(n, l, F, G, H, X, A, B) ==
  /\ n \in Nat /\ H = F \cup G /\ ~Torn(l, 1 .. n, H)
  /\ WordsApart(l, n, X, G)
  /\ A = Without(l, 1 .. n, F) \ X
  /\ B = Without(l, 1 .. n, H) \ X

LEMMA TakeMore ==
  ASSUME NEW n, NEW l, NEW F, NEW G, NEW H, NEW X, NEW A, NEW B,
         TakesMore(n, l, F, G, H, X, A, B)
  PROVE  /\ ~Torn(l, A, G)
         /\ Without(l, A, G) = B
  <1> USE DEF TakesMore
  <1>1. \A token : /\ Opens(token, H) <=> Opens(token, F) \/ Opens(token, G)
                   /\ Owns(token, H) <=> Owns(token, F) \/ Owns(token, G)
                   /\ Opens(token, F) => Owns(token, F)
                   /\ Owns(token, F) /\ Opens(token, G) => Opens(token, F)
                   /\ Opens(token, F) \/ Opens(token, G) => token.kind = "flag"
    BY DEF Opens, Owns
  <1>2. ASSUME NEW i \in A, Opens(l[i], G)
        PROVE  i + 1 \in A /\ l[i + 1].kind = "word"
    <2>1. i \in 1 .. n /\ ~Owns(l[i], F)
      BY DEF Without
    <2>2. i + 1 \in 1 .. n /\ l[i + 1].kind = "word"
      <3>1. Opens(l[i], H)
        BY <1>1, <1>2
      <3> QED
        BY <2>1, <3>1, ValueFollows
    <2>3. ~Owns(l[i + 1], F)
      BY <2>2 DEF Owns
    <2>4. (i + 1) - 1 = i
      BY <2>1
    <2>5. ~IsValue(l, 1 .. n, i + 1, F)
      BY <1>1, <2>1, <2>2, <2>4, ValueAt
    <2>6. IsValue(l, 1 .. n, i + 1, G)
      BY <1>2, <2>1, <2>2, <2>4, ValueAt
    <2>7. i + 1 \notin X
      BY <2>2, <2>6 DEF WordsApart
    <2> QED
      BY <2>2, <2>3, <2>5, <2>7 DEF Without
  <1>3. ASSUME NEW i \in A, NEW j \in A, Opens(l[i], G)
        PROVE  Follows(A, i, j) <=> j = i + 1
    <2>1. i + 1 \in A /\ i \in 1 .. n /\ j \in 1 .. n /\ A \subseteq 1 .. n
      BY <1>2, <1>3 DEF Without
    <2>2. ASSUME Follows(A, i, j) PROVE j = i + 1
      <3>1. i < j /\ (i + 1 <= i \/ j <= i + 1)
        BY <2>1, <2>2 DEF Follows
      <3> QED
        BY <2>1, <3>1
    <2>3. ASSUME j = i + 1 PROVE Follows(A, i, j)
      BY <2>1, <2>3 DEF Follows
    <2> QED
      BY <2>2, <2>3
  <1>4. ~Torn(l, A, G)
    BY <1>2, <1>3 DEF Torn
  <1>5. ASSUME NEW j \in A
        PROVE  IsValue(l, A, j, G) <=> IsValue(l, 1 .. n, j, H)
    <2>1. j \in 1 .. n /\ ~IsValue(l, 1 .. n, j, F)
      BY DEF Without
    <2>2. ASSUME IsValue(l, A, j, G)
          PROVE  IsValue(l, 1 .. n, j, H)
      <3>1. PICK i \in A : Opens(l[i], G) /\ Follows(A, i, j)
        BY <2>2 DEF IsValue
      <3>2. j = i + 1 /\ i \in 1 .. n
        BY <1>3, <3>1 DEF Without
      <3>3. Follows(1 .. n, i, j)
        BY <2>1, <3>2, NextPosition
      <3> QED
        BY <1>1, <3>1, <3>2, <3>3 DEF IsValue
    <2>3. ASSUME IsValue(l, 1 .. n, j, H)
          PROVE  IsValue(l, A, j, G)
      <3>1. j - 1 \in 1 .. n /\ Opens(l[j - 1], H)
        BY <2>1, <2>3, ValueAt
      <3>2. ~Opens(l[j - 1], F)
        BY <2>1, <3>1, ValueAt
      <3>3. Opens(l[j - 1], G) /\ ~Owns(l[j - 1], F)
        BY <1>1, <3>1, <3>2
      <3>4. ~IsValue(l, 1 .. n, j - 1, F)
        <4>1. SUFFICES ASSUME IsValue(l, 1 .. n, j - 1, F) PROVE FALSE
          OBVIOUS
        <4>2. (j - 1) - 1 \in 1 .. n /\ Opens(l[(j - 1) - 1], F)
          BY <3>1, <4>1, ValueAt
        <4>3. ((j - 1) - 1) + 1 = j - 1
          BY <2>1
        <4>4. Opens(l[(j - 1) - 1], H)
          BY <1>1, <4>2
        <4>5. l[((j - 1) - 1) + 1].kind = "word"
          BY <4>2, <4>4, ValueFollows
        <4>6. l[j - 1].kind = "word"
          BY <4>3, <4>5
        <4> QED
          BY <1>1, <3>3, <4>6
      <3>5. j - 1 \notin X
        <4>1. l[j - 1].kind # "word"
          BY <1>1, <3>3
        <4> QED
          BY <3>1, <4>1 DEF WordsApart
      <3>6. j - 1 \in A
        BY <3>1, <3>3, <3>4, <3>5 DEF Without
      <3>7. j = (j - 1) + 1
        BY <2>1
      <3>8. Follows(A, j - 1, j)
        BY <1>3, <3>3, <3>6, <3>7
      <3> QED
        BY <3>3, <3>6, <3>8 DEF IsValue
    <2> QED
      BY <2>2, <2>3
  <1>6. ASSUME NEW j \in 1 .. n
        PROVE  IsValue(l, 1 .. n, j, F) =>
                 IsValue(l, 1 .. n, j, H)
    BY FewerFlags
  <1>7. Without(l, A, G) = Without(l, 1 .. n, H) \ X
    <2>1. ASSUME NEW j \in Without(l, A, G)
          PROVE  j \in Without(l, 1 .. n, H) \ X
      BY <1>1, <1>5 DEF Without
    <2>2. ASSUME NEW j \in Without(l, 1 .. n, H) \ X
          PROVE  j \in Without(l, A, G)
      <3>1. j \in A
        BY <1>1, <1>6 DEF Without
      <3> QED
        BY <1>1, <1>5, <3>1 DEF Without
    <2> QED
      BY <2>1, <2>2
  <1> QED
    BY <1>4, <1>7

(* A first word that stays is still the first.                               *)
LEMMA SameWord ==
  ASSUME NEW l, NEW A \in SUBSET Nat, NEW B \in SUBSET A, 0 \notin A,
         FirstWord(l, A) # 0 => FirstWord(l, A) \in B
  PROVE  FirstWord(l, B) = FirstWord(l, A)
  <1> DEFINE S == {i \in A : l[i].kind = "word"}
             T == {i \in B : l[i].kind = "word"}
  <1>1. S \in SUBSET Nat /\ T \in SUBSET S /\ 0 \notin S
    OBVIOUS
  <1>2. ASSUME S # {} PROVE First(S) \in T
    <2>1. First(S) \in S
      BY <1>1, <1>2, FirstIsLeast
    <2>2. First(S) = FirstWord(l, A) /\ First(S) # 0
      BY <1>1, <2>1 DEF FirstWord
    <2> QED
      BY <2>1, <2>2
  <1>3. First(T) = First(S)
    BY <1>1, <1>2, FirstOfPart
  <1> QED
    BY <1>3 DEF FirstWord

(* ------------------------- What a table has done -------------------------- *)

(* A position of a table of a tool, its steps before included.               *)
At(t, m, c, p) ==
  /\ t \in Tools /\ m \in Modes /\ c \in CommandNames
  /\ p \in 1 .. Len(ToolSteps[t]) + 1
  /\ \A k \in Passed(t, m, c, p) : ~EndsRun(t, ToolSteps[t][k], m)

LEMMA ToolTableLength ==
  ASSUME NEW t \in Tools
  PROVE  /\ Len(ToolSteps[t]) \in Nat
         /\ DOMAIN ToolSteps[t] = 1 .. Len(ToolSteps[t])
  BY LinesAssumption

LEMMA StepSkipped ==
  ASSUME NEW t, NEW m, NEW c, NEW p \in Nat \ {0},
         ~AppliesIn(ToolSteps[t][p], m, c)
  PROVE  /\ Passed(t, m, c, p + 1) = Passed(t, m, c, p)
         /\ TakenBefore(t, m, c, p + 1) = TakenBefore(t, m, c, p)
         /\ \A kinds : Did(t, m, c, p + 1, kinds) <=> Did(t, m, c, p, kinds)
  <1>1. Passed(t, m, c, p + 1) = Passed(t, m, c, p)
    BY DEF Passed
  <1> QED
    BY <1>1 DEF TakenBefore, Did

LEMMA StepPassed ==
  ASSUME NEW t, NEW m, NEW c, NEW p \in Nat \ {0},
         AppliesIn(ToolSteps[t][p], m, c)
  PROVE  Passed(t, m, c, p + 1) = Passed(t, m, c, p) \cup {p}
  BY DEF Passed

LEMMA StepDid ==
  ASSUME NEW t, NEW m, NEW c, NEW p \in Nat \ {0}, NEW kinds,
         AppliesIn(ToolSteps[t][p], m, c)
  PROVE  Did(t, m, c, p + 1, kinds)
           <=> Did(t, m, c, p, kinds) \/ ToolSteps[t][p].do \in kinds
  BY StepPassed DEF Did

LEMMA StepTook ==
  ASSUME NEW t, NEW m, NEW c, NEW p \in Nat \ {0},
         AppliesIn(ToolSteps[t][p], m, c)
  PROVE  TakenBefore(t, m, c, p + 1)
           = IF ToolSteps[t][p].do \in Taking
             THEN TakenBefore(t, m, c, p) \cup ToolSteps[t][p].flags
             ELSE TakenBefore(t, m, c, p)
  BY StepPassed DEF TakenBefore

(* What a handler has done before it names the command does not depend on    *)
(* the command.                                                              *)
LEMMA NameSettled ==
  ASSUME NEW t \in Tools, NEW m, NEW c, NEW d,
         NEW p \in 1 .. Len(ToolSteps[t]), ToolSteps[t][p].do \in Naming
  PROVE  /\ AppliesIn(ToolSteps[t][p], m, c) <=>
              AppliesIn(ToolSteps[t][p], m, d)
         /\ Passed(t, m, d, p) = Passed(t, m, c, p)
         /\ TakenBefore(t, m, d, p) = TakenBefore(t, m, c, p)
         /\ \A kinds : Did(t, m, d, p, kinds) <=> Did(t, m, c, p, kinds)
  <1>1. ASSUME NEW i \in 1 .. p
        PROVE  AppliesIn(ToolSteps[t][i], m, c) <=>
                 AppliesIn(ToolSteps[t][i], m, d)
    <2>1. i \in DOMAIN ToolSteps[t] /\ p \in DOMAIN ToolSteps[t] /\ i <= p
      BY ToolTableLength
    <2>2. ToolSteps[t][i].only = {} /\ ToolSteps[t][i].but = {}
      BY <2>1, CommandIsSettled
    <2> QED
      BY <2>2 DEF AppliesIn
  <1>2. Passed(t, m, d, p) = Passed(t, m, c, p)
    BY <1>1, ToolTableLength DEF Passed
  <1> QED
    BY <1>1, <1>2 DEF TakenBefore, Did

LEMMA PassedCame ==
  ASSUME NEW t, NEW m, NEW c, NEW p, At(t, m, c, p),
         NEW k \in Passed(t, m, c, p)
  PROVE  ComesTo(t, m, c, k) /\ k \in DOMAIN ToolSteps[t]
  <1>1. /\ k \in 1 .. Len(ToolSteps[t])
        /\ Passed(t, m, c, k) \subseteq Passed(t, m, c, p)
        /\ AppliesIn(ToolSteps[t][k], m, c)
    BY ToolTableLength DEF At, Passed
  <1> QED
    BY <1>1, ToolTableLength DEF At, ComesTo

LEMMA HereCame ==
  ASSUME NEW t, NEW m, NEW c, NEW p, At(t, m, c, p), t \notin DropsAWord,
         p \in 1 .. Len(ToolSteps[t]), AppliesIn(ToolSteps[t][p], m, c)
  PROVE  /\ TakesItsFlags(t, m, c, p)
         /\ NamesTheCommand(t, m, c, p)
         /\ TakesTheHead(t, m, c, p)
         /\ RunsLast(t, m, c, p)
  <1>1. p \in DOMAIN ToolSteps[t] /\ ComesTo(t, m, c, p)
    BY ToolTableLength DEF At, ComesTo
  <1> QED
    BY <1>1, ToolTablesAssumption DEF At

LEMMA TakenArePromised ==
  ASSUME NEW t, NEW m, NEW c, NEW p, At(t, m, c, p), t \notin DropsAWord
  PROVE  TakenBefore(t, m, c, p) \subseteq Promised[t]
  <1>1. ASSUME NEW k \in Passed(t, m, c, p), ToolSteps[t][k].do \in Taking
        PROVE  ToolSteps[t][k].flags \subseteq Promised[t]
    <2>1. TakesItsFlags(t, m, c, k)
      BY PassedCame, ToolTablesAssumption DEF At
    <2> QED
      BY <1>1, <2>1 DEF TakesItsFlags
  <1> QED
    BY <1>1 DEF TakenBefore

LEMMA HeadIsAlone ==
  ASSUME NEW t, NEW m, NEW c, NEW p, At(t, m, c, p), t \notin DropsAWord,
         HasStep(t, {"head"})
  PROVE  ~Did(t, m, c, p, {"command", "name", "drop", "image"})
  <1>1. ASSUME NEW k \in Passed(t, m, c, p)
        PROVE  ToolSteps[t][k].do \notin {"command", "name", "drop", "image"}
    <2>1. TakesTheHead(t, m, c, k)
      BY PassedCame, ToolTablesAssumption DEF At
    <2> QED
      BY <2>1 DEF TakesTheHead
  <1> QED
    BY <1>1 DEF Did

(* What must be true of a handler at a step: what is left of a line that is  *)
(* not misread nor torn is what taking away at once all that the steps       *)
(* before have taken would leave, and the command and the image are the      *)
(* typed ones. A handler that takes the head has never come by a torn line.  *)
MisreadIn(t, l) ==
  /\ t \in SplitsFirst
  /\ \/ IsValue(l, 1 .. Len(l), FirstWord(l, 1 .. Len(l)), Promised[t])
     \/ /\ HasStep(t, {"image"})
        /\ IsValue(l, 1 .. Len(l), SecondWord(l, 1 .. Len(l)), Promised[t])
Stripped(t, m, c, p, l) == Without(l, 1 .. Len(l), TakenBefore(t, m, c, p))
Whole(t, m, c, p, l) ==
  ~MisreadIn(t, l) /\ ~Torn(l, 1 .. Len(l), TakenBefore(t, m, c, p))
NoValue(l, rest, flags) ==
  FirstWord(l, rest) = 0 \/ ~IsValue(l, 1 .. Len(l), FirstWord(l, rest), flags)
AllTaken(t, l) == Without(l, 1 .. Len(l), Promised[t])
LeftOf(t, m, c, p, l) ==
  IF Did(t, m, c, p, {"head"})
  THEN Stripped(t, m, c, p, l) \ {First(Stripped(t, m, c, p, l))}
  ELSE IF Did(t, m, c, p, Dropping)
       THEN WithoutCommand(l, Stripped(t, m, c, p, l))
       ELSE Stripped(t, m, c, p, l)

Told(t, m, c, p, l, a, im) ==
  /\ a = LeftOf(t, m, c, p, l)
  /\ Did(t, m, c, p, Dropping) =>
       NoValue(l, Stripped(t, m, c, p, l), Promised[t])
  /\ Did(t, m, c, p, {"command", "name"}) =>
       c = getCommandName(l, AllTaken(t, l))
  /\ Did(t, m, c, p, {"image"}) =>
       im = NameAt(l, SecondWord(l, AllTaken(t, l)))
Untorn(t, m, c, p, l, a) ==
  HasStep(t, {"head"}) /\ ~Did(t, m, c, p, {"head"}) =>
    /\ ~Torn(l, 1 .. Len(l), TakenBefore(t, m, c, p))
    /\ a = Stripped(t, m, c, p, l)
Sound(t, m, c, p, l, a, im) ==
  /\ At(t, m, c, p) /\ l \in Seq(Tokens) /\ a \subseteq 1 .. Len(l)
  /\ t \notin DropsAWord =>
       /\ Untorn(t, m, c, p, l, a)
       /\ Whole(t, m, c, p, l) => Told(t, m, c, p, l, a, im)

LEMMA StartIsSound ==
  ASSUME NEW t \in Tools, NEW m \in Modes, NEW l \in Seq(Tokens), NEW im
  PROVE  Sound(t, m, "", 1, l, 1 .. Len(l), im)
  <1>1. Passed(t, m, "", 1) = {}
    BY DEF Passed
  <1>2. /\ TakenBefore(t, m, "", 1) = {}
        /\ \A kinds : ~Did(t, m, "", 1, kinds)
    BY <1>1 DEF TakenBefore, Did
  <1>3. At(t, m, "", 1)
    <2>1. 1 \in 1 .. Len(ToolSteps[t]) + 1 /\ "" \in CommandNames
      BY ToolTableLength DEF CommandNames
    <2> QED
      BY <1>1, <2>1 DEF At
  <1>4. Stripped(t, m, "", 1, l) = 1 .. Len(l)
        /\ ~Torn(l, 1 .. Len(l), TakenBefore(t, m, "", 1))
    BY <1>2, NoFlags DEF Stripped
  <1>5. Untorn(t, m, "", 1, l, 1 .. Len(l))
    BY <1>4 DEF Untorn
  <1>6. Told(t, m, "", 1, l, 1 .. Len(l), im)
    BY <1>2, <1>4 DEF Told, LeftOf
  <1> QED
    BY <1>3, <1>5, <1>6 DEF Sound

(* Going by a step that does not apply, or that takes nothing.               *)
LEMMA AtNext ==
  ASSUME NEW t, NEW m, NEW c, NEW p, At(t, m, c, p),
         p \in 1 .. Len(ToolSteps[t]),
         AppliesIn(ToolSteps[t][p], m, c) => ~EndsRun(t, ToolSteps[t][p], m)
  PROVE  At(t, m, c, p + 1)
  <1>1. p + 1 \in 1 .. Len(ToolSteps[t]) + 1 /\ p \in Nat \ {0}
    BY ToolTableLength DEF At
  <1>2. CASE AppliesIn(ToolSteps[t][p], m, c)
    <2>1. Passed(t, m, c, p + 1) = Passed(t, m, c, p) \cup {p}
      BY <1>1, <1>2, StepPassed
    <2> QED
      BY <1>1, <1>2, <2>1 DEF At
  <1>3. CASE ~AppliesIn(ToolSteps[t][p], m, c)
    <2>1. Passed(t, m, c, p + 1) = Passed(t, m, c, p)
      BY <1>1, <1>3, StepSkipped
    <2> QED
      BY <1>1, <2>1 DEF At
  <1> QED
    BY <1>2, <1>3

LEMMA SoundPass ==
  ASSUME NEW t, NEW m, NEW c, NEW p, NEW l, NEW a, NEW im,
         Sound(t, m, c, p, l, a, im), p \in 1 .. Len(ToolSteps[t]),
         AppliesIn(ToolSteps[t][p], m, c) =>
           /\ ~EndsRun(t, ToolSteps[t][p], m)
           /\ ToolSteps[t][p].do \notin Taking \cup Naming \cup Dropping
  PROVE  Sound(t, m, c, p + 1, l, a, im)
  <1>1. p \in Nat \ {0}
    BY ToolTableLength DEF Sound, At
  <1>2. At(t, m, c, p + 1)
    BY AtNext DEF Sound
  <1>3. /\ TakenBefore(t, m, c, p + 1) = TakenBefore(t, m, c, p)
        /\ \A kinds \in {{"head"}, Dropping, {"command", "name"}, {"image"}} :
             Did(t, m, c, p + 1, kinds) <=> Did(t, m, c, p, kinds)
    <2>1. CASE AppliesIn(ToolSteps[t][p], m, c)
      <3>1. /\ ToolSteps[t][p].do \notin Taking
            /\ \A kinds \in
                 {{"head"}, Dropping, {"command", "name"}, {"image"}} :
                 ToolSteps[t][p].do \notin kinds
        BY <2>1 DEF Naming, Dropping
      <3> QED
        BY <1>1, <2>1, <3>1, StepDid, StepTook
    <2>2. CASE ~AppliesIn(ToolSteps[t][p], m, c)
      BY <1>1, <2>2, StepSkipped
    <2> QED
      BY <2>1, <2>2
  <1> QED
    BY <1>2, <1>3 DEF Sound, Untorn, Told, LeftOf, Stripped, Whole

(* ---------------------- Each step of a table is sound --------------------- *)

LEMMA FirstWordThere ==
  ASSUME NEW n \in Nat, NEW l, NEW rest \in SUBSET (1 .. n),
         FirstWord(l, rest) # 0
  PROVE  FirstWord(l, rest) \in rest /\ l[FirstWord(l, rest)].kind = "word"
  <1> DEFINE words == {i \in rest : l[i].kind = "word"}
  <1>1. words # {} /\ words \in SUBSET Nat
    BY DEF FirstWord, First
  <1>2. First(words) \in words
    BY <1>1, FirstIsLeast
  <1> QED
    BY <1>2 DEF FirstWord

(* The first word is not touched by flags of which it is no value.           *)
KeepsWord(l, P, G, F, X, A, B) ==
  /\ l \in Seq(Tokens) /\ F \subseteq G /\ G \subseteq P
  /\ A = Without(l, 1 .. Len(l), F) \ X
  /\ B = Without(l, 1 .. Len(l), G) \ X
  /\ NoValue(l, A, P)
LEMMA WordStays ==
  ASSUME NEW l, NEW P, NEW G, NEW F, NEW X, NEW A, NEW B,
         KeepsWord(l, P, G, F, X, A, B)
  PROVE  FirstWord(l, B) = FirstWord(l, A)
  <1> USE DEF KeepsWord
  <1>1. A \in SUBSET (1 .. Len(l)) /\ Len(l) \in Nat /\ B \in SUBSET A
    <2>1. Without(l, 1 .. Len(l), G) \subseteq Without(l, 1 .. Len(l), F)
      BY FewerFlags
    <2>2. A \in SUBSET (1 .. Len(l))
      BY DEF Without
    <2> QED
      BY <2>1, <2>2
  <1>2. ASSUME FirstWord(l, A) # 0
        PROVE  FirstWord(l, A) \in B
    <2>1. FirstWord(l, A) \in A /\ l[FirstWord(l, A)].kind = "word"
      BY <1>1, <1>2, FirstWordThere
    <2>2. ~IsValue(l, 1 .. Len(l), FirstWord(l, A), P)
      BY <1>2 DEF NoValue
    <2>3. ~IsValue(l, 1 .. Len(l), FirstWord(l, A), G)
      BY <2>2, FewerFlags
    <2> QED
      BY <2>1, <2>3 DEF Without, Owns
  <1> QED
    BY <1>1, <1>2, SameWord

(* Flags can be taken from what is left, and leave what is left by then.     *)
LEMMA LeftTaken ==
  ASSUME NEW t, NEW m, NEW c, NEW p, NEW l \in Seq(Tokens), NEW a, NEW im,
         At(t, m, c, p), t \notin DropsAWord,
         p \in 1 .. Len(ToolSteps[t]), AppliesIn(ToolSteps[t][p], m, c),
         ToolSteps[t][p].do \in Taking,
         Whole(t, m, c, p + 1, l), Told(t, m, c, p, l, a, im)
  PROVE  /\ ~Torn(l, a, ToolSteps[t][p].flags)
         /\ Told(t, m, c, p + 1, l, Without(l, a, ToolSteps[t][p].flags), im)
  <1> DEFINE F == TakenBefore(t, m, c, p)
             G == ToolSteps[t][p].flags
             P == Promised[t]
             n == Len(l)
             H == F \cup G
             w == FirstWord(l, Stripped(t, m, c, p, l))
  <1>1. n \in Nat /\ p \in Nat \ {0}
    BY ToolTableLength DEF At
  <1>2. TakenBefore(t, m, c, p + 1) = H
    BY <1>1, StepTook
  <1>3. /\ G \subseteq P
        /\ ~Did(t, m, c, p, {"head"})
    BY HereCame DEF TakesItsFlags
  <1>4. F \subseteq P
    BY TakenArePromised
  <1>5. /\ ToolSteps[t][p].do \notin {"head"}
        /\ ToolSteps[t][p].do \notin Dropping
        /\ ToolSteps[t][p].do \notin {"command", "name"}
        /\ ToolSteps[t][p].do \notin {"image"}
    BY DEF Taking, Dropping
  <1>6. /\ Did(t, m, c, p + 1, {"head"}) <=> Did(t, m, c, p, {"head"})
        /\ Did(t, m, c, p + 1, Dropping) <=> Did(t, m, c, p, Dropping)
        /\ Did(t, m, c, p + 1, {"command", "name"})
             <=> Did(t, m, c, p, {"command", "name"})
        /\ Did(t, m, c, p + 1, {"image"}) <=> Did(t, m, c, p, {"image"})
    BY <1>1, <1>5, StepDid
  <1>7. ~Torn(l, 1 .. n, H) /\ H = F \cup G
    BY <1>2 DEF Whole
  <1>8. CASE Did(t, m, c, p, Dropping)
    <2>1. a = Stripped(t, m, c, p, l) \ {w}
      BY <1>3, <1>8 DEF Told, LeftOf, WithoutCommand
    <2>2. NoValue(l, Stripped(t, m, c, p, l), P)
      BY <1>8 DEF Told
    <2>3. Stripped(t, m, c, p, l) \subseteq 1 .. n
      BY DEF Stripped, Without
    <2>4. ASSUME w \in 1 .. n
          PROVE  l[w].kind = "word" /\ ~IsValue(l, 1 .. n, w, G)
      <3>1. w # 0
        BY <1>1, <2>4
      <3>2. l[w].kind = "word"
        BY <1>1, <2>3, <3>1, FirstWordThere
      <3>3. ~IsValue(l, 1 .. n, w, P)
        BY <2>2, <3>1 DEF NoValue
      <3> QED
        BY <1>3, <3>2, <3>3, FewerFlags
    <2>5. ~Torn(l, a, G) /\ Without(l, a, G) = Without(l, 1 .. n, H) \ {w}
      <3> DEFINE X == {w}
                 B == Without(l, 1 .. n, H) \ X
      <3>1. /\ WordsApart(l, n, X, G) /\ a = Without(l, 1 .. n, F) \ X
            /\ B = Without(l, 1 .. n, H) \ X
        BY <2>1, <2>4 DEF WordsApart, Stripped
      <3> HIDE DEF F, G, H, w, n, X, B
      <3>2. TakesMore(n, l, F, G, H, X, a, B)
        BY <1>1, <1>7, <3>1 DEF TakesMore
      <3>3. ~Torn(l, a, G) /\ Without(l, a, G) = B
        BY <3>2, TakeMore
      <3> QED
        BY <3>3 DEF X, B
    <2>6. Stripped(t, m, c, p, l) = Without(l, 1 .. n, F) \ {}
          /\ Stripped(t, m, c, p + 1, l) = Without(l, 1 .. n, H) \ {}
      BY <1>2 DEF Stripped
    <2>7. H \in SUBSET P /\ F \in SUBSET H
      BY <1>3, <1>4
    <2>8. FirstWord(l, Stripped(t, m, c, p + 1, l)) = w
      <3> DEFINE X == {}
                 A == Stripped(t, m, c, p, l)
                 B == Stripped(t, m, c, p + 1, l)
      <3>1. /\ A = Without(l, 1 .. Len(l), F) \ X
            /\ B = Without(l, 1 .. Len(l), H) \ X
            /\ NoValue(l, A, P)
        BY <2>2, <2>6
      <3>2. KeepsWord(l, P, H, F, X, A, B)
        <4> HIDE DEF F, H, P, X, A, B
        <4> QED
          BY <2>7, <3>1 DEF KeepsWord
      <3>3. FirstWord(l, B) = FirstWord(l, A)
        BY <3>2, WordStays
      <3> QED
        BY <3>3
    <2>10. NoValue(l, Stripped(t, m, c, p + 1, l), P)
      BY <2>2, <2>8 DEF NoValue
    <2>9. Without(l, a, G) = LeftOf(t, m, c, p + 1, l)
      BY <1>3, <1>6, <1>8, <2>5, <2>6, <2>8 DEF LeftOf, WithoutCommand
    <2> QED
      BY <1>6, <2>5, <2>9, <2>10 DEF Told
  <1>9. CASE ~Did(t, m, c, p, Dropping)
    <2>1. a = Stripped(t, m, c, p, l) \ {}
      BY <1>3, <1>9 DEF Told, LeftOf
    <2>2. ~Torn(l, a, G) /\ Without(l, a, G) = Without(l, 1 .. n, H) \ {}
      <3> DEFINE X == {}
                 B == Without(l, 1 .. n, H) \ X
      <3>1. /\ WordsApart(l, n, X, G) /\ a = Without(l, 1 .. n, F) \ X
            /\ B = Without(l, 1 .. n, H) \ X
        BY <2>1 DEF WordsApart, Stripped
      <3> HIDE DEF F, G, H, n, X, B
      <3>2. TakesMore(n, l, F, G, H, X, a, B)
        BY <1>1, <1>7, <3>1 DEF TakesMore
      <3>3. ~Torn(l, a, G) /\ Without(l, a, G) = B
        BY <3>2, TakeMore
      <3> QED
        BY <3>3 DEF X, B
    <2>3. Without(l, a, G) = LeftOf(t, m, c, p + 1, l)
      BY <1>2, <1>3, <1>6, <1>9, <2>2 DEF LeftOf, Stripped
    <2> QED
      BY <1>6, <1>9, <2>2, <2>3 DEF Told
  <1> QED
    BY <1>8, <1>9

LEMMA TakingGoesOn ==
  ASSUME NEW t, NEW m, NEW p, ToolSteps[t][p].do \in Taking
  PROVE  ~EndsRun(t, ToolSteps[t][p], m)
  BY DEF EndsRun, Taking

LEMMA GreedyFits ==
  ASSUME NEW n \in Nat, NEW l, NEW rest \in SUBSET (1 .. n), NEW flags,
         flags \cap Switches = {}, ~Torn(l, rest, flags)
  PROVE  ~AtEnd(l, rest, flags)
  <1>1. SUFFICES ASSUME AtEnd(l, rest, flags) PROVE FALSE
    OBVIOUS
  <1>2. PICK i \in rest :
          /\ l[i].kind = "flag" /\ l[i].name \in flags
          /\ \A j \in rest : j <= i
    BY <1>1 DEF AtEnd
  <1>3. Opens(l[i], flags)
    BY <1>2 DEF Opens
  <1>4. PICK j \in rest : Follows(rest, i, j)
    BY <1>3 DEF Torn
  <1>5. i < j /\ j <= i
    BY <1>2, <1>4 DEF Follows
  <1> QED
    BY <1>5

(* A step that takes flags, once its flags fit.                              *)
TakeFits(t, p, l, a, b) ==
  LET s == ToolSteps[t][p]
  IN  \/ /\ s.do = "values" /\ ~Torn(l, a, s.flags)
         /\ b = Without(l, a, s.flags)
      \/ s.do = "bools" /\ b = Without(l, a, s.flags)
      \/ /\ s.do = "lenient"
         /\ b = IF Torn(l, a, s.flags) THEN a ELSE Without(l, a, s.flags)
      \/ /\ s.do = "greedy"
         /\ b = IF AtEnd(l, a, s.flags) THEN a ELSE Without(l, a, s.flags)

LEMMA UntornTaken ==
  ASSUME NEW t, NEW m, NEW c, NEW p, NEW l \in Seq(Tokens), NEW a, NEW b,
         At(t, m, c, p), t \notin DropsAWord,
         p \in 1 .. Len(ToolSteps[t]), AppliesIn(ToolSteps[t][p], m, c),
         ToolSteps[t][p].do \in Taking, TakeFits(t, p, l, a, b),
         Untorn(t, m, c, p, l, a)
  PROVE  Untorn(t, m, c, p + 1, l, b)
  <1> DEFINE F == TakenBefore(t, m, c, p)
             G == ToolSteps[t][p].flags
             H == F \cup G
             n == Len(l)
  <1>1. n \in Nat /\ p \in Nat \ {0}
    BY ToolTableLength DEF At
  <1>2. TakenBefore(t, m, c, p + 1) = H
    BY <1>1, StepTook
  <1>3. SUFFICES ASSUME HasStep(t, {"head"})
                 PROVE  /\ ~Torn(l, 1 .. n, H)
                        /\ b = Without(l, 1 .. n, H)
    BY <1>2 DEF Untorn, Stripped
  <1>4. ~Did(t, m, c, p, {"head"})
    BY HereCame DEF TakesItsFlags
  <1>5. ~Torn(l, 1 .. n, F) /\ a = Without(l, 1 .. n, F)
    BY <1>3, <1>4 DEF Untorn, Stripped
  <1>6. TakesTheHead(t, m, c, p)
    BY HereCame
  <1>7. CASE ToolSteps[t][p].do = "values" /\ F = {}
    <2>1. a = 1 .. n /\ H = G
      BY <1>5, <1>7, NoFlags
    <2> QED
      BY <1>7, <2>1 DEF TakeFits
  <1>8. CASE ToolSteps[t][p].do = "bools" /\ G \subseteq Switches
    <2>1. \A token : Opens(token, H) => Opens(token, F)
      BY <1>8 DEF Opens
    <2>2. ~Torn(l, 1 .. n, H)
      BY <1>5, <2>1 DEF Torn
    <2> DEFINE X == {}
               B == Without(l, 1 .. n, H) \ X
    <2>3. TakesMore(n, l, F, G, H, X, a, B)
      BY <1>1, <1>5, <2>2 DEF TakesMore, WordsApart
    <2>4. Without(l, a, G) = B
      BY <2>3, TakeMore
    <2>5. b = Without(l, a, G)
      BY <1>8 DEF TakeFits
    <2> QED
      BY <2>2, <2>4, <2>5
  <1> QED
    BY <1>3, <1>6, <1>7, <1>8 DEF TakesTheHead

LEMMA SoundTake ==
  ASSUME NEW t, NEW m, NEW c, NEW p, NEW l, NEW a, NEW im, NEW b,
         Sound(t, m, c, p, l, a, im), p \in 1 .. Len(ToolSteps[t]),
         AppliesIn(ToolSteps[t][p], m, c),
         ToolSteps[t][p].do \in Taking, TakeFits(t, p, l, a, b)
  PROVE  Sound(t, m, c, p + 1, l, b, im)
  <1> DEFINE G == ToolSteps[t][p].flags
  <1>1. At(t, m, c, p) /\ l \in Seq(Tokens) /\ a \subseteq 1 .. Len(l)
    BY DEF Sound
  <1>2. At(t, m, c, p + 1)
    BY <1>1, AtNext, TakingGoesOn
  <1>3. b \subseteq 1 .. Len(l)
    BY <1>1 DEF TakeFits, Without
  <1>4. ASSUME t \notin DropsAWord
        PROVE  Untorn(t, m, c, p + 1, l, b)
    BY <1>1, <1>4, UntornTaken DEF Sound
  <1>5. ASSUME t \notin DropsAWord, Whole(t, m, c, p + 1, l)
        PROVE  Told(t, m, c, p + 1, l, b, im)
    <2>1. p \in Nat \ {0}
      BY <1>1, ToolTableLength DEF At
    <2>2. TakenBefore(t, m, c, p + 1) = TakenBefore(t, m, c, p) \cup G
      BY <2>1, StepTook
    <2>3. ~Torn(l, 1 .. Len(l), TakenBefore(t, m, c, p))
      <3>1. ~Torn(l, 1 .. Len(l), TakenBefore(t, m, c, p) \cup G)
        BY <1>5, <2>2 DEF Whole
      <3> QED
        BY <3>1, FewerFlags
    <2>4. Whole(t, m, c, p, l)
      BY <1>5, <2>3 DEF Whole
    <2>5. Told(t, m, c, p, l, a, im)
      BY <1>5, <2>4 DEF Sound
    <2>6. /\ ~Torn(l, a, G)
          /\ Told(t, m, c, p + 1, l, Without(l, a, G), im)
      BY <1>1, <1>5, <2>5, LeftTaken
    <2>7. b = Without(l, a, G)
      <3>1. TakesItsFlags(t, m, c, p)
        BY <1>1, <1>5, HereCame
      <3>2. CASE ToolSteps[t][p].do = "greedy"
        <4>1. G \cap Switches = {} /\ Len(l) \in Nat
          BY <1>1, <3>1, <3>2 DEF TakesItsFlags
        <4>2. ~AtEnd(l, a, G)
          BY <1>1, <2>6, <4>1, GreedyFits
        <4> QED
          BY <3>2, <4>2 DEF TakeFits
      <3>3. CASE ToolSteps[t][p].do # "greedy"
        BY <2>6, <3>3 DEF TakeFits
      <3> QED
        BY <3>2, <3>3
    <2> QED
      BY <2>6, <2>7
  <1> QED
    BY <1>1, <1>2, <1>3, <1>4, <1>5 DEF Sound

(* Naming the command.                                                       *)
LEMMA NamedDid ==
  ASSUME NEW t, NEW m, NEW c, NEW p, NEW d, NEW kinds,
         At(t, m, c, p), p \in 1 .. Len(ToolSteps[t]),
         AppliesIn(ToolSteps[t][p], m, c), ToolSteps[t][p].do \in Naming
  PROVE  Did(t, m, d, p + 1, kinds)
           <=> Did(t, m, c, p, kinds) \/ ToolSteps[t][p].do \in kinds
  <1>1. p \in Nat \ {0} /\ t \in Tools
    BY ToolTableLength DEF At
  <1>2. AppliesIn(ToolSteps[t][p], m, d)
    BY <1>1, NameSettled
  <1>3. Did(t, m, d, p, kinds) <=> Did(t, m, c, p, kinds)
    BY <1>1, NameSettled
  <1> QED
    BY <1>1, <1>2, <1>3, StepDid

LEMMA NamedTook ==
  ASSUME NEW t, NEW m, NEW c, NEW p, NEW d,
         At(t, m, c, p), p \in 1 .. Len(ToolSteps[t]),
         AppliesIn(ToolSteps[t][p], m, c), ToolSteps[t][p].do \in Naming
  PROVE  TakenBefore(t, m, d, p + 1) = TakenBefore(t, m, c, p)
  <1>1. p \in Nat \ {0} /\ t \in Tools
    BY ToolTableLength DEF At
  <1>2. AppliesIn(ToolSteps[t][p], m, d)
    BY <1>1, NameSettled
  <1>3. TakenBefore(t, m, d, p) = TakenBefore(t, m, c, p)
    BY <1>1, NameSettled
  <1>4. ToolSteps[t][p].do \notin Taking
    BY DEF Taking, Naming
  <1> QED
    BY <1>1, <1>2, <1>3, <1>4, StepTook

LEMMA NamedAt ==
  ASSUME NEW t, NEW m, NEW c, NEW p, NEW d \in CommandNames,
         At(t, m, c, p), p \in 1 .. Len(ToolSteps[t]),
         AppliesIn(ToolSteps[t][p], m, c), ToolSteps[t][p].do \in Naming
  PROVE  At(t, m, d, p + 1)
  <1>1. p \in Nat \ {0} /\ t \in Tools
    BY ToolTableLength DEF At
  <1>2. Passed(t, m, d, p) = Passed(t, m, c, p)
    BY <1>1, NameSettled
  <1>3. At(t, m, d, p)
    BY <1>2 DEF At
  <1>4. ~EndsRun(t, ToolSteps[t][p], m)
    BY DEF EndsRun, Naming
  <1> QED
    BY <1>3, <1>4, AtNext

LEMMA NamesAreKnown ==
  ASSUME NEW l \in Seq(Tokens), NEW rest \in SUBSET (1 .. Len(l))
  PROVE  NameAt(l, FirstWord(l, rest)) \in ArgNames \cup {""}
  <1>1. CASE FirstWord(l, rest) = 0
    BY <1>1 DEF NameAt
  <1>2. CASE FirstWord(l, rest) # 0
    <2>1. Len(l) \in Nat
      OBVIOUS
    <2>2. FirstWord(l, rest) \in 1 .. Len(l)
      BY <1>2, <2>1, FirstWordThere
    <2>3. l[FirstWord(l, rest)] \in Tokens
      BY <2>2
    <2>4. l[FirstWord(l, rest)].name \in ArgNames
      BY <2>3 DEF Tokens
    <2> QED
      BY <1>2, <2>4 DEF NameAt
  <1> QED
    BY <1>1, <1>2

LEMMA NoHead ==
  ASSUME NEW t, NEW m, NEW c, NEW p, At(t, m, c, p), ~HasStep(t, {"head"})
  PROVE  ~Did(t, m, c, p, {"head"})
  <1>1. \A k \in Passed(t, m, c, p) : k \in DOMAIN ToolSteps[t]
    BY PassedCame
  <1> QED
    BY <1>1 DEF Did, HasStep

(* A handler that looks for the command finds a word that is no value.       *)
LEMMA WordIsNoValue ==
  ASSUME NEW t, NEW m, NEW c, NEW p, NEW l \in Seq(Tokens),
         At(t, m, c, p), t \notin DropsAWord, Whole(t, m, c, p, l),
         t \in SplitsFirst \/ Promised[t] \subseteq TakenBefore(t, m, c, p)
  PROVE  NoValue(l, Stripped(t, m, c, p, l), Promised[t])
  <1> DEFINE F == TakenBefore(t, m, c, p)
             P == Promised[t]
             A == Stripped(t, m, c, p, l)
             w == FirstWord(l, A)
  <1>1. Len(l) \in Nat /\ A \in SUBSET (1 .. Len(l))
    BY DEF Stripped, Without
  <1>2. CASE P \subseteq F
    <2>1. ASSUME w # 0 PROVE ~IsValue(l, 1 .. Len(l), w, P)
      <3>1. w \in A
        BY <1>1, <2>1, FirstWordThere
      <3>2. ~IsValue(l, 1 .. Len(l), w, F)
        BY <3>1 DEF Stripped, Without
      <3> QED
        BY <1>2, <3>2, FewerFlags
    <2> QED
      BY <2>1 DEF NoValue
  <1>3. CASE t \in SplitsFirst
    <2> DEFINE E == {}
               R == 1 .. Len(l)
    <2>1. NoValue(l, R, P)
      BY <1>3 DEF Whole, MisreadIn, NoValue
    <2>2. R = Without(l, R, E) \ E /\ A = Without(l, R, F) \ E
      BY NoFlags DEF Stripped
    <2>3. KeepsWord(l, P, F, E, E, R, A)
      BY <2>1, <2>2, TakenArePromised DEF KeepsWord
    <2>4. FirstWord(l, A) = FirstWord(l, R)
      BY <2>3, WordStays
    <2> QED
      BY <2>1, <2>4 DEF NoValue
  <1> QED
    BY <1>2, <1>3

LEMMA DropFinds ==
  ASSUME NEW t, NEW m, NEW c, NEW p, NEW l \in Seq(Tokens), NEW a, NEW im,
         At(t, m, c, p), t \notin DropsAWord,
         p \in 1 .. Len(ToolSteps[t]), AppliesIn(ToolSteps[t][p], m, c),
         ToolSteps[t][p].do \in Dropping,
         Whole(t, m, c, p, l), Told(t, m, c, p, l, a, im)
  PROVE  /\ a = Stripped(t, m, c, p, l)
         /\ NoValue(l, a, Promised[t])
         /\ getCommandName(l, a) = getCommandName(l, AllTaken(t, l))
         /\ ~HasStep(t, {"head"})
  <1> DEFINE F == TakenBefore(t, m, c, p)
             P == Promised[t]
             E == {}
             B == AllTaken(t, l)
  <1>1. /\ NamesTheCommand(t, m, c, p)
        /\ TakesTheHead(t, m, c, p)
    BY HereCame
  <1>2. ~Did(t, m, c, p, Dropping)
    BY <1>1 DEF NamesTheCommand
  <1>3. ~HasStep(t, {"head"})
    BY <1>1 DEF TakesTheHead, Dropping
  <1>4. ~Did(t, m, c, p, {"head"})
    BY <1>3, NoHead
  <1>5. a = Stripped(t, m, c, p, l)
    BY <1>2, <1>4 DEF Told, LeftOf
  <1>6. t \in SplitsFirst \/ P \subseteq F
    BY <1>1 DEF NamesTheCommand
  <1>7. NoValue(l, a, P)
    BY <1>5, <1>6, WordIsNoValue
  <1>8. KeepsWord(l, P, P, F, E, a, B)
    BY <1>5, <1>7, TakenArePromised DEF KeepsWord, Stripped, AllTaken
  <1>9. FirstWord(l, B) = FirstWord(l, a)
    BY <1>8, WordStays
  <1> QED
    BY <1>3, <1>5, <1>7, <1>9 DEF getCommandName

LEMMA SoundCommand ==
  ASSUME NEW t, NEW m, NEW c, NEW p, NEW l, NEW a, NEW im,
         Sound(t, m, c, p, l, a, im), p \in 1 .. Len(ToolSteps[t]),
         AppliesIn(ToolSteps[t][p], m, c), ToolSteps[t][p].do = "command"
  PROVE  Sound(t, m, getCommandName(l, a), p + 1, l,
               WithoutCommand(l, a), im)
  <1> DEFINE d == getCommandName(l, a)
  <1>1. At(t, m, c, p) /\ l \in Seq(Tokens) /\ a \subseteq 1 .. Len(l)
    BY DEF Sound
  <1>2. ToolSteps[t][p].do \in Naming /\ ToolSteps[t][p].do \in Dropping
    BY DEF Naming, Dropping
  <1>3. d \in CommandNames
    BY <1>1, NamesAreKnown DEF getCommandName, CommandNames
  <1>4. At(t, m, d, p + 1)
    BY <1>1, <1>2, <1>3, NamedAt
  <1>5. WithoutCommand(l, a) \subseteq 1 .. Len(l)
    BY <1>1 DEF WithoutCommand
  <1>6. t \notin DropsAWord
    BY <1>2, ToolTableLength, ToolTablesAssumption DEF HasStep, At, Sound
  <1>7. TakenBefore(t, m, d, p + 1) = TakenBefore(t, m, c, p)
    BY <1>1, <1>2, NamedTook
  <1>8. /\ Stripped(t, m, d, p + 1, l) = Stripped(t, m, c, p, l)
        /\ Whole(t, m, d, p + 1, l) <=> Whole(t, m, c, p, l)
    BY <1>7 DEF Stripped, Whole
  <1>9. ~HasStep(t, {"head"})
    <2>1. TakesTheHead(t, m, c, p)
      BY <1>1, <1>6, HereCame
    <2> QED
      BY <2>1 DEF TakesTheHead
  <1>10. Untorn(t, m, d, p + 1, l, WithoutCommand(l, a))
    BY <1>9 DEF Untorn
  <1>11. ASSUME Whole(t, m, d, p + 1, l)
         PROVE  Told(t, m, d, p + 1, l, WithoutCommand(l, a), im)
    <2>1. Told(t, m, c, p, l, a, im)
      BY <1>6, <1>8, <1>11 DEF Sound
    <2>2. /\ a = Stripped(t, m, c, p, l)
          /\ NoValue(l, a, Promised[t])
          /\ getCommandName(l, a) = getCommandName(l, AllTaken(t, l))
      BY <1>1, <1>2, <1>6, <1>8, <1>11, <2>1, DropFinds
    <2>3. ~Did(t, m, d, p + 1, {"head"})
      BY <1>4, <1>9, NoHead
    <2>4. Did(t, m, d, p + 1, Dropping)
      BY <1>1, <1>2, NamedDid
    <2>5. Did(t, m, d, p + 1, {"image"}) => Did(t, m, c, p, {"image"})
      <3>1. ToolSteps[t][p].do \notin {"image"}
        OBVIOUS
      <3> QED
        BY <1>1, <1>2, <3>1, NamedDid
    <2>6. WithoutCommand(l, a) = LeftOf(t, m, d, p + 1, l)
      BY <1>8, <2>2, <2>3, <2>4 DEF LeftOf
    <2> QED
      BY <1>8, <2>1, <2>2, <2>5, <2>6 DEF Told
  <1> QED
    BY <1>1, <1>4, <1>5, <1>10, <1>11 DEF Sound

LEMMA SoundDrop ==
  ASSUME NEW t, NEW m, NEW c, NEW p, NEW l, NEW a, NEW im,
         Sound(t, m, c, p, l, a, im), p \in 1 .. Len(ToolSteps[t]),
         AppliesIn(ToolSteps[t][p], m, c), ToolSteps[t][p].do = "drop"
  PROVE  Sound(t, m, c, p + 1, l, WithoutCommand(l, a), im)
  <1>1. At(t, m, c, p) /\ l \in Seq(Tokens) /\ a \subseteq 1 .. Len(l)
    BY DEF Sound
  <1>2. p \in Nat \ {0} /\ ToolSteps[t][p].do \in Dropping
    BY <1>1, ToolTableLength DEF At, Dropping
  <1>3. At(t, m, c, p + 1)
    BY <1>1, AtNext DEF EndsRun
  <1>4. WithoutCommand(l, a) \subseteq 1 .. Len(l)
    BY <1>1 DEF WithoutCommand
  <1>5. TakenBefore(t, m, c, p + 1) = TakenBefore(t, m, c, p)
    <2>1. ToolSteps[t][p].do \notin Taking
      BY DEF Taking
    <2> QED
      BY <1>2, <2>1, StepTook
  <1>6. /\ Stripped(t, m, c, p + 1, l) = Stripped(t, m, c, p, l)
        /\ Whole(t, m, c, p + 1, l) <=> Whole(t, m, c, p, l)
    BY <1>5 DEF Stripped, Whole
  <1>7. ASSUME t \notin DropsAWord
        PROVE  ~HasStep(t, {"head"})
    <2>1. TakesTheHead(t, m, c, p)
      BY <1>1, <1>7, HereCame
    <2> QED
      BY <2>1 DEF TakesTheHead
  <1>8. ASSUME t \notin DropsAWord
        PROVE  Untorn(t, m, c, p + 1, l, WithoutCommand(l, a))
    BY <1>7, <1>8 DEF Untorn
  <1>9. ASSUME t \notin DropsAWord, Whole(t, m, c, p + 1, l)
        PROVE  Told(t, m, c, p + 1, l, WithoutCommand(l, a), im)
    <2>1. Told(t, m, c, p, l, a, im)
      BY <1>6, <1>9 DEF Sound
    <2>2. a = Stripped(t, m, c, p, l) /\ NoValue(l, a, Promised[t])
      BY <1>1, <1>2, <1>6, <1>9, <2>1, DropFinds
    <2>3. ~Did(t, m, c, p + 1, {"head"})
      BY <1>3, <1>7, <1>9, NoHead
    <2>4. Did(t, m, c, p + 1, Dropping)
      BY <1>2, StepDid
    <2>5. /\ ToolSteps[t][p].do \notin {"image"}
          /\ ToolSteps[t][p].do \notin {"command", "name"}
      OBVIOUS
    <2>6. Did(t, m, c, p + 1, {"image"}) => Did(t, m, c, p, {"image"})
      BY <1>2, <2>5, StepDid
    <2>7. Did(t, m, c, p + 1, {"command", "name"}) =>
            Did(t, m, c, p, {"command", "name"})
      BY <1>2, <2>5, StepDid
    <2>8. WithoutCommand(l, a) = LeftOf(t, m, c, p + 1, l)
      BY <1>6, <2>2, <2>3, <2>4 DEF LeftOf
    <2> QED
      BY <1>6, <2>1, <2>2, <2>6, <2>7, <2>8 DEF Told
  <1> QED
    BY <1>1, <1>3, <1>4, <1>8, <1>9 DEF Sound

(* The words of a line that is not misread are those of the line that the    *)
(* user meant.                                                               *)
LEMMA WordsAreMeant ==
  ASSUME NEW t, NEW l \in Seq(Tokens), t \in SplitsFirst, ~MisreadIn(t, l)
  PROVE  /\ FirstWord(l, AllTaken(t, l)) = FirstWord(l, 1 .. Len(l))
         /\ HasStep(t, {"image"}) =>
              SecondWord(l, AllTaken(t, l)) = SecondWord(l, 1 .. Len(l))
  <1> DEFINE P == Promised[t]
             E == {}
             R == 1 .. Len(l)
             B == AllTaken(t, l)
             w == FirstWord(l, R)
  <1>1. R = Without(l, R, E)
    BY NoFlags
  <1>2. NoValue(l, R, P)
    BY DEF MisreadIn, NoValue
  <1>3. KeepsWord(l, P, P, E, E, R, B)
    BY <1>1, <1>2 DEF KeepsWord, AllTaken
  <1>4. FirstWord(l, B) = w
    BY <1>3, WordStays
  <1>5. ASSUME HasStep(t, {"image"})
        PROVE  SecondWord(l, B) = SecondWord(l, R)
    <2> DEFINE X == {w}
               R2 == R \ X
               B2 == B \ X
    <2>1. R2 = WithoutCommand(l, R) /\ B2 = WithoutCommand(l, B)
      BY <1>4 DEF WithoutCommand
    <2>2. NoValue(l, R2, P)
      BY <1>5, <2>1 DEF MisreadIn, NoValue, SecondWord
    <2>3. R2 = Without(l, R, E) \ X /\ B2 = Without(l, R, P) \ X
      BY <1>1 DEF AllTaken
    <2>4. KeepsWord(l, P, P, E, X, R2, B2)
      BY <2>2, <2>3 DEF KeepsWord
    <2>5. FirstWord(l, B2) = FirstWord(l, R2)
      BY <2>4, WordStays
    <2> QED
      BY <2>1, <2>5 DEF SecondWord
  <1> QED
    BY <1>4, <1>5

LEMMA SoundName ==
  ASSUME NEW t, NEW m, NEW c, NEW p, NEW l, NEW a, NEW im,
         Sound(t, m, c, p, l, a, im), p \in 1 .. Len(ToolSteps[t]),
         AppliesIn(ToolSteps[t][p], m, c), ToolSteps[t][p].do = "name"
  PROVE  Sound(t, m, getCommandName(l, 1 .. Len(l)), p + 1, l, a, im)
  <1> DEFINE d == getCommandName(l, 1 .. Len(l))
  <1>1. At(t, m, c, p) /\ l \in Seq(Tokens) /\ a \subseteq 1 .. Len(l)
    BY DEF Sound
  <1>2. ToolSteps[t][p].do \in Naming
    BY DEF Naming
  <1>3. d \in CommandNames
    BY <1>1, NamesAreKnown DEF getCommandName, CommandNames
  <1>4. At(t, m, d, p + 1)
    BY <1>1, <1>2, <1>3, NamedAt
  <1>5. t \notin DropsAWord
    BY <1>2, ToolTableLength, ToolTablesAssumption DEF HasStep, At, Sound
  <1>6. TakenBefore(t, m, d, p + 1) = TakenBefore(t, m, c, p)
    BY <1>1, <1>2, NamedTook
  <1>7. /\ Stripped(t, m, d, p + 1, l) = Stripped(t, m, c, p, l)
        /\ Whole(t, m, d, p + 1, l) <=> Whole(t, m, c, p, l)
    BY <1>6 DEF Stripped, Whole
  <1>8. /\ t \in SplitsFirst
        /\ ~HasStep(t, {"head"})
    <2>1. TakesTheHead(t, m, c, p) /\ NamesTheCommand(t, m, c, p)
      BY <1>1, <1>5, HereCame
    <2> QED
      BY <2>1 DEF TakesTheHead, NamesTheCommand
  <1>9. Untorn(t, m, d, p + 1, l, a)
    BY <1>8 DEF Untorn
  <1>10. ASSUME Whole(t, m, d, p + 1, l)
         PROVE  Told(t, m, d, p + 1, l, a, im)
    <2>1. Told(t, m, c, p, l, a, im)
      BY <1>5, <1>7, <1>10 DEF Sound
    <2>2. d = getCommandName(l, AllTaken(t, l))
      BY <1>1, <1>8, <1>10, WordsAreMeant DEF Whole, getCommandName
    <2>3. ~Did(t, m, d, p + 1, {"head"}) /\ ~Did(t, m, c, p, {"head"})
      BY <1>1, <1>4, <1>8, NoHead
    <2>4. /\ ToolSteps[t][p].do \notin {"image"}
          /\ ToolSteps[t][p].do \notin Dropping
      BY DEF Dropping
    <2>5. Did(t, m, d, p + 1, Dropping) <=> Did(t, m, c, p, Dropping)
      BY <1>1, <1>2, <2>4, NamedDid
    <2>6. Did(t, m, d, p + 1, {"image"}) <=> Did(t, m, c, p, {"image"})
      BY <1>1, <1>2, <2>4, NamedDid
    <2>7. a = LeftOf(t, m, d, p + 1, l)
      BY <1>7, <2>1, <2>3, <2>5 DEF Told, LeftOf
    <2> QED
      BY <1>7, <2>1, <2>2, <2>5, <2>6, <2>7 DEF Told
  <1> QED
    BY <1>1, <1>4, <1>9, <1>10 DEF Sound

LEMMA SoundImage ==
  ASSUME NEW t, NEW m, NEW c, NEW p, NEW l, NEW a, NEW im,
         Sound(t, m, c, p, l, a, im), p \in 1 .. Len(ToolSteps[t]),
         AppliesIn(ToolSteps[t][p], m, c), ToolSteps[t][p].do = "image",
         NEW d \in CommandNames
  PROVE  Sound(t, m, d, p + 1, l, a, NameAt(l, SecondWord(l, 1 .. Len(l))))
  <1> DEFINE i == NameAt(l, SecondWord(l, 1 .. Len(l)))
  <1>1. At(t, m, c, p) /\ l \in Seq(Tokens) /\ a \subseteq 1 .. Len(l)
    BY DEF Sound
  <1>2. ToolSteps[t][p].do \in Naming
    BY DEF Naming
  <1>3. At(t, m, d, p + 1)
    BY <1>1, <1>2, NamedAt
  <1>4. t \notin DropsAWord /\ HasStep(t, {"image"})
    BY <1>2, ToolTableLength, ToolTablesAssumption DEF HasStep, At, Sound
  <1>5. TakenBefore(t, m, d, p + 1) = TakenBefore(t, m, c, p)
    BY <1>1, <1>2, NamedTook
  <1>6. /\ Stripped(t, m, d, p + 1, l) = Stripped(t, m, c, p, l)
        /\ Whole(t, m, d, p + 1, l) <=> Whole(t, m, c, p, l)
    BY <1>5 DEF Stripped, Whole
  <1>7. /\ t \in SplitsFirst
        /\ ~Did(t, m, c, p, {"command", "name"})
        /\ ~HasStep(t, {"head"})
    <2>1. TakesTheHead(t, m, c, p) /\ NamesTheCommand(t, m, c, p)
      BY <1>1, <1>4, HereCame
    <2> QED
      BY <2>1 DEF TakesTheHead, NamesTheCommand
  <1>8. Untorn(t, m, d, p + 1, l, a)
    BY <1>7 DEF Untorn
  <1>9. ASSUME Whole(t, m, d, p + 1, l)
        PROVE  Told(t, m, d, p + 1, l, a, i)
    <2>1. Told(t, m, c, p, l, a, im)
      BY <1>4, <1>6, <1>9 DEF Sound
    <2>2. i = NameAt(l, SecondWord(l, AllTaken(t, l)))
      BY <1>1, <1>4, <1>7, <1>9, WordsAreMeant DEF Whole
    <2>3. ~Did(t, m, d, p + 1, {"head"}) /\ ~Did(t, m, c, p, {"head"})
      BY <1>1, <1>3, <1>7, NoHead
    <2>4. /\ ToolSteps[t][p].do \notin {"command", "name"}
          /\ ToolSteps[t][p].do \notin Dropping
      BY DEF Dropping
    <2>5. Did(t, m, d, p + 1, Dropping) <=> Did(t, m, c, p, Dropping)
      BY <1>1, <1>2, <2>4, NamedDid
    <2>6. ~Did(t, m, d, p + 1, {"command", "name"})
      BY <1>1, <1>2, <1>7, <2>4, NamedDid
    <2>7. a = LeftOf(t, m, d, p + 1, l)
      BY <1>6, <2>1, <2>3, <2>5 DEF Told, LeftOf
    <2> QED
      BY <1>6, <2>1, <2>2, <2>5, <2>6, <2>7 DEF Told
  <1> QED
    BY <1>1, <1>3, <1>8, <1>9 DEF Sound

LEMMA SoundHead ==
  ASSUME NEW t, NEW m, NEW c, NEW p, NEW l, NEW a, NEW im,
         Sound(t, m, c, p, l, a, im), p \in 1 .. Len(ToolSteps[t]),
         AppliesIn(ToolSteps[t][p], m, c), ToolSteps[t][p].do = "head",
         a # {}
  PROVE  Sound(t, m, l[First(a)].name, p + 1, l, a \ {First(a)}, im)
  <1> DEFINE d == l[First(a)].name
             b == a \ {First(a)}
  <1>1. At(t, m, c, p) /\ l \in Seq(Tokens) /\ a \subseteq 1 .. Len(l)
    BY DEF Sound
  <1>2. ToolSteps[t][p].do \in Naming
    BY DEF Naming
  <1>3. d \in CommandNames
    <2>1. a \in SUBSET Nat
      BY <1>1
    <2>2. First(a) \in 1 .. Len(l)
      BY <1>1, <2>1, FirstIsLeast
    <2>3. l[First(a)] \in Tokens
      BY <1>1, <2>2
    <2> QED
      BY <2>3 DEF Tokens, CommandNames
  <1>4. At(t, m, d, p + 1)
    BY <1>1, <1>2, <1>3, NamedAt
  <1>5. t \notin DropsAWord /\ HasStep(t, {"head"})
    BY <1>2, ToolTableLength, ToolTablesAssumption DEF HasStep, At, Sound
  <1>6. TakenBefore(t, m, d, p + 1) = TakenBefore(t, m, c, p)
    BY <1>1, <1>2, NamedTook
  <1>7. Stripped(t, m, d, p + 1, l) = Stripped(t, m, c, p, l)
    BY <1>6 DEF Stripped
  <1>8. Did(t, m, d, p + 1, {"head"})
    BY <1>1, <1>2, NamedDid
  <1>9. ~Did(t, m, c, p, {"head"})
    <2>1. TakesTheHead(t, m, c, p)
      BY <1>1, <1>5, HereCame
    <2> QED
      BY <1>5, <2>1 DEF TakesTheHead
  <1>10. a = Stripped(t, m, c, p, l)
    BY <1>5, <1>9 DEF Sound, Untorn
  <1>11. ~Did(t, m, d, p + 1, {"command", "name", "drop", "image"})
    BY <1>4, <1>5, HeadIsAlone
  <1>12. /\ ~Did(t, m, d, p + 1, Dropping)
         /\ ~Did(t, m, d, p + 1, {"command", "name"})
         /\ ~Did(t, m, d, p + 1, {"image"})
    BY <1>11 DEF Did, Dropping
  <1>13. Untorn(t, m, d, p + 1, l, b)
    BY <1>8 DEF Untorn
  <1>14. Told(t, m, d, p + 1, l, b, im)
    BY <1>7, <1>8, <1>10, <1>12 DEF Told, LeftOf
  <1> QED
    BY <1>1, <1>4, <1>13, <1>14 DEF Sound

(* When the tool runs, everything has been done.                             *)
LEMMA RunIsSound ==
  ASSUME NEW t, NEW m, NEW c, NEW p, NEW l, NEW a, NEW im,
         Sound(t, m, c, p, l, a, im), p \in 1 .. Len(ToolSteps[t]),
         AppliesIn(ToolSteps[t][p], m, c), ToolSteps[t][p].do = "run",
         ~MisreadIn(t, l),
         ~Torn(l, 1 .. Len(l), Promised[t] \ Leaves(t, m, c))
  PROVE  /\ HasStep(t, {"command", "name"}) =>
              c = getCommandName(l, AllTaken(t, l))
         /\ HasStep(t, {"image"}) =>
              im = NameAt(l, SecondWord(l, AllTaken(t, l)))
         /\ t \notin DropsAWord =>
              LET mine == Without(l, 1 .. Len(l),
                                  Promised[t] \ Leaves(t, m, c))
              IN  a = IF HasStep(t, {"head"}) THEN mine \ {First(mine)}
                      ELSE IF HasStep(t, Dropping)
                           THEN WithoutCommand(l, mine) ELSE mine
  <1>1. CASE t \in DropsAWord
    <2>1. ~HasStep(t, Naming)
      BY <1>1, ToolTablesAssumption
    <2>2. ~HasStep(t, {"command", "name"}) /\ ~HasStep(t, {"image"})
      BY <2>1 DEF HasStep, Naming
    <2> QED
      BY <1>1, <2>2
  <1>2. CASE t \notin DropsAWord
    <2>1. At(t, m, c, p)
      BY DEF Sound
    <2>2. RunsLast(t, m, c, p)
      BY <1>2, <2>1, HereCame
    <2>3. TakenBefore(t, m, c, p) = Promised[t] \ Leaves(t, m, c)
      BY <2>2 DEF RunsLast
    <2>4. Told(t, m, c, p, l, a, im)
      BY <1>2, <2>3 DEF Sound, Whole
    <2>5. /\ HasStep(t, {"command", "name"}) =>
               Did(t, m, c, p, {"command", "name"})
          /\ HasStep(t, {"image"}) => Did(t, m, c, p, {"image"})
          /\ HasStep(t, {"head"}) => Did(t, m, c, p, {"head"})
          /\ HasStep(t, Dropping) => Did(t, m, c, p, Dropping)
      BY <2>2 DEF RunsLast
    <2>6. Did(t, m, c, p, {"head"}) => HasStep(t, {"head"})
      BY <2>1, NoHead
    <2>7. Did(t, m, c, p, Dropping) => HasStep(t, Dropping)
      <3>1. \A k \in Passed(t, m, c, p) : k \in DOMAIN ToolSteps[t]
        BY <2>1, PassedCame
      <3> QED
        BY <3>1 DEF Did, HasStep
    <2>8. a = LeftOf(t, m, c, p, l)
      BY <2>4 DEF Told
    <2> QED
      BY <1>2, <2>3, <2>4, <2>5, <2>6, <2>7, <2>8 DEF Told, LeftOf, Stripped
  <1> QED
    BY <1>1, <1>2

LEMMA PanicIsEmpty ==
  ASSUME NEW t, NEW m, NEW c, NEW p, NEW l, NEW im,
         Sound(t, m, c, p, l, {}, im), p \in 1 .. Len(ToolSteps[t]),
         AppliesIn(ToolSteps[t][p], m, c), ToolSteps[t][p].do = "head"
  PROVE  AllTaken(t, l) = {}
  <1>1. At(t, m, c, p)
    BY DEF Sound
  <1>2. t \notin DropsAWord /\ HasStep(t, {"head"})
    BY <1>1, ToolTableLength, ToolTablesAssumption DEF HasStep, At, Naming
  <1>3. TakesTheHead(t, m, c, p)
    BY <1>1, <1>2, HereCame
  <1>4. /\ ~Did(t, m, c, p, {"head"})
        /\ TakenBefore(t, m, c, p) = Promised[t]
    BY <1>2, <1>3 DEF TakesTheHead
  <1> QED
    BY <1>2, <1>4 DEF Sound, Untorn, Stripped, AllTaken

(* ------------------------ Each step of a run is sound --------------------- *)

ToolInv ==
  /\ end = "running" => Sound(tool, mode, command, place, typed, args, image)
  /\ CommandAsTyped /\ ArgsReachTool /\ OnlyEmptyPanics

LEMMA EndIsSound ==
  ASSUME NEW how \in Ends \ {"running", "ran", "panic"}, EndTool(how)
  PROVE  ToolInv'
  BY DEF EndTool, ToolInv, CommandAsTyped, ArgsReachTool, OnlyEmptyPanics, Ends

LEMMA GoIsSound ==
  ASSUME ToolInv, end = "running", NEW left, Go(left),
         Sound(tool, mode, command, place + 1, typed, left, image)
  PROVE  ToolInv'
  BY DEF Go, ToolInv, CommandAsTyped, ArgsReachTool, OnlyEmptyPanics

LEMMA SplitIsSound ==
  ASSUME ToolInv, end = "running", NEW left, NEW cmd1, Split(cmd1, left),
         Sound(tool, mode, cmd1, place + 1, typed, left, image)
  PROVE  ToolInv'
  BY DEF Split, ToolInv, CommandAsTyped, ArgsReachTool, OnlyEmptyPanics

LEMMA ToolIsSound ==
  ASSUME ToolInv, ToolStep
  PROVE  ToolInv'
  <1>1. ASSUME end = "running"
        PROVE  Sound(tool, mode, command, place, typed, args, image)
    BY <1>1 DEF ToolInv
  <1>2. ASSUME NEW kinds, Does(kinds), Go(args),
               nstep.do \notin Taking \cup Naming \cup Dropping,
               ~EndsRun(tool, nstep, mode)
        PROVE  ToolInv'
    <2>1. Sound(tool, mode, command, place + 1, typed, args, image)
      BY <1>1, <1>2, SoundPass DEF Does, nstep
    <2> QED
      BY <1>2, <2>1, GoIsSound DEF Does
  <1>3. CASE SkipStep
    <2>1. Sound(tool, mode, command, place + 1, typed, args, image)
      BY <1>1, <1>3, SoundPass DEF SkipStep, nstep, Applicable
    <2> QED
      BY <1>3, <2>1, GoIsSound DEF SkipStep
  <1>4. CASE ShowsHelp
    <2>1. CASE EndTool("help")
      BY <2>1, EndIsSound DEF Ends
    <2>2. CASE ~HelpWanted /\ Go(args)
      <3>1. nstep.do \in {"help", "any help"}
        BY <1>4, <2>2 DEF ShowsHelp, Does, HelpWanted
      <3>2. /\ nstep.do \notin Taking \cup Naming \cup Dropping
            /\ ~EndsRun(tool, nstep, mode)
        BY <3>1 DEF Taking, Naming, Dropping, EndsRun
      <3> QED
        BY <1>2, <1>4, <2>2, <3>2 DEF ShowsHelp
    <2> QED
      BY <1>4, <2>1, <2>2 DEF ShowsHelp
  <1>5. CASE CountArgs
    <2>1. /\ nstep.do \notin Taking \cup Naming \cup Dropping
          /\ ~EndsRun(tool, nstep, mode)
      BY <1>5 DEF CountArgs, Does, Taking, Naming, Dropping, EndsRun
    <2> QED
      BY <1>2, <1>5, <2>1, EndIsSound DEF CountArgs, Ends
  <1>6. CASE FindConfig
    <2>1. CASE EndTool("failed")
      BY <2>1, EndIsSound DEF Ends
    <2>2. CASE /\ mode \in nstep.flags \/ "run-native" \in Promised[tool]
               /\ Go(args)
      <3>1. /\ nstep.do \notin Taking \cup Naming \cup Dropping
            /\ ~EndsRun(tool, nstep, mode)
        BY <1>6, <2>2
           DEF FindConfig, Does, Taking, Naming, Dropping, EndsRun
      <3> QED
        BY <1>2, <1>6, <2>2, <3>1 DEF FindConfig
    <2> QED
      BY <1>6, <2>1, <2>2 DEF FindConfig
  <1>7. CASE LoadsServer
    <2>1. /\ nstep.do \notin Taking \cup Naming \cup Dropping
          /\ ~EndsRun(tool, nstep, mode)
      BY <1>7 DEF LoadsServer, Does, Taking, Naming, Dropping, EndsRun
    <2> QED
      BY <1>2, <1>7, <2>1, EndIsSound DEF LoadsServer, Ends
  <1>8. CASE SplitCommand
    <2>1. Sound(tool, mode, getCommandName(typed, args), place + 1, typed,
                WithoutCommand(typed, args), image)
      BY <1>1, <1>8, SoundCommand DEF SplitCommand, Does, nstep, Applicable
    <2> QED
      BY <1>8, <2>1, SplitIsSound DEF SplitCommand, Does
  <1>9. CASE NameCommand
    <2>1. Sound(tool, mode, getCommandName(typed, All), place + 1, typed,
                args, image)
      BY <1>1, <1>9, SoundName DEF NameCommand, Does, nstep, Applicable, All
    <2> QED
      BY <1>9, <2>1, SplitIsSound DEF NameCommand, Does
  <1>10. CASE DropWord
    <2>1. Sound(tool, mode, command, place + 1, typed,
                WithoutCommand(typed, args), image)
      BY <1>1, <1>10, SoundDrop DEF DropWord, Does, nstep, Applicable
    <2> QED
      BY <1>10, <2>1, GoIsSound DEF DropWord, Does
  <1>11. CASE FindImage
    <2>1. command' \in CommandNames
      <3>1. typed \in Seq(Tokens)
        BY <1>1, <1>11 DEF FindImage, Does, Sound
      <3>2. getCommandName(typed, All) \in ArgNames \cup {""}
        BY <3>1, NamesAreKnown DEF getCommandName, All
      <3> QED
        BY <1>11, <3>2 DEF FindImage, CommandNames
    <2>2. Sound(tool, mode, command', place + 1, typed, args,
                NameAt(typed, SecondWord(typed, All)))
      BY <1>1, <1>11, <2>1, SoundImage
         DEF FindImage, Does, nstep, Applicable, All
    <2> QED
      BY <1>11, <2>2 DEF FindImage, Does, ToolInv, CommandAsTyped,
                         ArgsReachTool, OnlyEmptyPanics
  <1>12. ASSUME NEW kinds \in SUBSET Taking, Does(kinds), NEW left, Go(left),
                TakeFits(tool, place, typed, args, left)
         PROVE  ToolInv'
    <2>1. Sound(tool, mode, command, place + 1, typed, left, image)
      BY <1>1, <1>12, SoundTake DEF Does, nstep, Applicable
    <2> QED
      BY <1>12, <2>1, GoIsSound DEF Does
  <1>13. CASE TakeValues
    <2>1. CASE EndTool("usage")
      BY <2>1, EndIsSound DEF Ends
    <2>2. CASE /\ ~Torn(typed, args, nstep.flags)
               /\ Go(Without(typed, args, nstep.flags))
      <3>1. TakeFits(tool, place, typed, args,
                     Without(typed, args, nstep.flags))
        BY <1>13, <2>2 DEF TakeValues, Does, TakeFits, nstep
      <3>2. {"values"} \in SUBSET Taking
        BY DEF Taking
      <3> QED
        BY <1>12, <1>13, <2>2, <3>1, <3>2 DEF TakeValues
    <2> QED
      BY <1>13, <2>1, <2>2 DEF TakeValues
  <1>14. CASE TakeSwitches
    <2>1. TakeFits(tool, place, typed, args,
                   Without(typed, args, nstep.flags))
      BY <1>14 DEF TakeSwitches, Does, TakeFits, nstep
    <2>2. {"bools"} \in SUBSET Taking
      BY DEF Taking
    <2> QED
      BY <1>12, <1>14, <2>1, <2>2 DEF TakeSwitches
  <1>15. CASE TakeLeniently
    <2>1. {"lenient"} \in SUBSET Taking /\ {"greedy"} \in SUBSET Taking
      BY DEF Taking
    <2>2. CASE Does({"lenient"})
                 /\ Go(IF Torn(typed, args, nstep.flags) THEN args
                       ELSE Without(typed, args, nstep.flags))
      <3> DEFINE left == IF Torn(typed, args, nstep.flags) THEN args
                         ELSE Without(typed, args, nstep.flags)
      <3>1. TakeFits(tool, place, typed, args, left)
        BY <2>2 DEF Does, TakeFits, nstep
      <3> QED
        BY <1>12, <2>1, <2>2, <3>1
    <2>3. CASE Does({"greedy"})
                 /\ Go(IF AtEnd(typed, args, nstep.flags) THEN args
                       ELSE Without(typed, args, nstep.flags))
      <3> DEFINE left == IF AtEnd(typed, args, nstep.flags) THEN args
                         ELSE Without(typed, args, nstep.flags)
      <3>1. TakeFits(tool, place, typed, args, left)
        BY <2>3 DEF Does, TakeFits, nstep
      <3> QED
        BY <1>12, <2>1, <2>3, <3>1
    <2> QED
      BY <1>15, <2>2, <2>3 DEF TakeLeniently
  <1>16. CASE TakeHead
    <2>1. CASE args = {} /\ EndTool("panic")
      <3>1. Sound(tool, mode, command, place, typed, {}, image)
        BY <1>1, <1>16, <2>1 DEF TakeHead, Does
      <3>2. AllTaken(tool, typed) = {}
        BY <1>16, <3>1, PanicIsEmpty DEF TakeHead, Does, nstep, Applicable
      <3> QED
        BY <2>1, <3>2 DEF EndTool, ToolInv, CommandAsTyped, ArgsReachTool,
                          OnlyEmptyPanics, Meant, AllTaken, All
    <2>2. CASE /\ args # {}
               /\ Split(typed[First(args)].name, args \ {First(args)})
      <3>1. Sound(tool, mode, typed[First(args)].name, place + 1, typed,
                  args \ {First(args)}, image)
        BY <1>1, <1>16, <2>2, SoundHead
           DEF TakeHead, Does, nstep, Applicable
      <3> QED
        BY <1>16, <2>2, <3>1, SplitIsSound DEF TakeHead, Does
    <2> QED
      BY <1>16, <2>1, <2>2 DEF TakeHead
  <1>17. CASE NeedOne
    <2>1. /\ nstep.do \notin Taking \cup Naming \cup Dropping
          /\ ~EndsRun(tool, nstep, mode)
      BY <1>17 DEF NeedOne, Does, Taking, Naming, Dropping, EndsRun
    <2> QED
      BY <1>2, <1>17, <2>1, EndIsSound DEF NeedOne, Ends
  <1>18. CASE NeedScan
    <2>1. /\ nstep.do \notin Taking \cup Naming \cup Dropping
          /\ ~EndsRun(tool, nstep, mode)
      BY <1>18 DEF NeedScan, Does, Taking, Naming, Dropping, EndsRun
    <2> QED
      BY <1>2, <1>18, <2>1, EndIsSound DEF NeedScan, Ends
  <1>19. CASE RefuseCommand
    BY <1>19, EndIsSound DEF RefuseCommand, Ends
  <1>20. CASE RunTool
    <2>1. CASE EndTool("failed")
      BY <2>1, EndIsSound DEF Ends
    <2>2. CASE EndTool("ran")
      <3>1. ASSUME Understood
            PROVE  /\ HasStep(tool, {"command", "name"}) =>
                        command = getCommandName(typed, Meant)
                   /\ HasStep(tool, {"image"}) =>
                        image = NameAt(typed, SecondWord(typed, Meant))
                   /\ tool \notin DropsAWord => args = Handed
        <4>1. /\ ~MisreadIn(tool, typed)
              /\ ~Torn(typed, 1 .. Len(typed),
                       Promised[tool] \ Leaves(tool, mode, command))
          BY <3>1 DEF Understood, Misread, MisreadIn, Taken, All
        <4>2. /\ place \in 1 .. Len(ToolSteps[tool])
              /\ AppliesIn(ToolSteps[tool][place], mode, command)
              /\ ToolSteps[tool][place].do = "run"
              /\ Sound(tool, mode, command, place, typed, args, image)
          BY <1>1, <1>20 DEF RunTool, Does, nstep, Applicable
        <4> QED
          BY <4>1, <4>2, RunIsSound
             DEF Handed, Mine, Meant, Taken, All, AllTaken
      <3>2. UNCHANGED <<tool, typed, mode, place, args, command, image>>
        BY <2>2 DEF EndTool
      <3>3. end' = "ran"
        BY <2>2 DEF EndTool
      <3>4. Understood' = Understood /\ Meant' = Meant /\ Handed' = Handed
        BY <3>2 DEF Understood, Meant, Handed, Misread, Taken, Mine, All
      <3> QED
        BY <3>1, <3>2, <3>3, <3>4
           DEF ToolInv, CommandAsTyped, ArgsReachTool, OnlyEmptyPanics
    <2> QED
      BY <1>20, <2>1, <2>2 DEF RunTool
  <1> QED
    BY <1>3, <1>4, <1>5, <1>6, <1>7, <1>8, <1>9, <1>10, <1>11, <1>13, <1>14,
       <1>15, <1>16, <1>17, <1>18, <1>19, <1>20 DEF ToolStep

(* A line below jf ruby is as well formed as the one that was typed.         *)
LEMMA DispatchIsSound ==
  ASSUME ToolInv, NEW alias \in {"jf"} \cup SupportedTools, NEW c,
         Dispatch(alias, c)
  PROVE  ToolInv'
  <1>1. CASE UNCHANGED nvars
    BY <1>1 DEF nvars, ToolInv, CommandAsTyped, ArgsReachTool,
                OnlyEmptyPanics, Understood, Meant, Handed, Misread, Taken,
                Mine, All
  <1>2. ASSUME c \in Tools, NEW l \in Typed[c], NEW m \in ModesOf(c),
               StartTool(c, IF alias \in RubyTools
                            THEN <<Word(alias)>> \o l ELSE l, m)
        PROVE  ToolInv'
    <2> DEFINE line1 == IF alias \in RubyTools
                        THEN <<Word(alias)>> \o l ELSE l
    <2>1. l \in Seq(Tokens)
      BY <1>2, LinesAssumption
    <2>2. ASSUME alias \in RubyTools PROVE <<Word(alias)>> \in Seq(Tokens)
      <3>1. Word(alias) \in Tokens
        BY <2>2, AliasesAssumption DEF Word, Tokens
      <3> QED
        BY <3>1
    <2>3. line1 \in Seq(Tokens)
      BY <2>1, <2>2
    <2>4. m \in Modes
      BY ModesAssumption DEF ModesOf
    <2>5. Sound(c, m, "", 1, line1, 1 .. Len(line1), "")
      BY <1>2, <2>3, <2>4, StartIsSound
    <2> HIDE DEF line1
    <2>6. StartTool(c, line1, m)
      BY <1>2 DEF line1
    <2> QED
      BY <2>5, <2>6 DEF StartTool, ToolInv, CommandAsTyped, ArgsReachTool,
                        OnlyEmptyPanics
  <1> QED
    BY <1>1, <1>2 DEF Dispatch

LEMMA ToolInvStays ==
  ASSUME ToolInv, UNCHANGED nvars
  PROVE  ToolInv'
  BY DEF nvars, ToolInv, CommandAsTyped, ArgsReachTool, OnlyEmptyPanics,
         Understood, Meant, Handed, Misread, Taken, Mine, All

LEMMA NextIsSound ==
  ASSUME ToolInv, [Next]_vars
  PROVE  ToolInv'
  <1>1. CASE TypeCommand
    BY <1>1, DispatchIsSound, ToolInvStays DEF TypeCommand
  <1>2. CASE TypeAlias
    BY <1>2, DispatchIsSound, ToolInvStays DEF TypeAlias
  <1>3. CASE RunNative
    BY <1>3, ToolIsSound DEF RunNative
  <1>4. CASE RunHandler \/ ReporterSignals \/ ReporterPanics
    BY <1>4, ToolInvStays DEF RunHandler, ReporterSignals, ReporterPanics
  <1>5. CASE Return \/ Receive \/ TimeOut
    BY <1>5, ToolInvStays DEF Return, Receive, TimeOut
  <1>6. CASE ExitInside \/ CleanUpAndExit
    BY <1>6, ToolInvStays DEF ExitInside, CleanUpAndExit, Exit
  <1>7. CASE UNCHANGED vars
    BY <1>7, ToolInvStays DEF vars
  <1> QED
    BY <1>1, <1>2, <1>3, <1>4, <1>5, <1>6, <1>7 DEF Next, Proceeds, Done

LEMMA ToolAlways == JSpec => []ToolInv
  <1>1. Init => ToolInv
    BY DEF Init, Idle, ToolInv, CommandAsTyped, ArgsReachTool,
           OnlyEmptyPanics
  <1> QED
    BY <1>1, NextIsSound, PTL DEF JSpec

(* Wherever a flag of jf and its value stand in the arguments, the tool runs *)
(* the command, and docker the image, that the user typed: of every handler  *)
(* whose table satisfies the assumptions, for lines of every length.         *)
THEOREM ToolsRunTheTypedCommand == JSpec => []CommandAsTyped
  <1>1. ToolInv => CommandAsTyped
    BY DEF ToolInv
  <1> QED
    BY <1>1, ToolAlways, PTL

(* Taking the flags of jf away step by step, some of them after a word, ends *)
(* with all other arguments, in their order.                                 *)
THEOREM OtherArgumentsReachTheTool == JSpec => []ArgsReachTool
  <1>1. ToolInv => ArgsReachTool
    BY DEF ToolInv
  <1> QED
    BY <1>1, ToolAlways, PTL

(* A handler that takes the head of what is left panics only if the user     *)
(* typed nothing but flags of jf.                                            *)
THEOREM HeadIsThere == JSpec => []OnlyEmptyPanics
  <1>1. ToolInv => OnlyEmptyPanics
    BY DEF ToolInv
  <1> QED
    BY <1>1, ToolAlways, PTL

(* ----------------------------- Aliases ----------------------------------- *)

(* What must be true of an alias of a package manager once it was typed: jf  *)
(* has gone to the command that wraps it. Below jf ruby, the first word is   *)
(* the tool; it is there until the handler has taken it for the command.     *)
Wrapping(name) == Lookup("", name)
AliasStart ==
  /\ phase = "start" => from = "jf"
  /\ from \in {"jf"} \cup SupportedTools
RubyAt ==
  from \in RubyTools =>
    /\ tool \in Wrapping("ruby") /\ mode \in Modes
    /\ Len(typed) \in Nat \ {0} /\ typed[1] = Word(from)
    /\ end = "running" => place \in Nat \ {0}
    /\ \A q \in DOMAIN ToolSteps[tool] :
         ToolSteps[tool][q].do = "command" =>
           /\ end = "running" /\ place <= q => args = 1 .. Len(typed)
           /\ end = "running" /\ place > q => command = from
AliasInv == AliasStart /\ RubyAt /\ AliasRunsItsTool

LEMMA FirstOfAll ==
  ASSUME NEW l, NEW n \in Nat \ {0}, l[1].kind = "word"
  PROVE  getCommandName(l, 1 .. n) = l[1].name
  <1> DEFINE S == {i \in 1 .. n : l[i].kind = "word"}
  <1>1. S \in SUBSET Nat /\ 1 \in S /\ 0 \notin S
    OBVIOUS
  <1>2. First(S) \in S /\ First(S) <= 1
    BY <1>1, FirstIsLeast
  <1>3. First(S) = 1
    BY <1>1, <1>2
  <1> QED
    BY <1>3 DEF getCommandName, FirstWord, NameAt

LEMMA WrappingIsATool ==
  ASSUME NEW name \in (SupportedTools \ RubyTools) \cup {"ruby"}
  PROVE  /\ Wrapping(name) # {}
         /\ \A c \in Wrapping(name) :
              c.name = name /\ c \in Tools \ Commands /\ ~ShowsItsHelp(c)
         /\ \A c \in Wrapping("ruby") : NamesItsTool(c)
  BY AliasesAssumption DEF Wrapping

LEMMA WordInFront ==
  ASSUME NEW l \in Seq(Tokens), NEW w \in Tokens
  PROVE  Len(<<w>> \o l) \in Nat \ {0} /\ (<<w>> \o l)[1] = w
  OBVIOUS

LEMMA AliasStays ==
  ASSUME AliasInv, UNCHANGED <<nvars, from>>, phase' # "start",
         phase' = "unknown" => phase = "unknown"
  PROVE  AliasInv'
  BY DEF AliasInv, AliasStart, RubyAt, AliasRunsItsTool, nvars

LEMMA AliasTyped ==
  ASSUME AliasInv, TypeAlias
  PROVE  AliasInv'
  <1>1. PICK alias \in SupportedTools :
          /\ from' = alias
          /\ IF Wrapping(runJFMode(alias)) = {}
               THEN phase' = "unknown" /\ UNCHANGED <<cvars, nvars>>
               ELSE \E c \in Wrapping(runJFMode(alias)) : Dispatch(alias, c)
    BY DEF TypeAlias, Wrapping
  <1> DEFINE name == runJFMode(alias)
  <1>2. /\ name \in (SupportedTools \ RubyTools) \cup {"ruby"}
        /\ alias \in RubyTools => name = "ruby"
        /\ alias \notin RubyTools => name = alias
    BY DEF runJFMode
  <1> HIDE DEF name
  <1>3. PICK c \in Wrapping(name) : Dispatch(alias, c)
    BY <1>1, <1>2, WrappingIsATool DEF name
  <1>4. c.name = name /\ c \in Tools \ Commands /\ ~ShowsItsHelp(c)
    BY <1>2, <1>3, WrappingIsATool
  <1>5. PICK l \in Typed[c], m \in ModesOf(c) :
          /\ phase' = "native"
          /\ StartTool(c, IF alias \in RubyTools
                          THEN <<Word(alias)>> \o l ELSE l, m)
    BY <1>3, <1>4 DEF Dispatch
  <1>6. /\ tool' = c /\ place' = 1 /\ end' = "running" /\ alias # "jf"
        /\ args' = 1 .. Len(typed')
    BY <1>5, AliasesAssumption DEF StartTool
  <1>7. AliasStart' /\ AliasRunsItsTool'
    BY <1>1, <1>2, <1>4, <1>5, <1>6, AliasesAssumption
       DEF AliasStart, AliasRunsItsTool
  <1>8. ASSUME alias \in RubyTools
        PROVE  RubyAt'
    <2>1. typed' = <<Word(alias)>> \o l
      BY <1>5, <1>8 DEF StartTool
    <2>2. c \in Tools
      BY <1>4
    <2>3. l \in Seq(Tokens)
      BY <2>2, LinesAssumption
    <2>4. Word(alias) \in Tokens
      BY <1>8, AliasesAssumption DEF Word, Tokens
    <2>5. Len(typed') \in Nat \ {0} /\ typed'[1] = Word(alias)
      BY <2>1, <2>3, <2>4, WordInFront
    <2>6. ASSUME NEW q \in DOMAIN ToolSteps[c] PROVE 1 <= q
      <3>1. q \in 1 .. Len(ToolSteps[c])
        BY <2>2, ToolTableLength
      <3> QED
        BY <3>1
    <2>7. tool' \in Wrapping("ruby")
      BY <1>2, <1>3, <1>6, <1>8
    <2>8. ASSUME NEW q \in DOMAIN ToolSteps[tool']
          PROVE  /\ args' = 1 .. Len(typed')
                 /\ ~ (place' > q)
      <3>1. 1 <= q /\ q \in Nat
        BY <1>6, <2>2, <2>6, ToolTableLength
      <3> QED
        BY <1>6, <3>1
    <2>9. place' \in Nat \ {0} /\ mode' \in Modes
      <3>1. m \in Modes
        BY ModesAssumption DEF ModesOf
      <3>2. mode' = m
        BY <1>5 DEF StartTool
      <3> QED
        BY <1>6, <3>1, <3>2
    <2> QED
      BY <1>1, <2>5, <2>7, <2>8, <2>9 DEF RubyAt
  <1>9. alias \notin RubyTools => RubyAt'
    BY <1>1 DEF RubyAt
  <1> QED
    BY <1>7, <1>8, <1>9 DEF AliasInv

(* The place of a handler below jf ruby before or behind its "command" step. *)
LEMMA RubyPlace ==
  ASSUME RubyAt, from \in RubyTools, end = "running",
         place \in 1 .. Len(ToolSteps[tool]),
         NEW q \in DOMAIN ToolSteps[tool], ToolSteps[tool][q].do = "command"
  PROVE  /\ tool \in Tools /\ q \in Nat /\ place \in Nat
         /\ place = q => nstep.do = "command" /\ Applicable(nstep)
         /\ place < q =>
              nstep.do \notin Taking \cup Naming \cup Dropping \cup {"run"}
         /\ nstep.do \in Naming => place <= q
  <1>1. tool \in Tools /\ NamesItsTool(tool) /\ mode \in Modes
    BY WrappingIsATool DEF RubyAt
  <1>2. q \in 1 .. Len(ToolSteps[tool]) /\ Len(ToolSteps[tool]) \in Nat
    BY <1>1, ToolTableLength
  <1>3. place \in DOMAIN ToolSteps[tool]
    BY <1>1, ToolTableLength
  <1>4. /\ ToolSteps[tool][q].only = {} /\ ToolSteps[tool][q].but = {}
        /\ ToolSteps[tool][q].modes = Modes
        /\ \A k \in 1 .. q - 1 :
             ToolSteps[tool][k].do
               \notin Taking \cup Naming \cup Dropping \cup {"run"}
        /\ \A k \in DOMAIN ToolSteps[tool] :
             k > q => ToolSteps[tool][k].do \notin Naming
    BY <1>1 DEF NamesItsTool
  <1>5. q \in Nat /\ place \in Nat /\ (place < q => place \in 1 .. q - 1)
    BY <1>2
  <1>6. place > q => nstep.do \notin Naming
    BY <1>3, <1>4 DEF nstep
  <1>7. place <= q \/ place > q
    BY <1>5
  <1> QED
    BY <1>1, <1>4, <1>5, <1>6, <1>7 DEF nstep, Applicable, AppliesIn

LEMMA RubyHasCommand ==
  ASSUME RubyAt, from \in RubyTools
  PROVE  \E q \in DOMAIN ToolSteps[tool] : ToolSteps[tool][q].do = "command"
  BY WrappingIsATool DEF RubyAt, NamesItsTool, HasStep

LEMMA AliasGoes ==
  ASSUME AliasInv, phase # "start", UNCHANGED jvars, end = "running",
         place \in 1 .. Len(ToolSteps[tool]), NEW left, Go(left),
         nstep.do = "command" => ~Applicable(nstep),
         left # args => nstep.do \in Taking \cup Dropping
  PROVE  AliasInv'
  <1>1. /\ UNCHANGED <<tool, typed, mode, command, end, phase, from>>
        /\ place' = place + 1 /\ args' = left
    BY DEF Go, jvars
  <1>2. AliasStart' /\ AliasRunsItsTool'
    BY <1>1 DEF AliasInv, AliasStart, AliasRunsItsTool
  <1>3. ASSUME from \in RubyTools PROVE RubyAt'
    <2>1. RubyAt /\ place \in Nat \ {0}
      BY <1>3 DEF AliasInv, RubyAt
    <2>2. ASSUME NEW q \in DOMAIN ToolSteps[tool],
                 ToolSteps[tool][q].do = "command"
          PROVE  /\ place + 1 <= q => left = 1 .. Len(typed)
                 /\ place + 1 > q => command = from
      <3>1. /\ q \in Nat /\ place # q
            /\ place < q => nstep.do \notin Taking \cup Dropping
        BY <1>3, <2>1, <2>2, RubyPlace
      <3>2. /\ place <= q => args = 1 .. Len(typed)
            /\ place > q => command = from
        BY <1>3, <2>1, <2>2 DEF RubyAt
      <3>3. CASE place < q
        BY <2>1, <3>1, <3>2, <3>3
      <3>4. CASE place > q
        BY <2>1, <3>1, <3>2, <3>4
      <3> QED
        BY <2>1, <3>1, <3>3, <3>4
    <2>3. place + 1 \in Nat \ {0}
      BY <2>1
    <2> QED
      BY <1>1, <1>3, <2>1, <2>2, <2>3 DEF RubyAt
  <1>4. from \notin RubyTools => RubyAt'
    BY <1>1 DEF RubyAt
  <1> QED
    BY <1>2, <1>3, <1>4 DEF AliasInv

LEMMA AliasEnds ==
  ASSUME AliasInv, phase # "start", UNCHANGED jvars, end = "running",
         place \in 1 .. Len(ToolSteps[tool]),
         NEW how \in Ends \ {"running"}, EndTool(how),
         how = "ran" => nstep.do = "run"
  PROVE  AliasInv'
  <1>1. /\ UNCHANGED <<tool, typed, mode, place, args, command, phase, from>>
        /\ end' = how
    BY DEF EndTool, jvars
  <1>2. ASSUME from \in RubyTools, how = "ran" PROVE command = from
    <2>1. RubyAt
      BY DEF AliasInv
    <2>2. PICK q \in DOMAIN ToolSteps[tool] :
            ToolSteps[tool][q].do = "command"
      BY <1>2, <2>1, RubyHasCommand
    <2>3. q \in Nat /\ place \in Nat /\ place # q /\ ~ (place < q)
      BY <1>2, <2>1, <2>2, RubyPlace
    <2>4. place > q
      BY <2>3
    <2> QED
      BY <1>2, <2>1, <2>2, <2>4 DEF RubyAt
  <1>3. AliasStart' /\ AliasRunsItsTool'
    BY <1>1, <1>2 DEF AliasInv, AliasStart, AliasRunsItsTool
  <1>4. RubyAt'
    BY <1>1 DEF AliasInv, RubyAt
  <1> QED
    BY <1>3, <1>4 DEF AliasInv

(* The command of a tool below jf ruby is named once, by the word in front.  *)
LEMMA AliasNames ==
  ASSUME AliasInv, phase # "start", UNCHANGED jvars, end = "running",
         place \in 1 .. Len(ToolSteps[tool]), nstep.do \in Naming,
         UNCHANGED <<tool, typed, mode, end>>, place' = place + 1,
         nstep.do = "command" => command' = getCommandName(typed, args)
  PROVE  AliasInv'
  <1>1. UNCHANGED <<phase, from>>
    BY DEF jvars
  <1>2. AliasStart' /\ AliasRunsItsTool'
    BY <1>1 DEF AliasInv, AliasStart, AliasRunsItsTool
  <1>3. ASSUME from \in RubyTools PROVE RubyAt'
    <2>1. RubyAt /\ place \in Nat \ {0} /\ Len(typed) \in Nat \ {0}
      BY <1>3 DEF AliasInv, RubyAt
    <2>2. ASSUME NEW q \in DOMAIN ToolSteps[tool],
                 ToolSteps[tool][q].do = "command"
          PROVE  place = q /\ command' = from
      <3>1. /\ q \in Nat /\ ~ (place < q) /\ place <= q
            /\ place = q => nstep.do = "command"
        BY <1>3, <2>1, <2>2, RubyPlace
      <3>2. place = q
        BY <2>1, <3>1
      <3>3. args = 1 .. Len(typed) /\ typed[1] = Word(from)
        BY <1>3, <2>1, <2>2, <3>1 DEF RubyAt
      <3>4. command' = from
        BY <2>1, <3>1, <3>2, <3>3, FirstOfAll DEF Word
      <3> QED
        BY <3>2, <3>4
    <2>3. place + 1 \in Nat \ {0} /\ ~ (place + 1 <= place)
      BY <2>1
    <2> QED
      BY <1>1, <1>3, <2>1, <2>2, <2>3 DEF RubyAt
  <1>4. from \notin RubyTools => RubyAt'
    BY <1>1 DEF RubyAt
  <1> QED
    BY <1>2, <1>3, <1>4 DEF AliasInv

LEMMA AliasSteps ==
  ASSUME AliasInv, phase # "start", UNCHANGED jvars, ToolStep
  PROVE  AliasInv'
  <1>1. ASSUME NEW kinds, Does(kinds), NEW left, Go(left),
               "command" \notin kinds,
               left = args \/ kinds \subseteq Taking \cup Dropping
        PROVE  AliasInv'
    <2>1. nstep.do # "command"
      BY <1>1 DEF Does
    <2>2. left = args \/ nstep.do \in Taking \cup Dropping
      BY <1>1 DEF Does
    <2> QED
      BY <1>1, <2>1, <2>2, AliasGoes DEF Does
  <1>2. ASSUME NEW kinds, Does(kinds), NEW how \in Ends \ {"running", "ran"},
               EndTool(how)
        PROVE  AliasInv'
    BY <1>2, AliasEnds DEF Does
  <1>3. ASSUME NEW kinds \in SUBSET Naming, Does(kinds),
               UNCHANGED <<tool, typed, mode, end>>, place' = place + 1,
               kinds = {"command"} => command' = getCommandName(typed, args),
               kinds = {"command"} \/ "command" \notin kinds
        PROVE  AliasInv'
    <2>1. nstep.do \in Naming
      BY <1>3 DEF Does
    <2>2. nstep.do = "command" => command' = getCommandName(typed, args)
      BY <1>3 DEF Does
    <2> QED
      BY <1>3, <2>1, <2>2, AliasNames DEF Does
  <1>4. CASE SkipStep
    <2>1. ASSUME NEW left, Go(left)
          PROVE  left = args => AliasInv'
      BY <1>4, <2>1, AliasGoes DEF SkipStep
    <2>2. Go(args)
      BY <1>4 DEF SkipStep
    <2> QED
      BY <2>1, <2>2
  <1>5. CASE ShowsHelp
    <2>1. "command" \notin {"help", "any help", "show"}
      OBVIOUS
    <2>2. CASE HelpWanted
      BY <1>2, <1>5, <2>2 DEF ShowsHelp, Ends
    <2>3. CASE ~HelpWanted
      BY <1>1, <1>5, <2>1, <2>3 DEF ShowsHelp
    <2> QED
      BY <2>2, <2>3
  <1>6. CASE CountArgs
    BY <1>1, <1>2, <1>6 DEF CountArgs, Ends
  <1>7. CASE FindConfig
    <2>1. CASE Go(args)
      BY <1>1, <1>7, <2>1 DEF FindConfig
    <2>2. CASE EndTool("failed")
      BY <1>2, <1>7, <2>2 DEF FindConfig, Ends
    <2> QED
      BY <1>7, <2>1, <2>2 DEF FindConfig
  <1>8. CASE LoadsServer
    BY <1>1, <1>2, <1>8 DEF LoadsServer, Ends
  <1>9. CASE SplitCommand
    <2>1. {"command"} \in SUBSET Naming
      BY DEF Naming
    <2> QED
      BY <1>3, <1>9, <2>1 DEF SplitCommand, Split
  <1>10. CASE NameCommand
    <2>1. {"name"} \in SUBSET Naming /\ "command" \notin {"name"}
      BY DEF Naming
    <2> QED
      BY <1>3, <1>10, <2>1 DEF NameCommand, Split
  <1>11. CASE DropWord
    <2>1. {"drop"} \subseteq Taking \cup Dropping /\ "command" \notin {"drop"}
      BY DEF Dropping
    <2> QED
      BY <1>1, <1>11, <2>1 DEF DropWord
  <1>12. CASE FindImage
    <2>1. {"image"} \in SUBSET Naming /\ "command" \notin {"image"}
      BY DEF Naming
    <2> QED
      BY <1>3, <1>12, <2>1 DEF FindImage
  <1>13. CASE TakeValues
    <2>1. {"values"} \subseteq Taking \cup Dropping
      BY DEF Taking
    <2> QED
      BY <1>1, <1>2, <1>13, <2>1 DEF TakeValues, Ends
  <1>14. CASE TakeSwitches
    <2>1. {"bools"} \subseteq Taking \cup Dropping
      BY DEF Taking
    <2> QED
      BY <1>1, <1>14, <2>1 DEF TakeSwitches
  <1>15. CASE TakeLeniently
    <2>1. /\ {"lenient"} \subseteq Taking \cup Dropping
          /\ {"greedy"} \subseteq Taking \cup Dropping
      BY DEF Taking
    <2> QED
      BY <1>1, <1>15, <2>1 DEF TakeLeniently
  <1>16. CASE TakeHead
    <2>1. {"head"} \in SUBSET Naming /\ "command" \notin {"head"}
      BY DEF Naming
    <2> QED
      BY <1>2, <1>3, <1>16, <2>1 DEF TakeHead, Split, Ends
  <1>17. CASE NeedOne
    BY <1>1, <1>2, <1>17 DEF NeedOne, Ends
  <1>18. CASE NeedScan
    <2>1. Does({"needs scan"}) /\ (Go(args) \/ EndTool("usage"))
      BY <1>18 DEF NeedScan
    <2>2. "command" \notin {"needs scan"}
      OBVIOUS
    <2> QED
      BY <1>1, <1>2, <2>1, <2>2 DEF Ends
  <1>19. CASE RefuseCommand
    BY <1>2, <1>19 DEF RefuseCommand, Ends
  <1>20. CASE RunTool
    <2>1. CASE EndTool("ran")
      BY <1>20, <2>1, AliasEnds DEF RunTool, Does, Ends
    <2>2. CASE EndTool("failed")
      BY <1>2, <1>20, <2>2 DEF RunTool, Ends
    <2> QED
      BY <1>20, <2>1, <2>2 DEF RunTool
  <1> QED
    BY <1>4, <1>5, <1>6, <1>7, <1>8, <1>9, <1>10, <1>11, <1>12, <1>13, <1>14,
       <1>15, <1>16, <1>17, <1>18, <1>19, <1>20 DEF ToolStep

LEMMA NextAlias ==
  ASSUME AliasInv, [Next]_vars
  PROVE  AliasInv'
  <1>1. CASE TypeCommand
    <2>1. from' = "jf" /\ phase' # "start" /\ "jf" \notin RubyTools
      BY <1>1, AliasesAssumption DEF TypeCommand, Dispatch, AliasInv,
                                     AliasStart, RubyTools
    <2> QED
      BY <2>1 DEF AliasInv, AliasStart, RubyAt, AliasRunsItsTool
  <1>2. CASE TypeAlias
    BY <1>2, AliasTyped
  <1>3. CASE RunNative
    BY <1>3, AliasSteps DEF RunNative
  <1>4. CASE RunHandler
    BY <1>4, AliasStays DEF RunHandler
  <1>5. CASE (ReporterSignals \/ ReporterPanics) /\ phase = "start"
    BY <1>5 DEF ReporterSignals, ReporterPanics, nvars, AliasInv, AliasStart,
                RubyAt, AliasRunsItsTool
  <1>6. CASE (ReporterSignals \/ ReporterPanics) /\ phase # "start"
    BY <1>6, AliasStays DEF ReporterSignals, ReporterPanics
  <1>7. CASE Return \/ Receive \/ TimeOut
    BY <1>7, AliasStays DEF Return, Receive, TimeOut
  <1>8. CASE ExitInside \/ CleanUpAndExit
    BY <1>8, AliasStays DEF ExitInside, CleanUpAndExit, Exit
  <1>9. CASE UNCHANGED vars
    BY <1>9 DEF vars, jvars, nvars, AliasInv, AliasStart, RubyAt,
                AliasRunsItsTool
  <1> QED
    BY <1>1, <1>2, <1>3, <1>4, <1>5, <1>6, <1>7, <1>8, <1>9
       DEF Next, Proceeds, Done

(* Whoever types the name of a package manager gets the command that wraps   *)
(* it, and below jf ruby the tool of that name, whatever else is typed.      *)
THEOREM AliasesRunTheirTools == JSpec => []AliasRunsItsTool
  <1>1. Init => AliasInv
    BY AliasesAssumption DEF Init, AliasInv, AliasStart, RubyAt,
                             AliasRunsItsTool, RubyTools
  <1>2. AliasInv => AliasRunsItsTool
    BY DEF AliasInv
  <1> QED
    BY <1>1, <1>2, NextAlias, PTL DEF JSpec
=============================================================================
