----------------------------- MODULE AliasModes -----------------------------
(***************************************************************************)
(* Which mode a package manager command gets (getModeForTool): for go the  *)
(* loop over the policy keys of its subcommand, most specific first, each  *)
(* looked up in subcommand_modes and then in tool_modes; for other tools a *)
(* single lookup.  A key is the sequence of subcommand words after "go".   *)
(***************************************************************************)
EXTENDS AliasConfig, SequencesExt

CONSTANTS
    Word,       \* what may follow the tool on the command line
    Flag,       \* the words that begin with "-"
    Lower,      \* strings.ToLower on words
    MaxArgs,    \* bound on the length of the command line
    Key         \* the go policy keys the user may configure

ASSUME WordAssumption ==
    /\ Flag \subseteq Word
    /\ Lower \in [Word -> Word]
    /\ \A w \in Word : Lower[Lower[w]] = Lower[w] /\ (w \in Flag <=> Lower[w] \in Flag)
    /\ MaxArgs \in Nat
    /\ <<>> \in Key
    /\ Key \subseteq Seq(Word)

VARIABLES
    tool,       \* the tool, "go" among them
    args,       \* its command line
    subModes,   \* subcommand_modes
    toolModes,  \* tool_modes of go and of go's subcommand keys
    mode,       \* tool_modes of the tool when it is not go
    index,      \* the next policy key
    result      \* the mode, "none" until it is returned

vars == <<tool, args, subModes, toolModes, mode, index, result>>

\* The words before the first flag, in lower case.
subcommandParts ==
    LET before == {i \in 1..Len(args) : \A j \in 1..i : args[j] \notin Flag}
    IN  [i \in 1..Cardinality(before) |-> Lower[args[i]]]

\* Mutant of getGoSubcommandPolicyKeys: the least specific key first.
MutantPolicyKeys ==
    LET parts == subcommandParts
    IN  [i \in 1..(Len(parts) + 1) |-> SubSeq(parts, 1, i - 1)]

\* All prefixes of them, the longest first and "go" last.
getGoSubcommandPolicyKeys ==
    LET parts == subcommandParts
    IN  [i \in 1..(Len(parts) + 1) |-> SubSeq(parts, 1, Len(parts) + 1 - i)]

Entry(modes, key) == IF key \in Key THEN modes[key] ELSE "unset"

Init ==
    /\ tool \in Tool
    /\ args \in BoundedSeq(Word, MaxArgs)
    /\ subModes \in [Key -> ModeEntry]
    /\ toolModes \in [Key -> ModeEntry]
    /\ mode \in ModeEntry
    /\ tool = "go" => mode = "unset"
    /\ tool # "go" => args = <<>> /\ \A k \in Key : {subModes[k], toolModes[k]} = {"unset"}
    /\ index = 1
    /\ result = "none"

Input == <<tool, args, subModes, toolModes, mode>>

\* Mutant of TryKey: an entry that is no mode is returned.
MutantTryKey ==
    /\ tool = "go" /\ result = "none"
    /\ index <= Len(getGoSubcommandPolicyKeys)
    /\ LET entry == Entry(subModes, getGoSubcommandPolicyKeys[index]) IN
         \/ entry # "unset" /\ result' = entry /\ UNCHANGED index
         \/ entry = "unset" /\ index' = index + 1 /\ UNCHANGED result
    /\ UNCHANGED Input

\* One round of the loop: an entry that is no mode is reported and skipped.
TryKey ==
    /\ tool = "go" /\ result = "none"
    /\ index <= Len(getGoSubcommandPolicyKeys)
    /\ LET key == getGoSubcommandPolicyKeys[index] IN
         \/ /\ Entry(subModes, key) \in Mode
            /\ result' = Entry(subModes, key)
            /\ UNCHANGED index
         \/ /\ Entry(subModes, key) \notin Mode /\ Entry(toolModes, key) \in Mode
            /\ result' = Entry(toolModes, key)
            /\ UNCHANGED index
         \/ /\ Entry(subModes, key) \notin Mode /\ Entry(toolModes, key) \notin Mode
            /\ index' = index + 1
            /\ UNCHANGED result
    /\ UNCHANGED Input

KeysExhausted ==
    /\ tool = "go" /\ result = "none"
    /\ index > Len(getGoSubcommandPolicyKeys)
    /\ result' = "jf"
    /\ UNCHANGED <<Input, index>>

LookUpTool ==
    /\ tool # "go" /\ result = "none"
    /\ result' = getModeForTool([modes |-> [t \in {tool} |-> mode]], tool)
    /\ UNCHANGED <<Input, index>>

Returned == result # "none" /\ UNCHANGED vars

Next == TryKey \/ KeysExhausted \/ LookUpTool \/ Returned

Spec == Init /\ [][Next]_vars

-----------------------------------------------------------------------------
TypeOK ==
    /\ index \in 1..(MaxArgs + 2)
    /\ result \in Mode \cup {"none"}

\* A prefix of the subcommand that is configured with a mode.
Configured(key) ==
    /\ IsPrefix(key, subcommandParts)
    /\ key \in Key
    /\ subModes[key] \in Mode \/ toolModes[key] \in Mode

(* A go command is dispatched by the longest configured prefix of its      *)
(* subcommand, whatever invalid entries lie on longer ones, by             *)
(* subcommand_modes before tool_modes, and through jf when there is none.  *)
MostSpecificWins ==
    tool = "go" /\ result # "none" =>
        \/ \E key \in Key :
             /\ Configured(key)
             /\ \A other \in Key : Configured(other) => Len(other) <= Len(key)
             /\ result = IF subModes[key] \in Mode THEN subModes[key] ELSE toolModes[key]
        \/ result = "jf" /\ ~\E key \in Key : Configured(key)
=============================================================================
