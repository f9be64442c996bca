---------------------------- MODULE AliasConfig ----------------------------
(***************************************************************************)
(* The package-alias configuration file (config.yaml) as a value: what an  *)
(* install makes of the configuration it loaded, and what a dispatch       *)
(* reads out of it.  No state; shared by the modules that keep the file.   *)
(***************************************************************************)
EXTENDS Integers, Sequences, FiniteSets

CONSTANTS
    SupportedTools,     \* the package managers, in the order of the source's list
    DefaultPass,        \* the tools that run natively unless configured
    Binary,             \* jf executables whose hash may be recorded
    NoHash,             \* the hash when it could not be computed
    NoFile,             \* config.yaml does not exist
    Corrupt             \* config.yaml exists and is not valid YAML

Tool == {SupportedTools[i] : i \in 1..Len(SupportedTools)}

ASSUME SupportedToolsAssumption ==
    /\ Len(SupportedTools) \in Nat \ {0}
    /\ SupportedTools \in [1..Len(SupportedTools) -> Tool]
    /\ \A i, j \in 1..Len(SupportedTools) :
          SupportedTools[i] = SupportedTools[j] => i = j
    /\ DefaultPass \subseteq Tool
    /\ NoHash \notin Binary

(***************************************************************************)
(* The value of a tool_modes entry: absent, one of the two modes, or a     *)
(* word that a user typed and that validateAliasMode refuses.              *)
(***************************************************************************)
Mode == {"jf", "pass"}
ModeEntry == Mode \cup {"unset", "invalid"}

Config == [enabled : BOOLEAN,
           modes : [Tool -> ModeEntry],
           enabledTools : SUBSET Tool,
           hash : Binary \cup {NoHash}]

ConfigFile == Config \cup {NoFile, Corrupt}

ASSUME FileAssumption ==
    /\ NoFile \notin Config
    /\ Corrupt \notin Config
    /\ NoFile # Corrupt

newDefaultConfig == [enabled |-> TRUE,
                     modes |-> [t \in Tool |-> "unset"],
                     enabledTools |-> {},
                     hash |-> NoHash]

\* What reading a file that parses yields: a missing file is the default.
loadConfig(file) == IF file = NoFile THEN newDefaultConfig ELSE file

DefaultMode(t) == IF t \in DefaultPass THEN "pass" ELSE "jf"

\* Mutant of Merge: the default overwrites the entry that is there.
MutantMerge(cfg, sel, h) ==
    [enabled |-> TRUE,
     modes |-> [t \in Tool |-> IF t \in sel THEN DefaultMode(t) ELSE cfg.modes[t]],
     enabledTools |-> sel,
     hash |-> h]

\* The configuration an install of the tools sel by the executable h writes
\* when it loaded cfg: an entry that is there, valid or not, is left alone.
Merge(cfg, sel, h) ==
    [enabled |-> TRUE,
     modes |-> [t \in Tool |-> IF t \in sel /\ cfg.modes[t] = "unset"
                               THEN DefaultMode(t)
                               ELSE cfg.modes[t]],
     enabledTools |-> sel,
     hash |-> h]

\* The mode a dispatch of tool t uses (every tool but go, whose subcommand
\* keys GoModes resolves).
getModeForTool(cfg, t) ==
    CASE cfg.modes[t] = "unset"   -> DefaultMode(t)
      [] cfg.modes[t] = "invalid" -> "jf"
      [] OTHER                    -> cfg.modes[t]
=============================================================================
