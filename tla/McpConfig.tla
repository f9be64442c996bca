------------------------------ MODULE McpConfig ------------------------------
(***************************************************************************)
(* jf mcp install and uninstall on one configuration file of an agent.     *)
(* Each command reads the file, edits it in memory and writes it back in   *)
(* place, without a lock: os.WriteFile truncates the file and then fills   *)
(* it.  Every step is one system call on the file.                         *)
(***************************************************************************)
EXTENDS McpFile, Naturals

CONSTANTS
    NoFile, Blank,  \* there is no file; a file of white space, or of length 0
    Null,           \* the JSON value null
    NilMap,         \* what json.Unmarshal makes of it
    Rounded(_),     \* what becomes of the rest of a file when it is read:
                    \* json.Unmarshal makes every number a float64
    Prior,          \* what the file may be at first
    Failing,        \* the steps that may fail: "check", "read", "open", "write"
    MaxEdits, MaxKills  \* bounds on the edits of the agent and on kills

ASSUME McpAssumption ==
    /\ Prior \subseteq Object \cup {NoFile, Blank, Null, Unparsable}
    /\ \A x \in {NoFile, Blank, Null, NilMap, Unparsable} : x \notin Object
    /\ \A r \in Rest : Rounded(r) \in Rest
    /\ Rounded(NoRest) = NoRest
    /\ MaxEdits \in Nat /\ MaxKills \in Nat

VARIABLES
    file,   \* what the file holds
    name,   \* name[c]: the entry that c was asked to set or remove
    dry,    \* dry[c]: it is a dry run
    at,     \* at[c]: the next step of c
    root,   \* root[c]: what c read
    alone,  \* alone[c]: no other command ran, and no edit was made, since c began
    orderly,\* commands and edits have followed each other, and nobody has left
            \* the file between truncating and filling it
    edits   \* the edits of the agent, counted

vars == <<file, name, dry, at, root, alone, orderly, edits>>

Step == {"check", "stat", "read", "open", "fill", "written", "nothing",
         "failed", "panicked", "killed"}

Ended(c) == at[c] \in {"written", "nothing", "failed", "panicked", "killed"}

First(c) == IF c \in Installer THEN "check" ELSE "stat"

Init ==
    /\ file \in Prior
    /\ name \in [Command -> Name]
    /\ dry \in [Command -> BOOLEAN]
    /\ at = [c \in Command |-> First(c)]
    /\ root = [c \in Command |-> EmptyObject]
    /\ alone = [c \in Command |-> FALSE]
    /\ orderly = TRUE
    /\ edits = 0

Goto(c, step) == at' = [at EXCEPT ![c] = step]

Quiet(others) == \A c \in others : at[c] = First(c) \/ Ended(c)

\* CheckAvailability, unless it is skipped.
CheckAvailability(i) ==
    /\ at[i] = "check"
    /\ Goto(i, "read") \/ ("check" \in Failing /\ Goto(i, "failed"))
    /\ UNCHANGED <<file, root>>

\* An uninstall without a file is done.
Stat(u) ==
    /\ at[u] = "stat"
    /\ Goto(u, IF file = NoFile THEN "nothing" ELSE "read")
    /\ UNCHANGED <<file, root>>

Parsed(contents) ==
    IF contents \in {NoFile, Blank} THEN EmptyObject
    ELSE IF contents = Null THEN NilMap
    ELSE [contents EXCEPT !.rest = Rounded(@)]

\* Mutant of readConfig: a dry run goes on to write.
MutantReadConfig(c) ==
    /\ at[c] = "read"
    /\ \/ /\ file = Unparsable \/ "read" \in Failing
          /\ Goto(c, "failed")
          /\ UNCHANGED root
       \/ /\ file # Unparsable
          /\ root' = [root EXCEPT ![c] = Parsed(file)]
          /\ Goto(c, IF root'[c] = NilMap THEN "nothing" ELSE "open")
    /\ UNCHANGED file

\* What follows in memory: an install of a nil map panics, an uninstall stops
\* if there is no such entry, a dry run prints.
Parse(c) ==
    /\ file # Unparsable
    /\ root' = [root EXCEPT ![c] = Parsed(file)]
    /\ \/ root'[c] = NilMap /\ Goto(c, IF c \in Installer THEN "panicked" ELSE "nothing")
       \/ /\ root'[c] # NilMap
          /\ Goto(c, IF \/ dry[c]
                        \/ /\ c \in Uninstaller
                           /\ mcpServersMap(root'[c])[name[c]] = None
                     THEN "nothing" ELSE "open")

readConfig(c) ==
    /\ at[c] = "read"
    /\ \/ /\ file = Unparsable \/ "read" \in Failing
          /\ Goto(c, "failed")
          /\ UNCHANGED root
       \/ Parse(c)
    /\ UNCHANGED file

\* Mutant of Edited: the file is made anew.
MutantEdited(c) ==
    SetEntry(EmptyObject, name[c], IF c \in Installer THEN c ELSE None)

\* What c is about to write.
Edited(c) == SetEntry(root[c], name[c], IF c \in Installer THEN c ELSE None)

\* Mutant of OpenFile: the file is not truncated.
MutantOpenFile(c) ==
    /\ at[c] = "open"
    /\ file' = IF file = NoFile THEN Blank ELSE file
    /\ Goto(c, "fill")
    /\ UNCHANGED root

\* writeConfigFile: os.WriteFile opens and truncates.
OpenFile(c) ==
    /\ at[c] = "open"
    /\ \/ file' = Blank /\ Goto(c, "fill")
       \/ "open" \in Failing /\ Goto(c, "failed") /\ UNCHANGED file
    /\ UNCHANGED root

\* Then it writes from the start of the file.  Over what another command has
\* written in the meantime a shorter text leaves a tail of the longer one.
FillFile(c) ==
    /\ at[c] = "fill"
    /\ \/ file' = Edited(c) /\ Goto(c, "written")
       \/ file # Blank /\ file' = Unparsable /\ Goto(c, "written")
       \/ /\ "write" \in Failing
          /\ Goto(c, "failed")
          /\ file' \in {file, Unparsable}
    /\ UNCHANGED root

Install(i) ==
    CheckAvailability(i) \/ readConfig(i) \/ OpenFile(i) \/ FillFile(i)

Uninstall(u) == Stat(u) \/ readConfig(u) \/ OpenFile(u) \/ FillFile(u)

Run(c) ==
    /\ (c \in Installer /\ Install(c)) \/ (c \in Uninstaller /\ Uninstall(c))
    /\ alone' = IF at[c] = First(c)
                THEN [d \in Command |-> d = c /\ Quiet(Command \ {c})]
                ELSE alone
    /\ orderly' = (/\ orderly /\ Quiet(Command \ {c})
                   /\ ~(at[c] = "fill" /\ at'[c] = "failed"))
    /\ UNCHANGED <<name, dry, edits>>

\* The agent, or the user, edits the file, in place and in one step.
Edit ==
    /\ edits < MaxEdits
    /\ file \in Object
    /\ \E n \in Name, owner \in {Agent, None} : file' = SetEntry(file, n, owner)
    /\ edits' = edits + 1
    /\ alone' = [c \in Command |-> FALSE]
    /\ orderly' = (orderly /\ Quiet(Command))
    /\ UNCHANGED <<name, dry, at, root>>

Kill(c) ==
    /\ ~Ended(c) /\ at[c] # First(c)
    /\ Cardinality({d \in Command : at[d] = "killed"}) < MaxKills
    /\ Goto(c, "killed")
    /\ orderly' = (orderly /\ at[c] # "fill")
    /\ UNCHANGED <<file, name, dry, root, alone, edits>>

AllEnded == (\A c \in Command : Ended(c)) /\ UNCHANGED vars

Next ==
    \/ \E c \in Command : Run(c) \/ Kill(c)
    \/ Edit
    \/ AllEnded

Spec == Init /\ [][Next]_vars

-----------------------------------------------------------------------------
(* Everything has its type; a command writes only what it read and only    *)
(* if it is no dry run.                                                    *)
TypeOK ==
    /\ file \in Object \cup {NoFile, Blank, Null, Unparsable}
    /\ name \in [Command -> Name]
    /\ dry \in [Command -> BOOLEAN]
    /\ at \in [Command -> Step]
    /\ root \in [Command -> Object \cup {NilMap}]
    /\ alone \in [Command -> BOOLEAN]
    /\ orderly \in BOOLEAN
    /\ edits \in 0..MaxEdits
    /\ \A c \in Command : at[c] \in {"open", "fill", "written"} =>
          root[c] \in Object /\ ~dry[c]

\* What the file says: while a command is between truncating and filling it,
\* what the command read.
Says(contents) ==
    IF contents \in {NoFile, Blank, Null} THEN EmptyObject ELSE contents

Current ==
    IF \E c \in Command : at[c] = "fill"
    THEN root[CHOOSE c \in Command : at[c] = "fill"]
    ELSE Says(file)

Registry == INSTANCE McpRegistry WITH
    content <- Current, applied <- {c \in Command : at[c] = "written"}

(* As long as commands and edits of the agent follow each other, they      *)
(* implement the registry: each sets or removes its entry once and leaves  *)
(* the entries of the others and the rest of the file as they were,        *)
(* whatever of checking, reading and opening fails and whoever is killed   *)
(* before it has truncated the file.                                       *)
RegistrySpec == Registry!Spec

(* An install that no command and no edit overlapped, and that succeeds,   *)
(* leaves a file that parses and has its entry, whatever overlapping,      *)
(* failing and killed commands had left there.                             *)
LoneInstallTakesEffect ==
    \A i \in Installer :
        at[i] = "written" /\ alone[i] =>
            file \in Object /\ mcpServersMap(file)[name[i]] = i

(* "Uninstall removes the JFrog MCP server entry from the agent config,    *)
(* leaving other entries untouched": what an uninstall that nothing        *)
(* overlapped writes is the file that was there without its entry.         *)
OthersAreUntouched ==
    \A u \in Uninstaller :
        at[u] = "written" /\ alone[u] =>
            file \in {SetEntry(o, name[u], None) : o \in Prior \cap Object}
=============================================================================
