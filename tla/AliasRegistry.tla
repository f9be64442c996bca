--------------------------- MODULE AliasRegistry ---------------------------
(***************************************************************************)
(* What parallel installs promise about the package-alias configuration:   *)
(* each install commits at most once, in a single step, and what it        *)
(* commits is the merge of its request into the configuration of that      *)
(* moment; an install that is refused changes nothing.                     *)
(***************************************************************************)
EXTENDS AliasConfig

CONSTANTS Installer, Prior

VARIABLES
    config,     \* the contents of config.yaml
    arg,        \* arg[p]: the tools install p was asked for
    outcome     \* outcome[p]: what became of install p

vars == <<config, arg, outcome>>

Init ==
    /\ config \in Prior
    /\ arg \in [Installer -> SUBSET Tool]
    /\ outcome = [p \in Installer |-> "pending"]

Commit(p) ==
    /\ outcome[p] = "pending"
    /\ config # Corrupt
    /\ arg[p] # {}
    /\ \E h \in {p, NoHash} : config' = Merge(loadConfig(config), arg[p], h)
    /\ outcome' = [outcome EXCEPT ![p] = "committed"]
    /\ UNCHANGED arg

Refuse(p) ==
    /\ outcome[p] = "pending"
    /\ outcome' = [outcome EXCEPT ![p] = "refused"]
    /\ UNCHANGED <<config, arg>>

Next == \E p \in Installer : Commit(p) \/ Refuse(p)

Spec == Init /\ [][Next]_vars
=============================================================================
