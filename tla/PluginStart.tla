----------------------------- MODULE PluginStart -----------------------------
(***************************************************************************)
(* Runs of jf beside plugin install and uninstall (PluginInstall). Before  *)
(* it looks at what was typed, a run lists the plugins directory and runs  *)
(* every plugin for its signature, without a lock; then it runs the        *)
(* command of the plugin, from the same file. One plugin is that of        *)
(* PluginInstall, the others are not changed meanwhile.                    *)
(***************************************************************************)
EXTENDS PluginInstall

CONSTANTS
    Runner,     \* the runs of jf; the user types the command of the plugin
    Plugin,     \* the plugin of PluginInstall
    Neighbour,  \* other installed plugins
    Directory,  \* stands for the plugins directory where it cannot be read
    StartFaults \* the directory, and other plugins, may fail on their own

ASSUME StartAssumption ==
    /\ Plugin \notin Neighbour /\ Directory \notin Neighbour \cup {Plugin}
    /\ StartFaults \in BOOLEAN

VARIABLES
    stop,   \* stop[r]: how far r got
    todo,   \* todo[r]: listed plugins that r has still to ask
    offers, \* offers[r]: plugins whose command r has
    signed, \* signed[r]: the build whose signature r has of Plugin
    errs,   \* errs[r]: what failed; the code keeps the last error
    ran,    \* ran[r]: the build that ran for the command
    calm,   \* calm[r]: nothing was changing or spoilt since r began
    spoilt  \* BOOLEAN: see Spoils

runVars == <<stop, todo, offers, signed, errs, ran>>
svars == <<runVars, calm, spoilt>>

Stop == {"start", "asking", "offering", "ran", "failed", "unknown"}

SInit ==
    /\ IInit
    /\ stop = [r \in Runner |-> "start"]
    /\ todo = [r \in Runner |-> {}] /\ offers = [r \in Runner |-> {}]
    /\ signed = [r \in Runner |-> None] /\ errs = [r \in Runner |-> {}]
    /\ ran = [r \in Runner |-> None]
    /\ calm = [r \in Runner |-> FALSE]
    /\ spoilt = FALSE

AtWork(p) == ~At(p, "start") /\ ~Final(p)

-----------------------------------------------------------------------------
(* GetPlugins *)

\* CheckPluginsVersionAndConvertIfNeeded and the listing: any error takes all
\* plugins away.
ListPlugins(r) ==
    /\ stop[r] = "start"
    /\ stop' = [stop EXCEPT ![r] = "asking"]
    /\ calm' = [calm EXCEPT ![r] = ~spoilt /\ ~\E p \in Process : AtWork(p)]
    /\ \/ /\ todo' = [todo EXCEPT ![r] = Neighbour \cup {p \in {Plugin} : home}]
          /\ UNCHANGED errs
       \/ /\ StartFaults
          /\ errs' = [errs EXCEPT ![r] = {Directory}]
          /\ UNCHANGED todo
    /\ UNCHANGED <<offers, signed, ran, spoilt>>

Answers(r, p) == offers' = [offers EXCEPT ![r] = @ \cup {p}] /\ UNCHANGED errs
Skips(r, p) == errs' = [errs EXCEPT ![r] = @ \cup {p}] /\ UNCHANGED offers

\* getPluginsSignatures goes on after an error, and returns it in the end. An
\* executable that is not there or not complete fails.
AskSignature(r, p) ==
    /\ stop[r] = "asking" /\ p \in todo[r]
    /\ todo' = [todo EXCEPT ![r] = @ \ {p}]
    /\ \/ /\ p = Plugin /\ local["exec"] \in Publisher
          /\ signed' = [signed EXCEPT ![r] = local["exec"]]
          /\ Answers(r, p)
       \/ /\ p = Plugin /\ local["exec"] \notin Publisher
          /\ Skips(r, p) /\ UNCHANGED signed
       \/ p # Plugin /\ Answers(r, p) /\ UNCHANGED signed
       \/ p # Plugin /\ StartFaults /\ Skips(r, p) /\ UNCHANGED signed
    /\ UNCHANGED <<stop, ran, calm, spoilt>>

OfferCommands(r) ==
    /\ stop[r] = "asking" /\ todo[r] = {}
    /\ stop' = [stop EXCEPT ![r] = "offering"]
    /\ offers' = [offers EXCEPT ![r] = IF errs[r] = {} THEN @ ELSE {}]
    /\ UNCHANGED <<todo, signed, errs, ran, calm, spoilt>>

\* getAction: the file that is there now, whatever has become of it.
RunPlugin(r) ==
    /\ stop[r] = "offering"
    /\ \/ /\ Plugin \in offers[r] /\ local["exec"] \in Publisher
          /\ ran' = [ran EXCEPT ![r] = local["exec"]]
          /\ stop' = [stop EXCEPT ![r] = "ran"]
       \/ /\ Plugin \in offers[r] /\ local["exec"] \notin Publisher
          /\ stop' = [stop EXCEPT ![r] = "failed"]
          /\ UNCHANGED ran
       \/ /\ Plugin \notin offers[r]
          /\ stop' = [stop EXCEPT ![r] = "unknown"]
          /\ UNCHANGED ran
    /\ UNCHANGED <<todo, offers, signed, errs, calm, spoilt>>

Start(r) ==
    \/ ListPlugins(r) \/ OfferCommands(r) \/ RunPlugin(r)
    \/ \E p \in Neighbour \cup {Plugin} : AskSignature(r, p)

-----------------------------------------------------------------------------
(* Commands that change the directory, with what they do to the history.    *)

Command(p) ==
    \/ p \in Installer /\ Install(p)
    \/ p \in Uninstaller /\ Uninstall(p)
    \/ Kill(p)

\* The directory is spoilt if two commands overlap, an install fails or is
\* killed while it fills the executable in, or a removal is killed ...
Spoils(p) ==
    \/ At(p, "start") /\ \E q \in Process \ {p} : AtWork(q)
    \/ At(p, "fill") /\ step'[p] \in {"failed", "killed"}
    \/ At(p, "wiping") /\ step'[p] = "killed"
\* ... until an install that nothing disturbs has filled the executable in.
Repairs(p) ==
    p \in Installer /\ alone[p] /\ At(p, "fill") /\ step'[p] = "zip"

Recorded(p) ==
    /\ spoilt' = ((spoilt \/ Spoils(p)) /\ ~Repairs(p))
    /\ calm' = [r \in Runner |-> calm[r] /\ ~At(p, "start")]
    /\ UNCHANGED runVars

SNext ==
    \/ PNext /\ UNCHANGED <<ivars, svars>>
    \/ \E p \in Process : Command(p) /\ Recorded(p) /\ UNCHANGED pvars
    \/ \E r \in Runner : Start(r) /\ UNCHANGED <<pvars, ivars>>
    \/ AllDone /\ UNCHANGED <<pvars, svars>>

SSpec == PInit /\ SInit /\ [][SNext]_<<allVars, svars>>

-----------------------------------------------------------------------------
(* Everything has its type, that of the commands included; what a run asks *)
(* is a plugin, and it has the signature of a build or none.               *)
STypeOK ==
    /\ ITypeOK
    /\ stop \in [Runner -> Stop]
    /\ todo \in [Runner -> SUBSET (Neighbour \cup {Plugin})]
    /\ offers \in [Runner -> SUBSET (Neighbour \cup {Plugin})]
    /\ signed \in [Runner -> Publisher \cup {None}]
    /\ errs \in [Runner -> SUBSET (Neighbour \cup {Plugin, Directory})]
    /\ ran \in [Runner -> Publisher \cup {None}]
    /\ calm \in [Runner -> BOOLEAN]
    /\ spoilt \in BOOLEAN

(* The plugin takes nobody's commands off the command line of a run that   *)
(* begins and ends while no install or uninstall is at work, as long as    *)
(* none has spoilt the directory: failed and killed ones leave a plugin    *)
(* that answers or none, and an undisturbed install repairs one that does  *)
(* not. Such a run has the command of the plugin if it is installed and    *)
(* nothing else failed, and runs the build that had told it its signature. *)
CalmStartsHavePlugin ==
    \A r \in Runner : calm[r] =>
        /\ Plugin \notin errs[r]
        /\ stop[r] = "offering" /\ errs[r] = {} =>
              offers[r] = Neighbour \cup {p \in {Plugin} : home}
        /\ stop[r] # "failed"
        /\ stop[r] = "ran" => ran[r] = signed[r]
=============================================================================
