---------------------------- MODULE PackageAlias ----------------------------
(***************************************************************************)
(* jf package-alias install and uninstall: several commands, each one an   *)
(* operating system process, working on one alias directory                *)
(*                                                                         *)
(*     package-alias/                home                                  *)
(*         .config.lock              lock                                  *)
(*         config.yaml               config                                *)
(*         .tmp-config-*.yaml        tmp (at most one per install)         *)
(*         bin/<tool>                bin, alias                            *)
(*                                                                         *)
(* Every step is one system call on that directory, or a run of local      *)
(* computation.  A process may be killed between any two of them.          *)
(***************************************************************************)
EXTENDS AliasConfig

CONSTANTS
    Installer, Uninstaller, \* the commands that may run, one process each
    Old,                    \* the executable an earlier install linked to
    None,                   \* bin/<tool> does not exist
    Partial,                \* bin/<tool> is a truncated copy
    NoLock,                 \* .config.lock does not exist
    Prior,                  \* the contents config.yaml may have at the start
    Windows,                \* aliases are copies, not symbolic links
    Faults,                 \* removals, links and writes may fail on their own
    MaxKills                \* bound on the number of killed processes

Process == Installer \cup Uninstaller

ASSUME ProcessAssumption ==
    /\ Installer \cap Uninstaller = {}
    /\ NoLock \notin Process
    /\ Installer \cup {Old} \subseteq Binary
    /\ None \notin Binary /\ Partial \notin Binary /\ None # Partial
    /\ Prior \subseteq ConfigFile
    /\ {Windows, Faults} \subseteq BOOLEAN
    /\ MaxKills \in Nat

VARIABLES
    home, bin,  \* BOOLEAN: the directory exists
    lock,       \* NoLock, or the process that created the lock file
    alias,      \* alias[t]: the executable bin/t is, None or Partial
    config,     \* the contents of config.yaml
    tmp,        \* the installs whose temporary file exists
    dead,       \* the killed processes
    pc,         \* pc[p]: the next step of p
    arg,        \* arg[p]: the tools --packages names, {} when it is refused
    jfHash,     \* jfHash[p]: the hash the install computed
    pos,        \* pos[p]: index of the loop over SupportedTools
    loaded,     \* loaded[p]: the configuration the install read
    left,       \* left[p]: directory entries RemoveAll has still to remove
    failed      \* failed[p]: the locked action or the locking failed

disk == <<home, bin, lock, alias, config, tmp>>
local == <<arg, jfHash, pos, loaded, left, failed>>
vars == <<disk, dead, pc, local>>

Step == {"start", "mkbin", "lock", "alias", "link", "copy", "load", "write",
         "rename", "release", "wipe", "wiping", "stopped"}

\* The steps between taking the lock and removing it.
Locked == {"alias", "link", "copy", "load", "write", "rename", "release"}

InLock(p) == p \notin dead /\ pc[p] \in Locked

Terminal(p) == p \in dead \/ pc[p] = "stopped"

\* Names in the alias directory as RemoveAll lists them.
Entry == Tool \cup Installer \cup {"config", "lock"}

Present == {t \in Tool : alias[t] # None} \cup tmp
             \cup (IF config # NoFile THEN {"config"} ELSE {})
             \cup (IF lock # NoLock THEN {"lock"} ELSE {})

ASSUME EntryAssumption ==
    /\ Tool \cap Installer = {}
    /\ {"config", "lock"} \cap (Tool \cup Installer) = {}

(***************************************************************************)
(* Before the first command the machine is fresh, or an earlier install    *)
(* left aliases and a configuration that the user may have edited since.   *)
(***************************************************************************)
Init ==
    /\ config \in Prior
    /\ home = (config # NoFile)
    /\ bin = home
    /\ alias = [t \in Tool |->
                  IF config = NoFile THEN None
                  ELSE IF config = Corrupt THEN Old
                  ELSE IF t \in config.enabledTools THEN Old ELSE None]
    /\ lock = NoLock
    /\ tmp = {}
    /\ dead = {}
    /\ pc = [p \in Process |-> "start"]
    /\ arg \in [Installer -> SUBSET Tool]
    /\ jfHash = [p \in Installer |-> NoHash]
    /\ pos = [p \in Process |-> 1]
    /\ loaded = [p \in Installer |-> NoFile]
    /\ left = [p \in Uninstaller |-> {}]
    /\ failed = [p \in Process |-> FALSE]

Runs(p, step) == p \notin dead /\ pc[p] = step

Goto(p, step) == pc' = [pc EXCEPT ![p] = step]

Fail(p, step) == failed' = [failed EXCEPT ![p] = TRUE] /\ Goto(p, step)

CurrentTool(p) == SupportedTools[pos[p]]

\* Mutant of NextTool: the bound of the loop is off by one.
MutantNextTool(p, after) ==
    IF pos[p] <= Len(SupportedTools)
    THEN Goto(p, "alias") /\ pos' = [pos EXCEPT ![p] = @ + 1]
    ELSE Goto(p, after) /\ UNCHANGED pos

\* The next round of the loop over SupportedTools, or the step after it.
NextTool(p, after) ==
    IF pos[p] < Len(SupportedTools)
    THEN Goto(p, "alias") /\ pos' = [pos EXCEPT ![p] = @ + 1]
    ELSE Goto(p, after) /\ UNCHANGED pos

-----------------------------------------------------------------------------
(* withConfigLock, run by both commands.  The lock file is exclusive to    *)
(* create and is removed by its path, whoever created it.                  *)

\* What isLockContention takes for another holder: the file exists or, on
\* Windows, a deletion of it is pending.
Contention == home /\ (lock # NoLock \/ Windows)

\* Mutant of AfterLockError: uninstall returns the error at once.
MutantAfterLockError(p) == "stopped"

\* Where a command goes on when withConfigLock returns an error.
AfterLockError(p) == IF p \in Installer THEN "stopped" ELSE "wipe"

Acquire(p) ==
    /\ Runs(p, "lock")
    /\ home /\ lock = NoLock
    /\ lock' = p
    /\ Goto(p, "alias")
    /\ UNCHANGED <<home, bin, alias, config, tmp, dead, local>>

\* Mutant of GiveUpLock: after the deadline the action runs all the same.
MutantGiveUpLock(p) ==
    /\ Runs(p, "lock")
    /\ Contention
    /\ Goto(p, "alias")
    /\ UNCHANGED <<disk, dead, local>>

\* Mutant of GiveUpLock: there is no deadline.
MutantNoDeadline(p) ==
    /\ Runs(p, "lock")
    /\ ~home
    /\ Fail(p, AfterLockError(p))
    /\ UNCHANGED <<disk, dead, arg, jfHash, pos, loaded, left>>

\* The deadline passed under contention (any positive timeout may be set), or
\* the directory of the lock file is not there.
GiveUpLock(p) ==
    /\ Runs(p, "lock")
    /\ Contention \/ ~home
    /\ Fail(p, AfterLockError(p))
    /\ UNCHANGED <<disk, dead, arg, jfHash, pos, loaded, left>>

\* The deferred os.Remove of the lock file, whose error is ignored.
Release(p) ==
    /\ Runs(p, "release")
    /\ lock' = NoLock \/ (Faults /\ UNCHANGED lock)
    /\ Goto(p, IF p \in Installer THEN "stopped" ELSE "wipe")
    /\ UNCHANGED <<home, bin, alias, config, tmp, dead, local>>

-----------------------------------------------------------------------------
(* InstallCommand.Run.  MkdirAll creates the two directories before the    *)
(* lock is taken.                                                          *)

MakeHome(p) ==
    /\ Runs(p, "start")
    /\ home' = TRUE
    /\ Goto(p, "mkbin")
    /\ UNCHANGED <<bin, lock, alias, config, tmp, dead, local>>

\* The second directory, parsePackageList and the hash of the executable.
MakeBin(p) ==
    /\ Runs(p, "mkbin")
    /\ bin' = home
    /\ \/ /\ home /\ arg[p] # {}
          /\ \E h \in {p} \cup (IF Faults THEN {NoHash} ELSE {}) :
                jfHash' = [jfHash EXCEPT ![p] = h]
          /\ Goto(p, "lock")
          /\ UNCHANGED failed
       \/ /\ ~home \/ arg[p] = {}
          /\ Fail(p, "stopped")
          /\ UNCHANGED jfHash
    /\ UNCHANGED <<home, lock, alias, config, tmp, dead, arg, pos, loaded, left>>

\* os.Remove(bin/t): a failure is reported and the loop goes on.
RemoveAlias(t) ==
    \/ alias' = [alias EXCEPT ![t] = None]
    \/ Faults /\ UNCHANGED alias

DropAlias(p) ==
    /\ Runs(p, "alias")
    /\ CurrentTool(p) \notin arg[p]
    /\ RemoveAlias(CurrentTool(p))
    /\ NextTool(p, "load")
    /\ UNCHANGED <<home, bin, lock, config, tmp, dead, arg, jfHash, loaded, left, failed>>

\* Mutant of UnlinkOld: the old link is left for os.Symlink to replace.
MutantUnlinkOld(p) ==
    /\ ~Windows
    /\ Runs(p, "alias")
    /\ CurrentTool(p) \in arg[p]
    /\ Goto(p, "link")
    /\ UNCHANGED <<disk, dead, local>>

UnlinkOld(p) ==
    /\ ~Windows
    /\ Runs(p, "alias")
    /\ CurrentTool(p) \in arg[p]
    /\ RemoveAlias(CurrentTool(p))
    /\ Goto(p, "link")
    /\ UNCHANGED <<home, bin, lock, config, tmp, dead, local>>

\* os.Symlink fails when the name exists or the directory does not.
Link(p) ==
    /\ Runs(p, "link")
    /\ \/ /\ bin /\ alias[CurrentTool(p)] = None
          /\ alias' = [alias EXCEPT ![CurrentTool(p)] = p]
       \/ /\ Faults \/ ~bin \/ alias[CurrentTool(p)] # None
          /\ UNCHANGED alias
    /\ NextTool(p, "load")
    /\ UNCHANGED <<home, bin, lock, config, tmp, dead, arg, jfHash, loaded, left, failed>>

\* copyFile opens the alias with O_TRUNC and fills it.
OpenCopy(p) ==
    /\ Windows
    /\ Runs(p, "alias")
    /\ CurrentTool(p) \in arg[p]
    /\ \/ /\ bin
          /\ alias' = [alias EXCEPT ![CurrentTool(p)] = Partial]
          /\ Goto(p, "copy")
          /\ UNCHANGED pos
       \/ /\ Faults \/ ~bin
          /\ UNCHANGED alias
          /\ NextTool(p, "load")
    /\ UNCHANGED <<home, bin, lock, config, tmp, dead, arg, jfHash, loaded, left, failed>>

FillCopy(p) ==
    /\ Runs(p, "copy")
    /\ \/ alias' = [alias EXCEPT ![CurrentTool(p)] = IF @ = None THEN None ELSE p]
       \/ Faults /\ UNCHANGED alias
    /\ NextTool(p, "load")
    /\ UNCHANGED <<home, bin, lock, config, tmp, dead, arg, jfHash, loaded, left, failed>>

Load(p) ==
    /\ Runs(p, "load")
    /\ \/ /\ config # Corrupt
          /\ loaded' = [loaded EXCEPT ![p] = loadConfig(config)]
          /\ Goto(p, "write")
          /\ UNCHANGED failed
       \/ /\ config = Corrupt
          /\ Fail(p, "release")
          /\ UNCHANGED loaded
    /\ UNCHANGED <<disk, dead, arg, jfHash, pos, left>>

\* Mutant of WriteTemp: the new contents are written over config.yaml, which
\* does not parse until they are complete.
MutantWriteTemp(p) ==
    /\ Runs(p, "write")
    /\ home
    /\ config' = Corrupt
    /\ tmp' = tmp \cup {p}
    /\ Goto(p, "rename")
    /\ UNCHANGED <<home, bin, lock, alias, dead, arg, jfHash, pos, loaded, left, failed>>

\* writeBytesAtomic up to the rename: the new contents are in a file of their
\* own; a failed write removes that file again.
WriteTemp(p) ==
    /\ Runs(p, "write")
    /\ \/ home /\ tmp' = tmp \cup {p} /\ Goto(p, "rename") /\ UNCHANGED failed
       \/ (Faults \/ ~home) /\ Fail(p, "release") /\ UNCHANGED tmp
    /\ UNCHANGED <<home, bin, lock, alias, config, dead, arg, jfHash, pos, loaded, left>>

\* Mutant of Rename: config.yaml is written in place, and may be left truncated.
MutantRename(p) ==
    /\ Runs(p, "rename")
    /\ \/ /\ config' = Merge(loaded[p], arg[p], jfHash[p])
          /\ Goto(p, "release")
          /\ UNCHANGED failed
       \/ /\ Faults
          /\ Fail(p, "release")
          /\ config' = Corrupt
    /\ tmp' = tmp \ {p}
    /\ loaded' = [loaded EXCEPT ![p] = NoFile]
    /\ UNCHANGED <<home, bin, lock, alias, dead, arg, jfHash, pos, left>>

\* Mutant of Rename: the lock is released on success only.
MutantRenameKeepsLock(p) ==
    /\ Runs(p, "rename")
    /\ \/ /\ p \in tmp
          /\ config' = Merge(loaded[p], arg[p], jfHash[p])
          /\ Goto(p, "release")
          /\ UNCHANGED failed
       \/ /\ Faults \/ p \notin tmp
          /\ Fail(p, "stopped")
          /\ UNCHANGED config
    /\ tmp' = tmp \ {p}
    /\ loaded' = [loaded EXCEPT ![p] = NoFile]
    /\ UNCHANGED <<home, bin, lock, alias, dead, arg, jfHash, pos, left>>

Rename(p) ==
    /\ Runs(p, "rename")
    /\ \/ /\ p \in tmp
          /\ config' = Merge(loaded[p], arg[p], jfHash[p])
          /\ Goto(p, "release")
          /\ UNCHANGED failed
       \/ /\ Faults \/ p \notin tmp
          /\ Fail(p, "release")
          /\ UNCHANGED config
    /\ tmp' = tmp \ {p}
    /\ loaded' = [loaded EXCEPT ![p] = NoFile]
    /\ UNCHANGED <<home, bin, lock, alias, dead, arg, jfHash, pos, left>>

Install(p) ==
    \/ MakeHome(p)  \/ MakeBin(p)   \/ Acquire(p)   \/ GiveUpLock(p)
    \/ DropAlias(p) \/ UnlinkOld(p) \/ Link(p)      \/ OpenCopy(p)
    \/ FillCopy(p)  \/ Load(p)      \/ WriteTemp(p) \/ Rename(p)
    \/ Release(p)

-----------------------------------------------------------------------------
(* UninstallCommand.Run.  The aliases go under the lock, the directory     *)
(* after the lock was released and also when it was never obtained.        *)

StatBin(p) ==
    /\ Runs(p, "start")
    /\ Goto(p, IF bin THEN "lock" ELSE "stopped")
    /\ UNCHANGED <<disk, dead, local>>

UnlinkAlias(p) ==
    /\ Runs(p, "alias")
    /\ RemoveAlias(CurrentTool(p))
    /\ NextTool(p, "release")
    /\ UNCHANGED <<home, bin, lock, config, tmp, dead, arg, jfHash, loaded, left, failed>>

\* os.RemoveAll lists the directory, removes what it listed one entry at a
\* time, and then the directories if they are empty.
ListHome(p) ==
    /\ Runs(p, "wipe")
    /\ left' = [left EXCEPT ![p] = Present]
    /\ Goto(p, "wiping")
    /\ UNCHANGED <<disk, dead, arg, jfHash, pos, loaded, failed>>

WipeEntry(p) ==
    /\ Runs(p, "wiping")
    /\ \E e \in left[p] :
          /\ left' = [left EXCEPT ![p] = @ \ {e}]
          /\ \/ /\ alias' = [t \in Tool |-> IF t = e THEN None ELSE alias[t]]
                /\ tmp' = tmp \ {e}
                /\ config' = IF e = "config" THEN NoFile ELSE config
                /\ lock' = IF e = "lock" THEN NoLock ELSE lock
             \/ Faults /\ UNCHANGED <<alias, tmp, config, lock>>
    /\ UNCHANGED <<home, bin, dead, pc, arg, jfHash, pos, loaded, failed>>

RemoveDirs(p) ==
    /\ Runs(p, "wiping")
    /\ left[p] = {}
    /\ \/ /\ bin' = (bin /\ \E t \in Tool : alias[t] # None)
          /\ home' = (home /\ (bin' \/ Present # {}))
       \/ Faults /\ UNCHANGED <<home, bin>>
    /\ Goto(p, "stopped")
    /\ UNCHANGED <<lock, alias, config, tmp, dead, local>>

Uninstall(p) ==
    \/ StatBin(p) \/ Acquire(p)   \/ GiveUpLock(p) \/ UnlinkAlias(p)
    \/ Release(p) \/ ListHome(p)  \/ WipeEntry(p)  \/ RemoveDirs(p)

-----------------------------------------------------------------------------
(* The environment: a process is killed (its deferred removals of the lock *)
(* and of the temporary file do not run), and the user follows the advice  *)
(* of the time-out message and removes a lock file nobody is behind any    *)
(* more: its process was killed, or stopped without being able to remove   *)
(* it.                                                                     *)

Kill(p) ==
    /\ ~Terminal(p) /\ pc[p] # "start"
    /\ Cardinality(dead) < MaxKills
    /\ dead' = dead \cup {p}
    /\ UNCHANGED <<disk, pc, local>>

RemoveStaleLock ==
    /\ lock # NoLock /\ Terminal(lock)
    /\ lock' = NoLock
    /\ UNCHANGED <<home, bin, alias, config, tmp, dead, pc, local>>

AllStopped == (\A p \in Process : Terminal(p)) /\ UNCHANGED vars

Next ==
    \/ \E p \in Installer : Install(p)
    \/ \E p \in Uninstaller : Uninstall(p)
    \/ \E p \in Process : Kill(p)
    \/ RemoveStaleLock
    \/ AllStopped

Spec == Init /\ [][Next]_vars

\* The operating system runs every live process; nobody has to be killed and
\* no user has to clean up.
Fairness ==
    /\ \A p \in Installer : WF_vars(Install(p))
    /\ \A p \in Uninstaller : WF_vars(Uninstall(p))

FairSpec == Spec /\ Fairness

-----------------------------------------------------------------------------
(* Everything has its type: directories, files, and where each command is. *)
TypeOK ==
    /\ {home, bin} \subseteq BOOLEAN
    /\ lock \in Process \cup {NoLock}
    /\ alias \in [Tool -> Binary \cup {None, Partial}]
    /\ config \in ConfigFile
    /\ tmp \in SUBSET Installer
    /\ dead \in SUBSET Process
    /\ pc \in [Process -> Step]
    /\ arg \in [Installer -> SUBSET Tool]
    /\ jfHash \in [Installer -> Binary \cup {NoHash}]
    /\ pos \in [Process -> 1..Len(SupportedTools)]
    /\ loaded \in [Installer -> Config \cup {NoFile}]
    /\ left \in [Uninstaller -> SUBSET Entry]
    /\ failed \in [Process -> BOOLEAN]

(* An install that is about to write has a configuration to write.         *)
LoadedOK ==
    \A p \in Installer : pc[p] \in {"write", "rename"} => loaded[p] \in Config

-----------------------------------------------------------------------------
(* withConfigLock: no two commands are ever between creating the lock file *)
(* and removing it.  Releasing by path, the removal of a stale lock and    *)
(* the time-out are what could break it.  It holds among installs.         *)
MutualExclusion ==
    \A p, q \in Process : InLock(p) /\ InLock(q) => p = q

\* A lock file that belongs to a live command in its locked part is there as
\* long as that command is.
LockHeld == \A p \in Process : InLock(p) => lock = p

(* What an install has read and not yet written is still what is in the    *)
(* file: the read and the write are one unit under the lock.               *)
FreshRead ==
    \A p \in Installer :
        p \notin dead /\ pc[p] \in {"write", "rename"}
          => config # Corrupt /\ loaded[p] = loadConfig(config)

\* Where an install is, its error, its request and its hash go together.
Progress ==
    \A p \in Installer :
        /\ failed[p] => pc[p] \in {"release", "stopped"}
        /\ pc[p] \notin {"start", "mkbin"} /\ ~failed[p] => arg[p] # {}
        /\ jfHash[p] \in {p, NoHash}
        /\ pc[p] \in {"start", "mkbin", "lock"} => pos[p] = 1

(* InstallCommand.Run reads config.yaml, edits it and writes it back: a    *)
(* mode that was ever in the file (set by the user or by an install) stays *)
(* what it is through every other install.                                 *)
KeepsModes ==
    [][\A t \in Tool :
         config \notin {NoFile, Corrupt} /\ config.modes[t] # "unset"
           => config' # NoFile /\ config'.modes[t] = config.modes[t]]_vars

(* An install that comes to release the lock without an error has made the *)
(* bin directory hold exactly the aliases it was asked for, all to its own *)
(* executable, and the configuration say the same, whatever a killed or a  *)
(* concurrent install had left there.                                      *)
InstallTakesEffect ==
    \A p \in Installer :
        p \notin dead /\ pc[p] = "release" /\ ~failed[p]
          => /\ alias = [t \in Tool |-> IF t \in arg[p] THEN p ELSE None]
             /\ config # NoFile /\ config.enabled
             /\ config.enabledTools = arg[p] /\ config.hash = p
             /\ \A t \in arg[p] : config.modes[t] # "unset"

\* The inductive form of it, while nothing fails on its own: the tools the
\* loop has passed are done, and what a later step needs is still there.
Wanted(p, t) == IF t \in arg[p] THEN p ELSE None

DoneUpTo(p) == IF pc[p] \in {"alias", "link", "copy"} THEN pos[p] - 1
               ELSE Len(SupportedTools)

Effect(p) ==
    /\ pc[p] # "start" => home
    /\ pc[p] \notin {"start", "mkbin"} /\ ~failed[p] => bin /\ jfHash[p] = p
    /\ InLock(p) =>
         /\ \A i \in 1..DoneUpTo(p) :
              alias[SupportedTools[i]] = Wanted(p, SupportedTools[i])
         /\ pc[p] \in {"link", "copy"} => CurrentTool(p) \in arg[p]
         /\ pc[p] = "link" => alias[CurrentTool(p)] = None
         /\ pc[p] = "copy" => alias[CurrentTool(p)] # None
         /\ pc[p] = "rename" => p \in tmp
         /\ pc[p] = "release" /\ ~failed[p] =>
              config \in {Merge(cfg, arg[p], p) : cfg \in Config}

EffectSoFar == \A p \in Installer : Effect(p)

(* The deferred removals of withConfigLock and writeBytesAtomic: a command *)
(* that gives up, is refused, or finds its files removed by an uninstall   *)
(* leaves neither its lock, which would cost every later command the       *)
(* deadline, nor its temporary file behind.  Only a killed one does, or,   *)
(* under Faults, one whose removal fails: its error is ignored.            *)
OnlyKilledLeaveFiles ==
    /\ lock # NoLock => lock \in dead \/ pc[lock] \in Locked
    /\ \A p \in tmp : p \in dead \/ pc[p] = "rename"

(* Every command stops: a lock that nobody will release costs a time-out,  *)
(* not the command.                                                        *)
Termination == \A p \in Process : <>Terminal(p)

(* An uninstall that is past its check when no install is at work leaves   *)
(* no alias, configuration or lock file behind once all commands stopped,  *)
(* even when a killed install had left its lock.                           *)
UninstallRemovesAll ==
    [](/\ \A p \in Installer : Terminal(p)
       /\ \E u \in Uninstaller : pc[u] = "lock"
       => [](/\ \A p \in Process : Terminal(p)
             /\ Uninstaller \cap dead = {}
             => Present = {} /\ ~bin))

(* The comment in UninstallCommand.Run: "Hold the lock while removing      *)
(* aliases and the directory so a concurrent install doesn't recreate      *)
(* files mid-removal."                                                     *)
NoRecreationMidRemoval ==
    \A u \in Uninstaller, p \in Installer :
        u \notin dead /\ pc[u] = "wiping" => ~InLock(p)

-----------------------------------------------------------------------------
(* Installs by themselves implement a registry that each of them changes   *)
(* at most once, in one step, against its current contents.                *)
Registry == INSTANCE AliasRegistry WITH
    outcome <- [p \in Installer |->
                  IF failed[p] THEN "refused"
                  ELSE IF pc[p] \in {"release", "stopped"} THEN "committed"
                  ELSE "pending"]

RegistrySpec == Registry!Spec
=============================================================================
