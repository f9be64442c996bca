------------------------ MODULE PackageAlias_proofs ------------------------
(***************************************************************************)
(* Proofs about PackageAlias, for any tools, any number of commands, any   *)
(* initial configuration, with or without file system faults, symbolic     *)
(* links or copies.                                                        *)
(***************************************************************************)
EXTENDS PackageAlias, TLAPS

(* Every entry of the loop over SupportedTools is a tool.                  *)
LEMMA CurrentToolIsTool ==
    ASSUME TypeOK, NEW p \in Process
    PROVE  CurrentTool(p) \in Tool
BY DEF TypeOK, CurrentTool, Tool

(* What an install writes is a configuration (Merge).                      *)
LEMMA MergeIsConfig ==
    ASSUME NEW cfg \in Config, NEW sel \in SUBSET Tool,
           NEW h \in Binary \cup {NoHash}
    PROVE  Merge(cfg, sel, h) \in Config
BY DEF Merge, Config, ModeEntry, Mode, DefaultMode

(* What an install reads from a file that parses is a configuration.       *)
LEMMA LoadIsConfig ==
    ASSUME NEW file \in ConfigFile, file # Corrupt
    PROVE  loadConfig(file) \in Config
BY SupportedToolsAssumption DEF loadConfig, newDefaultConfig, Config, ConfigFile, ModeEntry

(* The loop over SupportedTools stays within the list.                     *)
LEMMA NextToolType ==
    ASSUME TypeOK, NEW p \in Process, NEW after \in Step, NextTool(p, after)
    PROVE  /\ pc' \in [Process -> Step]
           /\ pos' \in [Process -> 1..Len(SupportedTools)]
<1>1. pc' \in [Process -> Step]
  BY DEF TypeOK, NextTool, Goto, Step
<1>2. pos' \in [Process -> 1..Len(SupportedTools)]
  <2> DEFINE N == Len(SupportedTools)
  <2>1. N \in Nat
    BY SupportedToolsAssumption
  <2>2. pos \in [Process -> 1..N]
    BY DEF TypeOK
  <2>3. pos' = pos \/ (pos[p] < N /\ pos' = [pos EXCEPT ![p] = @ + 1])
    BY DEF NextTool
  <2> HIDE DEF N
  <2>4. pos' \in [Process -> 1..N]
    BY <2>1, <2>2, <2>3
  <2>5. QED
    BY <2>4 DEF N
<1>3. QED
  BY <1>1, <1>2

LEMMA TypeInit == Init => TypeOK
<1> SUFFICES ASSUME Init PROVE TypeOK
  OBVIOUS
<1>1. config \in ConfigFile
  BY ProcessAssumption DEF Init
<1>2. alias \in [Tool -> Binary \cup {None, Partial}]
  BY ProcessAssumption DEF Init
<1>3. pos \in [Process -> 1..Len(SupportedTools)]
  BY SupportedToolsAssumption DEF Init
<1>4. pc \in [Process -> Step]
  BY DEF Init, Step
<1>5. QED
  BY <1>1, <1>2, <1>3, <1>4 DEF Init, TypeOK

(* One lemma for the steps of an install.                                  *)
LEMMA InstallType ==
    ASSUME TypeOK, LoadedOK, NEW p \in Installer, Install(p)
    PROVE  TypeOK'
<1> USE DEF Runs, Goto, Fail, disk, local
<1>p. p \in Process /\ p \in Binary
  BY ProcessAssumption DEF Process
<1>1. CASE MakeHome(p)
  BY <1>1, <1>p DEF MakeHome, TypeOK, Step
<1>2. CASE MakeBin(p)
  <2>1. jfHash' \in [Installer -> Binary \cup {NoHash}]
    BY <1>2, <1>p DEF MakeBin, TypeOK
  <2>2. QED
    BY <1>2, <1>p, <2>1 DEF MakeBin, TypeOK, Step
<1>3. CASE Acquire(p)
  BY <1>3, <1>p DEF Acquire, TypeOK, Step
<1>4. CASE GiveUpLock(p)
  BY <1>4, <1>p DEF GiveUpLock, AfterLockError, TypeOK, Step
<1>5. CASE DropAlias(p)
  <2>1. pc' \in [Process -> Step] /\ pos' \in [Process -> 1..Len(SupportedTools)]
    BY <1>5, <1>p, NextToolType DEF DropAlias, Step
  <2>2. alias' \in [Tool -> Binary \cup {None, Partial}]
    BY <1>5 DEF DropAlias, RemoveAlias, TypeOK
  <2>3. QED
    BY <1>5, <2>1, <2>2 DEF DropAlias, TypeOK
<1>6. CASE UnlinkOld(p)
  <2>1. alias' \in [Tool -> Binary \cup {None, Partial}]
    BY <1>6 DEF UnlinkOld, RemoveAlias, TypeOK
  <2>2. QED
    BY <1>6, <1>p, <2>1 DEF UnlinkOld, TypeOK, Step
<1>7. CASE Link(p)
  <2>1. pc' \in [Process -> Step] /\ pos' \in [Process -> 1..Len(SupportedTools)]
    BY <1>7, <1>p, NextToolType DEF Link, Step
  <2>2. alias' \in [Tool -> Binary \cup {None, Partial}]
    BY <1>7, <1>p DEF Link, TypeOK
  <2>3. QED
    BY <1>7, <2>1, <2>2 DEF Link, TypeOK
<1>8. CASE OpenCopy(p)
  <2>1. pc' \in [Process -> Step] /\ pos' \in [Process -> 1..Len(SupportedTools)]
    <3>1. CASE NextTool(p, "load")
      BY <3>1, <1>p, NextToolType DEF Step
    <3>2. CASE Goto(p, "copy") /\ UNCHANGED pos
      BY <3>2, <1>p DEF Step, TypeOK
    <3>3. QED
      BY <1>8, <3>1, <3>2 DEF OpenCopy
  <2>2. alias' \in [Tool -> Binary \cup {None, Partial}]
    BY <1>8 DEF OpenCopy, TypeOK
  <2>3. QED
    BY <1>8, <2>1, <2>2 DEF OpenCopy, TypeOK
<1>9. CASE FillCopy(p)
  <2>1. pc' \in [Process -> Step] /\ pos' \in [Process -> 1..Len(SupportedTools)]
    BY <1>9, <1>p, NextToolType DEF FillCopy, Step
  <2>2. alias' \in [Tool -> Binary \cup {None, Partial}]
    BY <1>9, <1>p DEF FillCopy, TypeOK
  <2>3. QED
    BY <1>9, <2>1, <2>2 DEF FillCopy, TypeOK
<1>10. CASE Load(p)
  <2>1. loaded' \in [Installer -> Config \cup {NoFile}]
    BY <1>10, LoadIsConfig DEF Load, TypeOK
  <2>2. QED
    BY <1>10, <1>p, <2>1 DEF Load, TypeOK, Step
<1>11. CASE WriteTemp(p)
  BY <1>11, <1>p DEF WriteTemp, TypeOK, Step
<1>12. CASE Rename(p)
  <2>1. config' \in ConfigFile
    <3>1. loaded[p] \in Config
      BY <1>12 DEF Rename, LoadedOK
    <3>2. Merge(loaded[p], arg[p], jfHash[p]) \in Config
      BY <3>1, MergeIsConfig DEF TypeOK
    <3>3. QED
      BY <1>12, <3>2 DEF Rename, TypeOK, ConfigFile
  <2>2. QED
    BY <1>12, <1>p, <2>1 DEF Rename, TypeOK, Step
<1>13. CASE Release(p)
  BY <1>13, <1>p DEF Release, TypeOK, Step
<1>14. QED
  BY <1>1, <1>2, <1>3, <1>4, <1>5, <1>6, <1>7, <1>8, <1>9, <1>10, <1>11, <1>12, <1>13
  DEF Install

(* And one for the steps of an uninstall.                                  *)
LEMMA UninstallType ==
    ASSUME TypeOK, NEW p \in Uninstaller, Uninstall(p)
    PROVE  TypeOK'
<1> USE DEF Runs, Goto, Fail, disk, local
<1>p. p \in Process /\ p \notin Installer
  BY ProcessAssumption DEF Process
<1>1. CASE StatBin(p)
  BY <1>1, <1>p DEF StatBin, TypeOK, Step
<1>2. CASE Acquire(p)
  BY <1>2, <1>p DEF Acquire, TypeOK, Step
<1>3. CASE GiveUpLock(p)
  BY <1>3, <1>p DEF GiveUpLock, AfterLockError, TypeOK, Step
<1>4. CASE UnlinkAlias(p)
  <2>1. pc' \in [Process -> Step] /\ pos' \in [Process -> 1..Len(SupportedTools)]
    BY <1>4, <1>p, NextToolType DEF UnlinkAlias, Step
  <2>2. alias' \in [Tool -> Binary \cup {None, Partial}]
    BY <1>4 DEF UnlinkAlias, RemoveAlias, TypeOK
  <2>3. QED
    BY <1>4, <2>1, <2>2 DEF UnlinkAlias, TypeOK
<1>5. CASE Release(p)
  BY <1>5, <1>p DEF Release, TypeOK, Step
<1>6. CASE ListHome(p)
  <2>1. Present \in SUBSET Entry
    BY DEF Present, Entry, TypeOK
  <2>2. QED
    BY <1>6, <1>p, <2>1 DEF ListHome, TypeOK, Step
<1>7. CASE WipeEntry(p)
  <2>1. alias' \in [Tool -> Binary \cup {None, Partial}]
    BY <1>7 DEF WipeEntry, TypeOK
  <2>2. config' \in ConfigFile /\ lock' \in Process \cup {NoLock} /\ tmp' \in SUBSET Installer
    BY <1>7 DEF WipeEntry, TypeOK, ConfigFile
  <2>3. left' \in [Uninstaller -> SUBSET Entry]
    BY <1>7 DEF WipeEntry, TypeOK
  <2>4. QED
    BY <1>7, <2>1, <2>2, <2>3 DEF WipeEntry, TypeOK
<1>8. CASE RemoveDirs(p)
  <2>1. bin' \in BOOLEAN /\ home' \in BOOLEAN
    BY <1>8 DEF RemoveDirs, TypeOK
  <2>2. QED
    BY <1>8, <1>p, <2>1 DEF RemoveDirs, TypeOK, Step
<1>9. QED
  BY <1>1, <1>2, <1>3, <1>4, <1>5, <1>6, <1>7, <1>8 DEF Uninstall

LEMMA EnvironmentType ==
    ASSUME TypeOK, (\E p \in Process : Kill(p)) \/ RemoveStaleLock
    PROVE  TypeOK'
<1>1. CASE \E p \in Process : Kill(p)
  BY <1>1 DEF Kill, TypeOK, disk, local
<1>2. CASE RemoveStaleLock
  BY <1>2 DEF RemoveStaleLock, TypeOK, local
<1>3. QED
  BY <1>1, <1>2

(* Only an install that has read the configuration comes to write it.      *)
LEMMA LoadedStep ==
    ASSUME TypeOK, LoadedOK, [Next]_vars
    PROVE  LoadedOK'
<1> USE DEF Runs, Goto, Fail, disk, local
<1>1. ASSUME NEW p \in Installer, Install(p), NEW q \in Installer,
             pc'[q] \in {"write", "rename"}
      PROVE  loaded'[q] \in Config
  <2>1. CASE Load(p)
    <3>1. CASE q = p
      <4>1. pc'[q] # "release"
        BY <1>1
      <4>2. config # Corrupt /\ loaded' = [loaded EXCEPT ![p] = loadConfig(config)]
        BY <2>1, <3>1, <4>1 DEF Load, TypeOK, Process
      <4>3. QED
        BY <3>1, <4>2, LoadIsConfig DEF TypeOK
    <3>2. CASE q # p
      BY <1>1, <2>1, <3>2 DEF Load, TypeOK, LoadedOK, Process
    <3>3. QED
      BY <3>1, <3>2
  <2>2. CASE Rename(p)
    BY <1>1, <2>2, ProcessAssumption DEF Rename, TypeOK, LoadedOK, Step, Process
  <2>3. CASE WriteTemp(p)
    BY <1>1, <2>3, ProcessAssumption DEF WriteTemp, TypeOK, LoadedOK, Step, Process
  <2>4. CASE MakeHome(p) \/ MakeBin(p) \/ Acquire(p) \/ GiveUpLock(p) \/ Release(p)
    BY <1>1, <2>4, ProcessAssumption
    DEF MakeHome, MakeBin, Acquire, GiveUpLock, Release, AfterLockError, TypeOK,
        LoadedOK, Step, Process
  <2>5. CASE DropAlias(p) \/ UnlinkOld(p) \/ Link(p) \/ OpenCopy(p) \/ FillCopy(p)
    BY <1>1, <2>5, ProcessAssumption
    DEF DropAlias, UnlinkOld, Link, OpenCopy, FillCopy, NextTool, TypeOK,
        LoadedOK, Step, Process
  <2>6. QED
    BY <1>1, <2>1, <2>2, <2>3, <2>4, <2>5 DEF Install
<1>2. ASSUME NEW p \in Uninstaller, Uninstall(p) PROVE LoadedOK'
  BY <1>2, ProcessAssumption
  DEF Uninstall, StatBin, Acquire, GiveUpLock, AfterLockError, UnlinkAlias, NextTool,
      Release, ListHome, WipeEntry, RemoveDirs, TypeOK, LoadedOK, Step, Process
<1>3. CASE (\E p \in Process : Kill(p)) \/ RemoveStaleLock \/ AllStopped \/ UNCHANGED vars
  BY <1>3 DEF Kill, RemoveStaleLock, AllStopped, vars, LoadedOK
<1>4. QED
  BY <1>1, <1>2, <1>3 DEF Next, LoadedOK

LEMMA TypeStep ==
    ASSUME TypeOK, LoadedOK, [Next]_vars
    PROVE  TypeOK'
<1>1. CASE \E p \in Installer : Install(p)
  BY <1>1, InstallType
<1>2. CASE \E p \in Uninstaller : Uninstall(p)
  BY <1>2, UninstallType
<1>3. CASE (\E p \in Process : Kill(p)) \/ RemoveStaleLock
  BY <1>3, EnvironmentType
<1>4. CASE AllStopped \/ UNCHANGED vars
  BY <1>4 DEF AllStopped, vars, disk, local, TypeOK
<1>5. QED
  BY <1>1, <1>2, <1>3, <1>4 DEF Next

(* Every state of every run has its type, and an install writes only a     *)
(* configuration it has read.                                              *)
THEOREM TypeCorrect == Spec => [](TypeOK /\ LoadedOK)
<1>1. Init => TypeOK /\ LoadedOK
  <2>1. Init => LoadedOK
    BY ProcessAssumption DEF Init, LoadedOK, Process
  <2>2. QED
    BY <2>1, TypeInit
<1>2. TypeOK /\ LoadedOK /\ [Next]_vars => (TypeOK /\ LoadedOK)'
  BY TypeStep, LoadedStep
<1>3. QED
  BY <1>1, <1>2, PTL DEF Spec

-----------------------------------------------------------------------------
(* The lock, among installs.  LockHeld is the inductive invariant: the     *)
(* code removes the lock file by its path, so only "the lock file that is  *)
(* there is mine" excludes that a release frees somebody else's lock.      *)

LEMMA LockStep ==
    ASSUME Uninstaller = {}, TypeOK, LockHeld, [Next]_vars
    PROVE  LockHeld'
<1> USE DEF Runs, Goto, Fail, disk, local, InLock, Locked
<1>p. Process = Installer
  BY DEF Process
<1>1. ASSUME NEW p \in Installer, Install(p), NEW q \in Process, InLock(q)'
      PROVE  lock' = q
  <2>1. CASE Acquire(p)
    BY <1>1, <2>1, <1>p, ProcessAssumption DEF Acquire, TypeOK, LockHeld, Step
  <2>2. CASE Release(p)
    BY <1>1, <2>2, <1>p DEF Release, TypeOK, LockHeld, Step
  <2>3. CASE MakeHome(p) \/ MakeBin(p) \/ GiveUpLock(p)
    BY <1>1, <2>3, <1>p DEF MakeHome, MakeBin, GiveUpLock, AfterLockError, TypeOK, LockHeld, Step
  <2>4. CASE DropAlias(p) \/ UnlinkOld(p) \/ Link(p) \/ OpenCopy(p) \/ FillCopy(p)
    BY <1>1, <2>4, <1>p
    DEF DropAlias, UnlinkOld, Link, OpenCopy, FillCopy, NextTool, TypeOK, LockHeld, Step
  <2>5. CASE Load(p) \/ WriteTemp(p) \/ Rename(p)
    BY <1>1, <2>5, <1>p DEF Load, WriteTemp, Rename, TypeOK, LockHeld, Step
  <2>6. QED
    BY <1>1, <2>1, <2>2, <2>3, <2>4, <2>5 DEF Install
<1>2. CASE \E p \in Process : Kill(p)
  BY <1>2 DEF Kill, LockHeld
<1>3. CASE RemoveStaleLock
  BY <1>3 DEF RemoveStaleLock, LockHeld, Terminal
<1>4. CASE AllStopped \/ UNCHANGED vars
  BY <1>4 DEF AllStopped, vars, LockHeld
<1>5. QED
  BY <1>1, <1>2, <1>3, <1>4 DEF Next, LockHeld

(* No two installs are ever in the locked part, however many there are,    *)
(* whichever are killed, cannot remove their lock file, and whenever a     *)
(* user removes a lock file nobody is behind.                              *)
THEOREM InstallsExclude ==
    ASSUME Uninstaller = {}
    PROVE  Spec => []MutualExclusion
<1>1. Init => LockHeld
  BY DEF Init, LockHeld, InLock, Locked
<1>2. TypeOK /\ LockHeld /\ [Next]_vars => LockHeld'
  BY LockStep
<1>3. LockHeld => MutualExclusion
  BY DEF LockHeld, MutualExclusion
<1>4. QED
  BY <1>1, <1>2, <1>3, TypeCorrect, PTL DEF Spec

-----------------------------------------------------------------------------
(* The configuration file, among installs.                                 *)

(* Merging leaves every mode that is there as it is.                       *)
LEMMA MergeKeepsMode ==
    ASSUME NEW cfg \in Config, NEW sel \in SUBSET Tool,
           NEW h \in Binary \cup {NoHash}, NEW t \in Tool
    PROVE  cfg.modes[t] # "unset" => Merge(cfg, sel, h).modes[t] = cfg.modes[t]
BY DEF Merge

LEMMA ProgressStep ==
    ASSUME Uninstaller = {}, TypeOK, Progress, [Next]_vars
    PROVE  Progress'
<1> USE DEF Runs, Goto, Fail, disk, local
<1>p. Process = Installer
  BY DEF Process
<1>1. ASSUME NEW p \in Installer, Install(p) PROVE Progress'
  <2>1. CASE MakeHome(p)
    BY <2>1, <1>p DEF MakeHome, TypeOK, Progress
  <2>2. CASE MakeBin(p)
    BY <2>2, <1>p DEF MakeBin, TypeOK, Progress
  <2>3. CASE Acquire(p) \/ GiveUpLock(p) \/ Release(p)
    BY <2>3, <1>p DEF Acquire, GiveUpLock, AfterLockError, Release, TypeOK, Progress
  <2>4. CASE DropAlias(p) \/ UnlinkOld(p) \/ Link(p) \/ OpenCopy(p) \/ FillCopy(p)
    BY <2>4, <1>p
    DEF DropAlias, UnlinkOld, Link, OpenCopy, FillCopy, NextTool, TypeOK, Progress
  <2>5. CASE Load(p) \/ WriteTemp(p) \/ Rename(p)
    BY <2>5, <1>p DEF Load, WriteTemp, Rename, TypeOK, Progress
  <2>6. QED
    BY <1>1, <2>1, <2>2, <2>3, <2>4, <2>5 DEF Install
<1>2. CASE (\E p \in Process : Kill(p)) \/ RemoveStaleLock \/ AllStopped \/ UNCHANGED vars
  BY <1>2 DEF Kill, RemoveStaleLock, AllStopped, vars, Progress
<1>3. QED
  BY <1>1, <1>2 DEF Next

LEMMA FreshStep ==
    ASSUME Uninstaller = {}, TypeOK, LockHeld, FreshRead, [Next]_vars
    PROVE  FreshRead'
<1> USE DEF Runs, Goto, Fail, disk, local
<1>p. Process = Installer
  BY DEF Process
<1>1. ASSUME NEW p \in Installer, Install(p), NEW q \in Installer,
             q \notin dead', pc'[q] \in {"write", "rename"}
      PROVE  config' # Corrupt /\ loaded'[q] = loadConfig(config')
  <2>1. CASE Load(p)
    <3>1. config' = config
      BY <2>1 DEF Load
    <3>2. CASE q = p
      <4>1. config # Corrupt /\ loaded' = [loaded EXCEPT ![p] = loadConfig(config)]
        BY <1>1, <2>1, <3>2, <1>p DEF Load, TypeOK
      <4>2. QED
        BY <3>1, <3>2, <4>1 DEF TypeOK, loadConfig
    <3>3. CASE q # p
      <4>1. loaded'[q] = loaded[q] /\ pc'[q] = pc[q] /\ dead' = dead
        BY <2>1, <3>3, <1>p DEF Load, TypeOK
      <4>2. QED
        BY <1>1, <3>1, <4>1 DEF FreshRead, loadConfig
    <3>4. QED
      BY <3>2, <3>3
  <2>2. CASE Rename(p)
    \* p holds the lock, so no other install is about to write
    <3>1. dead' = dead /\ pc'[p] = "release" /\ (q # p => pc'[q] = pc[q])
      BY <2>2, <1>p DEF Rename, TypeOK
    <3>2. q # p /\ InLock(p) /\ InLock(q)
      BY <1>1, <2>2, <3>1 DEF Rename, InLock, Locked
    <3>3. QED
      BY <3>2, <1>p DEF LockHeld
  <2>3. CASE WriteTemp(p)
    BY <1>1, <2>3, <1>p DEF WriteTemp, TypeOK, FreshRead, loadConfig
  <2>4. CASE MakeHome(p) \/ MakeBin(p) \/ Acquire(p) \/ GiveUpLock(p) \/ Release(p)
    BY <1>1, <2>4, <1>p
    DEF MakeHome, MakeBin, Acquire, GiveUpLock, Release, AfterLockError, TypeOK,
        FreshRead, loadConfig
  <2>5. CASE DropAlias(p) \/ UnlinkOld(p) \/ Link(p) \/ OpenCopy(p) \/ FillCopy(p)
    BY <1>1, <2>5, <1>p
    DEF DropAlias, UnlinkOld, Link, OpenCopy, FillCopy, NextTool, TypeOK,
        FreshRead, loadConfig
  <2>6. QED
    BY <1>1, <2>1, <2>2, <2>3, <2>4, <2>5 DEF Install
<1>2. CASE (\E p \in Process : Kill(p)) \/ RemoveStaleLock \/ AllStopped \/ UNCHANGED vars
  BY <1>2 DEF Kill, RemoveStaleLock, AllStopped, vars, FreshRead, loadConfig
<1>3. QED
  BY <1>1, <1>2 DEF Next, FreshRead

(* What the theorems below use of every reachable state.                   *)
InstallInv == TypeOK /\ LoadedOK /\ LockHeld /\ FreshRead /\ Progress

LEMMA InstallInvariant ==
    ASSUME Uninstaller = {}
    PROVE  Spec => []InstallInv
<1>1. Init => LockHeld /\ FreshRead /\ Progress
  BY ProcessAssumption DEF Init, LockHeld, FreshRead, Progress, InLock, Locked, Process
<1>2. TypeOK /\ LockHeld /\ FreshRead /\ Progress /\ [Next]_vars
        => (LockHeld /\ FreshRead /\ Progress)'
  BY LockStep, FreshStep, ProgressStep
<1>3. QED
  BY <1>1, <1>2, TypeCorrect, PTL DEF Spec, InstallInv

LEMMA OnlyRenameWrites ==
    ASSUME Uninstaller = {}, [Next]_vars, config' # config
    PROVE  \E p \in Installer :
              /\ Runs(p, "rename") /\ p \in tmp
              /\ config' = Merge(loaded[p], arg[p], jfHash[p])
<1>1. ASSUME NEW p \in Installer, Install(p), ~Rename(p) PROVE config' = config
  BY <1>1
  DEF Install, MakeHome, MakeBin, Acquire, GiveUpLock, DropAlias, UnlinkOld, Link,
      OpenCopy, FillCopy, Load, WriteTemp, Release, disk
<1>2. (\E p \in Process : Kill(p)) \/ RemoveStaleLock \/ AllStopped \/ UNCHANGED vars
        => config' = config
  BY DEF Kill, RemoveStaleLock, AllStopped, vars, disk
<1>3. PICK p \in Installer : Rename(p)
  BY <1>1, <1>2 DEF Next
<1>4. QED
  BY <1>3 DEF Rename

(* A mode that was ever in the file survives every install.                *)
THEOREM ModesAreKept ==
    ASSUME Uninstaller = {}
    PROVE  Spec => KeepsModes
<1> DEFINE Kept == \A t \in Tool :
              config \notin {NoFile, Corrupt} /\ config.modes[t] # "unset"
                => config' # NoFile /\ config'.modes[t] = config.modes[t]
<1>1. InstallInv /\ [Next]_vars => [Kept]_vars
  <2> SUFFICES ASSUME InstallInv, [Next]_vars, config' # config,
                      NEW t \in Tool, config \notin {NoFile, Corrupt},
                      config.modes[t] # "unset"
               PROVE  config' # NoFile /\ config'.modes[t] = config.modes[t]
    BY DEF InstallInv
  <2>1. PICK p \in Installer : /\ Runs(p, "rename") /\ p \in tmp
                               /\ config' = Merge(loaded[p], arg[p], jfHash[p])
    BY OnlyRenameWrites
  <2>2. loaded[p] = config
    BY <2>1 DEF InstallInv, FreshRead, Runs, loadConfig
  <2>3. config \in Config /\ arg[p] \in SUBSET Tool /\ jfHash[p] \in Binary \cup {NoHash}
    BY DEF InstallInv, TypeOK, ConfigFile
  <2>4. config' \in Config
    BY <2>1, <2>2, <2>3, MergeIsConfig
  <2>5. QED
    BY <2>1, <2>2, <2>3, <2>4, MergeKeepsMode, FileAssumption
<1>2. QED
  BY <1>1, InstallInvariant, PTL DEF Spec, KeepsModes

-----------------------------------------------------------------------------
(* Installs by themselves implement the registry.                          *)

LEMMA RegistryStep ==
    ASSUME Uninstaller = {}, InstallInv, [Next]_vars
    PROVE  [Registry!Next]_(Registry!vars)
<1> USE DEF Runs, Goto, Fail, disk, local
<1> DEFINE outcome == [p \in Installer |->
                         IF failed[p] THEN "refused"
                         ELSE IF pc[p] \in {"release", "stopped"} THEN "committed"
                         ELSE "pending"]
<1>p. Process = Installer
  BY DEF Process
<1>t. TypeOK /\ Progress /\ FreshRead
  BY DEF InstallInv
<1>r. ASSUME NEW p \in Installer, outcome[p] = "pending",
             outcome' = [outcome EXCEPT ![p] = "refused"], UNCHANGED <<config, arg>>
      PROVE  Registry!Next
  BY <1>r DEF Registry!Next, Registry!Refuse
<1>s. ASSUME outcome' = outcome, UNCHANGED <<config, arg>>
      PROVE  UNCHANGED Registry!vars
  BY <1>s DEF Registry!vars
<1>1. ASSUME NEW p \in Installer, Install(p) PROVE [Registry!Next]_(Registry!vars)
  <2>1. CASE Rename(p) /\ config' = Merge(loaded[p], arg[p], jfHash[p]) /\ UNCHANGED failed
             /\ pc' = [pc EXCEPT ![p] = "release"]
    <3>1. outcome[p] = "pending" /\ arg[p] # {} /\ ~failed[p]
      BY <2>1, <1>p, <1>t DEF Rename, TypeOK, Progress
    <3>2. config # Corrupt /\ loaded[p] = loadConfig(config) /\ jfHash[p] \in {p, NoHash}
      BY <2>1, <1>p, <1>t DEF Rename, FreshRead, Progress
    <3>3. outcome' = [outcome EXCEPT ![p] = "committed"]
      BY <2>1, <3>1, <1>p, <1>t DEF TypeOK
    <3>4. UNCHANGED arg
      BY <2>1 DEF Rename
    <3>5. config' = Registry!Merge(Registry!loadConfig(config), arg[p], jfHash[p])
      BY <2>1, <3>2
      DEF Merge, loadConfig, newDefaultConfig, DefaultMode, Tool, Registry!Merge,
          Registry!loadConfig, Registry!newDefaultConfig, Registry!DefaultMode, Registry!Tool
    <3>6. Registry!Commit(p)
      BY <3>1, <3>2, <3>3, <3>4, <3>5 DEF Registry!Commit
    <3>7. QED
      BY <3>6 DEF Registry!Next
  <2>2. CASE /\ MakeBin(p) \/ GiveUpLock(p) \/ Load(p) \/ WriteTemp(p) \/ Rename(p)
             /\ UNCHANGED config
             /\ \E step \in {"stopped", "release"} : Fail(p, step)
    <3>1. outcome[p] = "pending"
      BY <2>2, <1>p, <1>t DEF MakeBin, GiveUpLock, Load, WriteTemp, Rename, TypeOK, Progress
    <3>2. outcome' = [outcome EXCEPT ![p] = "refused"]
      BY <2>2, <1>p, <1>t DEF TypeOK
    <3>3. UNCHANGED <<config, arg>>
      BY <2>2 DEF MakeBin, GiveUpLock, Load, WriteTemp, Rename
    <3>4. QED
      BY <3>1, <3>2, <3>3, <1>r
  <2>3. CASE MakeHome(p) \/ Acquire(p) \/ Release(p)
    <3>1. outcome' = outcome
      BY <2>3, <1>p, <1>t DEF MakeHome, Acquire, Release, TypeOK
    <3>2. QED
      BY <2>3, <3>1, <1>s DEF MakeHome, Acquire, Release
  <2>4. CASE DropAlias(p) \/ UnlinkOld(p) \/ Link(p) \/ OpenCopy(p) \/ FillCopy(p)
    <3>1. outcome' = outcome
      BY <2>4, <1>p, <1>t
      DEF DropAlias, UnlinkOld, Link, OpenCopy, FillCopy, NextTool, TypeOK
    <3>2. QED
      BY <2>4, <3>1, <1>s DEF DropAlias, UnlinkOld, Link, OpenCopy, FillCopy
  <2>5. CASE /\ MakeBin(p) \/ Load(p) \/ WriteTemp(p)
             /\ UNCHANGED failed
             /\ \E step \in {"lock", "write", "rename"} : Goto(p, step)
    <3>1. outcome' = outcome
      BY <2>5, <1>p, <1>t DEF MakeBin, Load, WriteTemp, TypeOK
    <3>2. QED
      BY <2>5, <3>1, <1>s DEF MakeBin, Load, WriteTemp
  <2>6. MakeBin(p) \/ Load(p) \/ WriteTemp(p) =>
          \/ UNCHANGED failed /\ \E step \in {"lock", "write", "rename"} : Goto(p, step)
          \/ UNCHANGED config /\ \E step \in {"stopped", "release"} : Fail(p, step)
    BY DEF MakeBin, Load, WriteTemp
  <2>7. GiveUpLock(p) => UNCHANGED config /\ \E step \in {"stopped", "release"} : Fail(p, step)
    BY DEF GiveUpLock, AfterLockError
  <2>8. QED
    BY <1>1, <2>1, <2>2, <2>3, <2>4, <2>5, <2>6, <2>7 DEF Install, Rename
<1>2. CASE (\E p \in Process : Kill(p)) \/ RemoveStaleLock \/ AllStopped \/ UNCHANGED vars
  BY <1>2, <1>s DEF Kill, RemoveStaleLock, AllStopped, vars
<1>3. QED
  BY <1>1, <1>2 DEF Next

(* A run of installs is a run of the registry: each commits in one step,   *)
(* against the configuration of that moment, or changes nothing.           *)
THEOREM InstallsImplementRegistry ==
    ASSUME Uninstaller = {}
    PROVE  Spec => RegistrySpec
<1>1. Init => Registry!Init
  BY DEF Init, Registry!Init, Process, Tool, Registry!Tool
<1>2. InstallInv /\ [Next]_vars => [Registry!Next]_(Registry!vars)
  BY RegistryStep
<1>3. QED
  BY <1>1, <1>2, InstallInvariant, PTL DEF Spec, RegistrySpec, Registry!Spec

-----------------------------------------------------------------------------
(* What an install has done when it releases the lock.                     *)

(* A step of one install takes nothing from another: what the other needs  *)
(* is changed only under the lock, and the other holds it.                 *)
LEMMA EffectOfOther ==
    ASSUME Uninstaller = {}, InstallInv, NEW p \in Installer, Install(p),
           NEW q \in Installer, q # p, Effect(q)
    PROVE  Effect(q)'
<1> USE DEF Runs, Goto, Fail, disk, local
<1>p. Process = Installer
  BY DEF Process
<1>1. /\ pc'[q] = pc[q] /\ pos'[q] = pos[q] /\ failed'[q] = failed[q]
      /\ jfHash'[q] = jfHash[q] /\ arg' = arg /\ dead' = dead
  BY <1>p
  DEF Install, MakeHome, MakeBin, Acquire, GiveUpLock, DropAlias, UnlinkOld, Link,
      OpenCopy, FillCopy, Load, WriteTemp, Rename, Release, NextTool, InstallInv, TypeOK
<1>2. (home => home') /\ (home /\ bin => bin')
  BY DEF Install, MakeHome, MakeBin, Acquire, GiveUpLock, DropAlias, UnlinkOld, Link,
         OpenCopy, FillCopy, Load, WriteTemp, Rename, Release
<1>3. InLock(q) => alias' = alias /\ config' = config /\ (q \in tmp => q \in tmp')
  <2> SUFFICES ASSUME InLock(q)
               PROVE  alias' = alias /\ config' = config /\ (q \in tmp => q \in tmp')
    OBVIOUS
  <2>1. ~InLock(p)
    BY <1>p DEF InstallInv, LockHeld
  <2>2. MakeHome(p) \/ MakeBin(p) \/ Acquire(p) \/ GiveUpLock(p)
    BY <2>1
    DEF InLock, Locked, Install, DropAlias, UnlinkOld, Link, OpenCopy, FillCopy, Load,
        WriteTemp, Rename, Release
  <2>3. QED
    BY <2>2 DEF MakeHome, MakeBin, Acquire, GiveUpLock
<1>4. InLock(q)' <=> InLock(q)
  BY <1>1 DEF InLock
<1>5. DoneUpTo(q)' = DoneUpTo(q) /\ CurrentTool(q)' = CurrentTool(q)
  BY <1>1 DEF DoneUpTo, CurrentTool
<1>6. \A t \in Tool : Wanted(q, t)' = Wanted(q, t)
  BY <1>1 DEF Wanted
<1>7. \A i \in 1..DoneUpTo(q) : Wanted(q, SupportedTools[i])' = Wanted(q, SupportedTools[i])
  BY <1>1 DEF Wanted
<1>8. QED
  BY <1>1, <1>2, <1>3, <1>4, <1>5, <1>7 DEF Effect

(* A round of the loop: the current tool is done, the earlier ones stay.   *)
LEMMA LoopRound ==
    ASSUME TypeOK, NEW p \in Installer, pc[p] \in {"alias", "link", "copy"},
           NextTool(p, "load"), arg' = arg,
           \A i \in 1..DoneUpTo(p) :
              alias[SupportedTools[i]] = Wanted(p, SupportedTools[i]),
           alias' = [alias EXCEPT ![CurrentTool(p)] = Wanted(p, CurrentTool(p))]
    PROVE  /\ pc'[p] \in {"alias", "load"}
           /\ \A i \in 1..DoneUpTo(p)' :
                 alias'[SupportedTools[i]] = Wanted(p, SupportedTools[i])'
<1> DEFINE N == Len(SupportedTools)
<1>1. N \in Nat /\ pos[p] \in 1..N /\ p \in Process
  BY SupportedToolsAssumption DEF TypeOK, Process
<1>2. DoneUpTo(p) = pos[p] - 1
  BY DEF DoneUpTo
<1>3. pc'[p] \in {"alias", "load"} /\ DoneUpTo(p)' = pos[p]
  <2>1. CASE pos[p] < N
    BY <2>1, <1>1 DEF NextTool, Goto, DoneUpTo, TypeOK
  <2>2. CASE ~(pos[p] < N)
    <3>1. pos[p] = N
      BY <1>1, <2>2
    <3>2. pc'[p] = "load"
      BY <2>2, <1>1 DEF NextTool, Goto, TypeOK
    <3>3. QED
      BY <3>1, <3>2 DEF DoneUpTo
  <2>3. QED
    BY <2>1, <2>2
<1>4. ASSUME NEW i \in 1..pos[p]
      PROVE  alias'[SupportedTools[i]] = Wanted(p, SupportedTools[i])
  <2>1. SupportedTools[i] \in Tool
    BY <1>1 DEF Tool
  <2>2. CASE SupportedTools[i] = CurrentTool(p)
    BY <2>1, <2>2 DEF TypeOK
  <2>3. CASE SupportedTools[i] # CurrentTool(p)
    <3>1. i \in 1..(pos[p] - 1)
      BY <1>1, <2>3 DEF CurrentTool
    <3>2. QED
      BY <3>1, <1>2, <2>1, <2>3 DEF TypeOK
  <2>4. QED
    BY <2>2, <2>3
<1>5. QED
  BY <1>3, <1>4 DEF Wanted

(* A step of an install itself, when nothing fails on its own.             *)
LEMMA EffectOfSelf ==
    ASSUME Uninstaller = {}, Faults = FALSE, InstallInv,
           NEW p \in Installer, Install(p), Effect(p)
    PROVE  Effect(p)'
<1> USE DEF Runs, Goto, Fail, disk, local
<1>p. Process = Installer
  BY DEF Process
<1>t. TypeOK /\ Progress /\ p \in Process
  BY <1>p DEF InstallInv
<1>1. CASE MakeHome(p)
  BY <1>1, <1>t DEF MakeHome, Effect, InLock, Locked, TypeOK
<1>2. CASE MakeBin(p)
  <2>1. home /\ home' = home /\ dead' = dead
    BY <1>2 DEF MakeBin, Effect
  <2>2. pc'[p] \in {"lock", "stopped"}
    BY <1>2, <1>t DEF MakeBin, TypeOK
  <2>3. ~failed'[p] => bin' /\ jfHash'[p] = p
    BY <1>2, <1>t, <2>1 DEF MakeBin, TypeOK
  <2>4. QED
    BY <2>1, <2>2, <2>3 DEF Effect, InLock, Locked
<1>3. CASE Acquire(p)
  <2>1. pc'[p] = "alias" /\ pos'[p] = pos[p]
    BY <1>3, <1>t DEF Acquire, TypeOK
  <2>2. pos[p] = 1
    BY <1>3 DEF Acquire, InstallInv, Progress
  <2>3. DoneUpTo(p)' = 0
    BY <2>1, <2>2 DEF DoneUpTo
  <2>4. QED
    BY <1>3, <2>1, <2>3, <1>t DEF Acquire, Effect, InLock, Locked
<1>4. CASE GiveUpLock(p)
  BY <1>4, <1>t, ProcessAssumption DEF GiveUpLock, AfterLockError, Effect, InLock, Locked, TypeOK
<1>5. CASE DropAlias(p)
  <2>1. CurrentTool(p) \in Tool /\ Wanted(p, CurrentTool(p)) = None
    BY <1>5, <1>t, CurrentToolIsTool DEF DropAlias, Wanted
  <2>2. alias' = [alias EXCEPT ![CurrentTool(p)] = Wanted(p, CurrentTool(p))]
    BY <1>5, <2>1 DEF DropAlias, RemoveAlias
  <2>3. NextTool(p, "load") /\ pc[p] = "alias" /\ InLock(p)
    BY <1>5 DEF DropAlias, InLock, Locked
  <2>4. UNCHANGED <<home, bin, jfHash, failed, arg, dead>>
    BY <1>5 DEF DropAlias
  <2>5. QED
    BY <2>2, <2>3, <2>4, <1>t, LoopRound DEF Effect
<1>6. CASE UnlinkOld(p)
  <2>1. pc'[p] = "link" /\ pos' = pos /\ UNCHANGED <<home, bin, jfHash, failed, arg, dead>>
    BY <1>6, <1>t DEF UnlinkOld, TypeOK
  <2>2. CurrentTool(p) \in arg[p] /\ CurrentTool(p) \in Tool /\ InLock(p) /\ pc[p] = "alias"
    BY <1>6, <1>t, CurrentToolIsTool DEF UnlinkOld, InLock, Locked
  <2>3. alias' = [alias EXCEPT ![CurrentTool(p)] = None]
    BY <1>6 DEF UnlinkOld, RemoveAlias
  <2>4. DoneUpTo(p)' = DoneUpTo(p) /\ DoneUpTo(p) = pos[p] - 1
    BY <2>1, <2>2 DEF DoneUpTo
  <2>5. ASSUME NEW i \in 1..(pos[p] - 1)
        PROVE  alias'[SupportedTools[i]] = alias[SupportedTools[i]]
    BY <2>2, <2>3, <1>t, SupportedToolsAssumption DEF CurrentTool, TypeOK, Tool
  <2>6. QED
    BY <2>1, <2>2, <2>3, <2>4, <2>5, <1>t DEF Effect, Wanted, CurrentTool, TypeOK
<1>7. CASE Link(p)
  <2>1. bin /\ alias[CurrentTool(p)] = None /\ CurrentTool(p) \in arg[p] /\ InLock(p)
    BY <1>7, <1>t DEF Link, Effect, InLock, Locked, Progress
  <2>2. alias' = [alias EXCEPT ![CurrentTool(p)] = Wanted(p, CurrentTool(p))]
    BY <1>7, <2>1 DEF Link, Wanted
  <2>3. NextTool(p, "load") /\ pc[p] = "link"
    BY <1>7 DEF Link
  <2>4. UNCHANGED <<home, bin, jfHash, failed, arg, dead>>
    BY <1>7 DEF Link
  <2>5. QED
    BY <2>1, <2>2, <2>3, <2>4, <1>t, LoopRound DEF Effect
<1>8. CASE OpenCopy(p)
  <2>1. bin /\ InLock(p) /\ pc[p] = "alias" /\ CurrentTool(p) \in arg[p] /\ CurrentTool(p) \in Tool
    BY <1>8, <1>t, CurrentToolIsTool DEF OpenCopy, Effect, InLock, Locked, Progress
  <2>2. /\ alias' = [alias EXCEPT ![CurrentTool(p)] = Partial]
        /\ pc'[p] = "copy" /\ pos' = pos
        /\ UNCHANGED <<home, bin, jfHash, failed, arg, dead>>
    BY <1>8, <2>1, <1>t DEF OpenCopy, TypeOK
  <2>3. DoneUpTo(p)' = DoneUpTo(p) /\ DoneUpTo(p) = pos[p] - 1
    BY <2>1, <2>2 DEF DoneUpTo
  <2>4. ASSUME NEW i \in 1..(pos[p] - 1)
        PROVE  alias'[SupportedTools[i]] = alias[SupportedTools[i]]
    BY <2>1, <2>2, <1>t, SupportedToolsAssumption DEF CurrentTool, TypeOK, Tool
  <2>5. alias'[CurrentTool(p)] # None
    BY <2>1, <2>2, <1>t, ProcessAssumption DEF TypeOK
  <2>6. QED
    BY <2>1, <2>2, <2>3, <2>4, <2>5, <1>t DEF Effect, Wanted, CurrentTool, TypeOK
<1>9. CASE FillCopy(p)
  <2>1. alias[CurrentTool(p)] # None /\ CurrentTool(p) \in arg[p] /\ InLock(p)
    BY <1>9 DEF FillCopy, Effect, InLock, Locked
  <2>2. alias' = [alias EXCEPT ![CurrentTool(p)] = Wanted(p, CurrentTool(p))]
    BY <1>9, <2>1 DEF FillCopy, Wanted
  <2>3. NextTool(p, "load") /\ pc[p] = "copy"
    BY <1>9 DEF FillCopy
  <2>4. UNCHANGED <<home, bin, jfHash, failed, arg, dead>>
    BY <1>9 DEF FillCopy
  <2>5. QED
    BY <2>1, <2>2, <2>3, <2>4, <1>t, LoopRound DEF Effect
<1>10. CASE Load(p) \/ WriteTemp(p)
  <2>1. pc[p] \in {"load", "write"} /\ InLock(p)
    BY <1>10 DEF Load, WriteTemp, InLock, Locked
  <2>2. /\ pc'[p] \in {"write", "rename", "release"}
        /\ pc'[p] = "rename" => p \in tmp'
        /\ pc'[p] = "release" => failed'[p]
        /\ ~failed'[p] => ~failed[p]
        /\ UNCHANGED <<home, bin, alias, jfHash, pos, arg, dead>>
    BY <1>10, <1>t DEF Load, WriteTemp, TypeOK
  <2>3. DoneUpTo(p)' = DoneUpTo(p)
    BY <2>1, <2>2 DEF DoneUpTo
  <2>4. QED
    BY <2>1, <2>2, <2>3 DEF Effect, Wanted
<1>11. CASE Rename(p)
  <2>1. pc[p] = "rename" /\ InLock(p) /\ p \in tmp /\ ~failed[p] /\ jfHash[p] = p
    BY <1>11, <1>t DEF Rename, InLock, Locked, Effect, Progress
  <2>2. /\ pc'[p] = "release" /\ config' = Merge(loaded[p], arg[p], p)
        /\ UNCHANGED <<home, bin, alias, jfHash, pos, arg, dead, failed>>
    BY <1>11, <2>1, <1>t DEF Rename, TypeOK
  <2>3. loaded[p] \in Config
    BY <2>1 DEF InstallInv, LoadedOK
  <2>4. config' \in {Merge(cfg, arg[p], p) : cfg \in Config}
    BY <2>2, <2>3
  <2>5. DoneUpTo(p)' = DoneUpTo(p)
    BY <2>1, <2>2 DEF DoneUpTo
  <2>6. QED
    BY <2>1, <2>2, <2>4, <2>5 DEF Effect, Wanted
<1>12. CASE Release(p)
  BY <1>12, <1>t DEF Release, Effect, InLock, Locked, TypeOK
<1>13. QED
  BY <1>1, <1>2, <1>3, <1>4, <1>5, <1>6, <1>7, <1>8, <1>9, <1>10, <1>11, <1>12 DEF Install

(* An install that releases the lock without an error has installed what   *)
(* it was asked for, whatever was killed half-way before it.               *)
THEOREM InstallsTakeEffect ==
    ASSUME Uninstaller = {}, Faults = FALSE
    PROVE  Spec => []InstallTakesEffect
<1>1. Init => EffectSoFar
  BY ProcessAssumption DEF Init, EffectSoFar, Effect, InLock, Locked, Process
<1>2. InstallInv /\ EffectSoFar /\ [Next]_vars => EffectSoFar'
  <2> SUFFICES ASSUME InstallInv, EffectSoFar, [Next]_vars, NEW q \in Installer
               PROVE  Effect(q)'
    BY DEF EffectSoFar
  <2>1. ASSUME NEW p \in Installer, Install(p) PROVE Effect(q)'
    BY <2>1, EffectOfSelf, EffectOfOther DEF EffectSoFar
  <2>2. CASE \E p \in Process : Kill(p)
    BY <2>2
    DEF Kill, disk, local, EffectSoFar, Effect, InLock, DoneUpTo, CurrentTool, Wanted
  <2>3. CASE RemoveStaleLock
    BY <2>3
    DEF RemoveStaleLock, local, EffectSoFar, Effect, InLock, DoneUpTo, CurrentTool, Wanted
  <2>4. CASE AllStopped \/ UNCHANGED vars
    BY <2>4
    DEF AllStopped, vars, disk, local, EffectSoFar, Effect, InLock, DoneUpTo,
        CurrentTool, Wanted
  <2>5. QED
    BY <2>1, <2>2, <2>3, <2>4 DEF Next
<1>3. InstallInv /\ EffectSoFar => InstallTakesEffect
  <2> SUFFICES ASSUME InstallInv, EffectSoFar, NEW p \in Installer,
                      p \notin dead, pc[p] = "release", ~failed[p]
               PROVE  /\ alias = [t \in Tool |-> IF t \in arg[p] THEN p ELSE None]
                      /\ config # NoFile /\ config.enabled
                      /\ config.enabledTools = arg[p] /\ config.hash = p
                      /\ \A t \in arg[p] : config.modes[t] # "unset"
    BY DEF InstallTakesEffect
  <2>1. /\ \A i \in 1..Len(SupportedTools) :
              alias[SupportedTools[i]] = Wanted(p, SupportedTools[i])
        /\ config \in {Merge(cfg, arg[p], p) : cfg \in Config}
    BY DEF EffectSoFar, Effect, InLock, Locked, DoneUpTo
  <2>2. \A t \in Tool : alias[t] = Wanted(p, t)
    BY <2>1 DEF Tool
  <2>3. alias = [t \in Tool |-> IF t \in arg[p] THEN p ELSE None]
    BY <2>2 DEF Wanted, InstallInv, TypeOK
  <2>4. PICK cfg \in Config : config = Merge(cfg, arg[p], p)
    BY <2>1
  <2>5. arg[p] \in SUBSET Tool /\ p \in Binary \cup {NoHash}
    BY ProcessAssumption DEF InstallInv, TypeOK
  <2>6. config # NoFile
    BY <2>4, <2>5, MergeIsConfig, FileAssumption
  <2>7. \A t \in arg[p] : config.modes[t] # "unset"
    BY <2>4, <2>5 DEF Merge, DefaultMode, Config
  <2>8. QED
    BY <2>3, <2>4, <2>6, <2>7 DEF Merge
<1>4. QED
  BY <1>1, <1>2, <1>3, InstallInvariant, PTL DEF Spec

-----------------------------------------------------------------------------
(* What commands leave behind, beside uninstalls.                          *)

(* A step of an install or of an uninstall that can remove what it wants.  *)
LEMMA LeaveFilesStep ==
    ASSUME TypeOK, ~Faults, OnlyKilledLeaveFiles, [Next]_vars
    PROVE  OnlyKilledLeaveFiles'
<1> USE DEF OnlyKilledLeaveFiles, disk, local, Runs, Goto, Fail, Locked, Process
<1>p. NoLock \notin Process /\ Installer \cap Uninstaller = {}
  BY ProcessAssumption
<1>1. ASSUME NEW p \in Installer, Install(p) PROVE OnlyKilledLeaveFiles'
  <2> USE DEF TypeOK
  <2>1. CASE MakeHome(p) \/ MakeBin(p) \/ GiveUpLock(p)
    BY <2>1, <1>p DEF MakeHome, MakeBin, GiveUpLock, AfterLockError
  <2>2. CASE Acquire(p)
    BY <2>2, <1>p DEF Acquire
  <2>3. CASE DropAlias(p) \/ UnlinkOld(p) \/ Link(p) \/ OpenCopy(p) \/ FillCopy(p)
    BY <2>3, <1>p DEF DropAlias, UnlinkOld, Link, OpenCopy, FillCopy, NextTool
  <2>4. CASE Load(p)
    BY <2>4, <1>p DEF Load
  <2>5. CASE WriteTemp(p)
    BY <2>5, <1>p DEF WriteTemp
  <2>6. CASE Rename(p)
    BY <2>6, <1>p DEF Rename
  <2>7. CASE Release(p)
    BY <2>7, <1>p DEF Release
  <2>8. QED
    BY <1>1, <2>1, <2>2, <2>3, <2>4, <2>5, <2>6, <2>7 DEF Install
<1>2. ASSUME NEW p \in Uninstaller, Uninstall(p) PROVE OnlyKilledLeaveFiles'
  <2> USE DEF TypeOK
  <2>1. CASE StatBin(p) \/ GiveUpLock(p) \/ ListHome(p) \/ RemoveDirs(p)
    BY <2>1, <1>p DEF StatBin, GiveUpLock, AfterLockError, ListHome, RemoveDirs
  <2>2. CASE Acquire(p)
    BY <2>2, <1>p DEF Acquire
  <2>3. CASE UnlinkAlias(p)
    BY <2>3, <1>p DEF UnlinkAlias, NextTool
  <2>4. CASE WipeEntry(p)
    BY <2>4, <1>p DEF WipeEntry
  <2>5. CASE Release(p)
    BY <2>5, <1>p DEF Release
  <2>6. QED
    BY <1>2, <2>1, <2>2, <2>3, <2>4, <2>5 DEF Uninstall
<1>3. CASE (\E p \in Process : Kill(p)) \/ RemoveStaleLock \/ AllStopped \/ UNCHANGED vars
  BY <1>3 DEF Kill, RemoveStaleLock, AllStopped, vars
<1>4. QED
  BY <1>1, <1>2, <1>3 DEF Next

(* If removals do not fail, any number of installs and uninstalls, also    *)
(* when they remove each other's files, leave a lock or a temporary file   *)
(* behind only where one of them was killed.                               *)
THEOREM CommandsCleanUp ==
    ASSUME ~Faults
    PROVE  Spec => []OnlyKilledLeaveFiles
<1>1. Init => OnlyKilledLeaveFiles
  BY DEF Init, OnlyKilledLeaveFiles
<1>2. TypeOK /\ OnlyKilledLeaveFiles /\ [Next]_vars => OnlyKilledLeaveFiles'
  BY LeaveFilesStep
<1>3. QED
  BY <1>1, <1>2, TypeCorrect, PTL DEF Spec

-----------------------------------------------------------------------------
(* What uninstalls leave behind.                                           *)

Gone == Present = {} /\ ~bin /\ ~home

\* u has still to list the directory, or has listed all that is there.
WillRemove(u) ==
    \/ pc[u] \in {"lock", "alias", "release", "wipe"}
    \/ pc[u] = "wiping" /\ Present \subseteq left[u]

\* No install is at work, and what is there some uninstall will remove, unless
\* one is killed.
Removing ==
    /\ \A p \in Installer : Terminal(p)
    /\ \/ Uninstaller \cap dead # {}
       \/ Gone
       \/ \E u \in Uninstaller : WillRemove(u)

(* Removing an entry leaves the others.                                    *)
LEMMA EntriesGo ==
    ASSUME TypeOK, ~Faults, NEW p \in Uninstaller, WipeEntry(p)
    PROVE  \E e \in left[p] : /\ Present' \subseteq Present \ {e}
                              /\ left' = [left EXCEPT ![p] = @ \ {e}]
<1>1. PICK e \in left[p] :
        /\ left' = [left EXCEPT ![p] = @ \ {e}]
        /\ alias' = [t \in Tool |-> IF t = e THEN None ELSE alias[t]]
        /\ tmp' = tmp \ {e}
        /\ config' = IF e = "config" THEN NoFile ELSE config
        /\ lock' = IF e = "lock" THEN NoLock ELSE lock
  BY DEF WipeEntry
<1>2. /\ \A t \in Tool : alias'[t] # None => alias[t] # None /\ t # e
      /\ tmp' \subseteq tmp /\ e \notin tmp'
      /\ config' # NoFile => config # NoFile /\ e # "config"
      /\ lock' # NoLock => lock # NoLock /\ e # "lock"
  BY <1>1
<1>3. Present' \subseteq Present \ {e}
  BY <1>2 DEF Present
<1>4. QED
  BY <1>1, <1>3

(* A step of an uninstall that removes what it wants to remove.            *)
LEMMA UninstallRemoving ==
    ASSUME TypeOK, ~Faults, Removing, NEW p \in Uninstaller, Uninstall(p)
    PROVE  Removing'
<1> USE DEF Runs, Goto, Fail
<1>1. /\ dead' = dead /\ p \in Process /\ p \notin Installer
      /\ \A q \in Process \ {p} : pc'[q] = pc[q]
  BY ProcessAssumption DEF TypeOK, Process, Uninstall, StatBin, Acquire, GiveUpLock,
     UnlinkAlias, NextTool, Release, ListHome, WipeEntry, RemoveDirs
<1>2. \A q \in Installer : Terminal(q)'
  BY <1>1 DEF Removing, Terminal, Process
<1>3. SUFFICES ASSUME Uninstaller \cap dead = {}
               PROVE  Gone' \/ \E u \in Uninstaller : WillRemove(u)'
  BY <1>1, <1>2 DEF Removing
<1>4. ASSUME Present' \subseteq Present, UNCHANGED <<home, bin>>,
             \A u \in Uninstaller : u # p => left'[u] = left[u],
             WillRemove(p) => WillRemove(p)'
      PROVE  Gone' \/ \E u \in Uninstaller : WillRemove(u)'
  <2>1. CASE Gone
    BY <1>4, <2>1 DEF Gone
  <2>2. ASSUME NEW u \in Uninstaller, WillRemove(u) PROVE WillRemove(u)'
    BY <1>1, <1>4, <2>2 DEF WillRemove, Process
  <2>3. QED
    BY <1>3, <2>1, <2>2 DEF Removing
<1>5. CASE StatBin(p) \/ GiveUpLock(p)
  <2>1. Present' = Present /\ UNCHANGED <<home, bin, left>>
    BY <1>5 DEF StatBin, GiveUpLock, Present, disk, local
  <2>2. WillRemove(p) => WillRemove(p)'
    BY <1>1, <1>5, <2>1, ProcessAssumption
    DEF StatBin, GiveUpLock, WillRemove, AfterLockError, TypeOK
  <2>3. QED
    BY <1>4, <2>1, <2>2
<1>6. CASE Acquire(p)
  <2>1. pc'[p] = "alias"
    BY <1>1, <1>6 DEF Acquire, TypeOK
  <2>2. QED
    BY <2>1 DEF WillRemove
<1>7. CASE UnlinkAlias(p) \/ Release(p)
  <2>1. pc'[p] \in {"alias", "release", "wipe"}
    BY <1>1, <1>7 DEF UnlinkAlias, NextTool, Release, TypeOK
  <2>2. QED
    BY <2>1 DEF WillRemove
<1>8. CASE ListHome(p)
  <2>1. pc'[p] = "wiping" /\ left'[p] = Present /\ Present' = Present
    BY <1>1, <1>8 DEF ListHome, TypeOK, Present, disk
  <2>2. QED
    BY <2>1 DEF WillRemove
<1>9. CASE WipeEntry(p)
  <2>1. PICK e \in left[p] : /\ Present' \subseteq Present \ {e}
                             /\ left' = [left EXCEPT ![p] = @ \ {e}]
    BY <1>9, EntriesGo
  <2>2. /\ left'[p] = left[p] \ {e} /\ \A u \in Uninstaller : u # p => left'[u] = left[u]
        /\ UNCHANGED <<home, bin, pc>>
    BY <1>9, <2>1 DEF WipeEntry, TypeOK
  <2>3. WillRemove(p) => WillRemove(p)'
    BY <2>1, <2>2 DEF WillRemove
  <2>4. QED
    BY <1>4, <2>1, <2>2, <2>3
<1>10. CASE RemoveDirs(p)
  <2>1. /\ left[p] = {} /\ pc[p] = "wiping" /\ Present' = Present /\ left' = left
        /\ bin' = (bin /\ \E t \in Tool : alias[t] # None)
        /\ home' = (home /\ (bin' \/ Present # {}))
    BY <1>10 DEF RemoveDirs, Present, local
  <2>2. CASE Gone
    BY <2>1, <2>2 DEF Gone
  <2>3. CASE WillRemove(p)
    <3>1. Present = {}
      BY <2>1, <2>3 DEF WillRemove
    <3>2. \A t \in Tool : alias[t] = None
      BY <3>1 DEF Present
    <3>3. QED
      BY <2>1, <3>1, <3>2 DEF Gone
  <2>4. ASSUME NEW u \in Uninstaller, u # p, WillRemove(u) PROVE WillRemove(u)'
    BY <1>1, <2>1, <2>4 DEF WillRemove, Process
  <2>5. QED
    BY <1>3, <2>2, <2>3, <2>4 DEF Removing
<1>11. QED
  BY <1>5, <1>6, <1>7, <1>8, <1>9, <1>10 DEF Uninstall

LEMMA RemovingStep ==
    ASSUME TypeOK, ~Faults, Removing, [Next]_vars
    PROVE  Removing'
<1>1. ASSUME NEW p \in Installer, Install(p) PROVE FALSE
  BY <1>1 DEF Removing, Terminal, Install, MakeHome, MakeBin, Acquire, GiveUpLock,
     DropAlias, UnlinkOld, Link, OpenCopy, FillCopy, Load, WriteTemp, Rename, Release, Runs
<1>2. ASSUME NEW p \in Uninstaller, Uninstall(p) PROVE Removing'
  BY <1>2, UninstallRemoving
<1>3. ASSUME NEW p \in Process, Kill(p) PROVE Removing'
  BY <1>3 DEF Kill, Removing, Terminal, Gone, WillRemove, Present, disk, local
<1>4. CASE RemoveStaleLock
  <2>1. /\ Present' \subseteq Present
        /\ UNCHANGED <<home, bin, dead, pc, left>>
    BY <1>4 DEF RemoveStaleLock, Present, local
  <2>2. QED
    BY <2>1 DEF Removing, Terminal, Gone, WillRemove
<1>5. CASE AllStopped \/ UNCHANGED vars
  BY <1>5 DEF AllStopped, vars, disk, local, Removing, Terminal, Gone, WillRemove, Present
<1>6. QED
  BY <1>1, <1>2, <1>3, <1>4, <1>5 DEF Next

(* If removals do not fail, any number of uninstalls of which one comes to *)
(* the lock after the last install, and none of which is killed, leave     *)
(* nothing behind, whatever installs were killed and whoever holds the     *)
(* lock.                                                                   *)
THEOREM UninstallsRemoveAll ==
    ASSUME ~Faults
    PROVE  Spec => UninstallRemovesAll
<1> DEFINE Begins == /\ \A p \in Installer : Terminal(p)
                     /\ \E u \in Uninstaller : pc[u] = "lock"
           Ends == (/\ \A p \in Process : Terminal(p)
                    /\ Uninstaller \cap dead = {})
                   => Present = {} /\ ~bin
<1>1. Begins => Removing
  BY DEF Removing, WillRemove
<1>2. Removing => Ends
  BY DEF Removing, Terminal, Gone, WillRemove, Process
<1>3. TypeOK /\ Removing /\ [Next]_vars => Removing'
  BY RemovingStep
<1>4. Spec => []TypeOK
  BY TypeCorrect, PTL
<1>5. Spec => [](Begins => []Ends)
  BY <1>1, <1>2, <1>3, <1>4, PTL DEF Spec
<1>6. QED
  BY <1>5 DEF UninstallRemovesAll
=============================================================================
