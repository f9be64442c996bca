------------------------- MODULE AliasDispatch_proofs -------------------------
(***************************************************************************)
(* Theorems about AliasDispatch, for all PATHs, typed commands, and any    *)
(* number of installs and uninstalls beside them.                          *)
(*                                                                         *)
(* That an alias does not run itself rests on the PATH alone, not on what  *)
(* other commands do with the alias directory: once the alias directory is *)
(* filtered out, only another name of it can lead there (Filtered).        *)
(***************************************************************************)
EXTENDS AliasDispatch, PackageAlias_proofs

(* The lookup names the directory of an entry that has the tool.           *)
LEMMA LookPathFinds ==
    ASSUME NEW dirs, NEW t, LookPath(dirs, t) # "none"
    PROVE  \E i \in DOMAIN dirs : /\ LookPath(dirs, t) = dirs[i]
                                  /\ Holds(dirs[i], t)
  <1> DEFINE First(i) == /\ Holds(dirs[i], t)
                         /\ \A j \in DOMAIN dirs : j < i => ~Holds(dirs[j], t)
  <1>1. PICK k \in DOMAIN dirs : First(k)
    BY DEF LookPath
  <1>2. LET c == CHOOSE i \in DOMAIN dirs : First(i)
        IN  c \in DOMAIN dirs /\ First(c)
    BY <1>1
  <1>3. LookPath(dirs, t) = dirs[CHOOSE i \in DOMAIN dirs : First(i)]
    BY <1>1 DEF LookPath
  <1> QED
    BY <1>2, <1>3

(* Filtering a PATH leaves a PATH without the alias directory, and with    *)
(* its other names.                                                        *)
LEMMA FilterRemoves ==
    ASSUME NEW dirs, IsPath(dirs)
    PROVE  /\ IsPath(FilterOutDirFromPATH(dirs))
           /\ \A i \in DOMAIN FilterOutDirFromPATH(dirs) :
                 FilterOutDirFromPATH(dirs)[i] # "alias"
           /\ (\E i \in DOMAIN dirs : dirs[i] = "otherName") =>
                 \E i \in DOMAIN FilterOutDirFromPATH(dirs) :
                    FilterOutDirFromPATH(dirs)[i] = "otherName"
  BY DEF IsPath, FilterOutDirFromPATH

-----------------------------------------------------------------------------
(* Types *)

LEMMA RememberType ==
    ASSUME DTypeOK, Remember
    PROVE  said' \in [Dispatcher -> SUBSET {"jf", "native"}]
  <1>1. \A t : Says(t)' \in {"jf", "native"}
    BY DEF Says
  <1> QED
    BY <1>1 DEF DTypeOK, Remember

LEMMA DispatchTypes ==
    ASSUME TypeOK, DTypeOK, NEW d \in Dispatcher, DispatchIfAlias(d)
    PROVE  DTypeOK'
  <1>0. said' \in [Dispatcher -> SUBSET {"jf", "native"}]
    BY RememberType DEF DispatchIfAlias
  <1>1. CASE RunFromPATH(d)
    <2> DEFINE found == LookPath(path[d], tool[d])
    <2>1. CASE /\ \E v \in {"jf", "native", "error"} : Stop(d, v)
               /\ UNCHANGED <<started, hops>>
      <3>1. UNCHANGED <<ghost, tool, path, from, bare, image, hops>>
        BY <1>1, <2>1 DEF RunFromPATH, asked, started
      <3> QED
        BY <1>0, <2>1, <3>1 DEF Stop, DTypeOK
    <2>2. CASE /\ found \in {"alias", "otherName"} /\ alias[tool[d]] # Partial
               /\ image' = [image EXCEPT ![d] = alias[tool[d]]]
               /\ from' = [from EXCEPT ![d] = found]
               /\ \E name \in BOOLEAN : bare' = [bare EXCEPT ![d] = name]
               /\ hops' = [hops EXCEPT ![d] =
                             IF at[d] = "lookup" \/ @ = MaxHops THEN @ ELSE @ + 1]
               /\ Proceed(d, "detect")
      <3>1. tool[d] \in Tool
        BY DEF DTypeOK
      <3>2. alias[tool[d]] # None
        BY <2>2, LookPathFinds DEF Holds
      <3>3. alias[tool[d]] \in Binary
        BY <2>2, <3>1, <3>2 DEF TypeOK
      <3>4. hops' \in [Dispatcher -> 0..MaxHops]
        BY <2>2, DispatchAssumption DEF DTypeOK
      <3>5. /\ image' \in [Dispatcher -> Binary \cup {None}]
            /\ image'[d] \in Binary
            /\ \A e \in Dispatcher \ {d} : image'[e] = image[e]
        BY <2>2, <3>3 DEF DTypeOK
      <3>6. /\ at' \in [Dispatcher -> {"lookup", "detect", "filter", "enabled",
                                       "mode", "exec", "child", "stopped"}]
            /\ \A e \in Dispatcher \ {d} : at'[e] = at[e]
            /\ UNCHANGED verdict
        BY <2>2 DEF DTypeOK, Proceed
      <3>7. from' \in [Dispatcher -> Dir] /\ bare' \in [Dispatcher -> BOOLEAN]
        BY <2>2 DEF DTypeOK, Dir
      <3>8. UNCHANGED <<ghost, tool, path>>
        BY <1>1 DEF RunFromPATH, asked
      <3> QED
        BY <1>0, <3>4, <3>5, <3>6, <3>7, <3>8 DEF DTypeOK
    <2> QED
      BY <1>1, <2>1, <2>2 DEF RunFromPATH
  <1>2. CASE Detect(d)
    BY <1>0, <1>2 DEF Detect, Stop, Proceed, DTypeOK, asked, started
  <1>3. CASE Filter(d)
    <2>1. /\ DOMAIN path' = Dispatcher
          /\ \A e \in Dispatcher : IsPath(path'[e])
      <3>1. IsPath(path[d]) /\ DOMAIN path = Dispatcher
        BY DEF DTypeOK
      <3>2. path' = [path EXCEPT ![d] = FilterOutDirFromPATH(path[d])]
        BY <1>3 DEF Filter
      <3> QED
        BY <3>1, <3>2, FilterRemoves DEF DTypeOK
    <2> QED
      BY <1>0, <1>3, <2>1 DEF Filter, Proceed, DTypeOK, asked, started
  <1>4. CASE ReadEnabled(d) \/ ReadMode(d)
    BY <1>0, <1>4 DEF ReadEnabled, ReadMode, Proceed, DTypeOK, asked, started
  <1> QED
    BY <1>1, <1>2, <1>3, <1>4 DEF DispatchIfAlias

(* What holds of package-alias commands alone holds beside typed commands. *)
LEMMA CommandsBeside == DSpec => Spec
  <1>1. [DNext]_allVars => [Next]_vars
    BY DEF DNext, DispatchIfAlias, allVars
  <1> QED
    BY <1>1, PTL DEF DSpec, Spec

LEMMA DispatchStepTypes ==
    TypeOK /\ DTypeOK /\ [DNext]_allVars => DTypeOK'
  <1> SUFFICES ASSUME TypeOK, DTypeOK, [DNext]_allVars PROVE DTypeOK'
    OBVIOUS
  <1>1. CASE UNCHANGED dvars /\ (Remember \/ UNCHANGED said)
    <2>1. said' \in [Dispatcher -> SUBSET {"jf", "native"}]
      BY <1>1, RememberType DEF DTypeOK
    <2> QED
      BY <1>1, <2>1 DEF DTypeOK, dvars, asked, started
  <1>2. CASE \E d \in Dispatcher : DispatchIfAlias(d)
    BY <1>2, DispatchTypes
  <1> QED
    BY <1>1, <1>2 DEF DNext, allVars

(* Typed commands keep their types beside any number of installs and       *)
(* uninstalls; what runs as an alias is an executable, also when the link  *)
(* is replaced or removed while it starts.                                 *)
THEOREM DispatchTypesHold == DSpec => []DTypeOK
  <1>1. DInit => DTypeOK
    BY DispatchAssumption DEF DInit, DTypeOK, Dir
  <1>2. DSpec => []TypeOK
    BY CommandsBeside, TypeCorrect, PTL
  <1> QED
    BY <1>1, <1>2, DispatchStepTypes, PTL DEF DSpec

-----------------------------------------------------------------------------
(* No alias runs itself *)

\* From here on the alias directory is not on the PATH by its own name.
Filtered ==
    \A d \in Dispatcher :
        at[d] \in {"enabled", "mode", "exec", "child"} =>
            \A i \in DOMAIN path[d] : path[d][i] # "alias"

NeverItself == DTypeOK /\ Filtered /\ NoSelfExec

LEMMA NeverItselfStep ==
    ASSUME NeverItself, NEW d \in Dispatcher, DispatchIfAlias(d)
    PROVE  Filtered' /\ NoSelfExec'
  <1>1. CASE RunFromPATH(d)
    <2>1. Filtered'
      BY <1>1 DEF NeverItself, DTypeOK, Filtered, RunFromPATH, Stop, Proceed
    <2>2. CASE UNCHANGED hops \/ at[d] = "lookup"
      <3>1. UNCHANGED <<hops, path>>
        BY <1>1, <2>2 DEF RunFromPATH, NeverItself, DTypeOK
      <3> QED
        BY <2>1, <3>1 DEF NeverItself, NoSelfExec, Respelled
    <2>3. CASE /\ LookPath(path[d], tool[d]) \in {"alias", "otherName"}
               /\ at[d] # "lookup"
      <3>1. at[d] \in {"exec", "child"} /\ UNCHANGED path
        BY <1>1, <2>3 DEF RunFromPATH
      <3>2. Respelled(d)
        BY <2>3, <3>1, LookPathFinds DEF NeverItself, Filtered, Respelled
      <3>3. \A e \in Dispatcher \ {d} : hops'[e] = hops[e]
        BY <1>1 DEF RunFromPATH, started, NeverItself, DTypeOK
      <3> QED
        BY <2>1, <3>1, <3>2, <3>3 DEF NeverItself, NoSelfExec, Respelled
    <2> QED
      BY <1>1, <2>2, <2>3 DEF RunFromPATH
  <1>2. CASE Detect(d)
    BY <1>2 DEF Detect, Stop, Proceed, NeverItself, DTypeOK, Filtered,
                NoSelfExec, Respelled
  <1>3. CASE Filter(d)
    <2>1. /\ \A e \in Dispatcher \ {d} : path'[e] = path[e] /\ at'[e] = at[e]
          /\ path'[d] = FilterOutDirFromPATH(path[d])
          /\ IsPath(path[d])
          /\ UNCHANGED hops
      BY <1>3 DEF Filter, Proceed, NeverItself, DTypeOK
    <2>2. Filtered'
      BY <2>1, FilterRemoves DEF NeverItself, Filtered
    <2>3. NoSelfExec'
      BY <2>1, FilterRemoves DEF NeverItself, NoSelfExec, Respelled
    <2> QED
      BY <2>2, <2>3
  <1>4. CASE ReadEnabled(d) \/ ReadMode(d)
    BY <1>4 DEF ReadEnabled, ReadMode, Proceed, NeverItself, DTypeOK, Filtered,
                NoSelfExec, Respelled
  <1> QED
    BY <1>1, <1>2, <1>3, <1>4 DEF DispatchIfAlias

(* On a PATH without another name of the alias directory, a command that   *)
(* was started through an alias starts no alias again, whatever installs   *)
(* and uninstalls do meanwhile.                                            *)
THEOREM NoAliasRunsItself == DSpec => []NoSelfExec
  <1>1. DInit => Filtered /\ NoSelfExec
    BY DEF DInit, Filtered, NoSelfExec
  <1>2. ASSUME DTypeOK, Filtered, NoSelfExec, [DNext]_allVars
        PROVE  Filtered' /\ NoSelfExec'
    <2>1. CASE UNCHANGED dvars
      BY <1>2, <2>1 DEF Filtered, NoSelfExec, Respelled, dvars, asked
    <2>2. CASE \E d \in Dispatcher : DispatchIfAlias(d)
      BY <1>2, <2>2, NeverItselfStep DEF NeverItself
    <2> QED
      BY <1>2, <2>1, <2>2 DEF DNext, allVars
  <1> QED
    BY <1>1, <1>2, DispatchTypesHold, PTL DEF DSpec

-----------------------------------------------------------------------------
(* What a command runs as *)

(* Once enabled, the configuration stays enabled: an install enables it,   *)
(* and where an uninstall removed the file the default is enabled.         *)
LEMMA EnabledStays ==
    ASSUME TypeOK, LoadedOK, [Next]_vars, getEnabledState
    PROVE  getEnabledState'
  <1>1. CASE config' = config
    BY <1>1 DEF getEnabledState
  <1>2. CASE config' = NoFile
    <2>1. loadConfig(NoFile).enabled
      BY DEF loadConfig, newDefaultConfig
    <2> QED
      BY <1>2, <2>1, FileAssumption DEF getEnabledState
  <1>3. ASSUME NEW p \in Installer, Runs(p, "rename"),
               config' = Merge(loaded[p], arg[p], jfHash[p])
        PROVE  getEnabledState'
    <2>1. loaded[p] \in Config
      BY <1>3 DEF LoadedOK, Runs
    <2>2. arg[p] \in SUBSET Tool /\ jfHash[p] \in Binary \cup {NoHash}
      BY DEF TypeOK
    <2>3. config' \in Config /\ config' \notin {NoFile, Corrupt}
      BY <1>3, <2>1, <2>2, MergeIsConfig, FileAssumption
    <2>4. config'.enabled
      BY <1>3 DEF Merge
    <2> QED
      BY <2>3, <2>4 DEF getEnabledState, loadConfig
  <1>4. ASSUME NEW p \in Installer, Install(p), ~Rename(p)
        PROVE  config' = config
    BY <1>4
    DEF Install, MakeHome, MakeBin, Acquire, GiveUpLock, DropAlias, UnlinkOld, Link,
        OpenCopy, FillCopy, Load, WriteTemp, Release, disk
  <1>5. ASSUME NEW p \in Uninstaller, Uninstall(p)
        PROVE  config' \in {config, NoFile}
    BY <1>5
    DEF Uninstall, StatBin, Acquire, GiveUpLock, UnlinkAlias, Release, ListHome,
        WipeEntry, RemoveDirs, disk
  <1>6. CASE (\E p \in Process : Kill(p)) \/ RemoveStaleLock \/ AllStopped \/ UNCHANGED vars
    BY <1>1, <1>6 DEF Kill, RemoveStaleLock, AllStopped, vars, disk
  <1>7. ASSUME NEW p \in Installer, Rename(p)
        PROVE  config' = config \/ getEnabledState'
    BY <1>3, <1>7 DEF Rename
  <1> QED
    BY <1>1, <1>2, <1>4, <1>5, <1>6, <1>7 DEF Next

\* What the file says to a dispatch that reads it is remembered, and what made
\* it go on to the second read still holds.  Only a command that JFROG_CLI_GHOST_FROG
\* turns on reads, and not before it is started; no verdict before the end.
Justified ==
    \A d \in Dispatcher :
        /\ Reading(d) => Says(tool[d]) \in said[d]
        /\ at[d] = "mode" => getEnabledState
        /\ at[d] = "filter" => ghost[d] # "off"
        /\ Reading(d) => ghost[d] = "on"
        /\ at[d] = "lookup" \/ ghost[d] # "on" => said[d] = {}
        /\ at[d] # "stopped" => verdict[d] = "none"

(* While a dispatch waits, what the file says is remembered.               *)
LEMMA BesideCommands ==
    ASSUME TypeOK, LoadedOK, DTypeOK, Justified, VerdictWasConfigured,
           [Next]_vars, UNCHANGED dvars, Remember \/ UNCHANGED <<vars, said>>
    PROVE  Justified' /\ VerdictWasConfigured'
  <1>1. UNCHANGED <<at, ghost, tool, verdict>>
    BY DEF dvars, asked
  <1>2. ASSUME NEW d \in Dispatcher
        PROVE  /\ Reading(d)' <=> Reading(d)
               /\ Reading(d) => Says(tool[d])' \in said'[d] /\ said[d] \subseteq said'[d]
               /\ ~Reading(d) => said'[d] = said[d]
    <2>1. Reading(d)' <=> Reading(d)
      BY <1>1 DEF Reading
    <2>2. CASE Remember
      BY <2>1, <2>2 DEF Remember
    <2>3. CASE UNCHANGED <<vars, said>>
      BY <1>1, <2>1, <2>3
      DEF Justified, Says, getEnabledState, getToolMode, vars, disk
    <2> QED
      BY <2>1, <2>2, <2>3
  <1>3. Justified'
    <2>1. ASSUME NEW d \in Dispatcher, at[d] = "mode" PROVE getEnabledState'
      BY <2>1, EnabledStays DEF Justified
    <2> QED
      BY <1>1, <1>2, <2>1 DEF Justified
  <1>4. VerdictWasConfigured'
    <2>1. ASSUME NEW d \in Dispatcher, Reading(d)
          PROVE  at[d] \notin {"child", "exec"} /\ verdict[d] = "none"
      BY <2>1 DEF Reading, Justified
    <2> QED
      BY <1>1, <1>2, <2>1 DEF VerdictWasConfigured
  <1> QED
    BY <1>3, <1>4

LEMMA DispatchJustified ==
    ASSUME DTypeOK, Justified, VerdictWasConfigured,
           NEW d \in Dispatcher, DispatchIfAlias(d)
    PROVE  Justified' /\ VerdictWasConfigured'
  <1> USE DEF DTypeOK
  <1>1. /\ getEnabledState' = getEnabledState
        /\ \A t : getToolMode(t)' = getToolMode(t) /\ Says(t)' = Says(t)
    BY DEF DispatchIfAlias, vars, disk, getEnabledState, getToolMode, Says
  <1>2. UNCHANGED <<ghost, tool>>
    BY DEF DispatchIfAlias, RunFromPATH, Detect, Filter, ReadEnabled, ReadMode, asked
  <1>3. \A e \in Dispatcher \ {d} : at'[e] = at[e] /\ verdict'[e] = verdict[e]
    BY DEF DispatchIfAlias, RunFromPATH, Detect, Filter, ReadEnabled, ReadMode,
           Stop, Proceed
  <1>4. ASSUME NEW e \in Dispatcher
        PROVE  said'[e] = IF Reading(e)'
                          THEN (IF Reading(e) THEN said[e] ELSE {}) \cup {Says(tool[e])}
                          ELSE said[e]
    <2>1. Says(tool[e])' = Says(tool[e])
      BY <1>1, <1>2 DEF Says, getToolMode, DispatchIfAlias, vars, disk
    <2> QED
      BY <2>1 DEF DispatchIfAlias, Remember
  <1>5. ASSUME NEW e \in Dispatcher \ {d}
        PROVE  (Reading(e)' <=> Reading(e)) /\ said'[e] = said[e]
    <2>1. Reading(e)' <=> Reading(e)
      BY <1>3 DEF Reading
    <2>2. CASE Reading(e)
      <3>1. said'[e] = said[e] \cup {Says(tool[e])}
        BY <1>4, <2>1, <2>2
      <3>2. Says(tool[e]) \in said[e]
        BY <2>2 DEF Justified
      <3> QED
        BY <2>1, <3>1, <3>2
    <2>3. CASE ~Reading(e)
      BY <1>4, <2>1, <2>3
    <2> QED
      BY <2>1, <2>2, <2>3
  <1>6. Reading(d)' => Says(tool[d])' \in said'[d]
    BY <1>1, <1>2, <1>4
  <1>7. said'[d] = said[d] \/ Reading(d)'
    BY <1>4
  <1>8. CASE RunFromPATH(d)
    <2>1. \/ at'[d] = "detect" /\ verdict'[d] = verdict[d]
          \/ at'[d] = "stopped" /\ verdict'[d] = "error"
          \/ at'[d] = "stopped" /\ verdict'[d] = "native" /\ at[d] # "child"
          \/ at'[d] = "stopped" /\ verdict'[d] = "jf" /\ at[d] = "child"
      BY <1>8 DEF RunFromPATH, Stop, Proceed
    <2>2. at[d] \in {"lookup", "exec", "child"} /\ said'[d] = said[d] /\ ~Reading(d)'
      BY <1>7, <1>8, <2>1 DEF RunFromPATH, Reading
    <2>3. at[d] # "child" => said[d] = {} \/ "native" \in said[d]
      BY <2>2 DEF Justified, VerdictWasConfigured
    <2> QED
      BY <1>1, <1>2, <1>3, <1>5, <2>1, <2>2, <2>3
      DEF Justified, VerdictWasConfigured
  <1>9. CASE Detect(d) \/ Filter(d)
    <2>1. \/ at'[d] = "stopped" /\ verdict'[d] = "plain"
          \/ at'[d] = "filter" /\ verdict'[d] = verdict[d] /\ ghost[d] # "off"
          \/ at'[d] = "exec" /\ verdict'[d] = verdict[d] /\ ghost[d] = "audit"
          \/ at'[d] = "enabled" /\ verdict'[d] = verdict[d] /\ ghost[d] = "on"
      BY <1>9 DEF Detect, Filter, Stop, Proceed, Justified
    <2>2. at[d] \in {"detect", "filter"}
      BY <1>9 DEF Detect, Filter
    <2>3. at'[d] # "enabled" => said'[d] = said[d] /\ ~Reading(d)'
      BY <1>7, <2>1 DEF Reading
    <2> QED
      BY <1>1, <1>2, <1>3, <1>5, <1>6, <2>1, <2>2, <2>3
      DEF Justified, VerdictWasConfigured
  <1>10. CASE ReadEnabled(d) \/ ReadMode(d)
    <2>1. Reading(d) /\ Says(tool[d]) \in said[d] /\ ghost[d] = "on"
      BY <1>10 DEF ReadEnabled, ReadMode, Reading, Justified
    <2>2. /\ verdict'[d] = verdict[d] /\ verdict[d] = "none"
          /\ \/ at'[d] = "mode" /\ getEnabledState
             \/ at'[d] = "exec" /\ Says(tool[d]) = "native"
             \/ at'[d] = "child" /\ Says(tool[d]) = "jf"
      BY <1>10 DEF ReadEnabled, ReadMode, Proceed, Says, Justified
    <2>3. at'[d] # "mode" => said'[d] = said[d] /\ ~Reading(d)'
      BY <1>7, <2>2 DEF Reading
    <2> QED
      BY <1>1, <1>2, <1>3, <1>5, <1>6, <2>1, <2>2, <2>3
      DEF Justified, VerdictWasConfigured
  <1> QED
    BY <1>8, <1>9, <1>10 DEF DispatchIfAlias

(* Every typed command is run as one configuration said that was in the    *)
(* file while it read it, although it reads it twice without the lock,     *)
(* beside any number of installs and uninstalls, with faults and kills.    *)
THEOREM VerdictsWereConfigured == DSpec => []VerdictWasConfigured
  <1>1. DInit => Justified /\ VerdictWasConfigured
    BY DEF DInit, Justified, Reading, VerdictWasConfigured
  <1>2. ASSUME TypeOK, LoadedOK, DTypeOK, Justified, VerdictWasConfigured,
               [DNext]_allVars
        PROVE  Justified' /\ VerdictWasConfigured'
    <2>1. CASE Next /\ UNCHANGED dvars /\ Remember
      BY <1>2, <2>1, BesideCommands
    <2>2. CASE UNCHANGED allVars
      BY <1>2, <2>2, BesideCommands DEF allVars
    <2>3. CASE \E d \in Dispatcher : DispatchIfAlias(d)
      BY <1>2, <2>3, DispatchJustified
    <2> QED
      BY <1>2, <2>1, <2>2, <2>3 DEF DNext
  <1>3. DSpec => [](TypeOK /\ LoadedOK)
    BY CommandsBeside, TypeCorrect, PTL
  <1> QED
    BY <1>1, <1>2, <1>3, DispatchTypesHold, PTL DEF DSpec
=============================================================================
