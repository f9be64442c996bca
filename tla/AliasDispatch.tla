--------------------------- MODULE AliasDispatch ---------------------------
(***************************************************************************)
(* A package manager command typed by the user while package-alias         *)
(* commands run: the shell finds bin/<tool> on the PATH, the jf executable *)
(* behind it finds out that it is an alias (DispatchIfAlias in main), and  *)
(* runs either `jf <tool>` or the native tool, both of which look the tool *)
(* up on the PATH again.  Reads the directory PackageAlias changes; takes  *)
(* no lock.                                                                *)
(***************************************************************************)
EXTENDS PackageAlias

CONSTANTS
    Dispatcher,     \* the typed commands
    Paths,          \* the PATHs they may run under
    ExecKeepsPath,  \* os.Executable is the alias (macOS, Windows), not its target
    MaxHops         \* bound on the count of runs of the alias by itself

\* Directories on a PATH: the alias directory by its own name, the alias
\* directory by a name that differs after filepath.Clean (a symbolic link to
\* it), the native tools, and others.
Dir == {"alias", "otherName", "native", "other"}

\* The entries of a PATH by their positions; some of those may have been removed.
IsPath(dirs) == DOMAIN dirs \subseteq Nat /\ dirs \in [DOMAIN dirs -> Dir]

ASSUME DispatchAssumption ==
    /\ Dispatcher \cap Process = {}
    /\ \A dirs \in Paths : IsPath(dirs)
    /\ ExecKeepsPath \in BOOLEAN /\ (Windows => ExecKeepsPath)
    /\ MaxHops \in Nat \ {0}

VARIABLES
    at,         \* at[d]: the next step of d
    ghost,      \* ghost[d]: what JFROG_CLI_GHOST_FROG asks for
    path,       \* path[d][i]: the directory that is entry i of PATH
    tool,       \* tool[d]: the package manager
    from,       \* from[d]: the PATH directory the alias was started from
    bare,       \* bare[d]: argv[0] is the name alone, not a path
    image,      \* image[d]: the executable that runs as the alias
    verdict,    \* verdict[d]: what the command is run as
    hops,       \* hops[d]: how often the alias ran itself
    said        \* said[d]: history only, see Remember

asked == <<ghost, tool>>
started == <<from, bare, image>>
dvars == <<at, asked, path, started, verdict, hops>>
allVars == <<vars, dvars, said>>

Holds(dir, t) == \/ dir = "native"
                 \/ dir \in {"alias", "otherName"} /\ alias[t] # None

\* exec.LookPath: the first directory that has the tool, "none" if there is none.
LookPath(dirs, t) ==
    LET First(i) == /\ Holds(dirs[i], t)
                    /\ \A j \in DOMAIN dirs : j < i => ~Holds(dirs[j], t)
    IN  IF \E i \in DOMAIN dirs : First(i)
        THEN dirs[CHOOSE i \in DOMAIN dirs : First(i)] ELSE "none"

\* Mutant of FilterOutDirFromPATH: only the first occurrence is removed.
MutantFilterFirst(dirs) ==
    LET keep == {i \in DOMAIN dirs :
                    dirs[i] # "alias" \/ \E j \in DOMAIN dirs : j < i /\ dirs[j] = "alias"}
    IN  [i \in keep |-> dirs[i]]

\* The other entries stay in their order.
FilterOutDirFromPATH(dirs) ==
    [i \in {j \in DOMAIN dirs : dirs[j] # "alias"} |-> dirs[i]]

DInit ==
    /\ at = [d \in Dispatcher |-> "lookup"]
    /\ ghost \in [Dispatcher -> {"off", "on", "audit"}]
    /\ path \in [Dispatcher -> Paths]
    /\ tool \in [Dispatcher -> Tool]
    /\ from = [d \in Dispatcher |-> "other"]
    /\ bare = [d \in Dispatcher |-> FALSE]
    /\ image = [d \in Dispatcher |-> None]
    /\ verdict = [d \in Dispatcher |-> "none"]
    /\ hops = [d \in Dispatcher |-> 0]
    /\ said = [d \in Dispatcher |-> {}]

Stop(d, v) ==
    /\ at' = [at EXCEPT ![d] = "stopped"]
    /\ verdict' = [verdict EXCEPT ![d] = v]

Proceed(d, step) == at' = [at EXCEPT ![d] = step] /\ UNCHANGED verdict

\* Mutant of RunFromPATH: the error of exec.LookPath is ignored.
MutantRunFromPATH(d) ==
    /\ at[d] \in {"lookup", "exec", "child"}
    /\ image' = [image EXCEPT ![d] = alias[tool[d]]]
    /\ Proceed(d, "detect")
    /\ UNCHANGED <<asked, path, from, bare, hops>>

\* Start what the PATH names, from the shell ("lookup"), from execRealTool
\* ("exec") or from the `jf <tool>` command ("child").  execRealTool passes the
\* name alone as argv[0].
RunFromPATH(d) ==
    /\ at[d] \in {"lookup", "exec", "child"}
    /\ LET found == LookPath(path[d], tool[d]) IN
         \/ /\ found = "native"
            /\ Stop(d, IF at[d] = "child" THEN "jf" ELSE "native")
            /\ UNCHANGED <<started, hops>>
         \/ /\ found = "none" \/ (found # "native" /\ alias[tool[d]] = Partial)
            /\ Stop(d, IF at[d] = "child" THEN "jf" ELSE "error")
            /\ UNCHANGED <<started, hops>>
         \/ /\ found \in {"alias", "otherName"} /\ alias[tool[d]] # Partial
            /\ image' = [image EXCEPT ![d] = alias[tool[d]]]
            /\ from' = [from EXCEPT ![d] = found]
            /\ \E name \in BOOLEAN :
                  /\ at[d] = "exec" => name
                  /\ bare' = [bare EXCEPT ![d] = name]
            /\ hops' = [hops EXCEPT ![d] =
                          IF at[d] = "lookup" \/ @ = MaxHops THEN @ ELSE @ + 1]
            /\ Proceed(d, "detect")
    /\ UNCHANGED <<asked, path>>

\* IsRunningAsAlias: the executable or argv[0] lies, by name, in the alias
\* directory, or the link of that name points, now, to the executable that runs.
IsRunningAsAlias(d) ==
    \/ from[d] = "alias" /\ (ExecKeepsPath \/ ~bare[d])
    \/ bare[d] /\ ~Windows /\ alias[tool[d]] = image[d]

Detect(d) ==
    /\ at[d] = "detect"
    /\ \/ /\ ghost[d] = "off" \/ ~IsRunningAsAlias(d)
          /\ Stop(d, "plain")
       \/ /\ ghost[d] # "off" /\ IsRunningAsAlias(d)
          /\ Proceed(d, "filter")
    /\ UNCHANGED <<asked, path, started, hops>>

\* DisableAliasesForThisProcess; in audit mode the native tool is next.
Filter(d) ==
    /\ at[d] = "filter"
    /\ path' = [path EXCEPT ![d] = FilterOutDirFromPATH(@)]
    /\ Proceed(d, IF ghost[d] = "audit" THEN "exec" ELSE "enabled")
    /\ UNCHANGED <<asked, started, hops>>

\* Mutant of ReadEnabled: a file that does not parse is read again.
MutantReadEnabled(d) ==
    /\ at[d] = "enabled"
    /\ config # Corrupt
    /\ Proceed(d, IF loadConfig(config).enabled THEN "mode" ELSE "exec")
    /\ UNCHANGED <<asked, path, started, hops>>

\* getEnabledState: a file that does not parse counts as disabled.
getEnabledState == config # Corrupt /\ loadConfig(config).enabled

\* isEnabled: the first read of config.yaml.
ReadEnabled(d) ==
    /\ at[d] = "enabled"
    /\ Proceed(d, IF getEnabledState THEN "mode" ELSE "exec")
    /\ UNCHANGED <<asked, path, started, hops>>

\* getToolMode: the second read.
getToolMode(t) ==
    IF config = Corrupt THEN "jf" ELSE getModeForTool(loadConfig(config), t)

ReadMode(d) ==
    /\ at[d] = "mode"
    /\ Proceed(d, IF getToolMode(tool[d]) = "jf" THEN "child" ELSE "exec")
    /\ UNCHANGED <<asked, path, started, hops>>

-----------------------------------------------------------------------------
(* A history variable for VerdictWasConfigured: no action reads it.        *)

\* What config.yaml, as it is now, says that a command of tool t is run as.
Says(t) == IF getEnabledState /\ getToolMode(t) = "jf" THEN "jf" ELSE "native"

\* From where d may read the file for the first time to its last read of it.
Reading(d) == at[d] \in {"enabled", "mode"}

\* said[d] is all that the file says in that time; a new round of d starts anew.
Remember ==
    said' = [d \in Dispatcher |->
               IF Reading(d)'
               THEN (IF Reading(d) THEN said[d] ELSE {}) \cup {Says(tool[d])'}
               ELSE said[d]]

-----------------------------------------------------------------------------
DispatchIfAlias(d) ==
    /\ \/ RunFromPATH(d) \/ Detect(d) \/ Filter(d)
       \/ ReadEnabled(d) \/ ReadMode(d)
    /\ UNCHANGED vars
    /\ Remember

DNext ==
    \/ Next /\ UNCHANGED dvars /\ Remember
    \/ \E d \in Dispatcher : DispatchIfAlias(d)

DSpec == Init /\ DInit /\ [][DNext]_allVars

DFairSpec == DSpec /\ \A d \in Dispatcher : WF_allVars(DispatchIfAlias(d))

-----------------------------------------------------------------------------
DTypeOK ==
    /\ at \in [Dispatcher -> {"lookup", "detect", "filter", "enabled", "mode",
                              "exec", "child", "stopped"}]
    /\ ghost \in [Dispatcher -> {"off", "on", "audit"}]
    /\ DOMAIN path = Dispatcher /\ \A d \in Dispatcher : IsPath(path[d])
    /\ tool \in [Dispatcher -> Tool]
    /\ from \in [Dispatcher -> Dir]
    /\ bare \in [Dispatcher -> BOOLEAN]
    /\ image \in [Dispatcher -> Binary \cup {None}]
    /\ \A d \in Dispatcher : at[d] \notin {"lookup", "stopped"} => image[d] \in Binary
    /\ verdict \in [Dispatcher -> {"none", "plain", "jf", "native", "error"}]
    /\ hops \in [Dispatcher -> 0..MaxHops]
    /\ said \in [Dispatcher -> SUBSET {"jf", "native"}]

\* The alias directory is on the PATH under another name, which filtering the
\* PATH by name does not remove.
Respelled(d) == \E i \in DOMAIN path[d] : path[d][i] = "otherName"

(* DisableAliasesForThisProcess: on a PATH that lists the alias directory  *)
(* by its own name only, in any position and any number of times, a        *)
(* command started through an alias never starts an alias again, neither   *)
(* as the native tool nor as the child of `jf <tool>`.                     *)
NoSelfExec == \A d \in Dispatcher : hops[d] = 0 \/ Respelled(d)

(* The file is read twice without the lock, for enabled and for the mode,  *)
(* while installs and uninstalls rewrite and remove it.  Still a command   *)
(* is run as one configuration said that was in the file at a time between *)
(* those reads: it never is intercepted, or let through to the native      *)
(* tool, on halves of two configurations neither of which says so.  (In    *)
(* audit mode the native tool is run whatever the file says, and a command *)
(* the shell found in another directory never reads it.)                   *)
VerdictWasConfigured ==
    \A d \in Dispatcher :
        /\ at[d] = "child" \/ verdict[d] = "jf" => "jf" \in said[d]
        /\ at[d] = "exec" /\ ghost[d] = "on" => "native" \in said[d]
        /\ verdict[d] = "native" /\ said[d] # {} => "native" \in said[d]

(* The command the user typed is run, or refused, in the end; under a PATH *)
(* with another name of the alias directory it may run itself for ever.    *)
EveryDispatchEnds ==
    \A d \in Dispatcher : <>(at[d] = "stopped" \/ Respelled(d))
=============================================================================
