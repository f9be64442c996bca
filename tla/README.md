# TLA+ models of JFrog CLI

JFrog CLI (`src/`) is one Go executable, `jf`. Most of its commands translate a
command line into a call of another module (jfrog-cli-artifactory,
jfrog-client-go, ...) that does the work. The repository itself has to get two
things right. One is state on disk that several `jf` processes share without a
server: the package-alias directory, agent configuration files, the plugins
directory, the record of the last version check. The other is the command line:
some 150 handlers that each refuse, read, check and hand on what was typed, in
an order of their own. This project models both, the first as processes that
interleave on the shared files, the second as one run of `jf` over the tables of
commands, flags and handlers; it checks the models with TLC on small instances,
and proves the results that matter most with TLAPS for all instances.

## 1. Inventory

| Component | State | Operations | Interacts with | What is hard | What makes it correct |
|---|---|---|---|---|---|
| Package aliases: install, uninstall (`packagealias/install.go`, `uninstall.go`, `config_utils.go`) | the directory `~/.jfrog/package-alias`: `bin/<tool>`, `config.yaml`, `.config.lock`, temporary files | `install`, `uninstall`; `withConfigLock`, `writeBytesAtomic` | every other `jf` process on the machine, the user editing `config.yaml` | processes interleave, are killed, time out; removals and copies fail one by one | installs exclude each other; a successful install has exactly its effect; nothing a user configured is lost; every command stops |
| Package aliases: dispatch (`dispatch.go`, `packagealias.go`) | `PATH`, `os.Args`, environment | `DispatchIfAlias` at the start of `main` | reads the directory above without the lock; runs `jf` or the native tool | the alias may be replaced while it starts; a native tool looked up on a `PATH` that holds the alias | no recursion; the mode the configuration says; the most specific go policy |
| Package aliases: status (`status.go`) | none | prints what it reads | the directory above | - | - |
| MCP registration (`mcp/`) | `mcp.json`, `.claude.json` of an agent, shared with the agent and the user | `install`, `uninstall`, `show` | other `jf` processes, the agent | read-modify-write without a lock, in place | other entries stay |
| Version check and persistence (`utils/cliutils/persistence.go`, `utils.go`) | `persistence.json` | `CheckNewCliVersionAvailable`, `getPersistenceInfo`, `setPersistenceInfo` | GitHub's API, other processes | check then act on a shared file, torn file, a failing query | one query in the interval, the file stays readable |
| Plugins (`plugins/`) | the plugins directory, `~/.jfrog/plugins`, the plugins server | `plugin install`, `uninstall`, `publish`, loading at start | a remote repository | several downloads and checks of which one may fail; publish is check-then-upload | an install that succeeds is whole; a published version is not overwritten; no install or uninstall takes the other plugins' commands away |
| Usage reporting (`utils/usage`, `main.go`) | a channel | a goroutine per command with a time-out | the server | the report races the end of the process | the command's result never waits on the report beyond the time-out |
| API command (`general/api`) | none | one HTTP request, search of the API documents | a server | an exit code that ends the process inside the library; no time-out by default | malformed flags are refused before the request; the run ends |
| Entry point (`main.go`) | the context of a command | dispatch of aliases, of plugins, of commands | everything | words that two commands claim; ends that skip the clean-up | every command of the tables is reached by its name and its alias |
| Flags (`utils/cliutils/commandsflags.go`) | two tables | the flags of each command | the handlers | a handler reads a flag its command lacks, or never reads one it has | declared and read flags agree |
| Parsed commands (`artifactory/`, `config/`, `general/`, `missioncontrol/`, `pipelines/`, `stats/`, half of `buildtools/`) | none | refuse, check, ask, read flags, call a command object | command objects of other modules, the user, `jfrog-cli.conf` | some hundred orders of the same few steps | a refused line has changed nothing; an accepted one was valid and every flag given took part |
| Wrapped package managers (`buildtools/cli.go`, `SkipFlagParsing`) | the line | take the flags of jf out of the line, find the tool's command, run the tool | the package manager, the project's configuration | flags and words in any order, without a parser | the tool gets what the user typed for it |
| Summary (`general/summary`) | files in the summaries directory | `FinalizeCommandSummaries` | commands that wrote them | several sections, one may fail | every section is generated or skipped |
| Build info utilities (`utils/buildinfo`) | build files | dependency collection fall-backs | package managers | partial failure | - |
| `docs/`, `completion/` | none | text | - | - | - |

## 2. Modules

| Module | Kind | Models |
|---|---|---|
| `AliasConfig` | operators | `config.yaml` as a value: defaults, merge by an install, mode of a tool |
| `PackageAlias` | state machine | `package-alias install` and `uninstall` as processes on the alias directory |
| `AliasRegistry` | abstract specification | what parallel installs promise |
| `AliasDispatch` | composition | a typed package manager command over `PackageAlias` |
| `AliasModes` | algorithm | the loop over go policy keys |
| `PluginPublish` | state machine | `plugin publish` as processes on the plugins repository |
| `PluginInstall` | composition | `plugin install` and `uninstall` on one machine, over `PluginPublish` |
| `PluginStart` | composition | runs of `jf` that list, ask and run plugins, over `PluginInstall` |
| `McpFile` | operators | the configuration file of an agent as a value |
| `McpRegistry` | abstract specification | what `mcp install` and `uninstall` promise of that file |
| `McpConfig` | state machine | the two commands as processes on the file, with the agent editing it |
| `VersionCheck` | state machine | the check for a new version as processes on `persistence.json` |
| `CliFlags` | tables | `flagsMap` and `commandFlags` |
| `CliCommands` | tables | the commands of `main.go` and its packages, by namespace, and their look-up |
| `CliHandlers` | tables | the handlers whose flags the library parses, as sequences of steps |
| `CommandRun` | state machine | one run of such a handler |
| `NativeHandlers` | tables | the handlers that get the line as it was typed, as sequences of steps |
| `NativeRun` | state machine | one run of such a handler |
| `JfRun` | composition | one run of `jf`: look-up, handler, usage reporter, end |
| `PackageAlias_proofs`, `AliasDispatch_proofs`, `AliasModes_proofs`, `PluginPublish_proofs`, `PluginInstall_proofs`, `McpConfig_proofs`, `VersionCheck_proofs`, `JfRun_proofs` | proofs | theorems about the state machines |
| `MCPackageAlias`, `MCAliasDispatch`, `MCAliasModes`, `MCPluginPublish`, `MCPluginInstall`, `MCMcpConfig`, `MCVersionCheck`, `MCJfRun` | instances | constants for TLC |

The models of shared files are written the same way. A process is one run of
`jf`, with a program counter (`pc`, `stage`, `step` or `at`) and the local
variables that outlive a step. A step is one system call on a shared file or one
request to a server, with the computation up to the next one; that is what
interleaves when several `jf` processes run. A process that is killed stops
between two steps and leaves what its deferred functions would have removed. A
file is identified with who wrote it: texts, hashes and executables are the name
of the process whose they are.

### Package aliases

`PackageAlias` has the directory (`home`, `bin`, `lock`, `alias`, `config`,
`tmp`) and, for each process, what `InstallCommand.Run` or
`UninstallCommand.Run` holds in local variables.

| Code | Actions |
|---|---|
| `InstallCommand.Run`, up to the lock | `MakeHome`, `MakeBin` (with `parsePackageList` and the hash) |
| `withConfigLock` | `Acquire`, `GiveUpLock` (the deadline, or no directory), `Release` (the deferred removal, whose error is ignored) |
| the loop over `SupportedTools` | `DropAlias`; `UnlinkOld`, `Link` (Unix); `OpenCopy`, `FillCopy` (`copyFile`, Windows) |
| `loadConfig`, the edit, `writeConfig` | `Load`, `WriteTemp`, `Rename`; `AliasConfig!Merge` is the edit |
| `UninstallCommand.Run` | `StatBin`, the lock, `UnlinkAlias`, `ListHome`, `WipeEntry`, `RemoveDirs` (`os.RemoveAll`) |
| the environment | `Kill`; `RemoveStaleLock` (the advice of the time-out message; of a process that was killed or could not remove its lock) |

`AliasDispatch` adds typed commands: `RunFromPATH` is the shell, `execRealTool`
and the child of `jf <tool>`, which look the tool up on the `PATH`; `Detect`,
`Filter`, `ReadEnabled` and `ReadMode` are the rest of `DispatchIfAlias`, with
the two reads of `config.yaml` as two steps. A history variable, `said[d]`,
collects what the file says for the tool of `d` from the time `d` may read it
first to its last read (`Remember`); no action depends on it. `AliasModes` is
`getModeForTool` for go: one step per round of the loop over policy keys.

`AliasRegistry` promises that an install either commits, in one step and against
the configuration of that moment, or is refused and leaves the configuration.
`PackageAlias!RegistrySpec` is the refinement; `outcome` is read off `failed` and
`pc`.

### Plugins

`PluginPublish`: `VerifyUniqueVersion`, `Build` (an architecture, in the order of
`getOrderedArchitectures`, with the version check for the local one),
`UploadResources`, `UploadExec`, then `ListVersion` and `CopyToLatest`
(`copyToLatestDir`; the copy command is external and goes file by file).
`PluginInstall` adds one machine: `ShouldDownload`, `OpenExec` and `FillExec`
(`downloadPluginExec`), `GetResources`, `Unpack`, `Unpacked`, `RemoveZip`
(`downloadPluginsResources`), and `Confirm`, `WipeFile`, `WipeDir`
(`runUninstallCmd`).

`PluginStart` adds runs of `jf` on that machine. Every run does `GetPlugins` before
it looks at what was typed: `ListPlugins`, then an `AskSignature` per plugin (its
executable is run for it; `Answers` or `Skips`), then
`OfferCommands`, which drops all plugins if anything failed, and `RunPlugin`
(`getAction`) if the user typed the plugin's command. One plugin is the one of
`PluginInstall`; the others (`Neighbour`) are there throughout and may fail on
their own. Two history variables say what a run can be held to: `calm[r]`
(nothing was at work from its listing on, in a directory that was not spoilt) and
`spoilt` (two commands overlapped, an install failed or was killed while it
filled the executable in, or a removal was killed, and no undisturbed install has
filled the executable in since).

### MCP registration

`McpConfig`: `CheckAvailability`, `Stat` (an uninstall without a file),
`readConfig` (with what follows in memory, `Parse`), `OpenFile` and `FillFile`
(`os.WriteFile` truncates and then fills), and the agent's `Edit`. What
`json.Unmarshal` makes of the file is modelled: no file and a blank file are an
empty object, `null` is a nil map, numbers are rounded (`Rounded`). An entry is
identified with who made it; what the entries of others and the agent's settings
hold is one value, `rest`. Two history
variables record how orderly a behaviour was: `alone[c]` (nothing overlapped
`c`) and `orderly` (nothing overlapped anything, and nobody left the file
truncated). `McpRegistry` promises one edit per command as long as `orderly`,
and nothing afterwards.

### Version check

`VersionCheck`: `Stat`, `Read`, `Truncate`, `FillUnset`, `FillTime` are
`getPersistenceInfo` and `setPersistenceInfo` as called from
`getLatestCliVersionCheckTime` (`call = "get"`) and
`setCliLatestVersionCheckTime` (`call = "set"`); `Decide` is the comparison of
`shouldCheckLatestCliVersion` between the two calls and `Send` the request to
GitHub. `Tick` is the clock. History variables: `checks` (times of requests
made), `inTurn` (no two runs overlapped), `sound` (the file was initialised, no
write failed and no run was killed).

### The command line

The handlers differ in their order, not in what they are made of. So the tables
hold the order, one row per handler, and two small state machines say what a
step does; a run of either interprets the table of the handler that was picked.

`CliFlags` has every flag with its name and kind and the keys of every command;
`CliCommands` every command as a row (name, alias, key of its flags, action,
whether it skips parsing) under its namespace, `Lookup` of the library, and the
loop that builds flags (`BuildPanics`: a key without a flag).

`CommandRun` starts from any line the library accepts: declared flags, one of
them perhaps malformed, and a number of arguments. `GetOutputFormat` of the core
accepts more formats than the printers here have a case for; a line may ask for
one of those (`unprinted`).

| Step of `CliHandlers` | Code | Action |
|---|---|---|
| guards `any`, `all`, `none`, `nargs`, `words`, `ci` | the condition of the `if` around it | `Skip` if it does not hold |
| `refuse` | `PrintHelpAndReturnError`, `WrongNumberOfArgumentsHandler`, `errorutils.CheckErrorf` about the line | `RefuseLine` |
| `check` | parsing of a value: `GetOutputFormat`, `strconv.Atoi`, ... | `CheckFlag` |
| `lookup` | an argument or a variable of the environment | `LookUp` |
| `server`, `offer`, `load` | `CreateServerDetailsFromFlags`, `CreateServerDetailsWithConfigOffer`, files, the version of the server | `Loads`, `AcceptOffer` |
| `confirm` | `AskYesNo` unless `--quiet` or CI | `Ask` |
| `read`, `report` | a flag is read; `StartReport` | `Reads`, `StartsReport` |
| `exec` | `commands.Exec` or `Run` of a command object, with the flags handed to it | `Act` |
| `try` | the same, when the handler keeps its error for later (`transfer-files`, `transfer-config-merge`) | `Try` |
| `print` | the switch over `--format` that prints the answer, with its `default: unsupported format` | `PrintResponse` |
| `return` | a branch that ends the handler | `ReturnEarly`, else `Finish` |

`NativeRun` has the line as a sequence of tokens (words, flags of jf with their
value as the next token or joined by `=`, flags of the tool, `--help`). The
code cuts the line down step by step and never adds to it, so what is left is
the set of positions `args`, in their order; of a flag that is given twice the
code takes the first, and the lines have a flag of jf at most once
(`FlagsComeOnce`). There is one action per helper that changes what is left:
`TakeValues` (`FindFlag` and `RemoveFlagFromCommand`; a flag without its value
is an error), `TakeSwitches`, `TakeLeniently` (the extractors written by hand
for some tools), `SplitCommand` and `NameCommand` (`getCommandName`),
`TakeHead` (`filteredArgs[0]`), `FindImage` (docker), `DropWord`, and
`ShowsHelp`, `CountArgs`, `FindConfig`,
`LoadsServer`, `NeedOne`, `NeedScan`, `RefuseCommand`, `RunTool`.

`JfRun` puts them together: `TypeCommand` (a word under some namespace) or
`TypeAlias` (what `runJFMode` makes of the name of a package manager), then the
handler (`RunHandler`, `RunNative`), beside it the goroutine of
`utils/usage` (`ReporterSignals`, `ReporterPanics`), then `Return` into the
deferred `WaitForReport` (`Receive`, `TimeOut`), and `CleanUpAndExit` or, for
an exit code, a panic and an unknown command, `ExitInside`. `clean` says whether
`main` got to `CleanOldDirs`.

## 3. Runs

Bounds are constants of the models or named definitions of the MC modules.

| Run | Checks | Instance |
|---|---|---|
| `Installs` | `TypeOK`, `MutualExclusion`, `KeepsModes`, `RegistrySpec` | 2 installs on Windows, where every removal (that of the lock, too), copy, write and rename may fail, 2 tools, every package list, no, a hand-edited, a trimmed or a corrupt `config.yaml`, `MaxKills` = 2, symmetry in installs |
| `Uninstalls` | `OnlyKilledLeaveFiles`, `UninstallRemovesAll`, `Termination` | 1 install, 2 uninstalls, 1 tool, `MaxKills` = 1, fair |
| `Dispatches` | `DTypeOK`, `NoSelfExec`, `VerdictWasConfigured`, `InstallTakesEffect`, `EveryDispatchEnds` | 1 typed command, 2 installs on Unix, no, a corrupt or a hand-edited `config.yaml` (`MCUntrimmed`), four `PATH`s (`MCPaths`), `MaxHops` = 1, the command fair |
| `Modes` | `TypeOK`, `MostSpecificWins` | `MaxArgs` = 3 words of 4, every assignment of modes to 3 keys |
| `Publishes` | `PTypeOK`, `VersionIsWhatWasBuilt`, `LatestIsPublished`, `ResourcesBeforeExec`, `SettledVersionsStay` | 2 publishers, 2 versions, 2 architectures, every request, failures |
| `PluginInstalls` | `STypeOK`, `InstallIsWhole`, `CalmStartsHavePlugin` | 2 installs, 1 uninstall, `MaxKills` = 1, failures, 2 publishers that follow each other (`PublishInTurn`), a run of `jf` after them (`StartsApart`), followed while it is calm or not much else happens (`DisturbedStarts`), 1 other plugin, symmetry |
| `McpCommands` | `TypeOK`, `LoneInstallTakesEffect`, `RegistrySpec` | 2 installs, 1 uninstall, 2 server names, `MaxEdits` = 1, `MaxKills` = 1, every step may fail |
| `VersionRuns` | `TypeOK`, `ChecksAreApart`, `CheckIsMade`, `KeepsParsing` | 3 runs, `MaxTime` = 3, `Interval` = 2, every content of the file, failing writes, `MaxKills` = 3 |
| `JfRuns` | `JTypeOK`, `EveryCommandCanBeRun`, `ReadFlagsAreDeclared`, `RefusedUntouched`, `GivenFlagsCount`, `AcceptedIsValid`, `CommandAsTyped`, `ArgsReachTool`, `OnlyEmptyPanics`, `AliasRunsItsTool`, `EveryRunEnds` | every command and alias of the tables; `MaxFlags` = 2 flags besides those a handler needs, at most one malformed and one that cannot be printed, 0 to 3 arguments; of wrapped tools every line of up to two items with one flag of jf and `--build-name`, and of three with `--build-name`; fair |
| `WipeUnlocked` | violates `NoRecreationMidRemoval` | 1 install, 1 uninstall |
| `VersionFirstRuns` | violates `StaysReadable` | 2 runs, no file, no failing write, no kill (`MaxKills` = 0) |
| `McpNumbers` | violates `OthersAreUntouched` | 1 uninstall and nothing else, a file with two entries, one of which has a wide integer |

Why the bounds are enough. The alias properties relate two processes and what
earlier ones left; the initial configurations and the killed install stand for
the earlier ones, and the theorems of section 5 cover any number. Two tools have
one inside and one outside of a package list, one of each default mode, and two
rounds of the loop. An uninstall against another uninstall and an
install that was killed with the lock is the worst case of `RemoveAll`. A
version of a plugin has at most two builds that matter, the one replaced and the
one that replaces it; two architectures are the local one and another. A run of
`jf` sees what commands leave, never publishers, so that it may come after
these; a second run would see the same directory, as runs change nothing
(`StartsChangeNothing`). For the
agent's file, two installs and an uninstall on two names have a command on
one's own entry, on the other's and on the agent's. The version check needs a
run that reads before, and one that reads after, a third one writes; the clock
goes beyond the interval once. A guard of a handler is about one flag, or about
one in the presence or absence of another, so two flags beyond the needed ones
meet every pair; of the flags of a server that only take part together
(`Alike`), some stand for all. What misleads a wrapped tool's handler is a flag
of jf before, between or after two words of the tool: three items. A project
configuration is chosen only where a handler looks for one (`ModesOf`).

What the properties say:

- `MutualExclusion` is stated for installs; `RemoveStaleLock` removes only locks
  of processes that were killed or have stopped. `InstallTakesEffect` covers what
  concurrent installs by symbolic links had left; its theorem covers killed ones
  and copies, too.
- `OnlyKilledLeaveFiles`: commands remove files of each other by their paths, and
  a command whose files are gone fails halfway. Still none but a killed one leaves
  a lock, which would cost every later command the deadline, or a temporary file,
  as long as a removal does not fail by itself (`Faults`): its error is ignored.
- `KeepsModes` and `RegistrySpec` say that the read and the write of
  `config.yaml` are one unit: no install loses what another wrote.
- `UninstallRemovesAll` holds with a stale lock in place, because the removal of
  the directory does not depend on the lock.
- `VerdictWasConfigured` holds although the configuration is read twice without
  the lock: what a command is run as, through jf or natively, is what one
  configuration said that was in the file while the command read it. The reason
  is that a configuration that is enabled stays enabled: installs enable it, and
  where an uninstall removed it the default is enabled. Only a user who disables
  aliasing and changes the mode between the reads of one command could break it;
  the models have no edits by hand while commands run.
- `SettledVersionsStay`: once a version is on the server and nobody is
  publishing it, its files stay, whatever is published afterwards.
- `InstallIsWhole` combines the order of uploads (resources first) with the
  opposite order of downloads (resources last).
- `CalmStartsHavePlugin`: the executable of a plugin is run at every start of
  `jf`, and one that cannot run takes the commands of all plugins away. So no
  command may leave a plugin's directory without an executable that runs: an
  install makes the directory only with the executable, an uninstall that is
  refused removes nothing, and an install that fails over an older build does so
  before it truncates that build or after the new one is complete. The exception
  is a failure or a kill in between (`spoilt`), which the next undisturbed
  install repairs.
- `RefusedUntouched`, `AcceptedIsValid`, `GivenFlagsCount`: a usage error comes
  before the work, what was malformed never gets through, and no flag that the
  help offers is ignored. They hold for all handlers but those that the
  constants of `MCJfRun` name (section 6).
- `ReadFlagsAreDeclared` is the other way round: what a handler reads, its
  command lets the user give. `EveryCommandCanBeRun` and `AliasRunsItsTool` are
  about the look-up.
- `CommandAsTyped`, `ArgsReachTool`: taking jf's flags out of a line leaves the
  tool's command and arguments as they were typed, wherever the flags stand. They
  are about lines that can be understood (`Understood`). In one whose flag lacks
  its value (`Torn`) nobody can say which word belongs to whom, and handlers
  that take flags in several steps may not notice: of `--server-id --build-name b s
  sync`, `jf uv` takes `--build-name b` first and then `s` for the server. And in
  one where the value of a flag of jf stands in the place of the command, a handler
  that looks for the command first takes it for that (`Misread`, section 6).
  `OnlyEmptyPanics`: an index into what is left panics only when nothing is.
- `CheckIsMade`: a run that finds a recent time or stumbles over another run's
  write does not swallow the check.

## 4. Fairness

`Termination` assumes weak fairness of every live install and of every live
uninstall (`Fairness`): the operating system schedules each process, and a
system call on a local file returns. Nothing is assumed of kills or of the user
who removes a stale lock: a command gets past a lock nobody releases because
`withConfigLock` has a deadline, and the action `GiveUpLock` is enabled as long
as there is contention. `EveryDispatchEnds` assumes weak fairness of the typed
command only. `EveryRunEnds` assumes weak fairness of `Proceeds`, the main
goroutine of a run of `jf`, which includes that command objects of other modules
return and that a time-out expires. Nothing is assumed of the reporter of the
usage: its server may never answer. One run is excepted, `jf api` without
`--timeout`: its time-out of zero waits for the reporter for ever. There is no
fairness between processes anywhere.

## 5. Theorems

For all values of the constants, that is any number of processes, tools,
versions, architectures, contents of files, faults and kills. Assumptions are
the named `ASSUME`s of the modules, which say that the model values are
different and the bounds are numbers, and where given those of the theorem. The
theorems about the command line are for any table of handlers that keeps a
discipline, which is stated about the table alone, never about runs. TLC
evaluates these assumptions on the tables of the repository (`MCJfRun`), and the
theorems say what they give for all lines, with any number of flags and
words:

- `RefusesFirst` (`CommandRun`): no handler comes to a step that could refuse the
  line after its work, unless by a return on the same condition. Excepted by
  name are all steps of the two handlers of `ActsFirst`, and the printing of the
  seven of `PrintsFew`; without either exception the assumption is false.
- `EveryFlagIsRead`, `EveryValueIsChecked`: for every combination of what the
  guards of a handler can tell of a line (`Situations`), the handler refuses it
  or comes to a step that reads the flag, or checks its value, or prints in the
  form that it says, before it returns. A line has a situation and any number of flags that no guard asks for.
- `CommandIsSettled` (`NativeRun`): steps up to the one that finds the tool's
  command do not depend on it.
- `ToolTablesAssumption`: in every mode, for every command and at every step that
  the handler comes to, it takes only flags of its own (`TakesItsFlags`); it
  has taken all of them when it looks for the command, unless it is one of those
  known to look first, and takes a command away once (`NamesTheCommand`);
  it indexes what is left only where values went first and at once
  (`TakesTheHead`); and when the tool runs, all flags but those in `Leaves` are
  out (`RunsLast`). `Leaves` is itself checked by this: it has to name the flags
  that `jf docker` declares for `docker scan` only, and `--username` and
  `--password`, which `jf helm` declares and leaves to helm.
- `FlagsComeOnce`: a line has a flag of jf at most once.
- `AliasesAssumption` (`JfRun`): every package manager has one command, which
  wraps it, and `jf ruby` finds its tool before it takes or runs anything.

| Theorem | States | Argument |
|---|---|---|
| `TypeCorrect` | `TypeOK` of `PackageAlias` | with `LoadedOK`: an install that is about to write has a configuration |
| `InstallsExclude` | `MutualExclusion`, without uninstalls | `LockHeld`: the lock file of a live install in its locked part is its own, so neither a release by path nor the removal of a stale lock takes it away |
| `ModesAreKept` | `KeepsModes`, without uninstalls | `FreshRead`: what an install has read is still what is in the file, from `LockHeld` |
| `InstallsImplementRegistry` | `RegistrySpec`, without uninstalls | `FreshRead`, and `Progress` for what an install's error, request and hash say of where it is |
| `InstallsTakeEffect` | `InstallTakesEffect`, without uninstalls and faults, on Unix and Windows | `EffectSoFar`: the tools the loop has passed are done |
| `CommandsCleanUp` | `OnlyKilledLeaveFiles`, without faults | inductive with `TypeOK`, as a release by path removes whatever lock file is there |
| `UninstallsRemoveAll` | `UninstallRemovesAll`, without faults | `Removing`: what is there, an uninstall that is not killed has still to list, or has listed and will remove; an uninstall that takes the lock after the list of another is such a one |
| `DispatchTypesHold` | `DTypeOK` of `AliasDispatch` | a lookup that ends in an alias directory found a link there (`LookPathFinds`), beside `TypeCorrect` |
| `NoAliasRunsItself` | `NoSelfExec` | `Filtered`: from the filter on, no entry of the `PATH` is the alias directory by its own name, so a lookup that ends in an alias found another name; nothing is needed of what installs and uninstalls do |
| `VerdictsWereConfigured` | `VerdictWasConfigured` | `Justified`: what the file says to a dispatch that reads it is remembered, and a dispatch that is past its first read finds aliasing enabled still (`EnabledStays`) |
| `ModesTypes` | `TypeOK` of `AliasModes` | with `LoopInv` |
| `LongestPrefixWins` | `MostSpecificWins` | `LoopInv`: the keys that the loop has passed are not configured, and it goes from the longest to the shortest |
| `PublishTypes` | `PTypeOK` | also: copying starts when all architectures are done |
| `VersionsMatchBuilds` | `VersionIsWhatWasBuilt` | `Owned`: a file is of a publisher of that version; `Matched`: a publisher past the local build has built it |
| `LatestComesLast` | `LatestIsPublished` | `Uploaded`: what is done is on the server; `Listed`: what is being copied is of versions on the server |
| `ResourcesComeFirst` | `ResourcesBeforeExec` | `Uploaded` |
| `PublishedFilesStay` | `SettledVersionsStay` | `Kept`: a publisher of the version has not verified it yet, is past its uploads or is refused them; a publisher that verifies finds the file |
| `PluginTypes` | `ITypeOK` | one lemma each for a step that puts a file (`PutKeeps`), gets a build (`GetKeeps`) and goes on (`GoKeeps`) |
| `LoneInstallsAreWhole` | `InstallIsWhole` | `WholeSoFar`: what an undisturbed install has so far is of the one build of the version; from the publishers' invariant, files of a version stay and have that build's resources next to them |
| `StartsChangeNothing` | `SSpec => ISpec` | a step of a run is a stutter of `PluginInstall`, so its theorems, the invariant behind `LoneInstallsAreWhole` among them, hold beside any number of runs |
| `StartTypes` | `STypeOK` | `StartsChangeNothing` with `PluginTypes` |
| `CalmStartsHaveThePlugin` | `CalmStartsHavePlugin` | `Sound`: as long as the directory is not spoilt, one command is at work at most, and the plugin answers but for what that command is doing (`Holds`); `Opened`: an undisturbed install finds the executable as it has opened it, so that filling it in repairs the directory; `Calmly`: what a calm run has gathered is still so, and the build that signed is the one there (`Sees`) |
| `McpTypes` | `TypeOK` of `McpConfig` | also: no dry run gets to the write |
| `CommandsImplementRegistry` | `RegistrySpec` of `McpConfig`, if no number is rounded | while `orderly`: `OneAtATime`, and `Holding`: a command that is about to write holds what the file says |
| `LoneInstallsTakeEffect` | `LoneInstallTakesEffect` | `OnItsOwn`: nothing else is at work, so the file that it has truncated is still empty when it fills it |
| `VersionTypes` | `TypeOK` of `VersionCheck` | also: no time is in the future |
| `RunsInTurnCheckApart` | `ChecksAreApart` | while `inTurn`: `Synced`, the file has the time of the last check or cannot be read; `Informed`, so does what a run read; `Apart`, a run past its decision is late enough |
| `OverlapsKeepParsing` | `KeepsParsing` | while `sound`: `Sound`, a file that is empty has a run that is about to fill it |
| `ChecksAreMade` | `CheckIsMade` | while `sound`: a time in the file, or found by a run, was checked or its run is about to send the request (`Backed`); a run that stumbled has one that goes on (`Explained`) |
| `RunTypes` | `JTypeOK` | for every table of commands, handlers and flags |
| `RefusedLinesAreUntouched` | `RefusedUntouched` | `HandlerInv`: a handler that still runs has no return behind it whose condition held and, if it has done its work, the step that did it (`Behind`); with `RefusesFirst` a refusal after that step had such a return in between, or is the printing of one of `PrintsFew`, which refuses nothing but `unprinted` |
| `GivenFlagsAreRead` | `GivenFlagsCount` | a handler that is past a step whose guard holds has read its flags, and past no refusal or return; at the end every flag has such a step, because its line has a situation (`EveryFlagIsRead`) |
| `AcceptedLinesAreValid` | `AcceptedIsValid` | the same for checks, which a malformed value does not get past (`EveryValueIsChecked`) |
| `ToolsRunTheTypedCommand` | `CommandAsTyped` | `Sound`: what is left of the line is the line without the flags taken so far and their values, without the command if that is out (`LeftOf`); no flag is torn that was not (`Untorn`); the names found are those that were typed (`Told`). The main lemma is `TakeMore`: taking one set of flags after another is taking both at once, as no value of one is a flag of the other |
| `OtherArgumentsReachTheTool` | `ArgsReachTool` | `Sound` with `RunsLast` |
| `HeadIsThere` | `OnlyEmptyPanics` | `Sound` with `TakesTheHead` |
| `AliasesRunTheirTools` | `AliasRunsItsTool` | `AliasStart`: the command that was looked up wraps the tool of the name; `RubyAt`: below `jf ruby`, all of the line is left until the command is found, its first word is the name, and from then on the command is that |

Without the second conjunct of `Understood`, `CommandAsTyped` and
`ArgsReachTool` are false, although no line with one flag of jf shows it: the
attempt to prove `TakeMore` gave the line of `uv` above. `AliasRunsItsTool` needs
no such hypothesis, because below `jf ruby` nothing stands before the name.

Only model-checked are `EveryCommandCanBeRun` and `ReadFlagsAreDeclared`, which
compare the tables of this repository with each other: nothing about them is
left to prove once the tables are given, and the run goes over each command.
Liveness (`Termination`, `EveryDispatchEnds`, `EveryRunEnds`) is out of the
prover's reach.

## 6. Disagreements with the text

- `NoRecreationMidRemoval`: the comment in `UninstallCommand.Run`
  (`uninstall.go:42`) says that the lock is held while the directory is
  removed. `os.RemoveAll` runs after the lock was released.
- `StaysReadable`: two first runs that overlap leave a `persistence.json` that
  does not parse, although nothing fails and nobody is killed: the short text of
  one is written over the start of the longer one of the other. No later run
  checks for a version, or repairs the file.
- `OthersAreUntouched`: the comment in `mcp.go:273` says that an uninstall leaves
  other entries untouched. `json.Unmarshal` into a map makes every number a
  float64, and the whole file is written back: an integer of more than 53 bits in
  an entry that stays is another number afterwards.

What the code does not promise, and the models do have:

- An uninstall removes the lock file an install holds, and then two installs may
  be in their locked parts. `MutualExclusion` is about installs.
- An alias whose link an install replaces while it starts is not recognised and
  runs as a plain `jf` command line (verdict `"plain"`).
- Under a `PATH` with the alias directory under a second name (a symbolic link)
  an alias can run itself again. `NoSelfExec` and `EveryDispatchEnds` except
  such a `PATH` (`Respelled`).
- Two publishers of one version that both find it missing replace files of each
  other; `latest` can have files of two builds, because nothing is deleted there.
- An install of a plugin that is there already downloads it again: the details
  it compares are those of a directory, which have no checksums.
- A plugin that fails takes all plugins off the command line, although the message
  about it says that it is skipped (`signatureutils.go:71`): so do an install or
  an uninstall that are at work during the start of another `jf`, and a killed one
  until the plugin is installed again. A run that overlaps a command may run
  another build than the one whose signature it has, or none.
- Of two overlapping `mcp` commands the later write drops the entry of the
  other; a command killed in its write leaves the file empty; an install panics
  on a file that is `null`.
- Version checks that overlap may all send the request.
- `transfer-config-merge` and `access-token-create` look at `--format` when the
  work is done (`MCActsFirst`). `exchange-oidc-token`, `transfer-files`,
  `jpd-add`, `license-acquire`, `license-deploy`, `pl status` and
  `pl sync-status` look at it before, accept `sarif` and the other formats of
  the core, and refuse those when the work is done (`MCPrintsFew`).
- Flags without an effect (`Ignored`): `--admin` of `user-create` is set in a
  copy; `--oidc-provider-name` and `--repository` of `eot`; `--url` and
  `--access-token` of `go-publish`; with `transfer-files --status` or `--stop`
  all others; several of `setup` outside of apt or outside of one branch.
- `--format` of `mcp show`, `stats` and `transfer-files` takes any value
  (`MCUnchecked`).
- Flags that handlers read and commands do not declare (`MCUndeclared`):
  `etag-timeout` of `hf download`, those of OIDC of `config add` and `edit`,
  those of the shared handler of `<tool>-config`. `dotnet` takes an
  `--allow-insecure-connections` and `terraform` reads a `--fail-no-op` that
  their commands do not declare.
- Twelve handlers take the tool's command off before jf's flags, so the value of
  a flag of jf can be taken for it: `jf pnpm --build-name b install`
  (`MCSplitsFirst`); docker takes its second word for the image.
- `jf rt npm-install`, `npm-ci` and `npm-publish` lose their first word
  (`MCDropsAWord`); their help promises `npm install args`
  (`docs/artifactory/npminstall/help.go:3`).
- `nuget` and `dotnet` index an empty line when it had flags of jf only
  (`OnlyEmptyPanics`).
- `pl sync` and `pl trigger` do not count their arguments; `license-deploy` may
  have saved a server's configuration before it refuses the number of licences.
- After an exit code of `jf api`, an unknown command or a panic, `main` does not
  clean old temporary directories up (`clean`).

## 7. What is not modelled

- The command objects of other modules (jfrog-cli-artifactory, jfrog-cli-core,
  jfrog-client-go, ...): a handler's call is one step that does its work, fails
  before or fails after it. The package managers behind wrapped commands are
  such a step, too, with what build info for poetry does around it
  (`utils/buildinfo`, whose failure is a warning) and the
  `HELM_REPOSITORY_CACHE` that the handler of helm takes out of the environment
  meanwhile.
- What embedded and installed plugins do when they run, which their packages and
  executables say, and what becomes of an installed plugin that has the name of a
  command of jf: it competes with it in an unstable sort. The conversion of
  `plugins.yaml` at the start is in jfrog-cli-core: it fails or not.
- `FinalizeCommandSummaries` beyond its order of steps: the files of the
  sections, of which those of an earlier call stay. `PrintSummary` and the other
  helpers that print.
- `NormalizeApiTrailingFlags`, which moves the flags of `jf api` before its
  path (in the order of the command's table of flags, not in the relative order
  its comment names), and the scoring of `jf api docs search`: text to text,
  without state.
- Help texts, completion, `package-alias status` and what
  `packagealias/context.go` tells other packages.
- Values of flags: a value is well-formed or malformed for the code that parses
  it. Names, texts and numbers have no more content than that.

Windows junctions, umasks and permissions are not modelled, nor is a machine
that loses power: a rename that returned has happened. The clock of
`VersionCheck` only goes forward. Time-outs have no length: `GiveUpLock` may
happen whenever there is contention, as any positive
`JFROG_CLI_PACKAGE_ALIAS_LOCK_TIMEOUT` may be set, and so may `TimeOut`.

## 8. What is left

1. The files of the summary, and the reordering of the arguments of `jf api` as
   an algorithm.
2. Lines of wrapped tools that have a flag of jf twice.
