----------------------------- MODULE CliHandlers -----------------------------
(* The handlers of the commands whose flags the command line library parses, *)
(* each as the sequence of its steps, in the order of its code. What a step  *)
(* does is in CommandRun; a step runs only when its guard holds:             *)
(*   any, all, none   of these flags, which must be given and which not      *)
(*   nargs, words     the number of arguments and the first of them          *)
(*   ci               whether nobody can answer: CI is set, no terminal      *)
EXTENDS Integers, Sequences, TLC

ArgCounts == 0 .. 3
(* First arguments that a handler tells from others.                         *)
Words == {"apt", "other"}

Do(do, flags) ==
  [do |-> do, flags |-> flags, any |-> {}, all |-> {}, none |-> {},
   nargs |-> ArgCounts, words |-> Words, ci |-> BOOLEAN]
IfAny(flags, step) == [step EXCEPT !.any = flags]
IfAll(flags, step) == [step EXCEPT !.all = flags]
Unless(flags, step) == [step EXCEPT !.none = flags]
IfArgs(n, step) == [step EXCEPT !.nargs = n]

Refuse == Do("refuse", {})
(* WrongNumberOfArgumentsHandler, unless the number is one of n.             *)
Args(n) == IfArgs(ArgCounts \ n, Refuse)
Need(flag) == Unless({flag}, Refuse)
Check(flags) == Do("check", flags)
Load == Do("load", {})
Confirm(flags) == Do("confirm", flags)
Exec(flags) == Do("exec", flags)
Try(flags) == Do("try", flags)
(* GetOutputFormat takes every format of the core, and the printing at the   *)
(* end knows table and json.                                                 *)
PrintResponse == Do("print", {"format"})
PrintIfSet == IfAny({"format"}, PrintResponse)
Return == Do("return", {})
Report == Do("report", {})

(* CreateServerDetailsFromFlags: the flags that describe a server.           *)
ServerFlags ==
  {"url", "artifactory-url", "distribution-url", "xray-url",
   "mission-control-url", "pipelines-url", "user", "password",
   "password-stdin", "access-token", "access-token-stdin", "ssh-key-path",
   "ssh-passphrase", "client-cert-path", "client-cert-key-path", "server-id",
   "insecure-tls", "disable-token-refresh"}
(* CreateServerDetailsWithConfigOffer reads them; a user without             *)
(* configuration may be offered to save one.                                 *)
WithOffer == Do("offer", ServerFlags)

(* artifactory/cli.go *)
permissionTargetTemplateCmd == <<Args({1}), Exec({})>>
permissionTargetCreateCmd ==
  <<Args({1}), Check({"format"}), WithOffer, Exec({"vars"})>>
permissionTargetUpdateCmd ==
  <<Args({1}), Check({"format"}), WithOffer, Exec({"vars"})>>
permissionTargetDeleteCmd ==
  <<Args({1}), WithOffer, Confirm({"quiet"}), Exec({})>>
(* admin is read, but into a struct that has already been copied into the    *)
(* list that is sent.                                                        *)
userCreateCmd == <<Args({3}), WithOffer, Exec({"users-groups", "replace"})>>
usersCreateCmd ==
  <<Args({0}), Check({"format"}), WithOffer, Need("csv"), Load,
    Exec({"csv", "users-groups", "replace"})>>
usersDeleteCmd ==
  <<Args({0, 1}), WithOffer, IfAny({"csv"}, Load),
    Unless({"csv"}, Args({1})), Confirm({"quiet"}), Exec({"csv"})>>
(* Wrong: copied from another handler.                                       *)
MutantGroupAddUsersCmd == <<Args({2}), WithOffer, Exec({"replace"})>>

groupCreateCmd == <<Args({1}), WithOffer, Exec({"replace"})>>
groupAddUsersCmd == <<Args({2}), WithOffer, Exec({})>>
groupDeleteCmd == <<Args({1}), WithOffer, Confirm({"quiet"}), Exec({})>>
artifactoryAccessTokenCreateCmd ==
  <<Args({0, 1}), WithOffer, Check({"expiry"}),
    Exec({"refreshable", "expiry", "groups", "audience", "grant-admin"})>>
transferConfigCmd ==
  <<Args({2}), Check({"format"}), Load, Load,
    Exec({"force", "verbose", "prechecks", "source-working-dir",
          "target-working-dir", "include-repos", "exclude-repos"})>>
(* The format is looked at when the command has run, or failed.              *)
transferConfigMergeCmd ==
  <<Args({2}), Load, Load,
    Try({"include-repos", "exclude-repos", "include-projects",
          "exclude-projects"}),
    Check({"format"})>>
dataTransferPluginInstallCmd ==
  <<Args({0, 1}), Load, IfAll({"version", "dir"}, Refuse),
    Exec({"version", "dir", "home-dir"})>>
transferFilesCmd ==
  <<IfAny({"status", "stop"}, Exec({"status", "stop"})),
    IfAny({"status", "stop"}, Return),
    Args({2}), Load, Load, Check({"format"}),
    Try({"prechecks", "filestore", "include-repos", "exclude-repos",
         "include-files", "created-after", "downloaded-after",
         "ignore-state", "proxy-key"}),
    PrintIfSet>>
transferSettingsCmd == <<Exec({})>>

(* config/cli.go *)
createOidcParamsFromFlags ==
  {"oidc-provider-type", "oidc-provider-name", "oidc-audience",
   "oidc-token-id", "project", "application-key"}
CreateConfigCommandConfiguration ==
  <<Do("server", ServerFlags), Check({"oidc-provider-type"})>>
(* In CI the token may come from an environment variable.                    *)
validateConfigFlags ==
  <<IfAll({"basic-auth-only", "access-token"}, Refuse),
    IfAll({"basic-auth-only", "access-token-stdin"}, Refuse),
    Check({"ssh-key-path", "client-cert-path", "client-cert-key-path"}),
    [IfAll({"oidc-provider-name"}, Need("oidc-token-id"))
       EXCEPT !.ci = {FALSE}],
    IfAll({"oidc-provider-name"}, Need("url"))>>
addOrEdit(lookup) ==
  CreateConfigCommandConfiguration \o lookup \o validateConfigFlags
    \o <<Exec({"interactive", "enc-password", "basic-auth-only", "legacy"}
                \cup createOidcParamsFromFlags)>>
(* ValidateServerId and validateServerExistence: the id is reserved, exists  *)
(* already or, for edit, does not.                                           *)
IdIsRefused == Do("lookup", {})
addCmd ==
  <<Args({0, 1}), Do("read", {"overwrite"})>>
    \o addOrEdit(<<IfArgs({1}, IdIsRefused)>>)
editCmd == <<Args({1})>> \o addOrEdit(<<IdIsRefused>>)
configShowCmd == <<Args({0, 1}), Check({"format"}), Load, PrintIfSet>>
(* Without an argument all servers are removed; quiet tells that command not *)
(* to ask.                                                                   *)
deleteCmd == <<Args({0, 1}), Confirm({"quiet"}), Exec({})>>
importCmd == <<Args({1}), Exec({})>>
exportCmd == <<Args({0, 1}), Exec({})>>
useCmd == <<Args({1}), Exec({})>>

(* missioncontrol/cli.go *)
createMissionControlDetails == WithOffer
jpdAdd ==
  <<Args({1}), Check({"format"}), createMissionControlDetails, Load, Exec({}),
    PrintResponse>>
jpdDelete == <<Args({1}), createMissionControlDetails, Exec({})>>
licenseAcquire ==
  <<Args({2}), Check({"format"}), createMissionControlDetails, Exec({}),
    PrintResponse>>
licenseDeploy ==
  <<Args({2}), Check({"format"}), createMissionControlDetails,
    Check({"license-count"}), Exec({"license-count"}), PrintResponse>>
licenseRelease == <<Args({2}), createMissionControlDetails, Exec({})>>

(* pipelines/cli.go; two of them take arguments and never count them.        *)
createPipelinesDetailsByFlags == WithOffer
fetchLatestPipelineRunStatus ==
  <<createPipelinesDetailsByFlags, Check({"format"}),
    Exec({"pipeline-name", "monitor", "branch", "single-branch"}), PrintIfSet>>
syncPipelineResources ==
  <<Check({"format"}), createPipelinesDetailsByFlags, Exec({})>>
getSyncPipelineResourcesStatus ==
  <<Need("branch"), Need("repository"), Check({"format"}),
    createPipelinesDetailsByFlags, Exec({"branch", "repository"}), PrintIfSet>>
getVersion == <<createPipelinesDetailsByFlags, Exec({})>>
triggerNewRun ==
  <<Check({"format"}), createPipelinesDetailsByFlags, Exec({"single-branch"})>>

(* general/token/cli.go and general/login/cli.go *)
createPlatformDetailsByFlags == WithOffer
(* The format is looked at when the token has been created.                  *)
AccessTokenCreateCmd ==
  <<Args({0, 1}), createPlatformDetailsByFlags, Load,
    IfAll({"scope", "grant-admin"}, Refuse), IfAll({"scope", "groups"}, Refuse),
    Check({"expiry"}),
    Exec({"project", "groups", "scope", "grant-admin", "expiry",
          "refreshable", "description", "audience", "reference"}),
    Check({"format"}), PrintResponse>>
ExchangeOidcTokenCmd ==
  <<Args({1, 2, 3}), Check({"format"}), createPlatformDetailsByFlags,
    Check({"oidc-provider-type"}),
    Exec({"oidc-provider-type", "oidc-token-id", "oidc-audience", "project",
          "application-key"}),
    PrintResponse>>
LoginCmd ==
  <<Args({0}), Exec({"server-id", "legacy", "disable-token-refresh"})>>

(* mcp/cli.go: show prints in its default form whatever other format is      *)
(* asked for.                                                                *)
mcpShowCmd ==
  <<Args({0}), WithOffer, Report, Do("read", {"mcp-url", "format"})>>
mcpInstallCmd ==
  <<Args({0}), WithOffer, Report,
    Exec({"mcp-url", "agent", "name", "project-dir", "global", "dry-run",
          "skip-check"})>>
mcpUninstallCmd ==
  <<Args({0}), WithOffer, Report,
    Exec({"agent", "name", "project-dir", "global", "dry-run"})>>

(* plugins/cli.go *)
installPlugin == <<Check({"format"}), Args({1}), Exec({})>>
publishPlugin == <<Check({"format"}), Args({2}), Exec({})>>
UninstallCmd == <<Args({1}), Exec({})>>

(* general/api *)
resolveRequestBody == <<IfAll({"input", "data"}, Refuse), IfAny({"input"}, Load)>>
Command ==
  <<Args({1}), WithOffer, Report>> \o resolveRequestBody
    \o <<Check({"header"}),
         Exec({"input", "data", "header", "method", "timeout", "verbose"})>>
runSearchCmd ==
  <<Args({1}), Load, Do("read", {"tag", "method", "limit"}), Check({"format"}),
    PrintResponse>>
runDescribeCmd == <<Args({2}), Load, Check({"format"}), PrintResponse>>

(* stats/stats.go; an unsupported product is refused, a format is not.       *)
GetStats ==
  <<Args({1}), Do("lookup", {}), Exec({"access-token", "server-id", "format"})>>

(* general/summary/cli.go: the directory must be set, then the version of    *)
(* the server is asked for; the files that Exec writes are not modelled.     *)
FinalizeCommandSummaries == <<Do("lookup", {}), WithOffer, Load, Exec({})>>

(* buildtools/cli.go *)
BuildFlags == {"build-name", "build-number", "module", "project"}
(* Both name and number or none, and no module without; CI may have them in  *)
(* its environment.                                                          *)
CreateBuildConfigurationWithModule ==
  LET NoEnv(step) == [step EXCEPT !.ci = {FALSE}]
  IN <<Do("read", BuildFlags),
       NoEnv(IfAll({"build-name"}, Need("build-number"))),
       NoEnv(IfAny({"build-number", "module"}, Need("build-name")))>>
GoPublishCmd ==
  <<Args({1, 2, 3}), Load>> \o CreateBuildConfigurationWithModule
    \o <<Exec({"detailed-summary", "exclusions"})>>
updateHuggingFaceEnv ==
  Do("read", {"repo-key", "hf-hub-etag-timeout", "hf-hub-download-timeout"})
getHuggingFaceServerDetails == Do("server", {"server-id"})
huggingFaceUploadCmd ==
  <<Args({2, 3}), Load, getHuggingFaceServerDetails, updateHuggingFaceEnv>>
    \o CreateBuildConfigurationWithModule
    \o <<Check({"repo-type"}), Exec({"repo-type", "revision"})>>
huggingFaceDownloadCmd ==
  <<Args({1, 2, 3}), getHuggingFaceServerDetails, updateHuggingFaceEnv>>
    \o CreateBuildConfigurationWithModule
    \o <<Check({"etag-timeout"}), Check({"repo-type"}),
         Exec({"repo-type", "revision", "etag-timeout"})>>

(* setup asks for the package manager when no argument names it.             *)
InCi(step) == [step EXCEPT !.ci = {TRUE}]
ForApt(step) == [step EXCEPT !.words = {"apt"}]
aptSetupCmd ==
  <<ForApt(IfAny({"remove"}, Exec({"remove", "repo", "dist"}))),
    ForApt(IfAny({"remove"}, Return)),
    ForApt(WithOffer), InCi(ForApt(Need("repo"))),
    ForApt(IfAny({"repo"}, Load)), InCi(ForApt(Need("dist"))),
    ForApt(Exec({"repo", "dist", "component", "trusted", "import-key"})),
    ForApt(Return)>>
setupCmd ==
  <<Args({0, 1})>> \o aptSetupCmd
    \o <<IfArgs({1}, Do("lookup", {})), IfArgs({0}, Do("lookup", {})),
         WithOffer, IfAny({"repo"}, Load), Exec({"repo", "project"})>>

(* main.go, packagealias/cli.go and completion/cli.go                        *)
IntroCmd == <<Do("read", {})>>
options == <<Do("read", {})>>
aliasInstallCmd == <<Exec({"packages"})>>
aliasUninstallCmd == <<Exec({})>>
aliasStatusCmd == <<Do("read", {})>>
completionCmd == <<Exec({"install"})>>
configFlags ==
  {"global", "server-id-resolve", "server-id-deploy", "repo-resolve",
   "repo-deploy", "repo-resolve-releases", "repo-resolve-snapshots",
   "repo-deploy-releases", "repo-deploy-snapshots", "include-patterns",
   "exclude-patterns", "snapshots-update-policy", "disable-snapshots",
   "use-wrapper", "ivy-desc-pattern", "uses-plugin", "deploy-maven-desc",
   "deploy-ivy-desc", "ivy-artifacts-pattern", "nuget-v2"}
CreateConfigCmd == <<Args({0}), Load, Exec(configFlags)>>
(* A namespace, or a help command, shows its help.                           *)
subcommand == <<Do("read", {})>>

(* The handler that the action of a command runs.                          *)
Handlers ==
  [permissionTargetTemplateCmd |-> permissionTargetTemplateCmd,
   permissionTargetCreateCmd |-> permissionTargetCreateCmd,
   permissionTargetUpdateCmd |-> permissionTargetUpdateCmd,
   permissionTargetDeleteCmd |-> permissionTargetDeleteCmd,
   userCreateCmd |-> userCreateCmd, usersCreateCmd |-> usersCreateCmd,
   usersDeleteCmd |-> usersDeleteCmd, groupCreateCmd |-> groupCreateCmd,
   groupAddUsersCmd |-> groupAddUsersCmd, groupDeleteCmd |-> groupDeleteCmd,
   artifactoryAccessTokenCreateCmd |-> artifactoryAccessTokenCreateCmd,
   transferConfigCmd |-> transferConfigCmd,
   transferConfigMergeCmd |-> transferConfigMergeCmd,
   dataTransferPluginInstallCmd |-> dataTransferPluginInstallCmd,
   transferFilesCmd |-> transferFilesCmd,
   transferSettingsCmd |-> transferSettingsCmd, addCmd |-> addCmd,
   editCmd |-> editCmd, configShowCmd |-> configShowCmd,
   deleteCmd |-> deleteCmd, importCmd |-> importCmd, exportCmd |-> exportCmd,
   useCmd |-> useCmd, jpdAdd |-> jpdAdd, jpdDelete |-> jpdDelete,
   licenseAcquire |-> licenseAcquire, licenseDeploy |-> licenseDeploy,
   licenseRelease |-> licenseRelease,
   fetchLatestPipelineRunStatus |-> fetchLatestPipelineRunStatus,
   syncPipelineResources |-> syncPipelineResources,
   getSyncPipelineResourcesStatus |-> getSyncPipelineResourcesStatus,
   getVersion |-> getVersion, triggerNewRun |-> triggerNewRun,
   AccessTokenCreateCmd |-> AccessTokenCreateCmd,
   ExchangeOidcTokenCmd |-> ExchangeOidcTokenCmd, LoginCmd |-> LoginCmd,
   mcpShowCmd |-> mcpShowCmd, mcpInstallCmd |-> mcpInstallCmd,
   mcpUninstallCmd |-> mcpUninstallCmd, installPlugin |-> installPlugin,
   publishPlugin |-> publishPlugin, UninstallCmd |-> UninstallCmd,
   Command |-> Command, GetStats |-> GetStats,
   FinalizeCommandSummaries |-> FinalizeCommandSummaries,
   GoPublishCmd |-> GoPublishCmd,
   huggingFaceUploadCmd |-> huggingFaceUploadCmd,
   huggingFaceDownloadCmd |-> huggingFaceDownloadCmd, setupCmd |-> setupCmd,
   IntroCmd |-> IntroCmd, options |-> options,
   aliasInstallCmd |-> aliasInstallCmd,
   aliasUninstallCmd |-> aliasUninstallCmd,
   aliasStatusCmd |-> aliasStatusCmd, completionCmd |-> completionCmd,
   CreateConfigCmd |-> CreateConfigCmd, subcommand |-> subcommand,
   namespace |-> subcommand, none |-> subcommand,
   SearchCommand |-> runSearchCmd, DescribeCommand |-> runDescribeCmd]
=============================================================================
