----------------------------- MODULE CliCommands -----------------------------
(* The commands of jf: GetCommands of every package, and getCommands of      *)
(* main.go, which puts them into namespaces. A row has the name of the       *)
(* command, its alias, the key of its flags in commandFlags, whether the     *)
(* command line library leaves its flags alone, and the action it runs.      *)
EXTENDS CliFlags

Row(name, alias, key, skip, action) ==
  [name |-> name, alias |-> alias, key |-> key, skip |-> skip,
   action |-> action]
Cmd(name, alias, key, action) == Row(name, alias, key, FALSE, action)
Native(name, alias, key, action) == Row(name, alias, key, TRUE, action)

(* <tool>-config, whose key is its name and which runs CreateConfigCmd.      *)
Config(pairs) == {Cmd(p[1], p[2], p[1], "CreateConfigCmd") : p \in pairs}

(* The hidden, deprecated forms of the build tool commands: their actions    *)
(* warn and run the same function.                                           *)
artifactoryCommands1 ==
  Config({<<"mvn-config", "mvnc">>, <<"gradle-config", "gradlec">>,
          <<"cocoapods-config", "cocoapodsc">>, <<"swift-config", "swiftc">>,
          <<"npm-config", "npmc">>})
  \cup {Native("mvn", "", "mvn", "MvnCmd"),
        Native("gradle", "", "gradle", "GradleCmd"),
        Native("npm-install", "npmi", "npm-install-ci", "NpmInstallCmd"),
        Native("npm-ci", "npmci", "npm-install-ci", "NpmCiCmd"),
        Native("npm-publish", "npmp", "npm-publish", "NpmPublishCmd")}

artifactoryCommands2 ==
  Config({<<"yarn-config", "yarnc">>, <<"nuget-config", "nugetc">>,
          <<"dotnet-config", "dotnetc">>, <<"go-config", "">>,
          <<"pip-config", "pipc">>})
  \cup {Native("yarn", "", "yarn", "YarnCmd"),
        Native("nuget", "", "nuget", "NugetCmd"),
        Native("dotnet", "", "dotnet", "DotnetCmd"),
        Cmd("go-publish", "gp", "go-publish", "GoPublishCmd"),
        Native("go", "", "go", "GoCmd"),
        Native("pip-install", "pipi", "pip-install", "pipDeprecatedInstallCmd")}

artifactoryCommands3 ==
  {Cmd("permission-target-template", "ptt", "", "permissionTargetTemplateCmd"),
   Cmd("permission-target-create", "ptc", "permission-target-create",
       "permissionTargetCreateCmd"),
   Cmd("permission-target-update", "ptu", "permission-target-update",
       "permissionTargetUpdateCmd"),
   Cmd("permission-target-delete", "ptdel", "permission-target-delete",
       "permissionTargetDeleteCmd"),
   Cmd("user-create", "", "user-create", "userCreateCmd"),
   Cmd("users-create", "uc", "users-create", "usersCreateCmd"),
   Cmd("users-delete", "udel", "users-delete", "usersDeleteCmd"),
   Cmd("group-create", "gc", "group-create", "groupCreateCmd"),
   Cmd("group-add-users", "gau", "group-add-users", "groupAddUsersCmd"),
   Cmd("group-delete", "gdel", "group-delete", "groupDeleteCmd")}

artifactoryCommands4 ==
  {Cmd("access-token-create", "atc", "artifactory-access-token-create",
       "artifactoryAccessTokenCreateCmd"),
   Cmd("transfer-settings", "", "", "transferSettingsCmd"),
   Cmd("transfer-config", "", "transfer-config", "transferConfigCmd"),
   Cmd("transfer-config-merge", "", "transfer-config-merge",
       "transferConfigMergeCmd"),
   Cmd("transfer-files", "", "transfer-files", "transferFilesCmd"),
   Cmd("transfer-plugin-install", "", "transfer-plugin-install",
       "dataTransferPluginInstallCmd")}

buildToolsCommands1 ==
  Config({<<"mvn-config", "mvnc">>, <<"gradle-config", "gradlec">>,
          <<"yarn-config", "yarnc">>, <<"nuget-config", "nugetc">>,
          <<"dotnet-config", "dotnetc">>})
  \cup {Cmd("setup", "", "setup", "setupCmd"),
        Native("mvn", "", "mvn", "MvnCmd"),
        Native("mvnw", "", "mvn", "MvnwCmd"),
        Native("gradle", "", "gradle", "GradleCmd"),
        Native("yarn", "", "yarn", "YarnCmd"),
        Native("nuget", "", "nuget", "NugetCmd")}

buildToolsCommands2 ==
  Config({<<"go-config", "goc">>, <<"pip-config", "pipc">>,
          <<"pipenv-config", "pipec">>, <<"poetry-config", "poc">>})
  \cup {Native("dotnet", "", "dotnet", "DotnetCmd"),
        Native("go", "", "go", "GoCmd"),
        Cmd("go-publish", "gp", "go-publish", "GoPublishCmd"),
        Native("pip", "", "pip-install", "PipCmd"),
        Native("pipenv", "", "pipenv-install", "PipenvCmd"),
        Native("poetry", "", "poetry", "PoetryCmd")}

buildToolsCommands3 ==
  Config({<<"conan-config", "conanc">>, <<"ruby-config", "rubyc">>,
          <<"npm-config", "npmc">>})
  \cup {Native("uv", "", "uv", "UvCmd"), Native("helm", "", "helm", "HelmCmd"),
        Native("conan", "", "conan", "ConanCmd"),
        Native("nix", "", "nix", "NixCmd"),
        Native("apt", "apt-get", "apt", "AptCmd"),
        Native("apk", "", "apk", "ApkCmd"),
        Native("ruby", "", "ruby", "RubyCmd")}

(* npm declares no flags of its own. "hugging-face" refuses any argument and *)
(* shows its help; its subcommands are a namespace below.                    *)
buildToolsCommands4 ==
  Config({<<"pnpm-config", "pnpmc">>, <<"terraform-config", "tfc">>})
  \cup {Native("npm", "", "", "npmGenericCmd"),
        Native("pnpm", "", "pnpm", "pnpmCmd"),
        Native("docker", "", "docker", "dockerCmd"),
        Native("terraform", "tf", "terraform", "terraformCmd"),
        Native("twine", "", "twine", "twineCmd"),
        Cmd("hugging-face", "hf", "hugging-face-upload", "subcommand")}
huggingFaceCommands ==
  {Cmd("upload", "u", "hugging-face-upload", "huggingFaceUploadCmd"),
   Cmd("download", "d", "hugging-face-download", "huggingFaceDownloadCmd")}

(* Shown for `jf docker login --help` and its like; they have no action.     *)
GetBuildToolsHelpCommands ==
  {Cmd(p[1], "", p[2], "none") :
     p \in {<<"dockerloginhelp", "docker-login">>,
            <<"dockerpushhelp", "docker-push">>,
            <<"dockerpullhelp", "docker-pull">>,
            <<"dockerbuildhelp", "docker-build">>,
            <<"npminstallhelp", "npm-install-ci">>,
            <<"npmcihelp", "npm-install-ci">>,
            <<"npmpublishhelp", "npm-publish">>}}

configCommands ==
  {Cmd("add", "", "config-add", "addCmd"),
   Cmd("edit", "", "config-edit", "editCmd"),
   Cmd("show", "s", "config-show", "configShowCmd"),
   Cmd("remove", "rm", "delete-config", "deleteCmd"),
   Cmd("import", "im", "", "importCmd"), Cmd("export", "ex", "", "exportCmd"),
   Cmd("use", "", "", "useCmd")}

missioncontrolCommands ==
  {Cmd("license-acquire", "la", "license-acquire", "licenseAcquire"),
   Cmd("license-deploy", "ld", "license-deploy", "licenseDeploy"),
   Cmd("license-release", "lr", "license-release", "licenseRelease"),
   Cmd("jpd-add", "ja", "jpd-add", "jpdAdd"),
   Cmd("jpd-delete", "jd", "jpd-delete", "jpdDelete")}

(* Wrong: the alias of sync-status is that of sync.                          *)
MutantPipelinesCommands ==
  {Cmd("status", "s", "status", "fetchLatestPipelineRunStatus"),
   Cmd("trigger", "t", "trigger", "triggerNewRun"),
   Cmd("version", "v", "version", "getVersion"),
   Cmd("sync", "sy", "sync", "syncPipelineResources"),
   Cmd("sync-status", "sy", "sync-status", "getSyncPipelineResourcesStatus")}

pipelinesCommands ==
  {Cmd("status", "s", "status", "fetchLatestPipelineRunStatus"),
   Cmd("trigger", "t", "trigger", "triggerNewRun"),
   Cmd("version", "v", "version", "getVersion"),
   Cmd("sync", "sy", "sync", "syncPipelineResources"),
   Cmd("sync-status", "ss", "sync-status", "getSyncPipelineResourcesStatus")}

mcpCommands ==
  {Cmd("show", "", "mcp-show", "mcpShowCmd"),
   Cmd("install", "", "mcp-install", "mcpInstallCmd"),
   Cmd("uninstall", "", "mcp-uninstall", "mcpUninstallCmd")}

pluginsCommands ==
  {Cmd("install", "i", "plugin-install", "installPlugin"),
   Cmd("uninstall", "ui", "", "UninstallCmd"),
   Cmd("publish", "p", "plugin-publish", "publishPlugin")}

(* "install" declares a flag of its own, "packages".                         *)
packagealiasCommands ==
  {Cmd("install", "", "", "aliasInstallCmd"),
   Cmd("uninstall", "", "", "aliasUninstallCmd"),
   Cmd("status", "", "", "aliasStatusCmd")}

completionCommands ==
  {Cmd(shell, "", "completion", "completionCmd") :
     shell \in {"bash", "zsh", "fish"}}

topCommands ==
  {Cmd("intro", "", "intro", "IntroCmd"), Cmd("options", "", "", "options"),
   Cmd("login", "", "login", "LoginCmd"),
   Cmd("access-token-create", "atc", "access-token-create",
       "AccessTokenCreateCmd"),
   Cmd("api", "", "api", "Command"),
   Cmd("exchange-oidc-token", "eot", "exchange-oidc-token",
       "ExchangeOidcTokenCmd"),
   Cmd("generate-summary-markdown", "gsm", "", "FinalizeCommandSummaries"),
   Cmd("stats", "st", "stats", "GetStats")}

apiDocsCommands ==
  {Cmd("search", "", "api-docs-search", "SearchCommand"),
   Cmd("describe", "", "api-docs-describe", "DescribeCommand")}

(* getCommands: the namespaces, under their names and aliases, and at the    *)
(* top the commands that have none. "" is the top.                           *)
Namespaces ==
  {Cmd("rt", "", "", "namespace"), Cmd("mc", "", "", "namespace"),
   Cmd("pl", "", "", "namespace"), Cmd("completion", "", "", "namespace"),
   Cmd("plugin", "", "", "namespace"), Cmd("config", "c", "", "namespace"),
   Cmd("mcp", "", "", "namespace"), Cmd("package-alias", "", "", "namespace")}
buildtoolsCommands ==
  buildToolsCommands1 \cup buildToolsCommands2 \cup buildToolsCommands3
    \cup buildToolsCommands4
getCommands ==
  "" :> (Namespaces \cup topCommands \cup buildtoolsCommands
           \cup GetBuildToolsHelpCommands)
  @@ "rt" :> (artifactoryCommands1 \cup artifactoryCommands2
                \cup artifactoryCommands3 \cup artifactoryCommands4)
  @@ "config" :> configCommands
  @@ "mc" :> missioncontrolCommands
  @@ "pl" :> pipelinesCommands
  @@ "mcp" :> mcpCommands
  @@ "plugin" :> pluginsCommands
  @@ "package-alias" :> packagealiasCommands
  @@ "completion" :> completionCommands
  @@ "api docs" :> apiDocsCommands
  @@ "hugging-face" :> huggingFaceCommands

(* The command the library runs for a word: the first one of that name or    *)
(* alias, so that a second one could never be run.                           *)
Lookup(space, word) ==
  {c \in getCommands[space] : word # "" /\ word \in {c.name, c.alias}}

AllCommands == UNION {getCommands[s] : s \in DOMAIN getCommands}
=============================================================================
