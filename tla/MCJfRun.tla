------------------------------ MODULE MCJfRun ------------------------------
(* Every command of jf, with lines that have up to two flags besides those   *)
(* that its handler needs and, where the tool's arguments are passed on, up  *)
(* to three items in any order.                                              *)
EXTENDS JfRun

Parsed == INSTANCE CliHandlers
Wrapped == INSTANCE NativeHandlers

MCCommands == {c \in AllCommands : ~c.skip /\ ~ShowsItsHelp(c)}
MCSteps == [c \in MCCommands |-> Parsed!Handlers[c.action]]
(* Flags of a server that are only read together with url.                   *)
Alike(c) ==
  Parsed!ServerFlags
    \ ({"url", "server-id", "access-token", "access-token-stdin"}
         \cup UNION {MCSteps[c][i].flags : i \in {j \in DOMAIN MCSteps[c] :
                     MCSteps[c][j].do \notin {"server", "offer"}}})
MCDeclared ==
  [c \in MCCommands |->
     IF c.action = "aliasInstallCmd" THEN {"packages"}
     ELSE NamesOf(c.key) \ Alike(c)]
MCNArgs == Parsed!ArgCounts
MCWords == Parsed!Words

MCActsFirst ==
  {c \in MCCommands :
     c.action \in {"transferConfigMergeCmd", "AccessTokenCreateCmd"}}
MCPrintsFew ==
  {c \in MCCommands :
     c.action \in
       {"ExchangeOidcTokenCmd", "transferFilesCmd", "jpdAdd", "licenseAcquire",
        "licenseDeploy", "fetchLatestPipelineRunStatus",
        "getSyncPipelineResourcesStatus"}}

(* Flags without an effect. transfer-files with --status or --stop does only *)
(* that; setup has flags for apt alone, and removes and needs a server only  *)
(* in one of its branches.                                                   *)
Ignored(action) ==
  CASE action = "userCreateCmd" -> {"admin"}
    [] action = "ExchangeOidcTokenCmd" -> {"oidc-provider-name", "repository"}
    [] action = "GoPublishCmd" -> {"url", "access-token"}
    [] action = "transferFilesCmd" ->
         {"created-after", "downloaded-after", "exclude-repos", "filestore",
          "format", "ignore-state", "include-files", "include-repos",
          "prechecks", "proxy-key"}
    [] action = "setupCmd" ->
         {"remove", "dist", "component", "trusted", "import-key", "project",
          "url", "server-id", "access-token", "ssh-key-path"}
    [] OTHER -> {}
MCIgnores == [c \in MCCommands |-> Ignored(c.action)]
MCUnchecked ==
  [c \in MCCommands |->
     IF c.action \in {"mcpShowCmd", "GetStats", "transferFilesCmd"}
     THEN {"format"} ELSE {}]
MCUndeclared ==
  [c \in MCCommands |->
     CASE c.action = "huggingFaceDownloadCmd" -> {"etag-timeout"}
       [] c.action \in {"addCmd", "editCmd"} ->
            Parsed!createOidcParamsFromFlags
       [] c.action = "CreateConfigCmd" -> Parsed!configFlags
       [] OTHER -> {}]

MCTools == {c \in AllCommands : c.skip}
MCToolSteps == [c \in MCTools |-> Wrapped!NativeHandlers[c.action]]
Extracted(c) ==
  UNION {MCToolSteps[c][i].flags : i \in {j \in DOMAIN MCToolSteps[c] :
    MCToolSteps[c][j].do \in {"values", "bools", "lenient", "greedy"}}}
(* npm declares no flags; it has those of npm-install.                       *)
MCPromised ==
  [c \in MCTools |->
     Extracted(c) \cup NamesOf(IF c.name = "npm" THEN "npm-install-ci" ELSE c.key)]
MCSwitches == Wrapped!BoolFlags
MCModes == Wrapped!ToolModes

(* Of the flags that one step takes away, one stands for all.                *)
Samples(c) ==
  MCPromised[c] \cap
    {"build-name", "server-id", "repo", "repository-cache", "arch", "scan",
     "format", "detailed-summary", "allow-insecure-connections",
     "skip-login", "run-native"}
CommandWords(c) ==
  CASE c.action = "dockerCmd" ->
         {"pull", "push", "login", "scan", "build", "buildx"}
    [] c.action = "ApkCmd" -> {"upload", "u", "help", "add"}
    [] c.action \in {"npmGenericCmd", "terraformCmd", "pnpmCmd", "PoetryCmd"} ->
         {"publish", "install"}
    [] OTHER -> {"install"}
Items(c, f) ==
  {<<Word(w)>> : w \in CommandWords(c) \cup {"x"}}
  \cup {<<ToolFlag("q")>>, <<HelpFlag>>, <<Joined(f)>>, <<Flag(f)>>,
        <<Flag(f), Word("v")>>}
Pairs(items) == {<<>>} \cup items \cup {a \o b : a, b \in items}
Triples(items) == {a \o b \o d : a, b, d \in items}
Once(l, f) == Cardinality({i \in DOMAIN l : Owns(l[i], {f})}) <= 1
(* Two items, with two flags of jf, or three with the one that most tools    *)
(* share.                                                                    *)
MCTyped ==
  [c \in MCTools |->
     {l \in Triples(Items(c, "build-name")) : Once(l, "build-name")}
       \cup UNION {{l \in Pairs(Items(c, f) \cup Items(c, "build-name")) :
                       Once(l, f) /\ Once(l, "build-name")} :
                     f \in Samples(c) \cup {"build-name"}}]

MCArgNames ==
  RubyTools \cup
    UNION {{l[i].name : i \in DOMAIN l} :
             l \in UNION {MCTyped[c] : c \in MCTools}}

Tooled(actions) == {c \in MCTools : c.action \in actions}
MCSplitsFirst ==
  Tooled({"pnpmCmd", "HelmCmd", "NixCmd", "RubyCmd", "ApkCmd", "dockerCmd",
          "npmGenericCmd", "PipCmd", "PipenvCmd", "PoetryCmd", "twineCmd",
          "terraformCmd"})
(* jf rt npm-install <package> installs what package.json says.              *)
MCDropsAWord == Tooled({"NpmInstallCmd", "NpmCiCmd", "NpmPublishCmd"})

(* Their arguments go on whole to a command object of another module.        *)
Whole ==
  Tooled({"YarnCmd", "GoCmd", "PipCmd", "PipenvCmd", "pipDeprecatedInstallCmd",
          "twineCmd", "terraformCmd", "npmGenericCmd", "NpmInstallCmd",
          "NpmCiCmd", "NpmPublishCmd"})
(* Only jf docker scan takes them; helm has a --username and a --password.   *)
DockerScanFlags ==
  {"fail", "min-severity", "watches", "repo-path", "fixable-only",
   "extended-table", "licenses", "vuln", "bypass-archive-limits", "format"}
MCLeaves(t, m, c) ==
  CASE t \in Whole -> MCPromised[t] \ {"run-native"}
    [] t.action = "PoetryCmd" /\ m = "config" -> MCPromised[t]
    [] t.action \in {"MvnCmd", "MvnwCmd"} /\ m = "native" ->
         MCPromised[t] \ Wrapped!BuildFlags
    [] t.action = "GradleCmd" /\ m = "native" ->
         MCPromised[t] \ (Wrapped!BuildFlags \cup {"server-id"})
    [] t.action = "GradleCmd" -> {"server-id"}
    [] t.action = "dockerCmd" /\ c = "scan" -> MCPromised[t]
    [] t.action = "dockerCmd" -> DockerScanFlags
    [] t.action = "HelmCmd" -> {"username", "password"}
    [] t.action = "ApkCmd" /\ c \notin {"upload", "u"} -> {"branch", "arch"}
    [] OTHER -> {}
=============================================================================
