--------------------------- MODULE NativeHandlers ---------------------------
(* The handlers of the commands that get their arguments as they were typed  *)
(* (SkipFlagParsing), each as the sequence of its steps. What a step does is *)
(* in NativeRun; it runs only                                                *)
(*   only, but   for these commands of the tool, or for all but these        *)
(*   modes       "native" without a jf project configuration, "config" with  *)
(*               one, "none" with neither                                    *)
EXTENDS Sequences

ToolModes == {"native", "config", "none"}

Do(do, flags) ==
  [do |-> do, flags |-> flags, only |-> {}, but |-> {}, modes |-> ToolModes]
On(commands, steps) ==
  [i \in DOMAIN steps |-> [steps[i] EXCEPT !.only = commands]]
NotOn(commands, steps) ==
  [i \in DOMAIN steps |-> [steps[i] EXCEPT !.but = commands]]
In(modes, steps) == [i \in DOMAIN steps |-> [steps[i] EXCEPT !.modes = modes]]

ShowHelp == Do("help", {})
ShowAnyHelp == Do("any help", {})
Args == Do("args", {})
Values(flags) == Do("values", flags)
Bools(flags) == Do("bools", flags)
Load == Do("load", {})
Command == Do("command", {})
Run == Do("run", {})
(* getProjectConfigPathOrThrow: without a configuration the handler fails.   *)
Config == Do("config", {"config"})
ConfigOrNative == Do("config", {"config", "native"})

BuildFlags == {"build-name", "build-number", "project", "module"}

(* Flags of jf that have no value when they are typed.                       *)
BoolFlags == {"insecure-tls", "detailed-summary", "scan", "skip-login",
              "validate-sha", "allow-insecure-connections", "trusted",
              "run-native"}

(* --format makes sense with --scan only.                                    *)
FormatNeedsScan == Do("needs scan", {"format"})
runMvn ==
  <<ShowHelp>> \o In({"native"}, <<Values(BuildFlags), Load, Run>>)
    \o <<Config, Args, Bools({"insecure-tls"}), Values(BuildFlags),
         Values({"threads"}), Load, Bools({"detailed-summary", "scan"}),
         Values({"format"}), FormatNeedsScan, Load, Run>>
GradleCmd ==
  <<ShowHelp>>
    \o In({"native"},
          <<Args, Values({"server-id"}), Load, Values(BuildFlags), Run>>)
    \o <<Config, Args, Values(BuildFlags), Values({"threads"}), Load,
         Bools({"detailed-summary", "scan"}), Values({"format"}),
         FormatNeedsScan, Load, Run>>
YarnCmd == <<ShowHelp, ConfigOrNative, Run>>
pnpmCmd ==
  <<ShowHelp, Args, Command, Values({"server-id"}), Load, Values(BuildFlags),
    Run>>
(* The basic command is the head of what is left of the arguments.           *)
NugetCmd ==
  <<ShowHelp, Args, Config, Load, Values(BuildFlags),
    Bools({"allow-insecure-connections"}), Do("head", {}), Run>>
DotnetCmd == NugetCmd
GoCmd == <<ShowHelp, Args, Config, Run>>

(* docker: the command and the image are the first two words; both stay in   *)
(* the arguments. A build logs in first, and needs an image tag.             *)
extractDockerOptionsFromArgs ==
  <<Values({"server-id"}), Load, Values({"threads"}),
    Bools({"detailed-summary", "skip-login", "validate-sha"}),
    Values(BuildFlags)>>
pullCmd == <<ShowAnyHelp>> \o extractDockerOptionsFromArgs \o <<Load, Run>>
pushCmd ==
  <<ShowAnyHelp, ShowHelp>> \o extractDockerOptionsFromArgs \o <<Load, Run>>
loginCmd == <<ShowAnyHelp>> \o extractDockerOptionsFromArgs \o <<Load, Run>>
buildCmd == <<ShowAnyHelp>> \o extractDockerOptionsFromArgs \o <<Load, Run>>
dockerScanCmd == <<ShowAnyHelp, Load, Run>>
dockerNativeCmd == <<ShowHelp>> \o extractDockerOptionsFromArgs \o <<Run>>
dockerCmd ==
  <<Do("image", {})>>
    \o On({"pull"}, pullCmd) \o On({"push"}, pushCmd)
    \o On({"login"}, loginCmd) \o On({"scan"}, dockerScanCmd)
    \o On({"build", "buildx build"}, buildCmd)
    \o NotOn({"pull", "push", "login", "scan", "build", "buildx build"},
             dockerNativeCmd)

(* The first word is dropped as the command, also by the deprecated commands *)
(* whose name says it already.                                               *)
GetNpmConfigAndArgs ==
  <<Do("drop", {}), Bools({"run-native"}), ConfigOrNative>>
NpmPublishCmd == <<ShowAnyHelp>> \o GetNpmConfigAndArgs \o <<Load, Run>>
npmGenericCmd ==
  <<ShowHelp, Do("name", {})>> \o On({"publish", "p"}, NpmPublishCmd)
    \o NotOn({"publish", "p"}, GetNpmConfigAndArgs \o <<Load, Run>>)
NpmInstallCmd ==
  <<ShowAnyHelp, ShowHelp>> \o GetNpmConfigAndArgs \o <<Load, Run>>
NpmCiCmd == NpmInstallCmd

(* Only poetry has a native mode; that the server of it cannot be loaded is  *)
(* logged.                                                                   *)
pythonCmd == <<ShowHelp, Args, Config, Load, Command, Run>>
PipCmd == pythonCmd
PipenvCmd == pythonCmd
PoetryCmd ==
  <<ShowHelp, Args>>
    \o In({"native"},
          <<Values({"server-id"}), Values(BuildFlags), Command, Run>>)
    \o <<Config, Load, Command, Run>>
pipDeprecatedInstallCmd == <<ShowHelp, Args, Config, Load, Run>>
twineCmd == <<ShowHelp, Config, Load, Command, Run>>
terraformCmd ==
  <<ShowHelp, Config, Command>> \o NotOn({"publish", "p"}, <<Do("refuse", {})>>)
    \o <<Load, Run>>

UvCmd ==
  <<ShowHelp, Args, Values(BuildFlags), Values({"server-id"}), Command, Run>>
(* --repository-cache is only taken when it has a value.                     *)
HelmCmd ==
  <<ShowHelp, Args, Command, Values(BuildFlags), Values({"server-id"}), Load,
    Do("lenient", {"repository-cache"}), Run>>
ConanCmd ==
  <<ShowHelp, Args, Values({"server-id"}), Load, Values(BuildFlags), Command,
    Run>>
NixCmd ==
  <<ShowHelp, Args, Command, Values({"server-id"}), Values(BuildFlags), Run>>
(* --repo takes whatever follows; at the end it is left to the tool.         *)
RubyCmd ==
  <<ShowHelp, Args, Command, Values({"server-id"}), Do("greedy", {"repo"}),
    Values(BuildFlags), Run>>
AptCmd ==
  <<ShowHelp, Args, Values({"server-id"}), Bools({"skip-login"}),
    Values({"repo", "dist", "component"}), Bools({"trusted"}),
    Values(BuildFlags), Load, Run>>
apkUploadSubCmd ==
  <<Values(BuildFlags), Values({"branch", "arch"}), Do("single", {}), Run>>
ApkCmd ==
  <<ShowHelp, Args, Command>> \o On({"help"}, <<Do("show", {})>>)
    \o On({"upload", "u"}, <<ShowAnyHelp>>)
    \o <<Values({"server-id"}),
         Values({"repo", "alpine-version", "user", "password"}), Load>>
    \o On({"upload", "u"}, apkUploadSubCmd) \o <<Values(BuildFlags), Run>>

NativeHandlers ==
  [MvnCmd |-> runMvn, MvnwCmd |-> runMvn, GradleCmd |-> GradleCmd,
   YarnCmd |-> YarnCmd, pnpmCmd |-> pnpmCmd, NugetCmd |-> NugetCmd,
   DotnetCmd |-> DotnetCmd, GoCmd |-> GoCmd, dockerCmd |-> dockerCmd,
   npmGenericCmd |-> npmGenericCmd, NpmPublishCmd |-> NpmPublishCmd,
   NpmInstallCmd |-> NpmInstallCmd, NpmCiCmd |-> NpmCiCmd,
   PipCmd |-> PipCmd, PipenvCmd |-> PipenvCmd, PoetryCmd |-> PoetryCmd,
   pipDeprecatedInstallCmd |-> pipDeprecatedInstallCmd,
   twineCmd |-> twineCmd, terraformCmd |-> terraformCmd, UvCmd |-> UvCmd,
   HelmCmd |-> HelmCmd, ConanCmd |-> ConanCmd, NixCmd |-> NixCmd,
   RubyCmd |-> RubyCmd, AptCmd |-> AptCmd, ApkCmd |-> ApkCmd]
=============================================================================
