---------------------------- MODULE PluginInstall ----------------------------
(***************************************************************************)
(* jf plugin install and uninstall on one machine, while developers        *)
(* publish (PluginPublish).  The plugin is a directory of the plugins      *)
(* directory:                                                              *)
(*                                                                         *)
(*     plugins/<plugin>                   home                             *)
(*         bin/<plugin executable>        local["exec"]                    *)
(*         resources/                     local["res"]                     *)
(*         resources.zip                  local["zip"], during an install  *)
(*                                                                         *)
(* There is no lock.  Every step is one request or one change of the       *)
(* directory; a process may be killed between any two of them.             *)
(***************************************************************************)
EXTENDS PluginPublish

CONSTANTS
    Installer, Uninstaller, \* the commands on this machine
    Wanted,                 \* the versions installs may ask for
    InstallArc,             \* the architecture of this machine
    Partial,                \* a file or directory that is not complete
    InstallFaults,          \* requests and local changes may fail on their own
    MaxKills                \* bound on the number of killed processes

Process == Installer \cup Uninstaller

ASSUME InstallAssumption ==
    /\ Installer \cap Uninstaller = {}
    /\ Wanted \subseteq Dir
    /\ InstallArc \in Arch
    /\ Partial \notin Publisher \cup {None}
    /\ InstallFaults \in BOOLEAN
    /\ MaxKills \in Nat

VARIABLES
    home,   \* BOOLEAN: the directory of the plugin exists
    local,  \* local[k]: whose build the local file k is, Partial or None
    want,   \* want[i]: the version, or latest, that i was asked for
    step,   \* step[p]: the next step of p
    got,    \* got[i]: the build that i is downloading or unpacking
    alone,  \* alone[i]: no other command ran on this machine since i began
    left    \* left[u]: what RemoveAll has still to remove

ivars == <<home, local, want, step, got, alone, left>>
allVars == <<pvars, ivars>>

Kind == {"exec", "res", "zip"}

Step == {"start", "exec", "fill", "zip", "unpack", "unpacking", "cleanup",
         "wiping", "succeeded", "failed", "killed"}

Final(p) == step[p] \in {"succeeded", "failed", "killed"}

IInit ==
    /\ home = FALSE
    /\ local = [k \in Kind |-> None]
    /\ want \in [Installer -> Wanted]
    /\ step = [p \in Process |-> "start"]
    /\ got = [i \in Installer |-> None]
    /\ alone = [i \in Installer |-> FALSE]
    /\ left = [u \in Uninstaller |-> {}]

At(p, s) == step[p] = s

Go(p, s) == step' = [step EXCEPT ![p] = s]

\* The first step of p disturbs every install but its own.
Begin(p) ==
    alone' = [i \in Installer |->
                i = p /\ \A q \in Process \ {p} : At(q, "start") \/ Final(q)]

Offered(i, kind) == server[<<want[i], InstallArc, kind>>]

\* A step of an install that returns an error and changes nothing else.
Refused(i) == Go(i, "failed") /\ UNCHANGED <<home, local, got>>

Downloading(i) == UNCHANGED <<want, alone, left>>

-----------------------------------------------------------------------------
(* runInstallCmd *)

\* Mutant of ShouldDownload: makes the directory before anything is downloaded.
MutantShouldDownload(i) ==
    /\ At(i, "start")
    /\ Begin(i)
    /\ home' = TRUE
    /\ Go(i, "exec")
    /\ UNCHANGED <<local, got, want, left>>

\* shouldDownloadPlugin: when there is a local directory it asks the server for
\* the details of the *directory* of the version, which has no checksums, so
\* that the local executable is never equal to it.
ShouldDownload(i) ==
    /\ At(i, "start")
    /\ Begin(i)
    /\ \/ /\ home => \E f \in Stored(want[i]) : f[2] = InstallArc
          /\ Go(i, "exec")
       \/ /\ home /\ (InstallFaults \/ ~\E f \in Stored(want[i]) : f[2] = InstallArc)
          /\ Go(i, "failed")
    /\ UNCHANGED <<home, local, got, want, left>>

\* downloadPluginExec: the file is created in place and filled from the response.
OpenExec(i) ==
    /\ At(i, "exec")
    /\ \/ /\ Offered(i, "exec") # None
          /\ home' = TRUE
          /\ local' = [local EXCEPT !["exec"] = Partial]
          /\ got' = [got EXCEPT ![i] = Offered(i, "exec")]
          /\ Go(i, "fill")
       \/ (Offered(i, "exec") = None \/ InstallFaults) /\ Refused(i)
    /\ Downloading(i)

\* Over a file that another install has filled in the meantime, the contents
\* may become a mixture; os.Chmod fails when the file is gone.
FillExec(i) ==
    /\ At(i, "fill")
    /\ \/ /\ local["exec"] # None
          /\ \/ local' = [local EXCEPT !["exec"] = got[i]]
             \/ /\ local["exec"] \notin {Partial, got[i]}
                /\ local' = [local EXCEPT !["exec"] = Partial]
          /\ Go(i, "zip")
          /\ UNCHANGED <<home, got>>
       \/ (local["exec"] = None \/ InstallFaults) /\ Refused(i)
    /\ Downloading(i)

\* Mutant of GetResources: any response but OK means that there are none.
MutantGetResources(i) ==
    /\ At(i, "zip")
    /\ \/ /\ Offered(i, "res") # None
          /\ home' = TRUE
          /\ local' = [local EXCEPT !["zip"] = Offered(i, "res")]
          /\ Go(i, "unpack")
       \/ /\ Offered(i, "res") = None \/ InstallFaults
          /\ Go(i, "succeeded")
          /\ UNCHANGED <<home, local>>
    /\ UNCHANGED got
    /\ Downloading(i)

\* downloadPluginsResources: "not found" means that the plugin has none.  The
\* download is one step: nothing but another install's Unpack reads the archive.
GetResources(i) ==
    /\ At(i, "zip")
    /\ \/ /\ Offered(i, "res") # None
          /\ home' = TRUE
          /\ local' = [local EXCEPT !["zip"] = Offered(i, "res")]
          /\ Go(i, "unpack")
          /\ UNCHANGED got
       \/ /\ Offered(i, "res") = None
          /\ Go(i, "succeeded")
          /\ UNCHANGED <<home, local, got>>
       \/ InstallFaults /\ Refused(i)
    /\ Downloading(i)

\* archiver.Unarchive fails when the archive is gone, and does not overwrite a
\* file that is there: the builds of a plugin have such a file in common.
Unpack(i) ==
    /\ At(i, "unpack")
    /\ \/ /\ local["zip"] # None /\ local["res"] = None
          /\ local' = [local EXCEPT !["res"] = Partial]
          /\ got' = [got EXCEPT ![i] = local["zip"]]
          /\ Go(i, "unpacking")
          /\ UNCHANGED home
       \/ /\ local["zip"] = None \/ local["res"] # None \/ InstallFaults
          /\ Refused(i)
    /\ Downloading(i)

\* The rest is unpacked: it is incomplete if the directory was removed under it.
Unpacked(i) ==
    /\ At(i, "unpacking")
    /\ \/ /\ home' = TRUE
          /\ local' = [local EXCEPT !["res"] = IF @ = None THEN Partial ELSE got[i]]
          /\ Go(i, "cleanup")
          /\ UNCHANGED got
       \/ InstallFaults /\ Refused(i)
    /\ Downloading(i)

RemoveZip(i) ==
    /\ At(i, "cleanup")
    /\ \/ /\ local["zip"] # None
          /\ local' = [local EXCEPT !["zip"] = None]
          /\ \/ Go(i, "succeeded")
             \/ InstallFaults /\ Go(i, "failed")
          /\ UNCHANGED <<home, got>>
       \/ (local["zip"] = None \/ InstallFaults) /\ Refused(i)
    /\ Downloading(i)

Install(i) ==
    \/ ShouldDownload(i) \/ OpenExec(i) \/ FillExec(i) \/ GetResources(i)
    \/ Unpack(i) \/ Unpacked(i) \/ RemoveZip(i)

-----------------------------------------------------------------------------
(* runUninstallCmd *)

\* The directory must exist; without CI the user is asked and may say no.
Confirm(u) ==
    /\ At(u, "start")
    /\ \/ /\ home
          /\ left' = [left EXCEPT ![u] = {k \in Kind : local[k] # None}]
          /\ Go(u, "wiping")
       \/ home /\ Go(u, "succeeded") /\ UNCHANGED left
       \/ ~home /\ Go(u, "failed") /\ UNCHANGED left
    /\ Begin(u)
    /\ UNCHANGED <<home, local, want, got>>

\* os.RemoveAll removes what it listed, then the directory if it is empty.
WipeFile(u) ==
    /\ At(u, "wiping")
    /\ \E k \in left[u] :
          /\ left' = [left EXCEPT ![u] = @ \ {k}]
          /\ local' = [local EXCEPT ![k] = None]
    /\ UNCHANGED <<home, want, step, got, alone>>

\* Mutant of WipeDir: the directory goes although there is a file again.
MutantWipeDir(u) ==
    /\ At(u, "wiping") /\ left[u] = {}
    /\ home' = FALSE
    /\ Go(u, "succeeded")
    /\ UNCHANGED <<local, want, got, alone, left>>

WipeDir(u) ==
    /\ At(u, "wiping") /\ left[u] = {}
    /\ home' = \E k \in Kind : local[k] # None
    /\ Go(u, IF home' THEN "failed" ELSE "succeeded")
    /\ UNCHANGED <<local, want, got, alone, left>>

Uninstall(u) == Confirm(u) \/ WipeFile(u) \/ WipeDir(u)

-----------------------------------------------------------------------------
Kill(p) ==
    /\ ~Final(p) /\ ~At(p, "start")
    /\ Cardinality({q \in Process : At(q, "killed")}) < MaxKills
    /\ Go(p, "killed")
    /\ UNCHANGED <<home, local, want, got, alone, left>>

AllDone == (\A p \in Process : Final(p)) /\ UNCHANGED ivars

INext ==
    \/ PNext /\ UNCHANGED ivars
    \/ /\ \/ \E i \in Installer : Install(i)
          \/ \E u \in Uninstaller : Uninstall(u)
          \/ \E p \in Process : Kill(p)
          \/ AllDone
       /\ UNCHANGED pvars

ISpec == PInit /\ IInit /\ [][INext]_allVars

-----------------------------------------------------------------------------
(* Everything has its type; what has been downloaded is a build, and the    *)
(* directory exists while there is anything in it, although commands make  *)
(* and remove it at the same time.                                         *)
ITypeOK ==
    /\ home \in BOOLEAN
    /\ local \in [Kind -> Publisher \cup {None, Partial}]
    /\ want \in [Installer -> Wanted]
    /\ step \in [Process -> Step]
    /\ got \in [Installer -> Publisher \cup {None}]
    /\ alone \in [Installer -> BOOLEAN]
    /\ left \in [Uninstaller -> SUBSET Kind]
    /\ \A i \in Installer : step[i] \in {"fill", "unpacking"} => got[i] \in Publisher
    /\ \A k \in Kind : local[k] # None => home

(* An install that no other command of this machine disturbed succeeds     *)
(* only with the executable of a build of the version and, if that build   *)
(* has resources, with its resources, whatever killed and failed installs  *)
(* left there and although the publisher may be at work: it uploads the    *)
(* resources first and the install downloads them last.                    *)
InstallIsWhole ==
    \A i \in Installer :
        At(i, "succeeded") /\ alone[i] /\ want[i] \in Version /\ OneBuildPerVersion =>
            /\ local["exec"] \in Publisher
            /\ request[local["exec"]].version = want[i]
            /\ request[local["exec"]].resources => local["res"] = local["exec"]
=============================================================================
