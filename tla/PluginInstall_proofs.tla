------------------------ MODULE PluginInstall_proofs ------------------------
(***************************************************************************)
(* Theorems about PluginInstall and PluginStart, for all publishers,       *)
(* versions, commands on the machine, runs of jf, faults and kills.        *)
(*                                                                         *)
(* The inductive invariant follows an install that nothing on its machine  *)
(* disturbs: what it has so far is of the only build of the version        *)
(* (WholeSoFar), because files of a version never leave the server and are *)
(* all of that build.                                                      *)
(***************************************************************************)
EXTENDS PluginStart, PluginPublish_proofs

Types ==
    /\ ITypeOK
    /\ local["zip"] # Partial

\* Nothing else is under way.
Undisturbed(i) ==
    /\ ~At(i, "start")
    /\ \A q \in Process \ {i} : At(q, "start") \/ Final(q)

\* The executable that i has installed is of the version, which is there.
HasExec(i) ==
    /\ local["exec"] \in Publisher
    /\ request[local["exec"]].version = want[i]
    /\ Offered(i, "exec") # None

WholeSoFar(i) ==
    /\ At(i, "fill") => /\ request[got[i]].version = want[i]
                        /\ local["exec"] = Partial
                        /\ Offered(i, "exec") # None
    /\ step[i] \in {"zip", "unpack", "unpacking", "cleanup", "succeeded"} =>
          HasExec(i)
    /\ At(i, "unpack") => local["zip"] = local["exec"]
    /\ At(i, "unpacking") => got[i] = local["exec"] /\ local["res"] # None
    /\ At(i, "cleanup") => local["res"] = local["exec"]
    /\ At(i, "succeeded") /\ request[local["exec"]].resources =>
          local["res"] = local["exec"]

Concerned(i) == alone[i] /\ want[i] \in Version /\ OneBuildPerVersion

InstallInv ==
    /\ Inv
    /\ Types
    /\ \A i \in Installer : alone[i] => Undisturbed(i)
    /\ \A i \in Installer : Concerned(i) => WholeSoFar(i)

-----------------------------------------------------------------------------
(* Types *)

(* What the server offers is a file of a publisher, or none.               *)
LEMMA Offers ==
    ASSUME Inv, Types, NEW i \in Installer, NEW kind \in {"exec", "res"}
    PROVE  /\ <<want[i], InstallArc, kind>> \in File
           /\ Offered(i, kind) \in Publisher \cup {None}
           /\ None \notin Publisher /\ Partial \notin Publisher \cup {None}
  <1>1. want[i] \in Dir
    BY InstallAssumption DEF Types, ITypeOK
  <1>2. <<want[i], InstallArc, kind>> \in File
    BY <1>1, InstallAssumption, Files
  <1> QED
    BY <1>2, InstallAssumption, PublishAssumption DEF Offered, Inv, PTypeOK

\* The parts of Types: the directory, what installs download, the rest.
LocalOK ==
    /\ home \in BOOLEAN
    /\ local \in [Kind -> Publisher \cup {None, Partial}]
    /\ local["zip"] # Partial
    /\ \A k \in Kind : local[k] # None => home

GotOK ==
    /\ step \in [Process -> Step]
    /\ got \in [Installer -> Publisher \cup {None}]
    /\ \A i \in Installer : step[i] \in {"fill", "unpacking"} => got[i] \in Publisher

RestOK ==
    /\ want \in [Installer -> Wanted]
    /\ alone \in [Installer -> BOOLEAN]
    /\ left \in [Uninstaller -> SUBSET Kind]

LEMMA TypeParts == Types <=> LocalOK /\ GotOK /\ RestOK
  BY DEF Types, ITypeOK, LocalOK, GotOK, RestOK

(* A process that goes to a step that needs no build.                      *)
LEMMA GoKeeps ==
    ASSUME GotOK, NEW p \in Process, NEW s \in Step \ {"fill", "unpacking"},
           Go(p, s), UNCHANGED got
    PROVE  GotOK'
  BY DEF GotOK, Go

(* An install that goes to one that does.                                  *)
LEMMA GetKeeps ==
    ASSUME GotOK, NEW i \in Installer, NEW b \in Publisher,
           NEW s \in {"fill", "unpacking"}, Go(i, s),
           got' = [got EXCEPT ![i] = b]
    PROVE  GotOK'
  <1>1. i \in Process /\ s \in Step
    BY DEF Process, Step
  <1> QED
    BY <1>1 DEF GotOK, Go

LEMMA PutKeeps ==
    ASSUME LocalOK, NEW k \in Kind, NEW b \in Publisher \cup {None, Partial},
           local' = [local EXCEPT ![k] = b], k = "zip" => b # Partial,
           home' = TRUE \/ (home' = home /\ (b # None => home))
    PROVE  LocalOK'
  BY DEF LocalOK, Kind

LEMMA BeginKeeps ==
    ASSUME RestOK, NEW p \in Process, Begin(p), UNCHANGED <<want, left>>
    PROVE  RestOK'
  BY DEF RestOK, Begin

LEMMA InstallTypes ==
    ASSUME Inv, Types, NEW i \in Installer, Install(i)
    PROVE  Types'
  <1>0. /\ i \in Process /\ LocalOK /\ GotOK /\ RestOK
        /\ {"exec", "fill", "zip", "unpack", "unpacking", "cleanup", "succeeded",
             "failed"} \subseteq Step
        /\ {"exec", "zip", "res"} \subseteq Kind
    BY TypeParts DEF Process, Step, Kind
  <1>1. CASE Refused(i) /\ Downloading(i)
    <2>1. GotOK'
      BY <1>0, <1>1, GoKeeps DEF Refused
    <2>2. LocalOK' /\ RestOK'
      BY <1>0, <1>1 DEF Refused, Downloading, LocalOK, RestOK
    <2> QED
      BY <2>1, <2>2
         DEF Types, ITypeOK, LocalOK, GotOK, RestOK
  <1>2. CASE ShouldDownload(i)
    <2>1. GotOK'
      BY <1>0, <1>2, GoKeeps DEF ShouldDownload
    <2>2. LocalOK'
      BY <1>0, <1>2 DEF ShouldDownload, LocalOK
    <2>3. RestOK'
      BY <1>0, <1>2, BeginKeeps DEF ShouldDownload
    <2> QED
      BY <2>1, <2>2, <2>3
         DEF Types, ITypeOK, LocalOK, GotOK, RestOK
  <1>3. CASE Downloading(i) /\ LocalOK' /\ GotOK'
    BY <1>0, <1>3
       DEF Downloading, Types, ITypeOK, LocalOK, GotOK, RestOK
  <1>4. CASE OpenExec(i) /\ ~Refused(i)
    <2>1. Offered(i, "exec") \in Publisher
      BY <1>4, Offers DEF OpenExec
    <2>2. GotOK' /\ LocalOK'
      BY <1>0, <1>4, <2>1, GetKeeps, PutKeeps DEF OpenExec
    <2> QED
      BY <1>3, <1>4, <2>2 DEF OpenExec
  <1>5. CASE FillExec(i) /\ ~Refused(i)
    <2>1. got[i] \in Publisher
      BY <1>0, <1>5 DEF FillExec, At, GotOK
    <2>2. home
      BY <1>0, <1>5 DEF FillExec, LocalOK
    <2>3. GotOK'
      BY <1>0, <1>5, GoKeeps DEF FillExec
    <2>4. LocalOK'
      BY <1>0, <1>5, <2>1, <2>2, PutKeeps DEF FillExec
    <2> QED
      BY <1>3, <1>5, <2>3, <2>4 DEF FillExec
  <1>6. CASE GetResources(i) /\ ~Refused(i)
    <2>1. GotOK'
      BY <1>0, <1>6, GoKeeps DEF GetResources
    <2>2. CASE UNCHANGED <<home, local>>
      BY <1>0, <1>3, <1>6, <2>1, <2>2 DEF GetResources, LocalOK
    <2>3. CASE home' = TRUE /\ local' = [local EXCEPT !["zip"] = Offered(i, "res")]
      <3>1. /\ Offered(i, "res") \in Publisher \cup {None, Partial}
            /\ Offered(i, "res") # Partial
        BY Offers
      <3>2. LocalOK'
        BY <1>0, <2>3, <3>1, PutKeeps
      <3> QED
        BY <1>3, <1>6, <2>1, <3>2 DEF GetResources
    <2> QED
      BY <1>6, <2>2, <2>3 DEF GetResources
  <1>7. CASE Unpack(i) /\ ~Refused(i)
    <2>1. local["zip"] \in Publisher /\ home
      BY <1>0, <1>7 DEF Unpack, LocalOK
    <2>2. GotOK' /\ LocalOK'
      BY <1>0, <1>7, <2>1, GetKeeps, PutKeeps DEF Unpack
    <2> QED
      BY <1>3, <1>7, <2>2 DEF Unpack
  <1>8. CASE Unpacked(i) /\ ~Refused(i)
    <2>1. got[i] \in Publisher
      BY <1>0, <1>8 DEF Unpacked, At, GotOK
    <2>2. GotOK'
      BY <1>0, <1>8, GoKeeps DEF Unpacked
    <2>3. LocalOK'
      BY <1>0, <1>8, <2>1, PutKeeps DEF Unpacked
    <2> QED
      BY <1>3, <1>8, <2>2, <2>3 DEF Unpacked
  <1>9. CASE RemoveZip(i) /\ ~Refused(i)
    <2>1. GotOK'
      BY <1>0, <1>9, GoKeeps DEF RemoveZip
    <2>2. None # Partial
      BY InstallAssumption
    <2>3. LocalOK'
      BY <1>0, <1>9, <2>2, PutKeeps DEF RemoveZip
    <2> QED
      BY <1>3, <1>9, <2>1, <2>3 DEF RemoveZip
  <1> QED
    BY <1>1, <1>2, <1>4, <1>5, <1>6, <1>7, <1>8, <1>9
       DEF Install, OpenExec, FillExec, GetResources, Unpack, Unpacked, RemoveZip

LEMMA UninstallTypes ==
    ASSUME Types, NEW u \in Uninstaller, Uninstall(u)
    PROVE  Types'
  <1>0. /\ u \in Process /\ LocalOK /\ GotOK /\ RestOK /\ None # Partial
        /\ {"wiping", "succeeded", "failed"} \subseteq Step
    BY TypeParts, InstallAssumption DEF Process, Step
  <1>1. CASE Confirm(u)
    <2>1. GotOK'
      BY <1>0, <1>1, GoKeeps DEF Confirm
    <2>2. LocalOK'
      BY <1>0, <1>1 DEF Confirm, LocalOK
    <2>3. RestOK'
      BY <1>0, <1>1 DEF Confirm, Begin, RestOK
    <2> QED
      BY <2>1, <2>2, <2>3
         DEF Types, ITypeOK, LocalOK, GotOK, RestOK
  <1>2. CASE WipeFile(u)
    <2>1. PICK k \in left[u] : /\ left' = [left EXCEPT ![u] = @ \ {k}]
                               /\ local' = [local EXCEPT ![k] = None]
      BY <1>2 DEF WipeFile
    <2>2. RestOK' /\ k \in Kind
      BY <1>0, <1>2, <2>1 DEF WipeFile, RestOK
    <2>3. LocalOK'
      BY <1>0, <1>2, <2>1, <2>2, PutKeeps DEF WipeFile
    <2>4. GotOK'
      BY <1>0, <1>2 DEF WipeFile, GotOK
    <2> QED
      BY <2>2, <2>3, <2>4
         DEF Types, ITypeOK, LocalOK, GotOK, RestOK
  <1>3. CASE WipeDir(u)
    <2>1. GotOK'
      BY <1>0, <1>3, GoKeeps DEF WipeDir
    <2>2. LocalOK'
      BY <1>0, <1>3 DEF WipeDir, LocalOK
    <2>3. RestOK'
      BY <1>0, <1>3 DEF WipeDir, RestOK
    <2> QED
      BY <2>1, <2>2, <2>3
         DEF Types, ITypeOK, LocalOK, GotOK, RestOK
  <1> QED
    BY <1>1, <1>2, <1>3 DEF Uninstall

LEMMA KillTypes ==
    ASSUME Types, NEW p \in Process, Kill(p)
    PROVE  Types'
  BY DEF Types, ITypeOK, Kill, Go, Step

-----------------------------------------------------------------------------
(* Undisturbed installs *)

(* A process takes steps of its own only, from a step that is not the last *)
(* one, and its first disturbs all installs but its own.                   *)
LEMMA StepOfOne ==
    ASSUME Types, NEW p \in Process,
           \/ p \in Installer /\ Install(p)
           \/ p \in Uninstaller /\ Uninstall(p)
           \/ Kill(p)
    PROVE  /\ \A q \in Process \ {p} : step'[q] = step[q]
           /\ ~Final(p) /\ step'[p] # "start"
           /\ \/ At(p, "start") /\ Begin(p)
              \/ ~At(p, "start") /\ UNCHANGED alone
           /\ UNCHANGED want
  <1> USE DEF Types, ITypeOK, At, Go, Final, Step
  <1>1. CASE p \in Installer /\ Install(p)
    BY <1>1 DEF Install, ShouldDownload, OpenExec, FillExec, GetResources,
                Unpack, Unpacked, RemoveZip, Refused, Downloading
  <1>2. CASE p \in Uninstaller /\ Uninstall(p)
    BY <1>2 DEF Uninstall, Confirm, WipeFile, WipeDir
  <1>3. CASE Kill(p)
    BY <1>3 DEF Kill
  <1> QED
    BY <1>1, <1>2, <1>3

LEMMA UndisturbedStays ==
    ASSUME Types, NEW p \in Process,
           \/ p \in Installer /\ Install(p)
           \/ p \in Uninstaller /\ Uninstall(p)
           \/ Kill(p),
           \A i \in Installer : alone[i] => Undisturbed(i),
           NEW i \in Installer, alone'[i]
    PROVE  Undisturbed(i)' /\ i = p
  <1>1. i \in Process /\ i \notin Uninstaller
    BY InstallAssumption DEF Process
  <1>2. CASE At(p, "start")
    <2>1. i = p /\ \A q \in Process \ {p} : At(q, "start") \/ Final(q)
      BY <1>2, StepOfOne DEF Begin
    <2> QED
      BY <2>1, StepOfOne DEF Undisturbed, At, Final
  <1>3. CASE ~At(p, "start")
    <2>1. alone[i] /\ Undisturbed(i)
      BY <1>3, StepOfOne
    <2>2. i = p
      BY <1>1, <1>3, <2>1, StepOfOne DEF Undisturbed
    <2> QED
      BY <1>1, <2>1, <2>2, StepOfOne DEF Undisturbed, At, Final
  <1> QED
    BY <1>2, <1>3

(* All files of a version are of the only build of it.                     *)
LEMMA OneBuild ==
    ASSUME Inv, Types, OneBuildPerVersion, NEW i \in Installer,
           want[i] \in Version, NEW kind \in {"exec", "res"},
           Offered(i, kind) # None
    PROVE  /\ Offered(i, kind) \in Publisher
           /\ request[Offered(i, kind)].version = want[i]
           /\ \A p \in Publisher :
                 request[p].version = want[i] => p = Offered(i, kind)
  <1>1. Offered(i, kind) \in Publisher
    BY Offers
  <1>2. request[Offered(i, kind)].version = want[i]
    BY InstallAssumption DEF Inv, Owned, Offered
  <1> QED
    BY <1>1, <1>2 DEF OneBuildPerVersion

(* Its resources are there with its executable.                            *)
LEMMA ResourcesAreOffered ==
    ASSUME Inv, Types, OneBuildPerVersion, NEW i \in Installer,
           want[i] \in Version, HasExec(i), request[local["exec"]].resources
    PROVE  Offered(i, "res") # None
  <1>1. local["exec"] = Offered(i, "exec")
    BY OneBuild DEF HasExec
  <1> QED
    BY <1>1, InstallAssumption DEF Inv, ResourcesBeforeExec, Offered, HasExec

(* A step of an undisturbed install keeps what it has whole.               *)
LEMMA InstallKeeps ==
    ASSUME Inv, Types, NEW i \in Installer, Install(i), UNCHANGED pvars,
           Concerned(i)', alone[i] => WholeSoFar(i)
    PROVE  WholeSoFar(i)'
  <1> USE DEF At, Go, Refused, Downloading, pvars
  <1>0. /\ i \in Process /\ UNCHANGED <<server, request>>
        /\ step \in [Process -> Step] /\ local \in [Kind -> Publisher \cup {None, Partial}]
        /\ got \in [Installer -> Publisher \cup {None}]
        /\ {"exec", "res", "zip"} \subseteq Kind
    BY DEF Process, Types, ITypeOK, Kind
  <1>1. want' = want /\ want[i] \in Version /\ OneBuildPerVersion
    BY StepOfOne, <1>0 DEF Concerned, OneBuildPerVersion
  <1>2. \A kind : Offered(i, kind)' = Offered(i, kind)
    BY <1>0, <1>1 DEF Offered
  <1>3. CASE At(i, "start")
    BY <1>0, <1>3 DEF Install, ShouldDownload, OpenExec, FillExec, GetResources,
       Unpack, Unpacked, RemoveZip, WholeSoFar
  <1>4. CASE ~At(i, "start")
    <2>1. alone[i] /\ WholeSoFar(i)
      BY <1>0, <1>4, StepOfOne DEF Concerned
    <2>2. CASE step'[i] = "failed"
      BY <2>2 DEF WholeSoFar
    <2>3. CASE OpenExec(i) /\ step'[i] # "failed"
      <3>1. /\ Offered(i, "exec") # None /\ got'[i] = Offered(i, "exec")
            /\ local'["exec"] = Partial /\ step'[i] = "fill"
        BY <1>0, <2>3 DEF OpenExec
      <3>2. request[got'[i]].version = want[i]
        BY <1>1, <3>1, OneBuild
      <3> QED
        BY <1>0, <1>1, <1>2, <3>1, <3>2 DEF WholeSoFar
    <2>4. CASE FillExec(i) /\ step'[i] # "failed"
      <3>1. /\ request[got[i]].version = want[i] /\ Offered(i, "exec") # None
            /\ got[i] \in Publisher /\ local["exec"] = Partial
        BY <2>1, <2>4 DEF FillExec, WholeSoFar, Types, ITypeOK
      <3>2. local'["exec"] = got[i] /\ step'[i] = "zip"
        BY <1>0, <2>4, <3>1 DEF FillExec
      <3> QED
        BY <1>0, <1>1, <1>2, <3>1, <3>2 DEF WholeSoFar, HasExec
    <2>5. CASE GetResources(i) /\ step'[i] # "failed"
      <3>1. HasExec(i)
        BY <2>1, <2>5 DEF GetResources, WholeSoFar
      <3>2. CASE Offered(i, "res") # None
        <4>1. /\ step'[i] = "unpack" /\ local'["zip"] = Offered(i, "res")
              /\ local'["exec"] = local["exec"]
          BY <1>0, <2>5, <3>2 DEF GetResources
        <4>2. local["exec"] = Offered(i, "res")
          BY <1>1, <3>1, <3>2, OneBuild DEF HasExec
        <4> QED
          BY <1>0, <1>1, <1>2, <3>1, <4>1, <4>2 DEF WholeSoFar, HasExec
      <3>3. CASE Offered(i, "res") = None
        <4>1. step'[i] = "succeeded" /\ UNCHANGED local
          BY <1>0, <2>5, <3>3 DEF GetResources
        <4>2. ~request[local["exec"]].resources
          BY <1>1, <3>1, <3>3, ResourcesAreOffered
        <4> QED
          BY <1>0, <1>1, <1>2, <3>1, <4>1, <4>2 DEF WholeSoFar, HasExec
      <3> QED
        BY <3>2, <3>3
    <2>6. CASE Unpack(i) /\ step'[i] # "failed"
      <3>1. HasExec(i) /\ local["zip"] = local["exec"]
        BY <2>1, <2>6 DEF Unpack, WholeSoFar
      <3>2. /\ step'[i] = "unpacking" /\ got'[i] = local["zip"]
            /\ local'["res"] = Partial /\ local'["exec"] = local["exec"]
        BY <1>0, <2>6 DEF Unpack
      <3> QED
        BY <1>0, <1>1, <1>2, <3>1, <3>2, InstallAssumption DEF WholeSoFar, HasExec
    <2>7. CASE Unpacked(i) /\ step'[i] # "failed"
      <3>1. HasExec(i) /\ got[i] = local["exec"] /\ local["res"] # None
        BY <2>1, <2>7 DEF Unpacked, WholeSoFar
      <3>2. /\ step'[i] = "cleanup" /\ local'["res"] = got[i]
            /\ local'["exec"] = local["exec"]
        BY <1>0, <2>7, <3>1 DEF Unpacked
      <3> QED
        BY <1>0, <1>1, <1>2, <3>1, <3>2 DEF WholeSoFar, HasExec
    <2>8. CASE RemoveZip(i) /\ step'[i] # "failed"
      <3>1. HasExec(i) /\ local["res"] = local["exec"]
        BY <2>1, <2>8 DEF RemoveZip, WholeSoFar
      <3>2. /\ step'[i] = "succeeded" /\ local'["res"] = local["res"]
            /\ local'["exec"] = local["exec"]
        BY <1>0, <2>8 DEF RemoveZip
      <3> QED
        BY <1>0, <1>1, <1>2, <3>1, <3>2 DEF WholeSoFar, HasExec
    <2> QED
      BY <1>4, <2>2, <2>3, <2>4, <2>5, <2>6, <2>7, <2>8
         DEF Install, ShouldDownload
  <1> QED
    BY <1>3, <1>4

-----------------------------------------------------------------------------
(* Files do not leave the server, and no publisher is asked for anything   *)
(* else.                                                                   *)
LEMMA FilesStay ==
    ASSUME Inv, [PNext]_pvars
    PROVE  /\ UNCHANGED request
           /\ \A f \in File : server[f] # None => server'[f] # None
  <1>1. ASSUME NEW p \in Publisher, Publish(p)
        PROVE  \A f \in File : server[f] # None => server'[f] # None
    <2> USE DEF Inv, PTypeOK
    <2>1. CASE UNCHANGED server
      BY <2>1
    <2>2. CASE \E kind : Put(p, kind)
      BY <2>2, PublishAssumption DEF Put
    <2>3. CASE CopyToLatest(p)
      <3>1. ASSUME NEW g \in copying[p],
                   server' = [server EXCEPT ![<<"latest", g[2], g[3]>>] = server[g]]
            PROVE  \A f \in File : server[f] # None => server'[f] # None
        BY <2>3, <3>1 DEF Listed, CopyToLatest
      <3> QED
        BY <2>1, <2>3, <3>1 DEF CopyToLatest, PublishFails
    <2> QED
      BY <1>1, <2>1, <2>2, <2>3 DEF Publish, VerifyUniqueVersion, Build,
         UploadPlugin, UploadResources, UploadExec, ListVersion, PublishFails
  <1>2. \A p \in Publisher : Publish(p) => UNCHANGED request
    BY OneMoves
  <1> QED
    BY <1>1, <1>2 DEF PNext, AllPublished, pvars

LEMMA PublishKeeps ==
    ASSUME InstallInv, [PNext]_pvars, UNCHANGED ivars
    PROVE  InstallInv'
  <1> USE DEF ivars
  <1>1. Inv'
    BY Inductive DEF InstallInv
  <1>2. Types'
    BY DEF InstallInv, Types, ITypeOK
  <1>3. \A i \in Installer : alone'[i] => Undisturbed(i)'
    BY DEF InstallInv, Undisturbed, At, Final
  <1>4. ASSUME NEW i \in Installer, Concerned(i)' PROVE WholeSoFar(i)'
    <2>1. Concerned(i) /\ WholeSoFar(i) /\ UNCHANGED request
      BY <1>4, FilesStay DEF InstallInv, Concerned, OneBuildPerVersion
    <2>2. Offered(i, "exec") # None => Offered(i, "exec")' # None
      BY FilesStay, Offers DEF InstallInv, Offered
    <2> QED
      BY <2>1, <2>2 DEF WholeSoFar, HasExec, At
  <1> QED
    BY <1>1, <1>2, <1>3, <1>4 DEF InstallInv

LEMMA CommandKeeps ==
    ASSUME InstallInv, UNCHANGED pvars, NEW p \in Process,
           \/ p \in Installer /\ Install(p)
           \/ p \in Uninstaller /\ Uninstall(p)
           \/ Kill(p)
    PROVE  InstallInv'
  <1>1. Inv'
    BY Inductive DEF InstallInv
  <1>2. Types'
    BY InstallTypes, UninstallTypes, KillTypes DEF InstallInv
  <1>3. ASSUME NEW i \in Installer, alone'[i] PROVE Undisturbed(i)' /\ i = p
    BY <1>3, UndisturbedStays DEF InstallInv
  <1>4. ASSUME NEW i \in Installer, Concerned(i)' PROVE WholeSoFar(i)'
    <2>1. i = p /\ i \notin Uninstaller
      BY <1>3, <1>4, InstallAssumption DEF Concerned
    <2>2. want' = want /\ UNCHANGED request
      BY StepOfOne DEF InstallInv, pvars
    <2>3. alone[i] => WholeSoFar(i)
      BY <1>4, <2>2 DEF InstallInv, Concerned, OneBuildPerVersion
    <2>4. CASE Install(i)
      BY <1>4, <2>3, <2>4, InstallKeeps DEF InstallInv
    <2>5. CASE Kill(p)
      <3>1. step'[i] = "killed"
        BY <2>1, <2>5 DEF Kill, Go, InstallInv, Types, ITypeOK
      <3> QED
        BY <3>1 DEF WholeSoFar, At
    <2> QED
      BY <2>1, <2>4, <2>5
  <1> QED
    BY <1>1, <1>2, <1>3, <1>4 DEF InstallInv

LEMMA InstallInductive == InstallInv /\ [INext]_allVars => InstallInv'
  <1> SUFFICES ASSUME InstallInv, [INext]_allVars PROVE InstallInv'
    OBVIOUS
  <1>1. CASE PNext /\ UNCHANGED ivars
    BY <1>1, PublishKeeps
  <1>2. CASE UNCHANGED allVars \/ (AllDone /\ UNCHANGED pvars)
    BY <1>2, PublishKeeps DEF allVars, AllDone
  <1>3. CASE UNCHANGED pvars /\ \E p \in Process :
               \/ p \in Installer /\ Install(p)
               \/ p \in Uninstaller /\ Uninstall(p)
               \/ Kill(p)
    BY <1>3, CommandKeeps
  <1> QED
    BY <1>1, <1>2, <1>3 DEF INext, Process

LEMMA InstallInvariant == ISpec => []InstallInv
  <1>1. PInit /\ IInit => InstallInv
    <2> SUFFICES ASSUME PInit, IInit PROVE InstallInv
      OBVIOUS
    <2>1. Inv
      BY Initially
    <2>2. LocalOK
      BY InstallAssumption DEF IInit, LocalOK, Kind
    <2>3. GotOK
      BY DEF IInit, GotOK, Step, Process
    <2>4. RestOK
      BY DEF IInit, RestOK
    <2>5. Types
      BY <2>2, <2>3, <2>4, TypeParts
    <2> QED
      BY <2>1, <2>5 DEF InstallInv, IInit, Concerned
  <1> QED
    BY <1>1, InstallInductive, PTL DEF ISpec

(* Commands of one machine keep their types, and the directory exists      *)
(* while there is anything in it.                                          *)
THEOREM PluginTypes == ISpec => []ITypeOK
  <1>1. InstallInv => ITypeOK
    BY DEF InstallInv, Types
  <1> QED
    BY <1>1, InstallInvariant, PTL

(* An install that nothing on its machine disturbed succeeds only with the *)
(* whole plugin, with any number of publishers at work, of commands before *)
(* it, of faults and of kills.                                             *)
THEOREM LoneInstallsAreWhole == ISpec => []InstallIsWhole
  <1>1. InstallInv => InstallIsWhole
    BY DEF InstallInv, Concerned, WholeSoFar, HasExec, InstallIsWhole, At
  <1> QED
    BY <1>1, InstallInvariant, PTL

-----------------------------------------------------------------------------
(* Runs of jf *)

RunTypes ==
    /\ stop \in [Runner -> Stop]
    /\ todo \in [Runner -> SUBSET (Neighbour \cup {Plugin})]
    /\ offers \in [Runner -> SUBSET (Neighbour \cup {Plugin})]
    /\ signed \in [Runner -> Publisher \cup {None}]
    /\ errs \in [Runner -> SUBSET (Neighbour \cup {Plugin, Directory})]
    /\ ran \in [Runner -> Publisher \cup {None}]

HistoryTypes == calm \in [Runner -> BOOLEAN] /\ spoilt \in BOOLEAN

LEMMA StartKeepsTypes ==
    ASSUME RunTypes, HistoryTypes, NEW r \in Runner, Start(r)
    PROVE  RunTypes' /\ HistoryTypes'
  <1> USE DEF RunTypes, HistoryTypes
  <1>1. CASE ListPlugins(r)
    <2>1. Neighbour \cup {p \in {Plugin} : home} \in SUBSET (Neighbour \cup {Plugin})
      OBVIOUS
    <2> QED
      BY <1>1, <2>1 DEF ListPlugins, Stop
  <1>2. ASSUME NEW p \in Neighbour \cup {Plugin}, AskSignature(r, p)
        PROVE  RunTypes' /\ HistoryTypes'
    BY <1>2 DEF AskSignature, Answers, Skips
  <1>3. CASE OfferCommands(r)
    BY <1>3 DEF OfferCommands, Stop
  <1>4. CASE RunPlugin(r)
    BY <1>4 DEF RunPlugin, Stop
  <1> QED
    BY <1>1, <1>2, <1>3, <1>4 DEF Start

LEMMA RecordedTypes ==
    ASSUME RunTypes, HistoryTypes, NEW p \in Process, Recorded(p)
    PROVE  RunTypes' /\ HistoryTypes'
  BY DEF RunTypes, HistoryTypes, Recorded, runVars

(* Runs of jf change nothing that commands and publishers see, so that all *)
(* that holds of these holds beside any number of runs.                    *)
THEOREM StartsChangeNothing == SSpec => ISpec
  <1>1. [SNext]_<<allVars, svars>> => [INext]_allVars
    <2> SUFFICES ASSUME [SNext]_<<allVars, svars>> PROVE [INext]_allVars
      OBVIOUS
    <2>1. ASSUME NEW p \in Process, Command(p), UNCHANGED pvars
          PROVE  INext
      BY <2>1 DEF INext, Command
    <2> QED
      BY <2>1 DEF SNext, INext, allVars
  <1>2. SInit => IInit
    BY DEF SInit
  <1> QED
    BY <1>1, <1>2, PTL DEF SSpec, ISpec

(* Everything has its type, for any number of runs of jf, plugins, and     *)
(* commands that change the directory.                                     *)
THEOREM StartTypes == SSpec => []STypeOK
  <1>1. SInit => RunTypes /\ HistoryTypes
    BY DEF SInit, RunTypes, HistoryTypes, Stop
  <1>2. RunTypes /\ HistoryTypes /\ [SNext]_<<allVars, svars>> =>
          RunTypes' /\ HistoryTypes'
    <2> SUFFICES ASSUME RunTypes, HistoryTypes, [SNext]_<<allVars, svars>>
                 PROVE  RunTypes' /\ HistoryTypes'
      OBVIOUS
    <2>1. CASE UNCHANGED svars
      BY <2>1 DEF svars, runVars, RunTypes, HistoryTypes
    <2> QED
      BY <2>1, StartKeepsTypes, RecordedTypes DEF SNext
  <1>3. ITypeOK /\ RunTypes /\ HistoryTypes => STypeOK
    BY DEF STypeOK, RunTypes, HistoryTypes
  <1> QED
    BY <1>1, <1>2, <1>3, StartsChangeNothing, PluginTypes, PTL DEF SSpec

-----------------------------------------------------------------------------
(* What commands leave to a run of jf that they do not disturb: as long as *)
(* the directory is not spoilt one command is at work at most, and the     *)
(* plugin is whole but for what that command is doing (Holds).             *)

Idle == \A p \in Process : ~AtWork(p)

\* An installed plugin answers.
Whole == home => local["exec"] \in Publisher

Holds(p) ==
    /\ At(p, "fill") => local["exec"] = Partial
    /\ step[p] \in {"zip", "unpack", "unpacking", "cleanup"} =>
          local["exec"] \in Publisher
    /\ p \in Uninstaller /\ At(p, "wiping") =>
          \A k \in Kind : local[k] # None => k \in left[p]
    /\ At(p, "wiping") => p \in Uninstaller
    /\ step[p] \notin {"fill", "wiping"} => Whole

Sound ==
    ~spoilt =>
        /\ \A p, q \in Process : AtWork(p) /\ AtWork(q) => p = q
        /\ \A p \in Process : AtWork(p) => Holds(p)
        /\ Idle => Whole

\* An undisturbed install finds the executable as it has opened it.
Opened == \A i \in Installer : alone[i] /\ At(i, "fill") => local["exec"] = Partial

(* One command is at work, before its step and after it.                   *)
LEMMA OnlyOne ==
    ASSUME Types, NEW p \in Process, Command(p), Recorded(p),
           Sound, ~spoilt, ~Spoils(p)
    PROVE  \A q \in Process \ {p} : ~AtWork(q) /\ ~AtWork(q)'
  <1>1. /\ \A q \in Process \ {p} : step'[q] = step[q]
        /\ ~Final(p)
    BY StepOfOne DEF Command
  <1>2. CASE At(p, "start")
    BY <1>1, <1>2 DEF Spoils, AtWork, At, Final
  <1>3. CASE ~At(p, "start")
    BY <1>1, <1>3 DEF Sound, AtWork, At, Final
  <1> QED
    BY <1>2, <1>3

(* If it keeps its part, the rest follows.                                 *)
LEMMA OneKeepsSound ==
    ASSUME NEW p \in Process, \A q \in Process \ {p} : ~AtWork(q)',
           AtWork(p)' => Holds(p)', ~AtWork(p)' => Whole'
    PROVE  Sound'
  <1>1. Idle' => Whole'
    BY DEF Idle
  <1> QED
    BY <1>1 DEF Sound

LEMMA InstallHolds ==
    ASSUME Types, Types', NEW i \in Installer, Install(i),
           ~At(i, "start") => Holds(i), At(i, "start") => Whole,
           ~Spoils(i)
    PROVE  /\ AtWork(i)' => Holds(i)'
           /\ ~AtWork(i)' => Whole'
  <1> USE DEF At, Go, Downloading
  <1>0. /\ i \in Process /\ i \notin Uninstaller
        /\ step \in [Process -> Step] /\ local \in [Kind -> Publisher \cup {None, Partial}]
        /\ got \in [Installer -> Publisher \cup {None}]
        /\ {"exec", "res", "zip"} \subseteq Kind
        /\ None \notin Publisher /\ Partial \notin Publisher /\ None # Partial
    BY InstallAssumption, PublishAssumption DEF Process, Types, ITypeOK, Kind
  <1>1. CASE ShouldDownload(i)
    BY <1>0, <1>1 DEF ShouldDownload, Holds, Whole, AtWork, Final
  <1>2. CASE Refused(i) /\ ~At(i, "start")
    <2>1. step'[i] = "failed" /\ UNCHANGED <<home, local>>
      BY <1>0, <1>2 DEF Refused
    <2>2. ~At(i, "fill")
      BY <2>1 DEF Spoils
    <2>3. ~At(i, "wiping")
      BY <1>0, <1>2 DEF Holds
    <2> QED
      BY <1>2, <2>1, <2>2, <2>3 DEF Holds, Whole, AtWork, Final
  <1>3. CASE OpenExec(i) /\ ~Refused(i)
    BY <1>0, <1>3 DEF OpenExec, Holds, Whole, AtWork, Final
  <1>4. CASE FillExec(i) /\ ~Refused(i)
    <2>1. local["exec"] = Partial /\ got[i] \in Publisher
      BY <1>0, <1>4 DEF FillExec, Holds, Types, ITypeOK
    <2> QED
      BY <1>0, <1>4, <2>1 DEF FillExec, Holds, Whole, AtWork, Final
  <1>5. CASE GetResources(i) /\ ~Refused(i)
    BY <1>0, <1>5 DEF GetResources, Holds, Whole, AtWork, Final
  <1>6. CASE Unpack(i) /\ ~Refused(i)
    BY <1>0, <1>6 DEF Unpack, Holds, Whole, AtWork, Final
  <1>7. CASE Unpacked(i) /\ ~Refused(i)
    BY <1>0, <1>7 DEF Unpacked, Holds, Whole, AtWork, Final
  <1>8. CASE RemoveZip(i) /\ ~Refused(i)
    BY <1>0, <1>8 DEF RemoveZip, Holds, Whole, AtWork, Final
  <1> QED
    BY <1>1, <1>2, <1>3, <1>4, <1>5, <1>6, <1>7, <1>8
       DEF Install, OpenExec, FillExec, GetResources, Unpack, Unpacked, RemoveZip

LEMMA UninstallHolds ==
    ASSUME Types, Types', NEW u \in Uninstaller, Uninstall(u),
           ~At(u, "start") => Holds(u), At(u, "start") => Whole
    PROVE  /\ AtWork(u)' => Holds(u)'
           /\ ~AtWork(u)' => Whole'
  <1> USE DEF At, Go
  <1>0. /\ u \in Process
        /\ step \in [Process -> Step] /\ local \in [Kind -> Publisher \cup {None, Partial}]
        /\ left \in [Uninstaller -> SUBSET Kind]
    BY DEF Process, Types, ITypeOK
  <1>1. CASE Confirm(u)
    BY <1>0, <1>1 DEF Confirm, Holds, Whole, AtWork, Final
  <1>2. CASE WipeFile(u)
    <2>1. PICK k \in left[u] : /\ left' = [left EXCEPT ![u] = @ \ {k}]
                               /\ local' = [local EXCEPT ![k] = None]
      BY <1>2 DEF WipeFile
    <2>2. \A x \in Kind : local'[x] # None => x \in left'[u]
      BY <1>0, <1>2, <2>1 DEF WipeFile, Holds
    <2> QED
      BY <1>2, <2>2 DEF WipeFile, Holds, Whole, AtWork, Final
  <1>3. CASE WipeDir(u)
    <2>1. ~ home'
      BY <1>3 DEF WipeDir, Holds
    <2> QED
      BY <1>0, <1>3, <2>1 DEF WipeDir, Holds, Whole, AtWork, Final
  <1> QED
    BY <1>1, <1>2, <1>3 DEF Uninstall

LEMMA KillHolds ==
    ASSUME Types, NEW p \in Process, Kill(p), Holds(p), ~Spoils(p)
    PROVE  ~AtWork(p)' /\ Whole'
  <1>1. step'[p] = "killed" /\ UNCHANGED <<home, local>>
    BY DEF Kill, Go, Types, ITypeOK
  <1>2. step[p] \notin {"fill", "wiping"}
    BY <1>1 DEF Spoils, At
  <1> QED
    BY <1>1, <1>2 DEF Holds, Whole, AtWork, Final, At

LEMMA CommandIsSound ==
    ASSUME InstallInv, InstallInv', NEW p \in Process, Command(p), Recorded(p),
           Sound, Opened
    PROVE  Sound' /\ Opened'
  <1>0. Types /\ Types'
    BY DEF InstallInv
  <1>1. CASE Repairs(p)
    <2>0. /\ p \in Installer /\ alone[p] /\ step[p] = "fill" /\ step'[p] = "zip"
          /\ Partial \notin Publisher \cup {None}
      BY <1>1, InstallAssumption DEF Repairs, At
    <2>1. local["exec"] = Partial /\ got[p] \in Publisher
      BY <1>0, <2>0 DEF Opened, At, Types, ITypeOK
    <2>2. FillExec(p)
      BY <1>0, <2>0, InstallAssumption DEF Command, Install, Uninstall, ShouldDownload,
         OpenExec, GetResources, Unpack, Unpacked, RemoveZip, Kill, Go, At,
         Types, ITypeOK, Process
    <2>3. local'["exec"] = got[p]
      BY <1>0, <2>0, <2>1, <2>2 DEF FillExec, Refused, Go, Types, ITypeOK, Kind, Process
    <2>4. \A q \in Process \ {p} : ~AtWork(q)'
      BY <1>0, <2>0, <2>1, StepOfOne DEF InstallInv, Undisturbed, AtWork, At, Final, Command
    <2>5. Holds(p)'
      BY <2>0, <2>1, <2>3 DEF Holds, Whole, At
    <2>6. Sound'
      BY <2>0, <2>1, <2>4, <2>5, OneKeepsSound DEF AtWork, At, Final
    <2>7. Opened'
      BY <2>0, <2>1, <2>4 DEF Opened, AtWork, At, Final, Process
    <2> QED
      BY <2>6, <2>7
  <1>2. CASE ~Repairs(p)
    <2>1. ASSUME ~spoilt' PROVE Sound'
      <3>1. ~spoilt /\ ~Spoils(p)
        BY <1>2, <2>1 DEF Recorded
      <3>2. \A q \in Process \ {p} : ~AtWork(q) /\ ~AtWork(q)'
        BY <1>0, <3>1, OnlyOne
      <3>3. ~Final(p)
        BY <1>0, StepOfOne DEF Command
      <3>4. /\ ~At(p, "start") => Holds(p)
            /\ At(p, "start") => Whole
        BY <3>1, <3>2, <3>3 DEF Sound, AtWork, Idle
      <3>5. (AtWork(p)' => Holds(p)') /\ (~AtWork(p)' => Whole')
        BY <1>0, <3>1, <3>4, InstallHolds, UninstallHolds, KillHolds
           DEF Command, Kill
      <3> QED
        BY <3>2, <3>5, OneKeepsSound
    <2>2. spoilt' => Sound'
      BY DEF Sound
    <2>3. ASSUME NEW i \in Installer, alone'[i], At(i, "fill")'
          PROVE  local'["exec"] = Partial
      <3>1. i = p
        BY <1>0, <2>3, UndisturbedStays DEF InstallInv, Command
      <3>2. OpenExec(i)
        BY <1>0, <2>3, <3>1, InstallAssumption DEF Command, Install, Uninstall,
           ShouldDownload, FillExec, GetResources, Unpack, Unpacked, RemoveZip,
           Refused, Kill, Go, At, Types, ITypeOK, Process
      <3> QED
        BY <1>0, <2>3, <3>2 DEF OpenExec, Refused, Go, At, Types, ITypeOK, Kind,
           Process
    <2> QED
      BY <2>1, <2>2, <2>3 DEF Opened
  <1> QED
    BY <1>1, <1>2

-----------------------------------------------------------------------------
(* What a run has gathered while no command was at work is still so: what  *)
(* it listed is there, and the build that signed is the one to run.        *)

Installed == {p \in {Plugin} : home}

Sees(r) ==
    /\ Plugin \notin errs[r]
    /\ Plugin \in todo[r] => home
    /\ stop[r] = "asking" /\ errs[r] = {} =>
          offers[r] \cup todo[r] = Neighbour \cup Installed
    /\ stop[r] = "offering" /\ errs[r] = {} => offers[r] = Neighbour \cup Installed
    /\ Plugin \in offers[r] => home /\ signed[r] = local["exec"]
    /\ stop[r] # "failed"
    /\ stop[r] = "ran" => ran[r] = signed[r]

\* A run that has not begun has gathered nothing.
Fresh(r) ==
    stop[r] = "start" => todo[r] = {} /\ offers[r] = {} /\ errs[r] = {}

Calmly(r) == Fresh(r) /\ (calm[r] => ~spoilt /\ Idle /\ Sees(r))

CalmInv ==
    /\ RunTypes /\ HistoryTypes
    /\ Sound /\ Opened
    /\ \A r \in Runner : Calmly(r)

(* A run sees a whole plugin, and nothing else of Plugin.                  *)
LEMMA SeesWhole ==
    ASSUME CalmInv, NEW r \in Runner, calm[r], home
    PROVE  local["exec"] \in Publisher
  BY DEF CalmInv, Calmly, Sound, Whole

LEMMA ListingCalmly ==
    ASSUME CalmInv, NEW r \in Runner, ListPlugins(r), UNCHANGED ivars
    PROVE  Calmly(r)'
  <1>1. /\ todo[r] = {} /\ offers[r] = {} /\ errs[r] = {}
        /\ stop'[r] = "asking" /\ offers'[r] = {}
        /\ calm'[r] = (~spoilt /\ ~\E p \in Process : AtWork(p))
    BY DEF ListPlugins, CalmInv, RunTypes, HistoryTypes, Calmly, Fresh
  <1>2. CASE todo'[r] = Neighbour \cup Installed /\ errs'[r] = {}
    <2>1. Sees(r)'
      BY <1>1, <1>2, StartAssumption DEF Sees, Installed, ivars
    <2> QED
      BY <1>1, <2>1 DEF ListPlugins, Calmly, Fresh, Idle, AtWork, At, Final, ivars
  <1>3. CASE todo'[r] = {} /\ errs'[r] = {Directory}
    <2>1. Sees(r)'
      BY <1>1, <1>3, StartAssumption DEF Sees
    <2> QED
      BY <1>1, <2>1 DEF ListPlugins, Calmly, Fresh, Idle, AtWork, At, Final, ivars
  <1> QED
    BY <1>1, <1>2, <1>3 DEF ListPlugins, CalmInv, RunTypes, Installed

LEMMA AskingSees ==
    ASSUME CalmInv, NEW r \in Runner, NEW p \in Neighbour \cup {Plugin},
           AskSignature(r, p), UNCHANGED ivars, calm[r]
    PROVE  Sees(r)'
  <1> USE DEF AskSignature, Answers, Skips, RunTypes, ivars
  <1>0. Sees(r) /\ RunTypes /\ p \in todo[r] /\ stop[r] = "asking"
    BY DEF CalmInv, Calmly
  <1>1. CASE p = Plugin
    <2>1. home /\ local["exec"] \in Publisher
      BY <1>0, <1>1, SeesWhole DEF Sees
    <2>2. /\ todo'[r] = todo[r] \ {p} /\ offers'[r] = offers[r] \cup {p}
          /\ signed'[r] = local["exec"] /\ errs' = errs
      BY <1>0, <1>1, <2>1
    <2> QED
      BY <1>0, <1>1, <2>1, <2>2 DEF Sees, Installed
  <1>2. CASE p # Plugin /\ Answers(r, p) /\ UNCHANGED signed
    <2>1. /\ todo'[r] = todo[r] \ {p} /\ offers'[r] = offers[r] \cup {p}
      BY <1>0, <1>2
    <2> QED
      BY <1>0, <1>2, <2>1 DEF Sees, Installed
  <1>3. CASE p # Plugin /\ Skips(r, p) /\ UNCHANGED signed
    <2>1. /\ todo'[r] = todo[r] \ {p} /\ errs'[r] = errs[r] \cup {p}
      BY <1>0, <1>3
    <2> QED
      BY <1>0, <1>3, <2>1 DEF Sees, Installed
  <1> QED
    BY <1>1, <1>2, <1>3

LEMMA OfferingSees ==
    ASSUME CalmInv, NEW r \in Runner, OfferCommands(r), UNCHANGED ivars, calm[r]
    PROVE  Sees(r)'
  <1>0. Sees(r) /\ RunTypes
    BY DEF CalmInv, Calmly
  <1>1. /\ stop[r] = "asking" /\ todo[r] = {} /\ stop'[r] = "offering"
        /\ offers'[r] = IF errs[r] = {} THEN offers[r] ELSE {}
    BY <1>0 DEF OfferCommands, RunTypes
  <1> QED
    BY <1>0, <1>1 DEF OfferCommands, Sees, Installed, ivars

LEMMA RunningSees ==
    ASSUME CalmInv, NEW r \in Runner, RunPlugin(r), UNCHANGED ivars, calm[r]
    PROVE  Sees(r)'
  <1>0. Sees(r) /\ RunTypes
    BY DEF CalmInv, Calmly
  <1>1. CASE Plugin \in offers[r]
    <2>1. home /\ local["exec"] \in Publisher
      BY <1>0, <1>1, SeesWhole DEF Sees
    <2>2. stop'[r] = "ran" /\ ran'[r] = local["exec"]
      BY <1>0, <1>1, <2>1 DEF RunPlugin, RunTypes
    <2> QED
      BY <1>0, <1>1, <2>1, <2>2 DEF RunPlugin, Sees, Installed, ivars
  <1>2. CASE Plugin \notin offers[r]
    <2>1. stop'[r] = "unknown"
      BY <1>0, <1>2 DEF RunPlugin, RunTypes
    <2> QED
      BY <1>0, <1>2, <2>1 DEF RunPlugin, Sees, Installed, ivars
  <1> QED
    BY <1>1, <1>2

(* What a step of a run leaves to itself and to the others.                *)
LEMMA StartKeepsCalm ==
    ASSUME CalmInv, NEW r \in Runner, Start(r), UNCHANGED ivars
    PROVE  CalmInv'
  <1>0. RunTypes /\ HistoryTypes /\ Sound /\ Opened
    BY DEF CalmInv
  <1>1. RunTypes' /\ HistoryTypes'
    BY <1>0, StartKeepsTypes
  <1>2. UNCHANGED spoilt
    BY DEF Start, ListPlugins, AskSignature, OfferCommands, RunPlugin
  <1>3. Sound' /\ Opened' /\ Idle' = Idle
    BY <1>0, <1>2 DEF ivars, Sound, Opened, Holds, Whole, Idle, AtWork, At, Final
  <1>4. Calmly(r)'
    <2>1. CASE ListPlugins(r)
      BY <2>1, ListingCalmly
    <2>2. CASE ~ListPlugins(r)
      <3>1. /\ stop'[r] # "start"
            /\ UNCHANGED calm
        BY <1>0, <2>2 DEF Start, AskSignature, OfferCommands, RunPlugin, RunTypes
      <3>2. calm[r] => Sees(r)'
        BY <2>2, AskingSees, OfferingSees, RunningSees DEF Start
      <3>3. calm[r] => ~spoilt /\ Idle
        BY DEF CalmInv, Calmly
      <3> QED
        BY <1>2, <1>3, <3>1, <3>2, <3>3 DEF Calmly, Fresh
    <2> QED
      BY <2>1, <2>2
  <1>5. ASSUME NEW o \in Runner \ {r} PROVE Calmly(o)'
    <2>1. /\ stop'[o] = stop[o] /\ todo'[o] = todo[o] /\ offers'[o] = offers[o]
          /\ signed'[o] = signed[o] /\ errs'[o] = errs[o] /\ ran'[o] = ran[o]
          /\ calm'[o] = calm[o]
      BY <1>0 DEF Start, ListPlugins, AskSignature, OfferCommands, RunPlugin,
         Answers, Skips, RunTypes, HistoryTypes
    <2>2. Calmly(o)
      BY DEF CalmInv
    <2> QED
      BY <1>2, <1>3, <2>1, <2>2 DEF Calmly, Fresh, Sees, Installed, ivars
  <1> QED
    BY <1>1, <1>3, <1>4, <1>5 DEF CalmInv

(* A command that begins ends the calm of every run, and one that is at    *)
(* work has ended it.                                                      *)
LEMMA CommandKeepsCalm ==
    ASSUME CalmInv, InstallInv, InstallInv', NEW p \in Process, Command(p),
           Recorded(p)
    PROVE  CalmInv'
  <1>0. RunTypes /\ HistoryTypes /\ Sound /\ Opened
    BY DEF CalmInv
  <1>1. RunTypes' /\ HistoryTypes'
    BY <1>0, RecordedTypes
  <1>2. Sound' /\ Opened'
    BY <1>0, CommandIsSound
  <1>3. ASSUME NEW r \in Runner PROVE Calmly(r)'
    <2>1. Fresh(r)'
      BY DEF CalmInv, Calmly, Fresh, Recorded, runVars
    <2>2. ~Final(p)
      BY StepOfOne DEF InstallInv, Command
    <2>3. calm[r] => At(p, "start")
      BY <2>2 DEF CalmInv, Calmly, Idle, AtWork
    <2>4. ~calm'[r]
      BY <2>3 DEF Recorded
    <2> QED
      BY <2>1, <2>4 DEF Calmly
  <1> QED
    BY <1>1, <1>2, <1>3 DEF CalmInv

LEMMA CalmStays ==
    ASSUME CalmInv, UNCHANGED <<ivars, svars>>
    PROVE  CalmInv'
  BY DEF CalmInv, RunTypes, HistoryTypes, Sound, Opened, Holds, Whole, Idle, AtWork,
     At, Final, Calmly, Fresh, Sees, Installed, ivars, svars, runVars

(* A run of jf that begins and ends while no install or uninstall is at    *)
(* work, in a directory that none has spoilt, has the command of the       *)
(* plugin if it is installed and nothing else failed, loses no command     *)
(* because of it, and runs the build that had signed: for any number of    *)
(* commands, kills and failures before and after it.                       *)
THEOREM CalmStartsHaveThePlugin == SSpec => []CalmStartsHavePlugin
  <1>1. PInit /\ SInit => CalmInv
    <2> SUFFICES ASSUME PInit, SInit PROVE CalmInv
      OBVIOUS
    <2>1. RunTypes /\ HistoryTypes
      BY DEF SInit, RunTypes, HistoryTypes, Stop
    <2>2. Sound /\ Opened
      BY DEF SInit, IInit, Sound, Opened, Whole, AtWork, At
    <2>3. \A r \in Runner : Calmly(r)
      BY DEF SInit, Calmly, Fresh
    <2> QED
      BY <2>1, <2>2, <2>3 DEF CalmInv
  <1>2. CalmInv /\ InstallInv /\ InstallInv' /\ [SNext]_<<allVars, svars>> => CalmInv'
    <2> SUFFICES ASSUME CalmInv, InstallInv, InstallInv',
                        [SNext]_<<allVars, svars>>
                 PROVE  CalmInv'
      OBVIOUS
    <2>1. CASE UNCHANGED <<ivars, svars>>
      BY <2>1, CalmStays
    <2>2. ASSUME NEW p \in Process, Command(p), Recorded(p) PROVE CalmInv'
      BY <2>2, CommandKeepsCalm
    <2>3. ASSUME NEW r \in Runner, Start(r), UNCHANGED ivars PROVE CalmInv'
      BY <2>3, StartKeepsCalm
    <2> QED
      BY <2>1, <2>2, <2>3 DEF SNext, AllDone, allVars
  <1>3. CalmInv => CalmStartsHavePlugin
    BY DEF CalmInv, Calmly, Sees, Installed, CalmStartsHavePlugin
  <1> QED
    BY <1>1, <1>2, <1>3, StartsChangeNothing, InstallInvariant, PTL DEF SSpec
=============================================================================
