------------------------ MODULE PluginPublish_proofs ------------------------
(***************************************************************************)
(* Theorems about PluginPublish, for all publishers, versions,             *)
(* architectures, requests and faults.                                     *)
(*                                                                         *)
(* The inductive invariant relates what a publisher has done to the files  *)
(* on the server: a file in the directory of a version belongs to a build  *)
(* of that version (Owned), a publisher past its first build matched       *)
(* (Matched), everything it is done with is on the server (Uploaded), and  *)
(* what it copies is there (Listed).                                       *)
(***************************************************************************)
EXTENDS PluginPublish, TLAPS

Owned ==
    \A v \in Version, a \in Arch, k \in {"exec", "res"} :
        LET p == server[<<v, a, k>>]
        IN  p # None => request[p].version = v /\ request[p].built = v

Matched ==
    \A p \in Publisher :
        stage[p] \in {"resources", "exec"} \/ done[p] # {} =>
            request[p].built = request[p].version

Uploaded ==
    \A p \in Publisher :
        /\ \A a \in done[p] : server[<<request[p].version, a, "exec">>] # None
        /\ stage[p] = "exec" /\ request[p].resources =>
               server[<<request[p].version, arc[p], "res">>] # None

Listed ==
    \A p \in Publisher : stage[p] = "copy" =>
        \A f \in copying[p] : f[1] = request[p].version /\ server[f] # None

Inv == /\ PTypeOK /\ Owned /\ Matched /\ Uploaded /\ Listed
       /\ LatestIsPublished /\ ResourcesBeforeExec

-----------------------------------------------------------------------------
(* A file is a directory, an architecture and a kind.                      *)
LEMMA Files ==
    /\ \A d \in Dir, a \in Arch, k \in {"exec", "res"} : <<d, a, k>> \in File
    /\ \A f \in File : /\ f[1] \in Dir /\ f[2] \in Arch /\ f[3] \in {"exec", "res"}
                       /\ f = <<f[1], f[2], f[3]>>
    /\ Version \subseteq Dir /\ "latest" \in Dir /\ "latest" \notin Version
  BY PublishAssumption DEF File, Dir

(* A request is one of the requests publishers may be asked for.           *)
LEMMA Requested ==
    ASSUME PTypeOK, NEW p \in Publisher
    PROVE  /\ request[p].version \in Version /\ request[p].built \in Version
           /\ request[p].resources \in BOOLEAN /\ p # None
  BY PublishAssumption DEF PTypeOK

(* The invariant holds initially, when nothing is on the server.           *)
LEMMA Initially == PInit => Inv
  <1> SUFFICES ASSUME PInit PROVE Inv
    OBVIOUS
  <1>1. PTypeOK
    BY PublishAssumption DEF PInit, PTypeOK, Stage
  <1>2. \A f \in File : server[f] = None
    BY DEF PInit
  <1>3. Owned /\ LatestIsPublished /\ ResourcesBeforeExec
    BY <1>2, Files DEF Owned, LatestIsPublished, ResourcesBeforeExec
  <1>4. Matched /\ Uploaded /\ Listed
    BY DEF PInit, Matched, Uploaded, Listed
  <1> QED
    BY <1>1, <1>3, <1>4 DEF Inv

-----------------------------------------------------------------------------
(* Steps that do not touch the server keep what is said of it alone.       *)
LEMMA ServerStays ==
    ASSUME Inv, UNCHANGED <<server, request>>
    PROVE  Owned' /\ LatestIsPublished' /\ ResourcesBeforeExec'
  BY DEF Inv, Owned, LatestIsPublished, ResourcesBeforeExec

(* A publisher that gives up keeps the invariant.                          *)
LEMMA FailsKeeps ==
    ASSUME Inv, NEW p \in Publisher, PublishFails(p)
    PROVE  Inv'
  <1> USE DEF PublishFails, ToStage
  <1>1. PTypeOK'
    BY DEF Inv, PTypeOK, Stage
  <1>2. Owned' /\ LatestIsPublished' /\ ResourcesBeforeExec'
    BY ServerStays
  <1>3. \A q \in Publisher : stage'[q] = stage[q] \/ stage'[q] = "failed"
    BY DEF Inv, PTypeOK
  <1>4. Matched' /\ Uploaded' /\ Listed'
    BY <1>3 DEF Inv, Matched, Uploaded, Listed
  <1> QED
    BY <1>1, <1>2, <1>4 DEF Inv

(* Verifying that the version is unique changes no file.                   *)
LEMMA VerifyKeeps ==
    ASSUME Inv, NEW p \in Publisher, VerifyUniqueVersion(p)
    PROVE  Inv'
  <1>1. CASE PublishFails(p)
    BY <1>1, FailsKeeps
  <1>2. CASE ToStage(p, "build") /\ UNCHANGED <<server, request, arc, done, copying>>
    <2> USE <1>2 DEF ToStage
    <2>1. PTypeOK'
      BY DEF Inv, PTypeOK, Stage
    <2>2. Owned' /\ LatestIsPublished' /\ ResourcesBeforeExec'
      BY ServerStays
    <2>3. \A q \in Publisher : stage'[q] = stage[q] \/ stage'[q] = "build"
      BY DEF Inv, PTypeOK
    <2>4. Matched' /\ Uploaded' /\ Listed'
      BY <2>3 DEF Inv, Matched, Uploaded, Listed
    <2> QED
      BY <2>1, <2>2, <2>4 DEF Inv
  <1> QED
    BY <1>1, <1>2 DEF VerifyUniqueVersion

(* A build for the local architecture goes on only if the versions match;  *)
(* one for another architecture comes after it.                            *)
LEMMA BuildKeeps ==
    ASSUME Inv, NEW p \in Publisher, Build(p)
    PROVE  Inv'
  <1>1. CASE PublishFails(p)
    BY <1>1, FailsKeeps
  <1>2. ASSUME NEW a \in NextArcs(p),
               a = PublisherArc => request[p].built = request[p].version,
               arc' = [arc EXCEPT ![p] = a],
               ToStage(p, IF request[p].resources THEN "resources" ELSE "exec"),
               UNCHANGED <<server, request, done, copying>>
        PROVE  Inv'
    <2> USE <1>2 DEF ToStage
    <2>1. a \in Arch \ done[p] /\ (done[p] = {} => a = PublisherArc)
      BY PublishAssumption DEF NextArcs, Inv, PTypeOK
    <2>2. PTypeOK'
      BY <2>1, Requested DEF Inv, PTypeOK, Stage
    <2>3. Owned' /\ LatestIsPublished' /\ ResourcesBeforeExec'
      BY ServerStays
    <2>4. Matched'
      BY <2>1 DEF Inv, PTypeOK, Matched
    <2>5. stage'[p] \in {"resources", "exec"} /\ (stage'[p] = "exec" => ~request[p].resources)
      BY Requested DEF Inv, PTypeOK
    <2>6. \A q \in Publisher \ {p} : stage'[q] = stage[q] /\ arc'[q] = arc[q]
      BY DEF Inv, PTypeOK
    <2>7. Uploaded' /\ Listed'
      BY <2>5, <2>6 DEF Inv, Uploaded, Listed
    <2> QED
      BY <2>2, <2>3, <2>4, <2>7 DEF Inv
  <1> QED
    BY <1>1, <1>2 DEF Build

-----------------------------------------------------------------------------
(* An upload adds one file, of a build that matches its version.           *)
LEMMA Puts ==
    ASSUME Inv, NEW p \in Publisher, NEW kind \in {"exec", "res"},
           stage[p] \in {"resources", "exec"}, Put(p, kind), request' = request
    PROVE  /\ server' \in [File -> Publisher \cup {None}]
           /\ \A f \in File : server'[f] =
                 IF f = <<request[p].version, arc[p], kind>> THEN p ELSE server[f]
           /\ \A f \in File : server[f] # None => server'[f] # None
           /\ server'[<<request[p].version, arc[p], kind>>] = p
           /\ Owned'
           /\ LatestIsPublished'
  <1>0. PTypeOK
    BY DEF Inv
  <1>1. request[p].version \in Version /\ arc[p] \in Arch /\ p # None
    BY <1>0, Requested DEF PTypeOK
  <1>2. <<request[p].version, arc[p], kind>> \in File
    BY <1>1, Files
  <1>3. /\ server' \in [File -> Publisher \cup {None}]
        /\ \A f \in File : server'[f] =
              IF f = <<request[p].version, arc[p], kind>> THEN p ELSE server[f]
    BY <1>0, <1>2 DEF Put, PTypeOK
  <1>4. /\ \A f \in File : server[f] # None => server'[f] # None
        /\ server'[<<request[p].version, arc[p], kind>>] = p
    BY <1>1, <1>2, <1>3
  <1>5. request[p].built = request[p].version
    BY DEF Inv, Matched
  <1>6. Owned'
    <2> SUFFICES ASSUME NEW v \in Version, NEW a \in Arch, NEW k \in {"exec", "res"},
                        server'[<<v, a, k>>] # None
                 PROVE  /\ request[server'[<<v, a, k>>]].version = v
                        /\ request[server'[<<v, a, k>>]].built = v
      BY DEF Owned
    <2>1. <<v, a, k>> \in File
      BY Files
    <2>2. CASE <<v, a, k>> = <<request[p].version, arc[p], kind>>
      BY <1>3, <1>5, <2>1, <2>2
    <2>3. CASE <<v, a, k>> # <<request[p].version, arc[p], kind>>
      <3>1. server'[<<v, a, k>>] = server[<<v, a, k>>]
        BY <1>3, <2>1, <2>3
      <3>2. server[<<v, a, k>>] # None
        BY <3>1
      <3>3. /\ request[server[<<v, a, k>>]].version = v
            /\ request[server[<<v, a, k>>]].built = v
        BY <3>2, Zenon DEF Inv, Owned
      <3> QED
        BY <3>1, <3>3, Zenon
    <2> QED
      BY <2>2, <2>3
  <1>7. \A a \in Arch, k \in {"exec", "res"} :
          server'[<<"latest", a, k>>] = server[<<"latest", a, k>>]
    BY <1>1, <1>3, Files
  <1>8. LatestIsPublished'
    <2> SUFFICES ASSUME NEW a \in Arch, NEW k \in {"exec", "res"},
                        server[<<"latest", a, k>>] # None, NEW b \in Arch
                 PROVE  server'[<<request[server[<<"latest", a, k>>]].version, b, "exec">>] # None
      BY <1>7 DEF LatestIsPublished
    <2>1. server[<<"latest", a, k>>] \in Publisher
      BY <1>0, Files DEF PTypeOK
    <2>2. <<request[server[<<"latest", a, k>>]].version, b, "exec">> \in File
      BY <2>1, <1>0, Requested, Files
    <2> QED
      BY <2>2, <1>4 DEF Inv, LatestIsPublished
  <1> QED
    BY <1>3, <1>4, <1>6, <1>8

(* The archive of resources is uploaded before the executable.             *)
LEMMA UploadResourcesKeeps ==
    ASSUME Inv, NEW p \in Publisher, UploadResources(p)
    PROVE  Inv'
  <1>1. CASE PublishFails(p)
    BY <1>1, FailsKeeps
  <1>2. CASE /\ Put(p, "res") /\ ToStage(p, "exec")
             /\ UNCHANGED <<request, arc, done, copying>>
    <2> USE <1>2 DEF ToStage
    <2>0. PTypeOK /\ stage[p] = "resources"
      BY DEF UploadResources, Inv
    <2>1. /\ server' \in [File -> Publisher \cup {None}]
          /\ \A f \in File : server'[f] =
                IF f = <<request[p].version, arc[p], "res">> THEN p ELSE server[f]
          /\ \A f \in File : server[f] # None => server'[f] # None
          /\ server'[<<request[p].version, arc[p], "res">>] = p
          /\ Owned' /\ LatestIsPublished'
      BY <2>0, Puts
    <2>2. PTypeOK'
      BY <2>0, <2>1 DEF PTypeOK, Stage
    <2>3. /\ stage'[p] = "exec"
          /\ \A q \in Publisher \ {p} : stage'[q] = stage[q]
      BY <2>0 DEF PTypeOK
    <2>4. Matched'
      BY <2>0, <2>3 DEF Inv, Matched
    <2>5. Uploaded' /\ Listed'
      <3>1. \A q \in Publisher, a \in Arch, k \in {"exec", "res"} :
              <<request[q].version, a, k>> \in File
        BY <2>0, Requested, Files
      <3>2. ASSUME NEW q \in Publisher, NEW a \in done[q]
            PROVE  server'[<<request[q].version, a, "exec">>] # None
        BY <2>0, <2>1, <3>1 DEF Inv, Uploaded, PTypeOK
      <3>3. ASSUME NEW q \in Publisher, stage'[q] = "exec", request[q].resources
            PROVE  server'[<<request[q].version, arc[q], "res">>] # None
        <4>1. CASE q = p
          BY <2>0, <2>1, <4>1, Requested
        <4>2. CASE q # p
          <5>1. server[<<request[q].version, arc[q], "res">>] # None
            BY <2>3, <3>3, <4>2 DEF Inv, Uploaded
          <5>2. <<request[q].version, arc[q], "res">> \in File
            BY <2>0, <3>1 DEF PTypeOK
          <5> QED
            BY <2>1, <5>1, <5>2
        <4> QED
          BY <4>1, <4>2
      <3>4. Listed'
        BY <2>0, <2>1, <2>3 DEF Inv, Listed, PTypeOK
      <3> QED
        BY <3>2, <3>3, <3>4 DEF Uploaded
    <2>6. ResourcesBeforeExec'
      <3> SUFFICES ASSUME NEW v \in Version, NEW a \in Arch,
                          server'[<<v, a, "exec">>] # None,
                          request[server'[<<v, a, "exec">>]].resources
                   PROVE  server'[<<v, a, "res">>] # None
        BY DEF ResourcesBeforeExec
      <3>1. <<v, a, "exec">> \in File /\ <<v, a, "res">> \in File
        BY Files
      <3>2. server'[<<v, a, "exec">>] = server[<<v, a, "exec">>]
        BY <2>1, <3>1
      <3> QED
        BY <2>1, <3>1, <3>2 DEF Inv, ResourcesBeforeExec
    <2> QED
      BY <2>1, <2>2, <2>4, <2>5, <2>6 DEF Inv
  <1> QED
    BY <1>1, <1>2 DEF UploadResources

(* The executable is uploaded when the resources, if any, are there.       *)
LEMMA UploadExecKeeps ==
    ASSUME Inv, NEW p \in Publisher, UploadExec(p)
    PROVE  Inv'
  <1>1. CASE PublishFails(p)
    BY <1>1, FailsKeeps
  <1>2. CASE /\ Put(p, "exec")
             /\ done' = [done EXCEPT ![p] = @ \cup {arc[p]}]
             /\ ToStage(p, IF done'[p] = Arch THEN "list" ELSE "build")
             /\ UNCHANGED <<request, arc, copying>>
    <2> USE <1>2 DEF ToStage
    <2>0. PTypeOK /\ stage[p] = "exec" /\ arc[p] \in Arch
      BY DEF UploadExec, Inv, PTypeOK
    <2>1. /\ server' \in [File -> Publisher \cup {None}]
          /\ \A f \in File : server'[f] =
                IF f = <<request[p].version, arc[p], "exec">> THEN p ELSE server[f]
          /\ \A f \in File : server[f] # None => server'[f] # None
          /\ server'[<<request[p].version, arc[p], "exec">>] = p
          /\ Owned' /\ LatestIsPublished'
      BY <2>0, Puts
    <2>2. /\ done'[p] = done[p] \cup {arc[p]}
          /\ stage'[p] = (IF done'[p] = Arch THEN "list" ELSE "build")
          /\ \A q \in Publisher \ {p} : stage'[q] = stage[q] /\ done'[q] = done[q]
      BY <2>0 DEF PTypeOK
    <2>3. PTypeOK'
      <3>1. done' \in [Publisher -> SUBSET Arch] /\ stage' \in [Publisher -> Stage]
        BY <2>0, <2>2 DEF PTypeOK, Stage
      <3> QED
        BY <2>0, <2>1, <2>2, <3>1 DEF PTypeOK
    <2>4. Matched'
      BY <2>0, <2>2 DEF Inv, Matched
    <2>5. Uploaded' /\ Listed'
      <3>1. \A q \in Publisher, a \in Arch, k \in {"exec", "res"} :
              <<request[q].version, a, k>> \in File
        BY <2>0, Requested, Files
      <3>2. ASSUME NEW q \in Publisher, NEW a \in done'[q]
            PROVE  server'[<<request[q].version, a, "exec">>] # None
        <4>1. a \in Arch /\ (a \in done[q] \/ (q = p /\ a = arc[p]))
          BY <2>0, <2>2 DEF PTypeOK
        <4>2. <<request[q].version, a, "exec">> \in File
          BY <3>1, <4>1
        <4>3. CASE a \in done[q]
          <5>1. server[<<request[q].version, a, "exec">>] # None
            BY <4>3, Zenon DEF Inv, Uploaded
          <5>2. \A f \in File : server[f] # None => server'[f] # None
            BY <2>1
          <5> QED
            BY <4>2, <5>1, <5>2, Zenon
        <4>4. CASE q = p /\ a = arc[p]
          BY <2>1, <4>4, PublishAssumption
        <4> QED
          BY <4>1, <4>3, <4>4
      <3>3. ASSUME NEW q \in Publisher, stage'[q] = "exec", request[q].resources
            PROVE  server'[<<request[q].version, arc[q], "res">>] # None
        <4>1. q # p
          BY <2>2, <3>3
        <4>2. server[<<request[q].version, arc[q], "res">>] # None
          BY <2>2, <3>3, <4>1 DEF Inv, Uploaded
        <4>3. <<request[q].version, arc[q], "res">> \in File
          BY <2>0, <3>1 DEF PTypeOK
        <4> QED
          BY <2>1, <4>2, <4>3
      <3>4. Listed'
        BY <2>0, <2>1, <2>2 DEF Inv, Listed, PTypeOK
      <3> QED
        BY <3>2, <3>3, <3>4 DEF Uploaded
    <2>6. ResourcesBeforeExec'
      <3> SUFFICES ASSUME NEW v \in Version, NEW a \in Arch,
                          server'[<<v, a, "exec">>] # None,
                          request[server'[<<v, a, "exec">>]].resources
                   PROVE  server'[<<v, a, "res">>] # None
        BY DEF ResourcesBeforeExec
      <3>1. <<v, a, "exec">> \in File /\ <<v, a, "res">> \in File
        BY Files
      <3>2. CASE <<v, a, "exec">> = <<request[p].version, arc[p], "exec">>
        <4>1. server'[<<v, a, "exec">>] = p /\ v = request[p].version /\ a = arc[p]
          BY <2>1, <3>1, <3>2
        <4>2. server[<<v, a, "res">>] # None
          BY <2>0, <4>1 DEF Inv, Uploaded
        <4> QED
          BY <2>1, <3>1, <4>2
      <3>3. CASE <<v, a, "exec">> # <<request[p].version, arc[p], "exec">>
        <4>1. server'[<<v, a, "exec">>] = server[<<v, a, "exec">>]
          BY <2>1, <3>1, <3>3
        <4> QED
          BY <2>1, <3>1, <4>1 DEF Inv, ResourcesBeforeExec
      <3> QED
        BY <3>2, <3>3
    <2> QED
      BY <2>1, <2>3, <2>4, <2>5, <2>6 DEF Inv
  <1> QED
    BY <1>1, <1>2 DEF UploadExec

-----------------------------------------------------------------------------
(* What is listed is what the publisher and others have uploaded for the   *)
(* version: at least an executable for the local architecture.             *)
LEMMA ListKeeps ==
    ASSUME Inv, NEW p \in Publisher, ListVersion(p)
    PROVE  Inv'
  <1>1. CASE PublishFails(p)
    BY <1>1, FailsKeeps
  <1>2. CASE /\ copying' = [copying EXCEPT ![p] = Stored(request[p].version)]
             /\ ToStage(p, "copy")
             /\ UNCHANGED <<server, request, arc, done>>
    <2> USE <1>2 DEF ToStage
    <2>0. PTypeOK /\ stage[p] = "list"
      BY DEF ListVersion, Inv
    <2>1. /\ stage'[p] = "copy" /\ copying'[p] = Stored(request[p].version)
          /\ \A q \in Publisher \ {p} : stage'[q] = stage[q] /\ copying'[q] = copying[q]
      BY <2>0 DEF PTypeOK
    <2>2. <<request[p].version, PublisherArc, "exec">> \in copying'[p]
      <3>1. PublisherArc \in done[p]
        BY <2>0, PublishAssumption DEF PTypeOK
      <3>2. server[<<request[p].version, PublisherArc, "exec">>] # None
        BY <3>1 DEF Inv, Uploaded
      <3>3. <<request[p].version, PublisherArc, "exec">> \in File
        BY <2>0, Requested, Files, PublishAssumption
      <3> QED
        BY <2>1, <3>2, <3>3 DEF Stored
    <2>3. PTypeOK'
      <3>1. stage' \in [Publisher -> Stage] /\ copying' \in [Publisher -> SUBSET File]
        BY <2>0 DEF PTypeOK, Stage, Stored
      <3> QED
        BY <2>0, <2>1, <2>2, <3>1 DEF PTypeOK
    <2>4. Owned' /\ LatestIsPublished' /\ ResourcesBeforeExec'
      BY ServerStays
    <2>5. Matched' /\ Uploaded'
      BY <2>1 DEF Inv, Matched, Uploaded
    <2>6. Listed'
      BY <2>1 DEF Inv, Listed, Stored
    <2> QED
      BY <2>3, <2>4, <2>5, <2>6 DEF Inv
  <1> QED
    BY <1>1, <1>2 DEF ListVersion

(* A copy adds to latest a file of a version that is complete.             *)
LEMMA CopyKeeps ==
    ASSUME Inv, NEW p \in Publisher, CopyToLatest(p)
    PROVE  Inv'
  <1>1. CASE PublishFails(p)
    BY <1>1, FailsKeeps
  <1>2. ASSUME NEW f \in copying[p],
               server' = [server EXCEPT ![<<"latest", f[2], f[3]>>] = server[f]],
               copying' = [copying EXCEPT ![p] = @ \ {f}],
               ToStage(p, IF copying'[p] = {} THEN "published" ELSE "copy"),
               UNCHANGED <<request, arc, done>>
        PROVE  Inv'
    <2> DEFINE to == <<"latest", f[2], f[3]>>
    <2>0. PTypeOK /\ stage[p] = "copy" /\ done[p] = Arch /\ f \in File
      BY <1>2 DEF CopyToLatest, Inv, PTypeOK
    <2>1. to \in File /\ server[f] \in Publisher /\ f[1] = request[p].version
      <3>1. to \in File
        BY <2>0, Files
      <3>2. server[f] # None /\ f[1] = request[p].version
        BY <1>2, <2>0 DEF Inv, Listed
      <3> QED
        BY <2>0, <3>1, <3>2 DEF PTypeOK
    <2>2. /\ server' \in [File -> Publisher \cup {None}]
          /\ \A g \in File : server'[g] = IF g = to THEN server[f] ELSE server[g]
          /\ \A g \in File : server[g] # None => server'[g] # None
          /\ \A v \in Version, a \in Arch, k \in {"exec", "res"} :
                server'[<<v, a, k>>] = server[<<v, a, k>>]
      <3>1. /\ server' \in [File -> Publisher \cup {None}]
            /\ \A g \in File : server'[g] = IF g = to THEN server[f] ELSE server[g]
        BY <1>2, <2>0, <2>1 DEF PTypeOK
      <3> QED
        BY <2>1, <3>1, Files, PublishAssumption
    <2>3. /\ copying'[p] = copying[p] \ {f}
          /\ stage'[p] = (IF copying'[p] = {} THEN "published" ELSE "copy")
          /\ \A q \in Publisher \ {p} : stage'[q] = stage[q] /\ copying'[q] = copying[q]
      BY <1>2, <2>0 DEF PTypeOK, ToStage
    <2>4. PTypeOK'
      <3>1. stage' \in [Publisher -> Stage] /\ copying' \in [Publisher -> SUBSET File]
        BY <1>2, <2>0, <2>3 DEF PTypeOK, Stage, ToStage
      <3> QED
        BY <1>2, <2>0, <2>2, <2>3, <3>1 DEF PTypeOK
    <2>5. Owned' /\ ResourcesBeforeExec'
      BY <1>2, <2>2 DEF Inv, Owned, ResourcesBeforeExec
    <2>6. Matched' /\ Listed'
      BY <1>2, <2>0, <2>2, <2>3 DEF Inv, Matched, Listed, PTypeOK
    <2>7. Uploaded'
      <3>1. \A q \in Publisher, a \in Arch, k \in {"exec", "res"} :
              server'[<<request[q].version, a, k>>] = server[<<request[q].version, a, k>>]
        BY <2>0, <2>2, Requested
      <3>2. ASSUME NEW q \in Publisher, NEW a \in done[q]
            PROVE  server'[<<request[q].version, a, "exec">>] # None
        <4>1. a \in Arch
          BY <2>0 DEF PTypeOK
        <4>2. server[<<request[q].version, a, "exec">>] # None
          BY DEF Inv, Uploaded
        <4> QED
          BY <3>1, <4>1, <4>2
      <3>3. ASSUME NEW q \in Publisher, stage'[q] = "exec", request[q].resources
            PROVE  server'[<<request[q].version, arc[q], "res">>] # None
        <4>1. q # p /\ stage[q] = "exec"
          BY <2>3, <3>3
        <4>2. server[<<request[q].version, arc[q], "res">>] # None
          BY <3>3, <4>1 DEF Inv, Uploaded
        <4> QED
          BY <2>0, <3>1, <4>2 DEF PTypeOK
      <3> QED
        BY <1>2, <3>2, <3>3 DEF Uploaded
    <2>8. LatestIsPublished'
      <3> SUFFICES ASSUME NEW a \in Arch, NEW k \in {"exec", "res"},
                          server'[<<"latest", a, k>>] # None, NEW b \in Arch
                   PROVE  server'[<<request[server'[<<"latest", a, k>>]].version, b, "exec">>] # None
        BY <1>2 DEF LatestIsPublished
      <3>0. <<"latest", a, k>> \in File
        BY Files
      <3>1. CASE <<"latest", a, k>> = to
        <4>1. server'[<<"latest", a, k>>] = server[f]
          BY <2>2, <3>0, <3>1
        <4>2. request[server[f]].version = request[p].version
          <5>1. f[1] \in Version /\ f[2] \in Arch /\ f[3] \in {"exec", "res"}
                /\ f = <<f[1], f[2], f[3]>>
            BY <2>0, <2>1, Requested, Files
          <5>2. server[<<f[1], f[2], f[3]>>] # None
            BY <2>0, <2>1, <5>1, Requested
          <5>3. request[server[<<f[1], f[2], f[3]>>]].version = f[1]
            BY <5>1, <5>2 DEF Inv, Owned
          <5> QED
            BY <2>1, <5>1, <5>3
        <4>3. server[<<request[p].version, b, "exec">>] # None
          BY <2>0 DEF Inv, Uploaded
        <4>4. server'[<<request[p].version, b, "exec">>] # None
          BY <2>0, <2>2, <4>3, Requested
        <4> QED
          BY <4>1, <4>2, <4>4
      <3>2. CASE <<"latest", a, k>> # to
        <4>1. server'[<<"latest", a, k>>] = server[<<"latest", a, k>>]
          BY <2>2, <3>0, <3>2
        <4>2. server[<<"latest", a, k>>] \in Publisher
          BY <2>0, <3>0, <4>1 DEF PTypeOK
        <4>3. server[<<request[server[<<"latest", a, k>>]].version, b, "exec">>] # None
          BY <4>1 DEF Inv, LatestIsPublished
        <4>4. server'[<<request[server[<<"latest", a, k>>]].version, b, "exec">>] # None
          BY <2>0, <2>2, <4>2, <4>3, Requested
        <4> QED
          BY <4>1, <4>4
      <3> QED
        BY <3>1, <3>2
    <2> QED
      BY <2>4, <2>5, <2>6, <2>7, <2>8 DEF Inv
  <1> QED
    BY <1>1, <1>2 DEF CopyToLatest

-----------------------------------------------------------------------------
(* No step of any publisher breaks the invariant.                          *)
LEMMA Inductive == Inv /\ [PNext]_pvars => Inv'
  <1> SUFFICES ASSUME Inv, [PNext]_pvars PROVE Inv'
    OBVIOUS
  <1>1. ASSUME NEW p \in Publisher, Publish(p) PROVE Inv'
    BY <1>1, VerifyKeeps, BuildKeeps, UploadResourcesKeeps, UploadExecKeeps,
       ListKeeps, CopyKeeps DEF Publish, UploadPlugin
  <1>2. CASE UNCHANGED pvars
    <2> USE <1>2 DEF pvars
    <2>1. PTypeOK'
      BY DEF Inv, PTypeOK
    <2>2. Owned' /\ LatestIsPublished' /\ ResourcesBeforeExec'
      BY ServerStays
    <2>3. Matched' /\ Uploaded' /\ Listed'
      BY DEF Inv, Matched, Uploaded, Listed
    <2> QED
      BY <2>1, <2>2, <2>3 DEF Inv
  <1> QED
    BY <1>1, <1>2 DEF PNext, AllPublished

(* The invariant is one of the specification.                              *)
LEMMA Invariant == PSpec => []Inv
  BY Initially, Inductive, PTL DEF PSpec

(* Publishers keep their types: an upload is for an architecture that is   *)
(* not done, a copy begins when all are, and there is something to copy.   *)
THEOREM PublishTypes == PSpec => []PTypeOK
  <1>1. Inv => PTypeOK
    BY DEF Inv
  <1> QED
    BY Invariant, <1>1, PTL

(* Whatever fails and however many publish at once, the directory of a     *)
(* version holds builds that report that version only.                     *)
THEOREM VersionsMatchBuilds == PSpec => []VersionIsWhatWasBuilt
  <1>1. Inv => VersionIsWhatWasBuilt
    BY DEF Inv, Owned, VersionIsWhatWasBuilt
  <1> QED
    BY Invariant, <1>1, PTL

(* latest never has a file of a version that is not on the server for      *)
(* every architecture.                                                     *)
THEOREM LatestComesLast == PSpec => []LatestIsPublished
  <1>1. Inv => LatestIsPublished
    BY DEF Inv
  <1> QED
    BY Invariant, <1>1, PTL

(* Whoever sees the executable of a build with resources sees resources.   *)
THEOREM ResourcesComeFirst == PSpec => []ResourcesBeforeExec
  <1>1. Inv => ResourcesBeforeExec
    BY DEF Inv
  <1> QED
    BY Invariant, <1>1, PTL

-----------------------------------------------------------------------------
\* The file is of p, and whoever publishes the version is not yet, or no
\* longer, at the uploads, or is refused by the server.
Kept(v, a, k, p) ==
    /\ server[<<v, a, k>>] = p
    /\ \A q \in Publisher : request[q].version = v =>
          \/ stage[q] \in {"verify", "list", "copy", "published", "failed"}
          \/ ~request[q].allowed

(* A step of q leaves the stages of the others alone, and all requests.    *)
LEMMA OneMoves ==
    ASSUME Inv, NEW q \in Publisher, Publish(q)
    PROVE  /\ UNCHANGED request
           /\ \A o \in Publisher \ {q} : stage'[o] = stage[o]
  <1> USE DEF Inv, PTypeOK, ToStage, PublishFails
  <1>1. CASE VerifyUniqueVersion(q) \/ Build(q)
    BY <1>1 DEF VerifyUniqueVersion, Build
  <1>2. CASE UploadPlugin(q)
    BY <1>2 DEF UploadPlugin, UploadResources, UploadExec
  <1>3. CASE ListVersion(q) \/ CopyToLatest(q)
    BY <1>3 DEF ListVersion, CopyToLatest
  <1> QED
    BY <1>1, <1>2, <1>3 DEF Publish

(* Verifying finds the file, so that only a publisher goes on whom the     *)
(* server refuses; uploads are of other versions, copies go to latest.     *)
LEMMA KeptStep ==
    ASSUME Inv, NEW v \in Version, NEW a \in Arch, NEW k \in {"exec", "res"},
           NEW p \in Publisher, Kept(v, a, k, p), [PNext]_pvars
    PROVE  Kept(v, a, k, p)'
  <1> DEFINE file == <<v, a, k>>
  <1>1. file \in File /\ server[file] = p /\ p # None
    BY Files, Requested DEF Kept, Inv
  <1>2. ASSUME NEW q \in Publisher, Publish(q)
        PROVE  Kept(v, a, k, p)'
    <2>1. /\ UNCHANGED request
          /\ \A o \in Publisher \ {q} : stage'[o] = stage[o]
      BY <1>2, OneMoves
    <2>2. CASE PublishFails(q)
      <3>1. stage'[q] = "failed" /\ UNCHANGED server
        BY <2>2 DEF PublishFails, ToStage, Inv, PTypeOK
      <3> QED
        BY <2>1, <3>1 DEF Kept
    <2>3. CASE VerifyUniqueVersion(q) /\ ~PublishFails(q)
      <3>1. UNCHANGED server
        BY <2>3 DEF VerifyUniqueVersion
      <3>2. request[q].version = v => Stored(request[q].version) # {}
        BY <1>1 DEF Stored
      <3>3. request[q].version = v => ~request[q].allowed
        BY <2>3, <3>2 DEF VerifyUniqueVersion
      <3> QED
        BY <2>1, <3>1, <3>3 DEF Kept
    <2>4. CASE Build(q) /\ ~PublishFails(q)
      <3>1. UNCHANGED server /\ stage[q] = "build"
        BY <2>4 DEF Build
      <3> QED
        BY <2>1, <3>1 DEF Kept
    <2>5. CASE UploadPlugin(q) /\ ~PublishFails(q)
      <3>1. request[q].allowed /\ stage[q] \in {"resources", "exec"}
        BY <2>5 DEF UploadPlugin, UploadResources, UploadExec
      <3>2. request[q].version # v
        BY <3>1 DEF Kept
      <3>3. \E kind : Put(q, kind)
        BY <2>5 DEF UploadPlugin, UploadResources, UploadExec
      <3>4. server'[file] = server[file]
        BY <1>1, <3>2, <3>3 DEF Put, Inv, PTypeOK
      <3> QED
        BY <2>1, <3>2, <3>4 DEF Kept
    <2>6. CASE ListVersion(q) /\ ~PublishFails(q)
      <3>1. UNCHANGED server /\ stage'[q] = "copy"
        BY <2>6 DEF ListVersion, ToStage, Inv, PTypeOK
      <3> QED
        BY <2>1, <3>1 DEF Kept
    <2>7. CASE CopyToLatest(q) /\ ~PublishFails(q)
      <3>1. server'[file] = server[file]
        <4>1. PICK f \in copying[q] :
                server' = [server EXCEPT ![<<"latest", f[2], f[3]>>] = server[f]]
          BY <2>7 DEF CopyToLatest
        <4>2. file # <<"latest", f[2], f[3]>>
          BY Files
        <4> QED
          BY <1>1, <4>1, <4>2 DEF Inv, PTypeOK
      <3>2. stage'[q] \in {"copy", "published"}
        BY <2>7 DEF CopyToLatest, ToStage, Inv, PTypeOK
      <3> QED
        BY <2>1, <3>1, <3>2 DEF Kept
    <2> QED
      BY <1>2, <2>2, <2>3, <2>4, <2>5, <2>6, <2>7 DEF Publish
  <1>3. CASE UNCHANGED pvars
    BY <1>3 DEF pvars, Kept
  <1> QED
    BY <1>2, <1>3 DEF PNext, AllPublished

(* The files of a version that nobody is publishing stay for ever, whoever *)
(* publishes what afterwards.                                              *)
THEOREM PublishedFilesStay == PSpec => SettledVersionsStay
  <1> SUFFICES ASSUME NEW v \in Version, NEW a \in Arch,
                      NEW k \in {"exec", "res"}, NEW p \in Publisher
               PROVE  PSpec => [](Settled(v) /\ server[<<v, a, k>>] = p =>
                                    [](server[<<v, a, k>>] = p))
    BY DEF SettledVersionsStay
  <1>1. Settled(v) /\ server[<<v, a, k>>] = p => Kept(v, a, k, p)
    BY DEF Settled, Kept
  <1>2. Kept(v, a, k, p) => server[<<v, a, k>>] = p
    BY DEF Kept
  <1>3. Inv /\ Kept(v, a, k, p) /\ [PNext]_pvars => Kept(v, a, k, p)'
    BY KeptStep
  <1> QED
    BY <1>1, <1>2, <1>3, Invariant, PTL DEF PSpec
=============================================================================
