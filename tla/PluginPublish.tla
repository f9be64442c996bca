---------------------------- MODULE PluginPublish ----------------------------
(***************************************************************************)
(* jf plugin publish: developers, one process each, publish versions of    *)
(* one plugin to a plugins repository                                      *)
(*                                                                         *)
(*     <plugin>/<version>/<architecture>/<plugin executable>     "exec"    *)
(*     <plugin>/<version>/<architecture>/resources.zip           "res"     *)
(*     <plugin>/latest/...                                                 *)
(*                                                                         *)
(* A file on the server is identified with the publisher whose build it    *)
(* holds.  Every step is one request to the server.                        *)
(***************************************************************************)
EXTENDS Naturals, FiniteSets

CONSTANTS
    Publisher,      \* the publish commands
    Version,        \* versions of the plugin
    Arch,           \* the architectures of ArchitecturesMap
    PublisherArc,   \* the local architecture of the publishers
    None,           \* there is no such file
    Request,        \* what publishers may be asked for
    PublishFaults   \* builds and requests may fail on their own

Dir == Version \cup {"latest"}

File == Dir \X Arch \X {"exec", "res"}

ASSUME PublishAssumption ==
    /\ None \notin Publisher
    /\ "latest" \notin Version
    /\ PublisherArc \in Arch
    /\ IsFiniteSet(Arch)
    /\ Request \subseteq [version : Version,    \* the argument of the command
                          built : Version,      \* what the executable answers to -v
                          resources : BOOLEAN,  \* there is a resources directory
                          allowed : BOOLEAN]    \* the server accepts the credentials
    /\ PublishFaults \in BOOLEAN

VARIABLES
    server,     \* server[f]: the publisher of the file f, or None
    request,    \* request[p]: what p was asked for
    stage,      \* stage[p]: the next step of p
    arc,        \* arc[p]: the architecture that is being published
    done,       \* done[p]: the architectures that are published
    copying     \* copying[p]: the files still to be copied to latest

pvars == <<server, request, stage, arc, done, copying>>

Stage == {"verify", "build", "resources", "exec", "list", "copy",
          "published", "failed"}

PInit ==
    /\ server = [f \in File |-> None]
    /\ request \in [Publisher -> Request]
    /\ stage = [p \in Publisher |-> "verify"]
    /\ arc = [p \in Publisher |-> PublisherArc]
    /\ done = [p \in Publisher |-> {}]
    /\ copying = [p \in Publisher |-> {}]

Stored(dir) == {f \in File : f[1] = dir /\ server[f] # None}

ToStage(p, s) == stage' = [stage EXCEPT ![p] = s]

PublishFails(p) ==
    /\ ToStage(p, "failed")
    /\ UNCHANGED <<server, request, arc, done, copying>>

\* The server refuses what p sends, or something fails on its own.
MayFail(p) == PublishFaults \/ ~request[p].allowed

\* Mutant of VerifyUniqueVersion: OK is an accepted status, too.
MutantVerifyUniqueVersion(p) ==
    /\ stage[p] = "verify"
    /\ ToStage(p, "build")
    /\ UNCHANGED <<server, request, arc, done, copying>>

\* HEAD of the version's directory: OK is an error, and both "not found" and
\* "unauthorized" let the command go on.
VerifyUniqueVersion(p) ==
    /\ stage[p] = "verify"
    /\ \/ /\ Stored(request[p].version) = {} \/ ~request[p].allowed
          /\ ToStage(p, "build")
          /\ UNCHANGED <<server, request, arc, done, copying>>
       \/ /\ Stored(request[p].version) # {} \/ PublishFaults
          /\ PublishFails(p)

\* Mutants of NextArcs: the architectures in the order of the map; the local
\* one is not skipped in it.
MutantNextArcs(p) == Arch \ done[p]

MutantRepeatLocal(p) == IF done[p] = {} THEN {PublisherArc} ELSE Arch

\* getOrderedArchitectures: the local one first, then the others in the order
\* in which Go visits a map.
NextArcs(p) == IF done[p] = {} THEN {PublisherArc} ELSE Arch \ done[p]

Build(p) ==
    /\ stage[p] = "build"
    /\ \E a \in NextArcs(p) :
         \/ /\ a = PublisherArc => request[p].built = request[p].version
            /\ arc' = [arc EXCEPT ![p] = a]
            /\ ToStage(p, IF request[p].resources THEN "resources" ELSE "exec")
            /\ UNCHANGED <<server, request, done, copying>>
         \/ /\ \/ PublishFaults
               \/ a = PublisherArc /\ request[p].built # request[p].version
            /\ PublishFails(p)

Put(p, kind) ==
    server' = [server EXCEPT ![<<request[p].version, arc[p], kind>>] = p]

UploadResources(p) ==
    /\ stage[p] = "resources"
    /\ \/ /\ request[p].allowed
          /\ Put(p, "res")
          /\ ToStage(p, "exec")
          /\ UNCHANGED <<request, arc, done, copying>>
       \/ MayFail(p) /\ PublishFails(p)

\* Mutant of UploadExec: the error of an upload is not returned.
MutantUploadExec(p) ==
    /\ stage[p] = "exec"
    /\ Put(p, "exec") \/ UNCHANGED server
    /\ done' = [done EXCEPT ![p] = @ \cup {arc[p]}]
    /\ ToStage(p, IF done'[p] = Arch THEN "list" ELSE "build")
    /\ UNCHANGED <<request, arc, copying>>

UploadExec(p) ==
    /\ stage[p] = "exec"
    /\ \/ /\ request[p].allowed
          /\ Put(p, "exec")
          /\ done' = [done EXCEPT ![p] = @ \cup {arc[p]}]
          /\ ToStage(p, IF done'[p] = Arch THEN "list" ELSE "build")
          /\ UNCHANGED <<request, arc, copying>>
       \/ MayFail(p) /\ PublishFails(p)

\* Mutant of UploadPlugin: the executable before the resources.
MutantUploadPlugin(p) ==
    \/ /\ stage[p] = "resources"
       /\ Put(p, "exec")
       /\ ToStage(p, "exec")
       /\ UNCHANGED <<request, arc, done, copying>>
    \/ /\ stage[p] = "exec"
       /\ Put(p, IF request[p].resources THEN "res" ELSE "exec")
       /\ done' = [done EXCEPT ![p] = @ \cup {arc[p]}]
       /\ ToStage(p, IF done'[p] = Arch THEN "list" ELSE "build")
       /\ UNCHANGED <<request, arc, copying>>

UploadPlugin(p) == UploadResources(p) \/ UploadExec(p)

\* copyToLatestDir: the copy command lists the version and copies file by file.
ListVersion(p) ==
    /\ stage[p] = "list"
    /\ \/ /\ copying' = [copying EXCEPT ![p] = Stored(request[p].version)]
          /\ ToStage(p, "copy")
          /\ UNCHANGED <<server, request, arc, done>>
       \/ PublishFaults /\ PublishFails(p)

CopyToLatest(p) ==
    /\ stage[p] = "copy"
    /\ \/ \E f \in copying[p] :
             /\ server' = [server EXCEPT ![<<"latest", f[2], f[3]>>] = server[f]]
             /\ copying' = [copying EXCEPT ![p] = @ \ {f}]
             /\ ToStage(p, IF copying'[p] = {} THEN "published" ELSE "copy")
             /\ UNCHANGED <<request, arc, done>>
       \/ PublishFaults /\ PublishFails(p)

Publish(p) ==
    \/ VerifyUniqueVersion(p) \/ Build(p) \/ UploadPlugin(p)
    \/ ListVersion(p) \/ CopyToLatest(p)

AllPublished ==
    /\ \A p \in Publisher : stage[p] \in {"published", "failed"}
    /\ UNCHANGED pvars

PNext == (\E p \in Publisher : Publish(p)) \/ AllPublished

PSpec == PInit /\ [][PNext]_pvars

-----------------------------------------------------------------------------
(* Everything has its type; what is being uploaded is for an architecture  *)
(* that is not done, and copying starts when all are.                      *)
PTypeOK ==
    /\ server \in [File -> Publisher \cup {None}]
    /\ request \in [Publisher -> Request]
    /\ stage \in [Publisher -> Stage]
    /\ arc \in [Publisher -> Arch]
    /\ done \in [Publisher -> SUBSET Arch]
    /\ copying \in [Publisher -> SUBSET File]
    /\ \A p \in Publisher :
          /\ stage[p] \in {"resources", "exec"} => arc[p] \notin done[p]
          /\ stage[p] \in {"list", "copy", "published"} => done[p] = Arch
          /\ stage[p] = "copy" => copying[p] # {}

(* doPublish builds for the local architecture first, "to assert versions  *)
(* match before uploading": no architecture of a build whose executable    *)
(* reports another version ever gets into the directory of a version.      *)
VersionIsWhatWasBuilt ==
    \A v \in Version, a \in Arch, k \in {"exec", "res"} :
        server[<<v, a, k>>] # None => request[server[<<v, a, k>>]].built = v

(* latest is copied after the last upload succeeded: it has a file of a    *)
(* build only if the version of that build is on the server for every      *)
(* architecture, also when uploads and copies fail and publishers overlap. *)
LatestIsPublished ==
    \A a \in Arch, k \in {"exec", "res"} :
        server[<<"latest", a, k>>] # None =>
            \A b \in Arch :
                server[<<request[server[<<"latest", a, k>>]].version, b, "exec">>] # None

(* uploadPlugin sends "the complex part", the resources, first: whoever    *)
(* sees the executable of a build that comes with resources finds          *)
(* resources next to it.                                                   *)
ResourcesBeforeExec ==
    \A v \in Version, a \in Arch :
        LET p == server[<<v, a, "exec">>]
        IN  p # None /\ request[p].resources => server[<<v, a, "res">>] # None

(* A version that is on the server while nobody is between verifying that  *)
(* it is not and the last upload of it, keeps its files for ever.          *)
Settled(v) ==
    /\ Stored(v) # {}
    /\ \A p \in Publisher : request[p].version = v =>
          stage[p] \in {"verify", "list", "copy", "published", "failed"}

SettledVersionsStay ==
    \A v \in Version, a \in Arch, k \in {"exec", "res"}, p \in Publisher :
        [](Settled(v) /\ server[<<v, a, k>>] = p => [](server[<<v, a, k>>] = p))

\* Every version has one publisher.
OneBuildPerVersion ==
    \A p, q \in Publisher : request[p].version = request[q].version => p = q
=============================================================================
