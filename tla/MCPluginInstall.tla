--------------------------- MODULE MCPluginInstall ---------------------------
(* Publishers of different versions, and what runs on one machine.         *)
EXTENDS PluginStart, MCPluginPublish, TLC

\* The machine installs a version or latest.
MCDir == Dir

InstallSymmetry ==
    Permutations(Publisher) \cup Permutations(Version)
      \cup Permutations(Installer)

\* Bound: publishers follow each other (PluginPublish alone has them overlap).
PublishInTurn ==
    \A p, q \in Publisher :
        \/ p = q
        \/ \E r \in {p, q} : stage[r] \in {"verify", "published", "failed"}

\* Bound: a run of jf has nothing to do with publishers, so that it may begin
\* when they are done, and nothing depends on it when it has ended.
StartsApart ==
    \A r \in Runner :
        stop[r] # "start" =>
            /\ stop[r] \in {"asking", "offering"}
            /\ \A p \in Publisher : stage[p] \in {"published", "failed"}

\* Bound: a run that commands disturb, about which nothing is claimed, is
\* followed if none of them was killed and at most one is an install.
DisturbedStarts ==
    \A r \in Runner :
        \/ stop[r] = "start" \/ calm[r]
        \/ /\ \A p \in Process : ~At(p, "killed")
           /\ Cardinality({i \in Installer : ~At(i, "start")}) <= 1
=============================================================================
