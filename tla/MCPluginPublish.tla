--------------------------- MODULE MCPluginPublish ---------------------------
(* Two publishers, two architectures, two versions.                        *)
EXTENDS PluginPublish

MCRequest == [version : Version, built : Version,
              resources : BOOLEAN, allowed : BOOLEAN]

\* Requests of publishers whose sources are right and whose server accepts them.
MCGood == {r \in MCRequest : r.built = r.version /\ r.allowed}
=============================================================================
