--------------------------- MODULE MCPackageAlias ---------------------------
(* Small instances of PackageAlias: two tools, npm (run through jf by      *)
(* default) and gem (run natively by default), and the machine fresh, with *)
(* a configuration the user edited, or with one that does not parse.       *)
EXTENDS PackageAlias, TLC

MCTools == <<"npm", "gem">>
MCDefaultPass == {"gem"}

First == SupportedTools[1]

\* Installed for the first tool; the user made it native, mistyped the mode of
\* the others and disabled aliasing.
Edited == [enabled |-> FALSE,
           modes |-> [t \in Tool |-> IF t = First THEN "pass" ELSE "invalid"],
           enabledTools |-> {First},
           hash |-> Old]

\* Installed for all tools, with the modes of all but the first deleted since.
Trimmed == [enabled |-> TRUE,
            modes |-> [t \in Tool |-> IF t = First THEN "jf" ELSE "unset"],
            enabledTools |-> Tool,
            hash |-> Old]

MCPrior == {NoFile, Corrupt, Edited, Trimmed}
MCOneTool == <<"gem">>
MCEdited == {NoFile, Edited}
MCUntrimmed == {NoFile, Corrupt, Edited}

InstallSymmetry == Permutations(Installer)
=============================================================================
