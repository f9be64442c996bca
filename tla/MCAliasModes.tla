---------------------------- MODULE MCAliasModes ----------------------------
(* go with subcommands of up to three words, a word in capitals and a      *)
(* flag; npm and gem with every entry.                                     *)
EXTENDS AliasModes

MCTools == <<"npm", "go", "gem">>
MCDefaultPass == {"gem"}
MCWord == {"mod", "MOD", "tidy", "-v"}
MCFlag == {"-v"}
MCLower == [w \in MCWord |-> IF w = "MOD" THEN "mod" ELSE w]
MCKey == {<<>>, <<"mod">>, <<"mod", "tidy">>}
=============================================================================
