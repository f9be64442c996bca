-------------------------- MODULE MCAliasDispatch --------------------------
(* Small instances of AliasDispatch: one typed command while installs and  *)
(* uninstalls of the tools of MCPackageAlias run.                          *)
EXTENDS AliasDispatch, MCPackageAlias

\* The alias directory before the native tool, twice, without the native tool,
\* and by another name, too.
MCPaths == {<<"alias", "native">>, <<"alias", "other", "alias", "native">>,
            <<"alias">>, <<"alias", "otherName", "native">>}
=============================================================================
