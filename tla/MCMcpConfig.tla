---------------------------- MODULE MCMcpConfig ----------------------------
(* Small instances of McpConfig.  What the other entries and the settings  *)
(* hold is "text", or "wide" if there is an integer among it that does not *)
(* fit the 53 bits of a float64.                                           *)
EXTENDS McpConfig

MCRest == {"nothing", "text", "wide", "rounded"}

MCRounded(r) == IF r = "wide" THEN "rounded" ELSE r

\* The agent's own entries, or none, and text besides.
AgentObjects ==
    {EmptyObject} \cup
    {[servers |-> s, rest |-> "text"] :
        s \in [Name -> {Agent, None}] \cup {Missing, NotAMap}}

MCPrior == AgentObjects \cup {NoFile, Blank, Null, Unparsable}

\* Every entry is there, one of them with such an integer.
MCWide == {[servers |-> [n \in Name |-> Agent], rest |-> "wide"]}
=============================================================================
