----------------------------- MODULE McpRegistry -----------------------------
(***************************************************************************)
(* What jf mcp install and uninstall promise of the configuration file of  *)
(* an agent, as long as things go in order: a command sets or removes its  *)
(* own entry, in one step and at most once, and leaves everything else in  *)
(* the file untouched.  Once they do not, nothing is promised any more.    *)
(***************************************************************************)
EXTENDS McpFile

VARIABLES
    content,    \* what the file says
    name,       \* name[c]: the entry that the command c is about
    applied,    \* the commands that have changed the file
    orderly     \* things have gone in order

Init ==
    /\ content \in Object \cup {Unparsable}
    /\ name \in [Command -> Name]
    /\ applied = {}
    /\ orderly = TRUE

Apply(c) ==
    /\ c \notin applied
    /\ content # Unparsable
    /\ applied' = applied \cup {c}

Install(i) == Apply(i) /\ content' = SetEntry(content, name[i], i)

Uninstall(u) ==
    /\ Apply(u)
    /\ mcpServersMap(content)[name[u]] # None
    /\ content' = SetEntry(content, name[u], None)

Edit ==
    /\ content # Unparsable
    /\ \E n \in Name, owner \in {Agent, None} : content' = SetEntry(content, n, owner)
    /\ UNCHANGED applied

InOrder ==
    /\ orderly /\ UNCHANGED orderly
    /\ \/ \E i \in Installer : Install(i)
       \/ \E u \in Uninstaller : Uninstall(u)
       \/ Edit

OutOfOrder == orderly' = FALSE

Next == (InOrder \/ OutOfOrder) /\ UNCHANGED name

Spec == Init /\ [][Next]_<<content, name, applied, orderly>>
=============================================================================
