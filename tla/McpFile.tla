------------------------------ MODULE McpFile ------------------------------
(* The configuration file of an AI agent as jf mcp reads and writes it.    *)
EXTENDS FiniteSets

CONSTANTS
    Installer, Uninstaller, \* the jf mcp install and uninstall commands
    Name,       \* names of MCP servers
    Agent,      \* the agent, its user or an earlier command, who made entries, too
    None,       \* there is no entry of that name
    Missing,    \* there is no "mcpServers" key
    NotAMap,    \* its value is not an object
    Rest,       \* what the other entries and the settings of the agent can hold
    NoRest,     \* nothing that a command could change
    Unparsable  \* a file that is not a JSON object

Command == Installer \cup Uninstaller

Owner == Installer \cup {Agent}

Entries == [Name -> Owner \cup {None}]

ASSUME McpFileAssumption ==
    /\ Installer \cap Uninstaller = {} /\ IsFiniteSet(Command)
    /\ None \notin Owner
    /\ Missing \notin Entries /\ NotAMap \notin Entries
    /\ NoRest \in Rest

\* A file that is a JSON object; an entry is identified with who made it.
Object == [servers : Entries \cup {Missing, NotAMap}, rest : Rest]

ASSUME UnparsableAssumption == Unparsable \notin Object

EmptyObject == [servers |-> Missing, rest |-> NoRest]

\* mcpServersMap makes a map if there is none, whatever there is instead.
mcpServersMap(object) ==
    IF object.servers \in Entries THEN object.servers ELSE [n \in Name |-> None]

SetEntry(object, n, owner) ==
    [object EXCEPT !.servers = [mcpServersMap(object) EXCEPT ![n] = owner]]
=============================================================================
