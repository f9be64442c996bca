-------------------------- MODULE McpConfig_proofs --------------------------
(***************************************************************************)
(* Theorems about McpConfig, for all commands, names, contents of the file *)
(* and edits of the agent.                                                 *)
(*                                                                         *)
(* That commands implement the registry needs an invariant of the orderly  *)
(* part of a behaviour: at most one command is at work (OneAtATime), and   *)
(* one that is about to write holds what the file says (Holding), so that  *)
(* the write, which the registry makes in one step, is the edit of the     *)
(* contents of that moment.                                                *)
(***************************************************************************)
EXTENDS McpConfig, FiniteSetTheorems, TLAPS

\* The file has no number that is rounded.
Exact == \A r \in Rest : Rounded(r) = r

Busy(c) == ~Ended(c) /\ at[c] # First(c)

OneAtATime == \A c, d \in Command : Busy(c) /\ Busy(d) => c = d

Holding ==
    \A c \in Command :
        /\ at[c] = "open" => root[c] = Says(file)
        /\ at[c] = "fill" => file = Blank
        /\ at[c] \in {"open", "fill"} /\ c \in Uninstaller =>
              mcpServersMap(root[c])[name[c]] # None

Inv == TypeOK /\ (orderly => OneAtATime /\ Holding)

Applied == {c \in Command : at[c] = "written"}

-----------------------------------------------------------------------------
(* Objects and what is made of them.                                       *)
LEMMA Objects ==
    /\ EmptyObject \in Object
    /\ \A o \in Object : /\ mcpServersMap(o) \in Entries
                         /\ \A r \in Rest : [o EXCEPT !.rest = r] \in Object
    /\ \A o \in Object, n \in Name, w \in Owner \cup {None} :
          SetEntry(o, n, w) \in Object
  <1>1. EmptyObject \in Object
    BY McpFileAssumption DEF EmptyObject, Object
  <1>2. ASSUME NEW o \in Object
        PROVE  /\ mcpServersMap(o) \in Entries
               /\ \A r \in Rest : [o EXCEPT !.rest = r] \in Object
    BY DEF Object, mcpServersMap, Entries
  <1>3. ASSUME NEW o \in Object, NEW n \in Name, NEW w \in Owner \cup {None}
        PROVE  SetEntry(o, n, w) \in Object
    <2>1. [mcpServersMap(o) EXCEPT ![n] = w] \in Entries
      BY <1>2, <1>3 DEF Entries
    <2> QED
      BY <1>3, <2>1 DEF SetEntry, Object
  <1> QED
    BY <1>1, <1>2, <1>3

(* What a command reads is an object or nil, and is what the file says if  *)
(* nothing is rounded.                                                     *)
LEMMA Reading ==
    ASSUME file \in Object \cup {NoFile, Blank, Null}
    PROVE  /\ Parsed(file) \in Object \cup {NilMap}
           /\ Exact /\ Parsed(file) # NilMap => Parsed(file) = Says(file)
  <1>1. CASE file \in {NoFile, Blank, Null}
    BY <1>1, Objects DEF Parsed, Says
  <1>2. CASE file \in Object
    <2>1. file \notin {NoFile, Blank, Null}
      BY <1>2, McpAssumption
    <2>2. Parsed(file) = [file EXCEPT !.rest = Rounded(@)] /\ Says(file) = file
      BY <2>1 DEF Parsed, Says
    <2>3. file.rest \in Rest
      BY <1>2 DEF Object
    <2>4. [file EXCEPT !.rest = Rounded(@)] \in Object
      BY <1>2, <2>3, Objects, McpAssumption
    <2>5. Exact => [file EXCEPT !.rest = Rounded(@)] = file
      BY <1>2, <2>3 DEF Exact, Object
    <2> QED
      BY <2>2, <2>4, <2>5
  <1> QED
    BY <1>1, <1>2

(* What a command writes is an object.                                     *)
LEMMA Writing ==
    ASSUME TypeOK, NEW c \in Command, root[c] \in Object
    PROVE  Edited(c) \in Object
  BY Objects, Zenon DEF Edited, TypeOK, Owner

-----------------------------------------------------------------------------
(* The types hold of all commands, overlapping, killed and failing ones    *)
(* included.                                                               *)
LEMMA TypeStep == TypeOK /\ [Next]_vars => TypeOK'
  <1> SUFFICES ASSUME TypeOK, [Next]_vars PROVE TypeOK'
    OBVIOUS
  <1>1. ASSUME NEW c \in Command, Run(c) PROVE TypeOK'
    <2>1. /\ alone' \in [Command -> BOOLEAN] /\ orderly' \in BOOLEAN
          /\ UNCHANGED <<name, dry, edits>>
      BY <1>1 DEF Run, TypeOK, Quiet
    <2>2. CASE (c \in Installer /\ CheckAvailability(c)) \/ (c \in Uninstaller /\ Stat(c))
      BY <2>1, <2>2 DEF CheckAvailability, Stat, Goto, TypeOK, Step
    <2>3. CASE readConfig(c)
      <3>1. CASE Goto(c, "failed") /\ UNCHANGED <<file, root>>
        BY <2>1, <3>1 DEF Goto, TypeOK, Step
      <3>2. CASE Parse(c)
        <4>1. file' = file /\ Parsed(file) \in Object \cup {NilMap}
          BY <2>3, <3>2, Reading DEF readConfig, Parse, TypeOK
        <4>2. root'[c] = Parsed(file) /\ root' \in [Command -> Object \cup {NilMap}]
          BY <3>2, <4>1 DEF Parse, TypeOK
        <4>3. \/ Goto(c, "panicked")
              \/ Goto(c, "nothing")
              \/ root'[c] # NilMap /\ ~dry[c] /\ Goto(c, "open")
          BY <3>2 DEF Parse
        <4>4. /\ at' \in [Command -> Step]
              /\ \A d \in Command \ {c} : at'[d] = at[d]
              /\ at'[c] \notin {"fill", "written"}
              /\ at'[c] = "open" => root'[c] # NilMap /\ ~dry[c]
          BY <4>3 DEF Goto, TypeOK, Step
        <4>5. \A d \in Command \ {c} : root'[d] = root[d]
          BY <3>2 DEF Parse, TypeOK
        <4>6. ASSUME NEW d \in Command, at'[d] \in {"open", "fill", "written"}
              PROVE  root'[d] \in Object /\ ~dry[d]
          <5>1. CASE d = c
            BY <4>1, <4>2, <4>4, <4>6, <5>1
          <5>2. CASE d # c
            BY <4>4, <4>5, <4>6, <5>2 DEF TypeOK
          <5> QED
            BY <5>1, <5>2
        <4> QED
          BY <2>1, <4>1, <4>2, <4>4, <4>6 DEF TypeOK
      <3> QED
        BY <2>3, <3>1, <3>2 DEF readConfig
    <2>4. CASE OpenFile(c)
      BY <2>1, <2>4 DEF OpenFile, Goto, TypeOK, Step
    <2>5. CASE FillFile(c)
      <3>1. Edited(c) \in Object
        BY <2>5, Writing DEF FillFile, TypeOK
      <3> QED
        BY <2>1, <2>5, <3>1 DEF FillFile, Goto, TypeOK, Step
    <2> QED
      BY <1>1, <2>2, <2>3, <2>4, <2>5 DEF Run, Install, Uninstall
  <1>2. ASSUME NEW c \in Command, Kill(c) PROVE TypeOK'
    BY <1>2 DEF Kill, Goto, TypeOK, Step
  <1>3. CASE Edit
    <2>1. file' \in Object
      BY <1>3, Objects, Zenon DEF Edit, Owner
    <2>2. edits' \in 0..MaxEdits
      BY <1>3, McpAssumption DEF Edit, TypeOK
    <2> QED
      BY <1>3, <2>1, <2>2 DEF Edit, TypeOK
  <1>4. CASE UNCHANGED vars
    BY <1>4 DEF vars, TypeOK
  <1> QED
    BY <1>1, <1>2, <1>3, <1>4 DEF Next, AllEnded

(* The invariant holds initially, when no command is at work.              *)
LEMMA Initially == Init => Inv
  <1> SUFFICES ASSUME Init PROVE Inv
    OBVIOUS
  <1>1. TypeOK
    BY Objects, McpAssumption DEF Init, TypeOK, First, Step
  <1>2. OneAtATime /\ Holding
    BY DEF Init, OneAtATime, Holding, Busy, First
  <1> QED
    BY <1>1, <1>2 DEF Inv

(* Commands keep their types; a command that writes has read an object and *)
(* is no dry run.                                                          *)
THEOREM McpTypes == Spec => []TypeOK
  <1>1. Init => TypeOK
    BY Initially DEF Inv
  <1> QED
    BY <1>1, TypeStep, PTL DEF Spec

-----------------------------------------------------------------------------
(* An orderly step of a command is alone; it is at work afterwards, or has *)
(* ended.                                                                  *)
LEMMA Alone ==
    ASSUME TypeOK, NEW c \in Command, Run(c), orderly'
    PROVE  /\ orderly
           /\ \A d \in Command \ {c} : at'[d] = at[d] /\ ~Busy(d)
           /\ \A d \in Command \ {c} : root'[d] = root[d]
           /\ OneAtATime'
  <1>1. orderly /\ \A d \in Command \ {c} : ~Busy(d)
    BY DEF Run, Quiet, Busy
  <1>2. \A d \in Command \ {c} : at'[d] = at[d] /\ root'[d] = root[d]
    <2>1. \E step : Goto(c, step)
      BY DEF Run, Install, Uninstall, CheckAvailability, Stat, readConfig, Parse, OpenFile, FillFile
    <2>2. root' = root \/ root' = [root EXCEPT ![c] = Parsed(file)]
      BY DEF Run, Install, Uninstall, CheckAvailability, Stat, readConfig, Parse, OpenFile, FillFile
    <2> QED
      BY <2>1, <2>2 DEF Goto, TypeOK
  <1>3. OneAtATime'
    BY <1>1, <1>2 DEF OneAtATime, Busy, Ended
  <1> QED
    BY <1>1, <1>2, <1>3

(* Before a command truncates the file it holds what the file says, and    *)
(* the file is its own until it has filled it.                             *)
LEMMA HoldingStep ==
    ASSUME Exact, Inv, NEW c \in Command, Run(c), orderly'
    PROVE  Holding'
  <1> DEFINE Held(d) == /\ at[d] = "open" => root[d] = Says(file)
                        /\ at[d] = "fill" => file = Blank
                        /\ at[d] \in {"open", "fill"} /\ d \in Uninstaller =>
                              mcpServersMap(root[d])[name[d]] # None
  <1>1. /\ \A d \in Command \ {c} : at'[d] = at[d] /\ ~Busy(d)
        /\ orderly /\ name' = name
    BY Alone DEF Inv, Run
  <1>0. TypeOK /\ Held(c)
    BY <1>1 DEF Inv, Holding
  <1>2. ASSUME NEW d \in Command \ {c} PROVE Held(d)'
    BY <1>1 DEF Busy, Ended, First
  <1>3. Held(c)'
    <2>1. CASE CheckAvailability(c) \/ Stat(c)
      BY <2>1, <1>0 DEF CheckAvailability, Stat, Goto, TypeOK
    <2>2. CASE readConfig(c)
      <3>1. CASE Goto(c, "failed")
        BY <3>1, <1>0 DEF Goto, TypeOK
      <3>2. CASE Parse(c)
        <4>1. file' = file /\ root'[c] = Parsed(file)
          BY <2>2, <3>2, <1>0 DEF readConfig, Parse, TypeOK
        <4>2. at'[c] # "fill"
          BY <3>2, <1>0 DEF Parse, Goto, TypeOK
        <4>3. at'[c] = "open" => /\ root'[c] # NilMap
                                 /\ c \in Uninstaller => mcpServersMap(root'[c])[name[c]] # None
          BY <3>2, <1>0 DEF Parse, Goto, TypeOK
        <4>4. at'[c] = "open" => root'[c] = Says(file)
          BY <4>1, <4>3, <3>2, <1>0, Reading DEF Parse, TypeOK
        <4> QED
          BY <1>1, <4>1, <4>2, <4>3, <4>4 DEF Says
      <3> QED
        BY <2>2, <3>1, <3>2 DEF readConfig
    <2>3. CASE OpenFile(c)
      BY <2>3, <1>0, <1>1 DEF OpenFile, Goto, TypeOK
    <2>4. CASE FillFile(c)
      BY <2>4, <1>0 DEF FillFile, Goto, TypeOK
    <2> QED
      BY <2>1, <2>2, <2>3, <2>4 DEF Run, Install, Uninstall
  <1> QED
    BY <1>2, <1>3 DEF Holding

(* No step breaks the invariant.                                           *)
LEMMA Inductive ==
    ASSUME Exact
    PROVE  Inv /\ [Next]_vars => Inv'
  <1> SUFFICES ASSUME Inv, [Next]_vars, orderly' PROVE OneAtATime' /\ Holding'
    BY TypeStep DEF Inv
  <1>1. ASSUME NEW c \in Command, Run(c) PROVE OneAtATime' /\ Holding'
    BY <1>1, Alone, HoldingStep DEF Inv
  <1>2. ASSUME NEW c \in Command, Kill(c) PROVE OneAtATime' /\ Holding'
    <2>1. /\ orderly /\ at'[c] = "killed" /\ \A d \in Command \ {c} : at'[d] = at[d]
          /\ UNCHANGED <<file, name, root>>
      BY <1>2 DEF Kill, Goto, Inv, TypeOK
    <2>2. OneAtATime'
      BY <2>1 DEF Inv, OneAtATime, Busy, Ended
    <2>3. Holding'
      BY <2>1 DEF Inv, Holding, Says
    <2> QED
      BY <2>2, <2>3
  <1>3. CASE Edit
    <2>1. \A c \in Command : ~Busy(c) /\ at'[c] = at[c]
      BY <1>3 DEF Edit, Quiet, Busy
    <2> QED
      BY <2>1 DEF OneAtATime, Holding, Busy, Ended, First
  <1>4. CASE UNCHANGED vars
    BY <1>4 DEF vars, Inv, OneAtATime, Holding, Busy, Ended, Says
  <1> QED
    BY <1>1, <1>2, <1>3, <1>4 DEF Next, AllEnded

-----------------------------------------------------------------------------
(* The registry has its own copies of the operators of McpFile.            *)
LEMMA SameOperators ==
    /\ Registry!Object = Object
    /\ \A o, n, w : Registry!SetEntry(o, n, w) = SetEntry(o, n, w)
    /\ \A o : Registry!mcpServersMap(o) = mcpServersMap(o)
  <1>1. Registry!Entries = Entries
    BY DEF Registry!Entries, Entries, Registry!Owner, Owner
  <1>2. Registry!Object = Object
    BY <1>1 DEF Registry!Object, Object
  <1>3. \A o : Registry!mcpServersMap(o) = mcpServersMap(o)
    BY <1>1 DEF Registry!mcpServersMap, mcpServersMap
  <1>4. \A o, n, w : Registry!SetEntry(o, n, w) = SetEntry(o, n, w)
    BY <1>3 DEF Registry!SetEntry, SetEntry
  <1> QED
    BY <1>2, <1>3, <1>4

(* While a command has truncated the file, the contents are what it holds. *)
LEMMA CurrentIs ==
    /\ \A c \in Command : OneAtATime /\ at[c] = "fill" => Current = root[c]
    /\ (\A c \in Command : at[c] # "fill") => Current = Says(file)
  <1>1. ASSUME NEW c \in Command, OneAtATime, at[c] = "fill"
        PROVE  Current = root[c]
    <2>1. \A d \in Command : at[d] = "fill" => d = c
      BY <1>1 DEF OneAtATime, Busy, Ended, First
    <2>2. (CHOOSE d \in Command : at[d] = "fill") = c
      BY <1>1, <2>1
    <2> QED
      BY <1>1, <2>2 DEF Current
  <1>2. (\A c \in Command : at[c] # "fill") => Current = Says(file)
    BY DEF Current
  <1> QED
    BY <1>1, <1>2

LEMMA CurrentIsNext ==
    /\ \A c \in Command : OneAtATime' /\ at'[c] = "fill" => Current' = root'[c]
    /\ (\A c \in Command : at'[c] # "fill") => Current' = Says(file')
  <1>1. ASSUME NEW c \in Command, OneAtATime', at'[c] = "fill"
        PROVE  Current' = root'[c]
    <2>1. \A d \in Command : at'[d] = "fill" => d = c
      BY <1>1 DEF OneAtATime, Busy, Ended, First
    <2>2. (CHOOSE d \in Command : at'[d] = "fill") = c
      BY <1>1, <2>1
    <2> QED
      BY <1>1, <2>2 DEF Current
  <1>2. (\A c \in Command : at'[c] # "fill") => Current' = Says(file')
    BY DEF Current, Says
  <1> QED
    BY <1>1, <1>2

(* When a command is at work nobody else has truncated the file.           *)
LEMMA NobodyElseFills ==
    ASSUME Inv, NEW c \in Command, Run(c), orderly'
    PROVE  \A d \in Command \ {c} : at[d] # "fill" /\ at'[d] # "fill"
  BY Alone DEF Inv, Busy, Ended, First

(* A run of jf mcp changes the contents, and is counted as applied, in the *)
(* one step that fills the file; its other steps leave both alone.         *)
LEMMA RunImplements ==
    ASSUME Inv, Inv', NEW c \in Command, Run(c), orderly'
    PROVE  \/ Registry!Next
           \/ UNCHANGED <<Current, name, Applied, orderly>>
  <1>1. /\ \A d \in Command \ {c} : at[d] # "fill" /\ at'[d] # "fill" /\ at'[d] = at[d]
        /\ name' = name /\ orderly
        /\ orderly' = orderly
    <2>1. TypeOK /\ orderly /\ orderly'
      BY Alone DEF Inv
    <2> QED
      BY <2>1, Alone, NobodyElseFills DEF Run, TypeOK, Inv
  <1>0. TypeOK /\ OneAtATime /\ OneAtATime' /\ Holding
    BY <1>1 DEF Inv
  <1>2. CASE at[c] \in {"check", "stat", "read"}
    <2>1. /\ at[c] # "fill" /\ at'[c] # "fill"
          /\ at[c] # "written" /\ at'[c] # "written"
          /\ file' = file
      BY <1>0, <1>2 DEF Run, Install, Uninstall, CheckAvailability, Stat, readConfig, Parse,
                        OpenFile, FillFile, Goto, TypeOK
    <2>2. Current = Says(file) /\ Current' = Says(file')
      BY <1>1, <2>1, CurrentIs, CurrentIsNext
    <2>3. Applied' = Applied
      BY <1>1, <2>1 DEF Applied
    <2> QED
      BY <1>1, <2>1, <2>2, <2>3
  <1>3. CASE at[c] = "open"
    <2>1. Current = Says(file) /\ root[c] = Says(file)
      BY <1>0, <1>1, <1>3, CurrentIs DEF Holding
    <2>2. /\ root' = root
          /\ \/ at'[c] = "fill"
             \/ at'[c] = "failed" /\ file' = file
      BY <1>0, <1>3 DEF Run, Install, Uninstall, CheckAvailability, Stat, readConfig,
                        OpenFile, FillFile, Goto, TypeOK
    <2>3. Current' = Current
      BY <1>0, <1>1, <2>1, <2>2, CurrentIsNext
    <2>4. Applied' = Applied
      BY <1>1, <1>3, <2>2 DEF Applied
    <2> QED
      BY <1>1, <2>3, <2>4
  <1>4. CASE at[c] = "fill"
    <2>1. Current = root[c] /\ file = Blank /\ root[c] \in Object
      BY <1>0, <1>4, CurrentIs DEF Holding, TypeOK
    <2>2. file' = Edited(c) /\ at'[c] = "written"
      BY <1>0, <1>4, <2>1 DEF Run, Install, Uninstall, CheckAvailability, Stat, readConfig,
                              OpenFile, FillFile, Goto, TypeOK
    <2>3. Edited(c) \in Object
      BY <1>0, <2>1, Writing
    <2>4. Current' = Edited(c)
      BY <1>1, <2>2, <2>3, CurrentIsNext, McpAssumption DEF Says
    <2>5. Applied' = Applied \cup {c} /\ c \notin Applied
      BY <1>1, <1>4, <2>2 DEF Applied
    <2>6. Current # Unparsable
      BY <2>1, UnparsableAssumption
    <2>7. CASE c \in Installer
      <3>1. Registry!Install(c)
        BY <1>1, <2>1, <2>4, <2>5, <2>6, <2>7, SameOperators
           DEF Registry!Install, Registry!Apply, Edited, Applied
      <3> QED
        BY <1>1, <2>7, <3>1 DEF Registry!Next, Registry!InOrder
    <2>8. CASE c \in Uninstaller
      <3>1. mcpServersMap(Current)[name[c]] # None
        BY <1>0, <1>4, <2>1, <2>8 DEF Holding
      <3>2. c \notin Installer
        BY <2>8, McpFileAssumption
      <3>3. Registry!Uninstall(c)
        BY <1>1, <2>1, <2>4, <2>5, <2>6, <3>1, <3>2, SameOperators
           DEF Registry!Uninstall, Registry!Apply, Edited, Applied
      <3> QED
        BY <1>1, <2>8, <3>3 DEF Registry!Next, Registry!InOrder
    <2> QED
      BY <2>7, <2>8 DEF Command
  <1>5. at[c] \in {"check", "stat", "read", "open", "fill"}
    BY DEF Run, Install, Uninstall, CheckAvailability, Stat, readConfig, OpenFile, FillFile
  <1> QED
    BY <1>2, <1>3, <1>4, <1>5

(* So does a kill that does not come between truncating and filling.       *)
LEMMA KillImplements ==
    ASSUME Inv, NEW c \in Command, Kill(c), orderly'
    PROVE  UNCHANGED <<Current, name, Applied, orderly>>
  <1>1. /\ orderly /\ orderly' = orderly /\ file' = file /\ name' = name
        /\ at[c] \notin {"fill", "written"} /\ at'[c] = "killed"
        /\ \A d \in Command \ {c} : at'[d] = at[d]
    BY DEF Kill, Goto, Ended, Inv, TypeOK
  <1>2. \A d \in Command : at[d] # "fill" /\ at'[d] # "fill"
    BY <1>1 DEF Inv, OneAtATime, Busy, Kill, Ended, First
  <1>3. Current' = Current
    BY <1>1, <1>2, CurrentIs, CurrentIsNext DEF Says
  <1>4. Applied' = Applied
    BY <1>1 DEF Applied
  <1> QED
    BY <1>1, <1>3, <1>4

(* Commands set and remove their entries as the registry promises, in one  *)
(* step, at most once, and leaving everything else in the file untouched,  *)
(* until two of them or an edit overlap, or one is killed or fails between *)
(* truncating the file and filling it.                                     *)
THEOREM CommandsImplementRegistry == ASSUME Exact PROVE Spec => RegistrySpec
  <1> DEFINE Mapped == <<Current, name, Applied, orderly>>
  <1>1. Init => Inv /\ Registry!Init
    <2> SUFFICES ASSUME Init PROVE Inv /\ Registry!Init
      OBVIOUS
    <2>1. Inv
      BY Initially
    <2>2. \A c \in Command : at[c] \notin {"fill", "written"}
      BY DEF Init, First
    <2>3. Current = Says(file)
      BY <2>2, CurrentIs
    <2>4. Says(file) \in Object \cup {Unparsable}
      BY <2>1, Objects DEF Inv, TypeOK, Says
    <2>5. Applied = {}
      BY <2>2 DEF Applied
    <2> QED
      BY <2>1, <2>3, <2>4, <2>5, SameOperators
         DEF Init, Registry!Init, Applied, Registry!Command, Command
  <1>2. Inv /\ [Next]_vars => Inv'
    BY Inductive
  <1>3. Inv /\ Inv' /\ [Next]_vars => [Registry!Next]_Mapped
    <2> SUFFICES ASSUME Inv, Inv', [Next]_vars
                 PROVE  [Registry!Next]_Mapped
      OBVIOUS
    <2>1. CASE orderly' = FALSE
      BY <2>1 DEF Next, Run, Edit, Kill, AllEnded, vars, Registry!Next, Registry!OutOfOrder
    <2>2. CASE orderly'
      <3>1. ASSUME NEW c \in Command, Run(c) PROVE [Registry!Next]_Mapped
        BY <2>2, <3>1, RunImplements
      <3>2. ASSUME NEW c \in Command, Kill(c) PROVE [Registry!Next]_Mapped
        BY <2>2, <3>2, KillImplements
      <3>3. CASE Edit
        <4>1. /\ \A c \in Command : at[c] # "fill" /\ at'[c] # "fill" /\ at'[c] = at[c]
              /\ name' = name /\ orderly /\ orderly' = orderly
          BY <2>2, <3>3 DEF Edit, Quiet, Ended, First, Inv, TypeOK
        <4>2. Current = Says(file) /\ Current' = Says(file')
          BY <4>1, CurrentIs, CurrentIsNext
        <4>3. file \in Object /\ file' \in Object
          BY <3>3, Objects, Zenon DEF Edit, Owner
        <4>4. Current = file /\ Current' = file'
          BY <4>2, <4>3, McpAssumption DEF Says
        <4>5. Applied' = Applied
          BY <4>1 DEF Applied
        <4>6. Registry!Edit
          BY <3>3, <4>3, <4>4, <4>5, UnparsableAssumption, SameOperators
             DEF Edit, Registry!Edit, Applied
        <4> QED
          BY <4>1, <4>6 DEF Registry!Next, Registry!InOrder
      <3>4. CASE UNCHANGED vars
        BY <3>4 DEF vars, Current, Says, Applied
      <3> QED
        BY <3>1, <3>2, <3>3, <3>4 DEF Next, AllEnded
    <2> QED
      BY <2>1, <2>2 DEF Inv, TypeOK
  <1> QED
    BY <1>1, <1>2, <1>3, PTL DEF Spec, RegistrySpec, Registry!Spec, Applied

-----------------------------------------------------------------------------
(* Installs that nothing overlaps                                          *)

(* An entry that is set is what the file then says of its name.            *)
LEMMA EntryIsSet ==
    ASSUME NEW o \in Object, NEW n \in Name, NEW w \in Owner \cup {None}
    PROVE  mcpServersMap(SetEntry(o, n, w))[n] = w
  <1>1. mcpServersMap(o) \in Entries
    BY Objects
  <1>2. [mcpServersMap(o) EXCEPT ![n] = w] \in Entries
    BY <1>1 DEF Entries
  <1>3. SetEntry(o, n, w).servers = [mcpServersMap(o) EXCEPT ![n] = w]
    BY DEF SetEntry, Object
  <1> QED
    BY <1>1, <1>2, <1>3 DEF mcpServersMap, Entries

\* c has begun, nothing else is at work, and the file is its own from the
\* moment c has truncated it.
OnItsOwn(c) ==
    /\ at[c] # First(c)
    /\ Quiet(Command \ {c})
    /\ at[c] = "fill" => file = Blank
    /\ at[c] = "written" /\ c \in Installer =>
          file \in Object /\ mcpServersMap(file)[name[c]] = c

LoneInv == TypeOK /\ \A c \in Command : alone[c] => OnItsOwn(c)

(* A step of a command that has begun and is alone.                        *)
LEMMA OnItsOwnStep ==
    ASSUME TypeOK, NEW c \in Command, Run(c), at[c] # First(c), OnItsOwn(c)
    PROVE  OnItsOwn(c)'
  <1> USE DEF OnItsOwn, Quiet, Goto, TypeOK
  <1>1. /\ \A d \in Command \ {c} : at'[d] = at[d]
        /\ at'[c] # First(c) /\ name' = name
    BY DEF Run, Install, Uninstall, CheckAvailability, Stat, readConfig, Parse,
           OpenFile, FillFile, First
  <1>2. Quiet(Command \ {c})'
    BY <1>1 DEF Ended, First
  <1>3. CASE CheckAvailability(c) \/ Stat(c) \/ readConfig(c) \/ OpenFile(c)
    <2>1. /\ at'[c] # "written"
          /\ at'[c] = "fill" => file' = Blank
      BY <1>3 DEF CheckAvailability, Stat, readConfig, Parse, OpenFile
    <2> QED
      BY <1>1, <1>2, <2>1 DEF First
  <1>4. CASE FillFile(c)
    <2>1. at[c] = "fill" /\ file = Blank /\ root[c] \in Object
      BY <1>4 DEF FillFile
    <2>2. CASE at'[c] = "written"
      <3>1. file' = Edited(c)
        BY <1>4, <2>1, <2>2 DEF FillFile
      <3>2. Edited(c) \in Object
        BY <2>1, Writing
      <3>3. ASSUME c \in Installer PROVE mcpServersMap(Edited(c))[name[c]] = c
        <4>1. Edited(c) = SetEntry(root[c], name[c], c)
          BY <3>3 DEF Edited
        <4>2. c \in Owner \cup {None} /\ name[c] \in Name
          BY <3>3 DEF Owner
        <4> QED
          BY <2>1, <4>1, <4>2, EntryIsSet
      <3> QED
        BY <1>1, <1>2, <2>2, <3>1, <3>2, <3>3 DEF First
    <2>3. CASE at'[c] # "written"
      BY <1>1, <1>2, <1>4, <2>3 DEF FillFile, First
    <2> QED
      BY <2>2, <2>3
  <1> QED
    BY <1>3, <1>4 DEF Run, Install, Uninstall

LEMMA LoneStep ==
    ASSUME LoneInv, [Next]_vars, NEW c \in Command, alone'[c]
    PROVE  OnItsOwn(c)'
  <1>0. TypeOK /\ (alone[c] => OnItsOwn(c))
    BY DEF LoneInv
  <1>1. CASE Run(c)
    <2>1. CASE at[c] = First(c)
      <3>1. Quiet(Command \ {c})
        BY <1>1, <2>1 DEF Run
      <3>2. /\ \A d \in Command \ {c} : at'[d] = at[d]
            /\ at'[c] \notin {First(c), "fill", "written"}
        BY <1>0, <1>1, <2>1 DEF Run, Install, Uninstall, CheckAvailability, Stat,
             readConfig, OpenFile, FillFile, Goto, TypeOK, First
      <3> QED
        BY <3>1, <3>2 DEF OnItsOwn, Quiet, Ended, First
    <2>2. CASE at[c] # First(c)
      BY <1>0, <1>1, <2>2, OnItsOwnStep DEF Run
    <2> QED
      BY <2>1, <2>2
  <1>2. ASSUME NEW d \in Command \ {c}, Run(d) PROVE FALSE
    <2>1. at[d] # First(d) /\ alone[c]
      BY <1>0, <1>2 DEF Run, TypeOK
    <2>2. Ended(d)
      BY <1>0, <2>1 DEF OnItsOwn, Quiet
    <2> QED
      BY <1>2, <2>1, <2>2 DEF Run, Install, Uninstall, CheckAvailability, Stat,
           readConfig, OpenFile, FillFile, Ended
  <1>3. ASSUME NEW d \in Command, Kill(d) PROVE OnItsOwn(c)'
    <2>1. /\ alone[c] /\ UNCHANGED <<file, name>>
          /\ at'[d] = "killed" /\ \A e \in Command \ {d} : at'[e] = at[e]
      BY <1>0, <1>3 DEF Kill, Goto, TypeOK
    <2> QED
      BY <1>0, <2>1 DEF OnItsOwn, Quiet, Ended, First
  <1>4. CASE Edit
    BY <1>4 DEF Edit
  <1>5. CASE UNCHANGED vars
    BY <1>0, <1>5 DEF vars, OnItsOwn, Quiet, Ended, First
  <1> QED
    BY <1>1, <1>2, <1>3, <1>4, <1>5 DEF Next, AllEnded

(* An install that succeeds and that nothing overlapped has set its entry  *)
(* in a file that parses, whatever any number of overlapping, failing and  *)
(* killed commands had left there.                                         *)
THEOREM LoneInstallsTakeEffect == Spec => []LoneInstallTakesEffect
  <1>1. Init => LoneInv
    BY Initially DEF Init, Inv, LoneInv
  <1>2. LoneInv /\ [Next]_vars => LoneInv'
    BY LoneStep, TypeStep DEF LoneInv
  <1>3. LoneInv => LoneInstallTakesEffect
    BY DEF LoneInv, OnItsOwn, LoneInstallTakesEffect, Command
  <1> QED
    BY <1>1, <1>2, <1>3, PTL DEF Spec
=============================================================================
