------------------------- MODULE VersionCheck_proofs -------------------------
(***************************************************************************)
(* Theorems about VersionCheck, for all intervals, clocks, failing writes  *)
(* and contents of the file.                                               *)
(*                                                                         *)
(* The inductive invariant says what the file and what a run has read      *)
(* still tell of the checks, as long as runs follow each other: a file     *)
(* with a time has the last one (Synced), so does what a run read          *)
(* (Informed), and a run that goes on after its decision is late enough    *)
(* (Apart). For runs that overlap there is a second one: a time that a run *)
(* found was checked or is about to be (Backed), and a file that is        *)
(* truncated has a run that fills it (Sound).                              *)
(***************************************************************************)
EXTENDS VersionCheck, TLAPS

Synced ==
    /\ file \in Time => \A t \in checks : t <= file
    /\ file \in {NoFile, Unset} => checks = {}

Apart(r) == \A t \in checks : time[r] >= t + Interval

Informed(r) ==
    /\ at[r] \in {"init", "initFill"} => checks = {}
    /\ at[r] = "decide" =>
          /\ found[r] = Unset => checks = {}
          /\ found[r] \in Time => \A t \in checks : t <= found[r]
    /\ call[r] = "set" /\ ~Ended(r) => Apart(r)
    /\ at[r] = "send" => file = time[r]

Known ==
    /\ TypeOK /\ Synced
    /\ \A r \in Run : Informed(r)

Inv == TypeOK /\ (inTurn => Known)

-----------------------------------------------------------------------------
(* Initially only the time in the file stands for a check.                 *)
LEMMA Initially == Init => Known
  <1> SUFFICES ASSUME Init PROVE Known
    OBVIOUS
  <1>1. TypeOK
    BY VersionAssumption DEF Init, TypeOK, Step, Time
  <1>2. Synced
    BY VersionAssumption DEF Init, Synced, Time
  <1>3. ASSUME NEW r \in Run PROVE Informed(r)
    BY DEF Init, Informed
  <1> QED
    BY <1>1, <1>2, <1>3 DEF Known

(* The types hold of all runs, overlapping and killed ones included.       *)
LEMMA TypeStep == TypeOK /\ [Next]_vars => TypeOK'
  <1> SUFFICES ASSUME TypeOK, [Next]_vars PROVE TypeOK'
    OBVIOUS
  <1> USE DEF TypeOK, Step, Goto, Fails, Found
  <1>1. ASSUME NEW r \in Run, CheckNewCliVersionAvailable(r) PROVE TypeOK'
    <2>1. UNCHANGED now /\ inTurn' \in BOOLEAN /\ sound' \in BOOLEAN
      BY <1>1 DEF CheckNewCliVersionAvailable
    <2>2. CASE UNCHANGED checks /\ (Avoid(r) \/ Stat(r) \/ Read(r))
      BY <2>1, <2>2 DEF Avoid, Stat, Read
    <2>3. CASE UNCHANGED checks /\ (Truncate(r) \/ FillUnset(r) \/ FillTime(r))
      BY <2>1, <2>3 DEF Truncate, FillUnset, FillTime, Over
    <2>4. CASE UNCHANGED checks /\ Decide(r)
      <3>1. time' \in [Run -> Time] /\ \A q \in Run : time'[q] <= now
        BY <2>4, VersionAssumption DEF Decide, Time
      <3>2. /\ at' \in [Run -> Step] /\ at'[r] \in {"recent", "stat"}
            /\ \A q \in Run \ {r} : at'[q] = at[q]
        BY <2>4 DEF Decide
      <3>3. call' \in [Run -> {"get", "set"}] /\ \A q \in Run \ {r} : call'[q] = call[q]
        BY <2>4 DEF Decide
      <3> QED
        BY <2>1, <2>4, <3>1, <3>2, <3>3 DEF Decide
    <2>5. CASE Send(r)
      BY <2>1, <2>5 DEF Send
    <2> QED
      BY <1>1, <2>2, <2>3, <2>4, <2>5 DEF CheckNewCliVersionAvailable
  <1>2. ASSUME NEW r \in Run, Kill(r) PROVE TypeOK'
    BY <1>2 DEF Kill
  <1>3. CASE Tick
    BY <1>3, VersionAssumption DEF Tick, Time
  <1>4. CASE UNCHANGED vars
    BY <1>4 DEF vars
  <1> QED
    BY <1>1, <1>2, <1>3, <1>4 DEF Next, AllEnded

(* A run that is not at work knows nothing that could become stale.        *)
LEMMA OthersInformed ==
    ASSUME NEW r \in Run, NEW q \in Run \ {r}, Quiet(Run \ {r}),
           at'[q] = at[q], call'[q] = call[q]
    PROVE  Informed(q)'
  BY DEF Quiet, Begins, Ended, Informed

(* A step of r changes what is kept of r alone.                            *)
LEMMA OthersStay ==
    ASSUME TypeOK, NEW r \in Run, CheckNewCliVersionAvailable(r)
    PROVE  \A q \in Run \ {r} : at'[q] = at[q] /\ call'[q] = call[q]
  <1> USE DEF TypeOK, Goto, Fails, Found
  <1>1. CASE Avoid(r) \/ Stat(r) \/ Read(r) \/ Truncate(r)
    BY <1>1 DEF Avoid, Stat, Read, Truncate
  <1>2. CASE FillUnset(r) \/ FillTime(r) \/ Decide(r) \/ Send(r)
    BY <1>2 DEF FillUnset, FillTime, Decide, Send
  <1> QED
    BY <1>1, <1>2 DEF CheckNewCliVersionAvailable

(* A run that gives up leaves the file and the checks alone.               *)
LEMMA FailsKeeps ==
    ASSUME Known, TypeOK', NEW r \in Run, Fails(r), UNCHANGED <<now, checks>>
    PROVE  Synced' /\ Informed(r)'
  <1> USE DEF Fails, Goto
  <1>1. at'[r] = "error"
    BY DEF Known, TypeOK, Step
  <1>2. Synced'
    BY DEF Known, Synced
  <1> QED
    BY <1>1, <1>2 DEF Informed, Ended

(* Steps that only read the file.                                          *)
LEMMA LookingKeeps ==
    ASSUME Known, TypeOK', NEW r \in Run, Avoid(r) \/ Stat(r) \/ Read(r), UNCHANGED <<now, checks>>
    PROVE  Synced' /\ Informed(r)'
  <1>1. CASE Fails(r)
    BY <1>1, FailsKeeps
  <1>2. CASE Avoid(r)
    <2> USE <1>2 DEF Avoid, Goto
    <2>1. at'[r] = "avoided"
      BY DEF Known, TypeOK, Step
    <2> QED
      BY <2>1 DEF Known, Synced, Informed, Ended
  <1>3. CASE Stat(r)
    <2> USE <1>3 DEF Stat, Goto
    <2>1. at'[r] = IF file = NoFile THEN "init" ELSE "read"
      BY DEF Known, TypeOK, Step
    <2>2. Synced' /\ (file = NoFile => checks = {})
      BY DEF Known, Synced
    <2>3. call[r] = "set" => Apart(r)
      BY DEF Known, Informed, Ended
    <2> QED
      BY <2>1, <2>2, <2>3 DEF Informed, Ended, Apart
  <1>4. CASE Read(r) /\ ~Fails(r)
    <2> USE <1>4 DEF Read, Found, Goto
    <2>1. file \in {Unset} \cup Time
      BY DEF Known, TypeOK
    <2>2. /\ at'[r] = IF call[r] = "get" THEN "decide" ELSE "open"
          /\ found'[r] = file
      BY <2>1 DEF Known, TypeOK, Step
    <2>3. Synced'
      BY DEF Known, Synced
    <2>4. call[r] = "set" => Apart(r)
      BY DEF Known, Informed, Ended
    <2> QED
      BY <2>1, <2>2, <2>3, <2>4 DEF Informed, Ended, Apart, Synced
  <1> QED
    BY <1>1, <1>2, <1>3, <1>4

(* Steps that write the file: one that is truncated says nothing, and "{}" *)
(* is written only when there was no check.                                *)
LEMMA WritingKeeps ==
    ASSUME Known, TypeOK', NEW r \in Run, Truncate(r) \/ FillUnset(r) \/ FillTime(r),
           UNCHANGED <<now, checks>>
    PROVE  Synced' /\ Informed(r)'
  <1>1. CASE Fails(r)
    BY <1>1, FailsKeeps
  <1>2. CASE Truncate(r) /\ ~Fails(r)
    <2> USE <1>2 DEF Truncate, Goto
    <2>1. at'[r] = IF at[r] = "init" THEN "initFill" ELSE "fill"
      BY DEF Known, TypeOK, Step
    <2>2. Synced'
      BY VersionAssumption DEF Synced
    <2>3. (at[r] = "init" => checks = {}) /\ (call[r] = "set" => Apart(r))
      BY DEF Known, Informed, Ended
    <2> QED
      BY <2>1, <2>2, <2>3 DEF Informed, Ended, Apart
  <1>3. CASE FillUnset(r) /\ ~Fails(r)
    <2> USE <1>3 DEF FillUnset, Found, Goto
    <2>1. file' \in {Unset, Garbled}
      BY DEF Over
    <2>2. at'[r] = IF call[r] = "get" THEN "decide" ELSE "open"
      BY <2>1 DEF Known, TypeOK, Step
    <2>3. checks = {}
      BY DEF Known, Informed
    <2>4. Synced'
      BY <2>3 DEF Synced
    <2> QED
      BY <2>2, <2>3, <2>4 DEF Informed, Ended, Apart
  <1>4. CASE FillTime(r) /\ ~Fails(r)
    <2> USE <1>4 DEF FillTime, Goto
    <2>1. time[r] \in Time /\ time[r] # Unset /\ file' = time[r]
      BY VersionAssumption DEF Known, TypeOK, Over
    <2>2. at'[r] = "send" /\ call[r] = "set"
      BY <2>1 DEF Known, TypeOK, Step
    <2>3. Apart(r)
      BY <2>2 DEF Known, Informed, Ended
    <2>4. Synced'
      BY <2>1, <2>3, VersionAssumption DEF Synced, Apart, Known, TypeOK, Time
    <2> QED
      BY <2>1, <2>2, <2>3, <2>4 DEF Informed, Ended, Apart
  <1> QED
    BY <1>1, <1>2, <1>3, <1>4

(* A run goes on if no check is recent, because the time it read is that   *)
(* of the last one.                                                        *)
LEMMA DecideKeeps ==
    ASSUME Known, TypeOK', NEW r \in Run, Decide(r), UNCHANGED <<now, checks>>
    PROVE  Synced' /\ Informed(r)'
  <1> USE DEF Decide, Goto
  <1>1. /\ at'[r] = IF Recent(r, now) THEN "recent" ELSE "stat"
        /\ time'[r] = now
    BY DEF Known, TypeOK
  <1>2. Synced'
    BY DEF Known, Synced
  <1>3. ASSUME ~Recent(r, now), NEW t \in checks PROVE now >= t + Interval
    <2>1. found[r] \in Time /\ t <= found[r] /\ now >= found[r] + Interval
      BY <1>3, VersionAssumption DEF Recent, Known, TypeOK, Informed, Time
    <2> QED
      BY <2>1, VersionAssumption DEF Known, TypeOK, Time
  <1> QED
    BY <1>1, <1>2, <1>3 DEF Informed, Ended, Apart

(* The clock goes on, and a run is killed.                                 *)
LEMMA TickKeeps == Known /\ TypeOK' /\ Tick => Known'
  BY DEF Known, Synced, Informed, Ended, Apart, Tick

LEMMA KillKeeps ==
    ASSUME Known, TypeOK', NEW r \in Run, Kill(r)
    PROVE  Known'
  <1>1. \A q \in Run : at'[q] = IF q = r THEN "killed" ELSE at[q]
    BY DEF Known, TypeOK, Kill, Goto
  <1> QED
    BY <1>1 DEF Known, Synced, Informed, Ended, Apart, Kill

(* The check that is made is the last one: its time is in the file, or     *)
(* another run is at work.                                                 *)
LEMMA SendKeeps ==
    ASSUME Known, TypeOK', NEW r \in Run, Send(r), UNCHANGED now
    PROVE  Synced' /\ Informed(r)'
  <1> USE DEF Send, Goto
  <1>1. time[r] \in Time /\ time[r] <= now /\ Apart(r) /\ file = time[r]
    BY DEF Known, TypeOK, Informed, Ended
  <1>2. at'[r] = "checked"
    BY <1>1 DEF Known, TypeOK, Step
  <1>3. Synced'
    BY <1>1, VersionAssumption DEF Synced, Apart, Known, TypeOK, Time
  <1> QED
    BY <1>2, <1>3 DEF Informed, Ended

-----------------------------------------------------------------------------
(* No step breaks the invariant, because a step that keeps inTurn finds    *)
(* all other runs quiet.                                                   *)
LEMMA Inductive == Inv /\ [Next]_vars => Inv'
  <1> SUFFICES ASSUME Inv, [Next]_vars, inTurn' PROVE Known'
    BY TypeStep DEF Inv
  <1>0. TypeOK'
    BY TypeStep DEF Inv
  <1>1. ASSUME NEW r \in Run, CheckNewCliVersionAvailable(r) PROVE Known'
    <2>1. Known /\ Quiet(Run \ {r}) /\ UNCHANGED now
      BY <1>1 DEF CheckNewCliVersionAvailable, Inv
    <2>2. Synced' /\ Informed(r)'
      <3>1. CASE Send(r)
        BY <1>0, <3>1, <2>1, SendKeeps
      <3>2. CASE ~Send(r)
        BY <1>0, <1>1, <2>1, <3>2, LookingKeeps, WritingKeeps, DecideKeeps
           DEF CheckNewCliVersionAvailable
      <3> QED
        BY <3>1, <3>2
    <2>3. \A q \in Run \ {r} : at'[q] = at[q] /\ call'[q] = call[q]
      BY <1>1, OthersStay DEF Inv
    <2>4. ASSUME NEW q \in Run \ {r} PROVE Informed(q)'
      BY <2>1, <2>3, OthersInformed
    <2> QED
      BY <1>0, <2>2, <2>4 DEF Known
  <1>2. ASSUME NEW r \in Run, Kill(r) PROVE Known'
    BY <1>0, <1>2, KillKeeps DEF Kill, Inv
  <1>3. CASE Tick
    BY <1>0, <1>3, TickKeeps DEF Tick, Inv
  <1>4. CASE UNCHANGED vars
    BY <1>0, <1>4 DEF vars, Inv, Known, Synced, Informed, Ended, Apart
  <1> QED
    BY <1>1, <1>2, <1>3, <1>4 DEF Next, AllEnded

(* Runs, overlapping or not, keep their types, and no time is in the       *)
(* future.                                                                 *)
THEOREM VersionTypes == Spec => []TypeOK
  <1>1. Init => TypeOK
    BY Initially DEF Known
  <1>2. TypeOK /\ [Next]_vars => TypeOK'
    BY TypeStep
  <1> QED
    BY <1>1, <1>2, PTL DEF Spec

(* Runs that follow each other check only if the last check, of whichever  *)
(* run, was the interval or more ago, also when writing the file fails or  *)
(* a run is killed.                                                        *)
THEOREM RunsInTurnCheckApart == Spec => []ChecksAreApart
  <1>1. Init => Inv
    BY Initially DEF Inv, Known
  <1>2. Inv => ChecksAreApart
    BY DEF Inv, Known, TypeOK, Informed, Ended, Apart, ChecksAreApart
  <1>3. Inv /\ [Next]_vars => Inv'
    BY Inductive
  <1> QED
    BY <1>1, <1>2, <1>3, PTL DEF Spec

-----------------------------------------------------------------------------
\* There was a check at time t, or the run that wrote it is about to make it.
Backed(t) == t \in checks \/ \E q \in Run : at[q] = "send" /\ time[q] = t

Explained(r) ==
    /\ at[r] \notin {"init", "initFill"}
    /\ at[r] = "decide" /\ found[r] \in Time => Backed(found[r])
    /\ at[r] = "recent" => \E t \in Time : Backed(t) /\ time[r] < t + Interval
    /\ at[r] = "error" => \E q \in Run : at[q] \in {"fill", "send", "checked"}

Sound ==
    /\ file \in {Unset, Empty} \cup Time
    /\ file = Empty => \E q \in Run : at[q] = "fill"
    /\ file \in Time => Backed(file)
    /\ \A r \in Run : Explained(r)

SoundInv == TypeOK /\ (sound => Sound)

(* What a step of r does to the others: nothing.                           *)
LEMMA OthersTimes ==
    ASSUME TypeOK, NEW r \in Run, CheckNewCliVersionAvailable(r)
    PROVE  \A q \in Run \ {r} : time'[q] = time[q] /\ found'[q] = found[q]
  <1> USE DEF TypeOK, Goto, Fails, Found
  <1>1. CASE Avoid(r) \/ Stat(r) \/ Read(r) \/ Truncate(r)
    BY <1>1 DEF Avoid, Stat, Read, Truncate
  <1>2. CASE FillUnset(r) \/ FillTime(r) \/ Decide(r) \/ Send(r)
    BY <1>2 DEF FillUnset, FillTime, Decide, Send
  <1> QED
    BY <1>1, <1>2 DEF CheckNewCliVersionAvailable

(* The check that stands behind a time is still made.                      *)
LEMMA BackedStays ==
    ASSUME TypeOK, NEW r \in Run, CheckNewCliVersionAvailable(r), NEW t,
           Backed(t)
    PROVE  Backed(t)'
  <1>1. checks \subseteq checks'
    BY DEF CheckNewCliVersionAvailable, Send
  <1>2. \A q \in Run \ {r} : at'[q] = at[q] /\ time'[q] = time[q]
    BY OthersStay, OthersTimes
  <1>3. ASSUME at[r] = "send" PROVE time[r] \in checks'
    BY <1>3 DEF CheckNewCliVersionAvailable, Avoid, Begins, Stat, Read,
                Truncate, FillUnset, FillTime, Decide, Send
  <1> QED
    BY <1>1, <1>2, <1>3 DEF Backed

(* A run that fills, sends or has checked goes on to the check, if nothing *)
(* fails.                                                                  *)
LEMMA CheckersStay ==
    ASSUME TypeOK, NEW r \in Run, CheckNewCliVersionAvailable(r), sound',
           at[r] \in {"fill", "send", "checked"}
    PROVE  /\ at'[r] \in {"send", "checked"}
           /\ at[r] = "fill" => FillTime(r)
  <1>1. at'[r] # "error" \/ at[r] = "read"
    BY DEF CheckNewCliVersionAvailable
  <1> QED
    BY <1>1 DEF CheckNewCliVersionAvailable, Avoid, Begins, Stat, Read,
                Truncate, FillUnset, FillTime, Decide, Send, Goto, Fails, TypeOK

(* What explains the state of a run explains it after a step of another.   *)
LEMMA OthersExplained ==
    ASSUME TypeOK, NEW r \in Run, CheckNewCliVersionAvailable(r), sound',
           NEW q \in Run \ {r}, Explained(q)
    PROVE  Explained(q)'
  <1>1. at'[q] = at[q] /\ time'[q] = time[q] /\ found'[q] = found[q]
    BY OthersStay, OthersTimes
  <1>2. \A t : Backed(t) => Backed(t)'
    BY BackedStays
  <1>3. ASSUME NEW p \in Run, at[p] \in {"fill", "send", "checked"}
        PROVE  at'[p] \in {"fill", "send", "checked"}
    BY <1>3, CheckersStay, OthersStay
  <1>4. at'[q] = "recent" =>
          \E t \in Time : Backed(t)' /\ time'[q] < t + Interval
    BY <1>1, <1>2 DEF Explained
  <1>5. at'[q] = "error" =>
          \E p \in Run : at'[p] \in {"fill", "send", "checked"}
    BY <1>1, <1>3 DEF Explained
  <1>6. at'[q] = "decide" /\ found'[q] \in Time => Backed(found[q])'
    BY <1>1, <1>2 DEF Explained
  <1> QED
    BY <1>1, <1>4, <1>5, <1>6 DEF Explained, Backed

(* A step that leaves the file alone leaves what is known of it alone.     *)
LEMMA FileStays ==
    ASSUME TypeOK, Sound, NEW r \in Run, CheckNewCliVersionAvailable(r),
           sound', UNCHANGED file, at[r] # "fill"
    PROVE  /\ file' \in {Unset, Empty} \cup Time
           /\ file' = Empty => \E q \in Run : at'[q] = "fill"
           /\ (file \in Time => Backed(file))'
  <1>1. \A q \in Run : at[q] = "fill" => at'[q] = at[q]
    BY OthersStay
  <1>2. file \in Time => Backed(file)'
    BY BackedStays DEF Sound
  <1> QED
    BY <1>1, <1>2 DEF Sound, Backed

(* Looking at the file: what is read is backed, and an empty file is being *)
(* filled by a run that will check.                                        *)
LEMMA LookingExplained ==
    ASSUME TypeOK, Sound, NEW r \in Run, CheckNewCliVersionAvailable(r),
           sound', Avoid(r) \/ Stat(r) \/ Read(r)
    PROVE  Sound'
  <1>1. UNCHANGED file /\ at[r] # "fill"
    BY DEF Avoid, Begins, Stat, Read, Fails
  <1>2. \A q \in Run \ {r} : Explained(q)'
    BY OthersExplained DEF Sound
  <1>3. Explained(r)'
    <2>1. CASE Avoid(r)
      BY <2>1 DEF Avoid, Goto, TypeOK, Explained
    <2>2. CASE Stat(r)
      BY <2>2, VersionAssumption DEF Stat, Goto, TypeOK, Explained, Sound, Time
    <2>3. CASE Read(r) /\ Fails(r)
      <3>1. at'[r] = "error" /\ at[r] = "read"
        BY <2>3 DEF Read, Fails, Goto, TypeOK
      <3>2. CASE file = Empty
        <4>1. PICK q \in Run : at[q] = "fill"
          BY <3>2 DEF Sound
        <4>2. at'[q] = "fill"
          BY <3>1, <4>1, OthersStay
        <4> QED
          BY <3>1, <4>2 DEF Explained
      <3>3. CASE file # Empty
        BY <2>3, <3>1, <3>3, VersionAssumption DEF Read, Sound, Time, Found,
           Goto, TypeOK
      <3> QED
        BY <3>2, <3>3
    <2>4. CASE Read(r) /\ ~Fails(r)
      <3>1. at'[r] \in {"decide", "open"} /\ found'[r] = file
        BY <2>4 DEF Read, Found, Goto, TypeOK
      <3>2. \A t : Backed(t) => Backed(t)'
        BY BackedStays
      <3>3. found'[r] \in Time => Backed(found[r])'
        BY <1>1, <3>1, <3>2 DEF Sound
      <3> QED
        BY <3>1, <3>3 DEF Explained
    <2> QED
      BY <2>1, <2>2, <2>3, <2>4
  <1> QED
    BY <1>1, <1>2, <1>3, FileStays DEF Sound

(* Writing: nobody writes "{}" any more, and a time is filled in by a run  *)
(* that is then about to check.                                            *)
LEMMA WritingExplained ==
    ASSUME TypeOK, Sound, NEW r \in Run, CheckNewCliVersionAvailable(r),
           sound', Truncate(r) \/ FillUnset(r) \/ FillTime(r)
    PROVE  Sound'
  <1>1. at[r] \in {"open", "fill"} /\ ~Fails(r)
    BY DEF Sound, Explained, Truncate, FillUnset, FillTime, Fails, Goto, TypeOK,
           CheckNewCliVersionAvailable
  <1>2. \A q \in Run \ {r} : Explained(q)'
    BY OthersExplained DEF Sound
  <1>3. CASE Truncate(r)
    <2>1. at'[r] = "fill" /\ file' = Empty
      BY <1>1, <1>3 DEF Truncate, Goto, TypeOK
    <2>2. Explained(r)'
      BY <2>1 DEF Explained
    <2> QED
      BY <1>2, <2>1, <2>2, VersionAssumption DEF Sound, Time
  <1>4. CASE FillTime(r)
    <2>1. at'[r] = "send" /\ time'[r] = time[r] /\ time[r] \in Time
      BY <1>1, <1>4 DEF FillTime, Goto, TypeOK
    <2>2. file' = time[r] /\ file' # Empty
      BY <1>1, <1>4, <2>1, VersionAssumption DEF FillTime, Over, Time
    <2>3. Explained(r)'
      BY <2>1 DEF Explained
    <2>4. Backed(file)'
      BY <2>1, <2>2 DEF Backed
    <2> QED
      BY <1>2, <2>1, <2>2, <2>3, <2>4 DEF Sound
  <1>5. CASE FillUnset(r)
    BY <1>1, <1>5 DEF FillUnset
  <1> QED
    BY <1>3, <1>4, <1>5

(* A run that finds a recent time has a check behind it.                   *)
LEMMA DecidingExplained ==
    ASSUME TypeOK, Sound, NEW r \in Run, CheckNewCliVersionAvailable(r),
           sound', Decide(r)
    PROVE  Sound'
  <1>1. UNCHANGED file /\ at[r] # "fill"
    BY DEF Decide
  <1>2. \A q \in Run \ {r} : Explained(q)'
    BY OthersExplained DEF Sound
  <1>3. /\ at'[r] = IF Recent(r, now) THEN "recent" ELSE "stat"
        /\ time'[r] = now /\ at[r] = "decide"
    BY DEF Decide, Goto, TypeOK
  <1>4. ASSUME Recent(r, now)
        PROVE  \E t \in Time : Backed(t)' /\ time'[r] < t + Interval
    <2>1. found[r] \in Time /\ now < found[r] + Interval
      BY <1>4 DEF Recent, TypeOK
    <2>2. Backed(found[r])
      BY <1>3, <2>1 DEF Sound, Explained
    <2>3. \A t : Backed(t) => Backed(t)'
      BY BackedStays
    <2> QED
      BY <1>3, <2>1, <2>2, <2>3
  <1>5. Explained(r)'
    BY <1>3, <1>4 DEF Explained, Backed
  <1> QED
    BY <1>1, <1>2, <1>5, FileStays DEF Sound

LEMMA SendingExplained ==
    ASSUME TypeOK, Sound, NEW r \in Run, CheckNewCliVersionAvailable(r),
           sound', Send(r)
    PROVE  Sound'
  <1>1. UNCHANGED file /\ at[r] # "fill" /\ at'[r] = "checked"
    BY DEF Send, Goto, TypeOK
  <1>2. \A q \in Run \ {r} : Explained(q)'
    BY OthersExplained DEF Sound
  <1>3. Explained(r)'
    BY <1>1 DEF Explained
  <1> QED
    BY <1>1, <1>2, <1>3, FileStays DEF Sound

LEMMA SoundInductive == SoundInv /\ [Next]_vars => SoundInv'
  <1> SUFFICES ASSUME SoundInv, [Next]_vars, sound' PROVE Sound'
    BY TypeStep DEF SoundInv
  <1>1. ASSUME NEW r \in Run, CheckNewCliVersionAvailable(r) PROVE Sound'
    <2>1. TypeOK /\ Sound
      BY <1>1 DEF SoundInv, CheckNewCliVersionAvailable
    <2> QED
      BY <1>1, <2>1, LookingExplained, WritingExplained, DecidingExplained,
         SendingExplained DEF CheckNewCliVersionAvailable
  <1>2. ASSUME NEW r \in Run, Kill(r) PROVE Sound'
    BY <1>2 DEF Kill
  <1>3. CASE Tick
    BY <1>3 DEF Tick, SoundInv, Sound, Explained, Backed
  <1>4. CASE UNCHANGED vars
    BY <1>4 DEF vars, SoundInv, Sound, Explained, Backed
  <1> QED
    BY <1>1, <1>2, <1>3, <1>4 DEF Next, AllEnded

LEMMA SoundInvariant == Spec => []SoundInv
  <1>1. Init => SoundInv
    <2> SUFFICES ASSUME Init PROVE TypeOK /\ (sound => Sound)
      BY DEF SoundInv
    <2>1. TypeOK
      BY Initially DEF Known
    <2>2. sound => Sound
      BY VersionAssumption DEF Init, Sound, Explained, Backed, Time
    <2> QED
      BY <2>1, <2>2
  <1> QED
    BY <1>1, SoundInductive, PTL DEF Spec

(* Runs that overlap in any way leave a readable file, once it is there and *)
(* while nothing fails.                                                     *)
THEOREM OverlapsKeepParsing == Spec => []KeepsParsing
  <1>1. SoundInv => KeepsParsing
    BY VersionAssumption
       DEF SoundInv, Sound, KeepsParsing, StaysReadable, Quiet, Begins, Ended, Time
  <1> QED
    BY <1>1, SoundInvariant, PTL

(* And when all of them have ended, whoever left the check to another run  *)
(* was right: it has been made.                                            *)
THEOREM ChecksAreMade == Spec => []CheckIsMade
  <1>1. ASSUME SoundInv, sound, Quiet(Run), NEW r \in Run
        PROVE  /\ at[r] = "recent" => \E t \in checks : time[r] < t + Interval
               /\ at[r] = "error" => \E q \in Run : at[q] = "checked"
    <2>1. Explained(r) /\ \A q \in Run : at[q] \notin {"fill", "send"}
      BY <1>1 DEF SoundInv, Sound, Quiet, Begins, Ended
    <2> QED
      BY <2>1 DEF Explained, Backed
  <1>2. SoundInv => CheckIsMade
    BY <1>1 DEF CheckIsMade
  <1> QED
    BY <1>2, SoundInvariant, PTL
=============================================================================
