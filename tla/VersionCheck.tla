---------------------------- MODULE VersionCheck ----------------------------
(***************************************************************************)
(* Every run of jf looks, before its command, whether a newer version is   *)
(* available, unless the last check is recent: its time is kept in the     *)
(* file persistence.json of the home directory, which all runs share.  The *)
(* mutex in persistence.go is one of each process, so that nothing keeps   *)
(* runs apart, and os.WriteFile truncates the file and then fills it.      *)
(* Every step is one system call on the file.                              *)
(***************************************************************************)
EXTENDS Naturals, FiniteSets

CONSTANTS
    Run,            \* the runs of jf
    Interval,       \* LatestCliVersionCheckInterval
    MaxTime,        \* bound on the clock
    Prior,          \* what the file may be at first
    WritesFail,     \* opening and writing the file may fail
    MaxKills,       \* bound on the number of killed runs
    NoFile, Empty,  \* there is no file; a file of length 0
    Unset,          \* a file without a time, "{}"
    Garbled         \* a file that does not parse

Time == 0..MaxTime

ASSUME VersionAssumption ==
    /\ {Interval, MaxTime, MaxKills} \subseteq Nat
    /\ Prior \subseteq {NoFile, Empty, Unset, Garbled} \cup Time
    /\ NoFile \notin {Empty, Unset, Garbled} \cup Time
    /\ Empty \notin {Unset, Garbled} \cup Time
    /\ Unset \notin {Garbled} \cup Time
    /\ Garbled \notin Time
    /\ WritesFail \in BOOLEAN

VARIABLES
    file,   \* what the file holds
    now,    \* the clock
    call,   \* call[r]: r runs getLatest- ("get") or setCliLatestVersionCheckTime ("set")
    at,     \* at[r]: the next step of r
    found,  \* found[r]: the time that r read, or Unset
    time,   \* time[r]: what r took for the time
    checks, \* the times of the checks that were made
    inTurn, \* runs have followed each other
    sound   \* the file was initialised at first, no write has failed and no run
            \* was killed

vars == <<file, now, call, at, found, time, checks, inTurn, sound>>

Step == {"stat", "read", "init", "initFill", "decide", "open", "fill", "send",
         "checked", "recent", "error", "avoided", "killed"}

Ended(r) == at[r] \in {"checked", "recent", "error", "avoided", "killed"}

Begins(r) == at[r] = "stat" /\ call[r] = "get"

Quiet(runs) == \A r \in runs : Begins(r) \/ Ended(r)

Init ==
    /\ file \in Prior
    /\ now = IF file \in Time THEN file ELSE 0
    /\ call = [r \in Run |-> "get"]
    /\ at = [r \in Run |-> "stat"]
    /\ found = [r \in Run |-> Unset]
    /\ time = [r \in Run |-> 0]
    /\ checks = IF file \in Time THEN {file} ELSE {}
    /\ inTurn = TRUE
    /\ sound = (file \in {Unset} \cup Time)

Goto(r, step) == at' = [at EXCEPT ![r] = step]

\* JFROG_CLI_AVOID_NEW_VERSION_WARNING.
Avoid(r) ==
    /\ Begins(r)
    /\ Goto(r, "avoided")
    /\ UNCHANGED <<file, call, found, time>>

Fails(r) == Goto(r, "error") /\ UNCHANGED <<file, call, found, time>>

\* getPersistenceInfo is next done, with what it found.
Found(r, contents) ==
    /\ found' = [found EXCEPT ![r] = contents]
    /\ Goto(r, IF call[r] = "get" THEN "decide" ELSE "open")

\* Mutant of Stat: a file of length 0 is initialised, too.
MutantStat(r) ==
    /\ at[r] = "stat"
    /\ Goto(r, IF file \in {NoFile, Empty} THEN "init" ELSE "read")
    /\ UNCHANGED <<file, call, found, time>>

\* IsFileExists.
Stat(r) ==
    /\ at[r] = "stat"
    /\ Goto(r, IF file = NoFile THEN "init" ELSE "read")
    /\ UNCHANGED <<file, call, found, time>>

\* Mutant of Read: the error of json.Unmarshal is ignored.
MutantRead(r) ==
    /\ at[r] = "read"
    /\ Found(r, file)
    /\ UNCHANGED <<file, call, time>>

\* os.ReadFile and json.Unmarshal.
Read(r) ==
    /\ at[r] = "read"
    /\ \/ file \in {NoFile, Empty, Garbled} /\ Fails(r)
       \/ /\ file \notin {NoFile, Empty, Garbled}
          /\ Found(r, file)
          /\ UNCHANGED <<file, call, time>>

\* setPersistenceInfo: os.WriteFile truncates the file ...
Truncate(r) ==
    /\ at[r] \in {"init", "open"}
    /\ \/ /\ file' = Empty
          /\ Goto(r, IF at[r] = "init" THEN "initFill" ELSE "fill")
          /\ UNCHANGED <<call, found, time>>
       \/ WritesFail /\ Fails(r)

\* ... and writes from its start: "{}" is shorter than the text with a time,
\* whose tail stays if another run has written one in the meantime.
Over(contents) ==
    IF contents = Unset /\ file \notin {Empty, Unset} THEN Garbled ELSE contents

FillUnset(r) ==
    /\ at[r] = "initFill"
    /\ \/ /\ file' = Over(Unset)
          /\ Found(r, Unset)
          /\ UNCHANGED <<call, time>>
       \/ WritesFail /\ Fails(r)

FillTime(r) ==
    /\ at[r] = "fill"
    /\ \/ /\ file' = Over(time[r])
          /\ Goto(r, "send")
          /\ UNCHANGED <<call, found, time>>
       \/ WritesFail /\ Fails(r)

\* Mutant of Recent: the comparison is the wrong way round.
MutantRecent(r, t) == found[r] # Unset /\ t > found[r] + Interval

Recent(r, t) == found[r] # Unset /\ t < found[r] + Interval

\* shouldCheckLatestCliVersion, between reading and writing the time.
Decide(r) ==
    /\ at[r] = "decide"
    /\ time' = [time EXCEPT ![r] = now]
    /\ call' = [call EXCEPT ![r] = "set"]
    /\ Goto(r, IF Recent(r, now) THEN "recent" ELSE "stat")
    /\ UNCHANGED <<file, found>>

\* getLatestCliVersionFromGithubAPI; a failure is only a warning.
Send(r) ==
    /\ at[r] = "send"
    /\ Goto(r, "checked")
    /\ checks' = checks \cup {time[r]}
    /\ UNCHANGED <<file, call, found, time>>

CheckNewCliVersionAvailable(r) ==
    /\ \/ /\ \/ Avoid(r) \/ Stat(r) \/ Read(r) \/ Truncate(r)
             \/ FillUnset(r) \/ FillTime(r) \/ Decide(r)
          /\ UNCHANGED checks
       \/ Send(r)
    /\ inTurn' = (inTurn /\ Quiet(Run \ {r}))
    /\ sound' = (sound /\ ~(at'[r] = "error" /\ at[r] # "read"))
    /\ UNCHANGED now

Kill(r) ==
    /\ ~Begins(r) /\ ~Ended(r)
    /\ Cardinality({q \in Run : at[q] = "killed"}) < MaxKills
    /\ Goto(r, "killed")
    /\ sound' = FALSE
    /\ UNCHANGED <<file, now, call, found, time, checks, inTurn>>

Tick ==
    /\ now < MaxTime
    /\ now' = now + 1
    /\ UNCHANGED <<file, call, at, found, time, checks, inTurn, sound>>

AllEnded == (\A r \in Run : Ended(r)) /\ UNCHANGED vars

Next ==
    \/ \E r \in Run : CheckNewCliVersionAvailable(r) \/ Kill(r)
    \/ Tick
    \/ AllEnded

Spec == Init /\ [][Next]_vars

-----------------------------------------------------------------------------
(* Everything has its type; times are never in the future, and a run       *)
(* writes the time and checks only in the second of its two calls.         *)
TypeOK ==
    /\ file \in {NoFile, Empty, Unset, Garbled} \cup Time
    /\ now \in Time
    /\ call \in [Run -> {"get", "set"}]
    /\ at \in [Run -> Step]
    /\ found \in [Run -> {Unset} \cup Time]
    /\ time \in [Run -> Time]
    /\ checks \subseteq Time
    /\ inTurn \in BOOLEAN /\ sound \in BOOLEAN
    /\ \A t \in checks : t <= now
    /\ \A r \in Run : time[r] <= now
    /\ \A r \in Run : at[r] \in {"open", "fill", "send", "checked"} => call[r] = "set"

(* "To avoid checking this for every run, we check only if the last check  *)
(* was more than 6 hours ago": among runs that follow each other, one that *)
(* is about to send its request has seen no check within the interval,     *)
(* also when writes fail and runs are killed.                              *)
ChecksAreApart ==
    inTurn => \A r \in Run :
        at[r] = "send" => \A t \in checks : time[r] >= t + Interval

(* The user gets to know of a new version: once the file is there, and if  *)
(* no write fails and no run is killed, a run that did not check because   *)
(* it found a recent time, or that stumbled over the write of another run, *)
(* leaves that to a check that is really made.                             *)
CheckIsMade ==
    sound /\ Quiet(Run) =>
        \A r \in Run :
            /\ at[r] = "recent" => \E t \in checks : time[r] < t + Interval
            /\ at[r] = "error" => \E q \in Run : at[q] = "checked"

(* When no run is at work, the next one can read the file; otherwise no    *)
(* run ever checks again.                                                  *)
StaysReadable == Quiet(Run) => file \notin {Empty, Garbled}

(* Runs that overlap leave a file that is there, and has a time or none,   *)
(* readable, unless a write fails or a run is killed.                      *)
KeepsParsing == sound => StaysReadable
=============================================================================
