-------------------------- MODULE AliasModes_proofs --------------------------
(***************************************************************************)
(* The loop over go policy keys finds the most specific mode, for command  *)
(* lines of any length and all configurations.                             *)
(***************************************************************************)
EXTENDS AliasModes, FiniteSetTheorems, SequenceTheorems, TLAPS

Parts == subcommandParts
Keys == getGoSubcommandPolicyKeys

\* What a run keeps of its input.
InputOK ==
    /\ args \in Seq(Word) /\ Len(args) <= MaxArgs
    /\ mode \in ModeEntry

Unconfigured(key) ==
    Entry(subModes, key) \notin Mode /\ Entry(toolModes, key) \notin Mode

\* The keys the loop has passed have no mode.
Passed ==
    tool = "go" =>
        /\ index <= Len(Keys) + 1
        /\ \A k \in 1..(index - 1) : Unconfigured(Keys[k])

LoopInv == InputOK /\ TypeOK /\ (result = "none" => Passed) /\ MostSpecificWins

(* The subcommand is a sequence of words no longer than the command line.  *)
LEMMA PartsType ==
    ASSUME InputOK
    PROVE  Parts \in Seq(Word) /\ Len(Parts) <= Len(args)
<1> DEFINE before == {i \in 1..Len(args) : \A j \in 1..i : args[j] \notin Flag}
           n == Cardinality(before)
<1>1. Len(args) \in Nat /\ before \in SUBSET (1..Len(args))
    BY DEF InputOK
<1>2. IsFiniteSet(1..Len(args)) /\ Cardinality(1..Len(args)) = Len(args)
  <2> HIDE DEF before
  <2>1. 1 \in Int /\ Len(args) \in Int
      BY <1>1
  <2>2. /\ IsFiniteSet(1..Len(args))
        /\ Cardinality(1..Len(args))
             = IF 1 > Len(args) THEN 0 ELSE Len(args) - 1 + 1
      BY <2>1, FS_Interval
  <2> QED
      BY <1>1, <2>2
<1>3. IsFiniteSet(before) /\ n <= Len(args)
    BY <1>1, <1>2, FS_Subset
<1>4. n \in Nat
    BY <1>3, FS_CardinalityType
<1> HIDE DEF n
<1>5. \A i \in 1..n : Lower[args[i]] \in Word
    BY <1>1, <1>3, <1>4, WordAssumption DEF InputOK
<1>6. [i \in 1..n |-> Lower[args[i]]] \in Seq(Word)
    BY <1>4, <1>5
<1>7. Len([i \in 1..n |-> Lower[args[i]]]) = n
    BY <1>4
<1>8. Parts = [i \in 1..n |-> Lower[args[i]]]
    BY DEF Parts, subcommandParts, n
<1> QED
    BY <1>3, <1>6, <1>7, <1>8

(* The keys are the prefixes of the subcommand, by decreasing length.      *)
LEMMA KeysType ==
    ASSUME InputOK
    PROVE  /\ Len(Keys) = Len(Parts) + 1
           /\ Len(Keys) \in 1..(MaxArgs + 1)
           /\ \A k \in 1..Len(Keys) :
                 /\ Keys[k] = SubSeq(Parts, 1, Len(Parts) + 1 - k)
                 /\ Len(Keys[k]) = Len(Parts) + 1 - k
                 /\ IsPrefix(Keys[k], Parts)
<1>1. Parts \in Seq(Word) /\ Len(Parts) \in Nat /\ Len(Parts) <= MaxArgs
    BY PartsType, WordAssumption DEF InputOK
<1>2. Keys = [i \in 1..(Len(Parts) + 1) |-> SubSeq(Parts, 1, Len(Parts) + 1 - i)]
    BY DEF Keys, getGoSubcommandPolicyKeys, Parts
<1>3. Len(Keys) = Len(Parts) + 1
    BY <1>1, <1>2
<1>4. ASSUME NEW k \in 1..Len(Keys)
      PROVE  /\ Keys[k] = SubSeq(Parts, 1, Len(Parts) + 1 - k)
             /\ Len(Keys[k]) = Len(Parts) + 1 - k
             /\ IsPrefix(Keys[k], Parts)
  <2> DEFINE m == Len(Parts) + 1 - k
  <2>1. m \in 0..Len(Parts)
      BY <1>1, <1>3
  <2>2. Keys[k] = SubSeq(Parts, 1, m)
      BY <1>2, <1>3
  <2> HIDE DEF m
  <2>3. \A i \in 1..m : Parts[i] \in Word
      BY <1>1, <2>1
  <2>4. SubSeq(Parts, 1, m) \in Seq(Word) /\ Len(SubSeq(Parts, 1, m)) = m
      BY <2>1, <2>3, SubSeqProperties
  <2>5. SubSeq(SubSeq(Parts, 1, m), 1, m) = SubSeq(Parts, 1, m)
      BY <2>4, SubSeqFull
  <2>6. IsPrefix(Keys[k], Parts)
      BY <1>1, <2>1, <2>2, <2>4, <2>5 DEF IsPrefix
  <2> QED
      BY <2>2, <2>4, <2>6 DEF m
<1>5. MaxArgs \in Nat
    BY WordAssumption
<1> QED
    BY <1>1, <1>3, <1>4, <1>5

(* Every configured prefix of the subcommand is among the keys.            *)
LEMMA ConfiguredIsKey ==
    ASSUME InputOK, NEW key \in Key, Configured(key)
    PROVE  /\ Len(key) \in 0..Len(Parts)
           /\ Len(Parts) + 1 - Len(key) \in 1..Len(Keys)
           /\ Keys[Len(Parts) + 1 - Len(key)] = key
           /\ ~Unconfigured(key)
<1>1. key \in Seq(Word) /\ Len(key) \in Nat
    BY WordAssumption
<1>2. Len(Parts) \in Nat
    BY PartsType
<1>3. Len(key) <= Len(Parts) /\ key = SubSeq(Parts, 1, Len(key))
    BY <1>1, SubSeqFull DEF Configured, IsPrefix, Parts
<1>4. Len(Parts) + 1 - Len(key) \in 1..Len(Keys)
    BY <1>1, <1>2, <1>3, KeysType
<1>5. Keys[Len(Parts) + 1 - Len(key)]
        = SubSeq(Parts, 1, Len(Parts) + 1 - (Len(Parts) + 1 - Len(key)))
    BY <1>4, KeysType
<1>6. Len(Parts) + 1 - (Len(Parts) + 1 - Len(key)) = Len(key)
    BY <1>1, <1>2
<1>7. ~Unconfigured(key)
    BY DEF Configured, Unconfigured, Entry
<1> QED
    BY <1>1, <1>2, <1>3, <1>4, <1>5, <1>6, <1>7

(* If the loop has passed the keys before k, no longer prefix is configured. *)
LEMMA LongerAreUnconfigured ==
    ASSUME InputOK, NEW n \in Nat, \A k \in 1..n : Unconfigured(Keys[k]),
           NEW key \in Key, Configured(key)
    PROVE  Len(key) <= Len(Parts) - n
<1> DEFINE k == Len(Parts) + 1 - Len(key)
<1>1. Len(Parts) \in Nat
    BY PartsType
<1>2. /\ Len(key) \in 0..Len(Parts) /\ k \in 1..Len(Keys)
      /\ Keys[k] = key /\ ~Unconfigured(key)
    BY ConfiguredIsKey
<1>3. k \notin 1..n
    BY <1>2
<1> QED
    BY <1>1, <1>2, <1>3

(* The values an action leaves alone determine keys and configuration.     *)
LEMMA InputKept ==
    ASSUME UNCHANGED Input
    PROVE  /\ InputOK' = InputOK /\ Keys' = Keys /\ Parts' = Parts
           /\ \A key : Unconfigured(key)' = Unconfigured(key)
           /\ \A key : Configured(key)' = Configured(key)
BY DEF Input, InputOK, Keys, Parts, subcommandParts, getGoSubcommandPolicyKeys,
       Unconfigured, Configured, Entry

LEMMA InitInv == Init => LoopInv
<1> SUFFICES ASSUME Init PROVE LoopInv
    OBVIOUS
<1>1. InputOK
    BY WordAssumption DEF Init, InputOK, BoundedSeq, SeqOf
<1>2. TypeOK
    BY WordAssumption DEF Init, TypeOK
<1>3. Passed
    BY <1>1, KeysType DEF Init, Passed
<1> QED
    BY <1>1, <1>2, <1>3 DEF LoopInv, MostSpecificWins, Init

LEMMA TryKeyInv == LoopInv /\ TryKey => LoopInv'
<1> SUFFICES ASSUME LoopInv, TryKey PROVE LoopInv'
    OBVIOUS
<1> DEFINE key == Keys[index]
<1>1. InputOK /\ InputOK' /\ UNCHANGED Input
    BY InputKept DEF LoopInv, TryKey
<1>2. /\ tool = "go" /\ result = "none" /\ index \in 1..Len(Keys)
      /\ \A k \in 1..(index - 1) : Unconfigured(Keys[k])
    BY <1>1, KeysType DEF LoopInv, TryKey, Passed, TypeOK, Keys
<1>3. MaxArgs \in Nat /\ Len(Keys) \in 1..(MaxArgs + 1)
    BY <1>1, KeysType, WordAssumption
<1>4. CASE index' = index + 1 /\ UNCHANGED result /\ Unconfigured(key)
  <2>1. \A k \in 1..(index' - 1) : Unconfigured(Keys[k])
      BY <1>2, <1>3, <1>4
  <2>2. Passed'
      BY <1>1, <1>2, <1>3, <1>4, <2>1, InputKept DEF Passed
  <2>3. TypeOK'
      BY <1>2, <1>3, <1>4 DEF TypeOK, LoopInv
  <2>4. MostSpecificWins'
      BY <1>2, <1>4 DEF MostSpecificWins
  <2> QED
      BY <1>1, <2>2, <2>3, <2>4 DEF LoopInv
<1>5. CASE /\ UNCHANGED index /\ result' \in Mode
           /\ \/ Entry(subModes, key) \in Mode /\ result' = Entry(subModes, key)
              \/ /\ Entry(subModes, key) \notin Mode
                 /\ Entry(toolModes, key) \in Mode
                 /\ result' = Entry(toolModes, key)
  <2>1. key \in Key
      BY <1>5 DEF Entry, Mode
  <2>2. /\ Configured(key)
        /\ result' = IF subModes[key] \in Mode THEN subModes[key]
                     ELSE toolModes[key]
      BY <1>1, <1>2, <1>5, <2>1, KeysType DEF Configured, Entry, Parts
  <2>3. \A other \in Key : Configured(other) => Len(other) <= Len(key)
    <3> SUFFICES ASSUME NEW other \in Key, Configured(other)
                 PROVE  Len(other) <= Len(key)
        OBVIOUS
    <3>1. index - 1 \in Nat
        BY <1>2, <1>3
    <3>2. Len(other) <= Len(Parts) - (index - 1)
        BY <1>1, <1>2, <3>1, LongerAreUnconfigured
    <3>3. Len(key) = Len(Parts) + 1 - index /\ Len(Parts) \in Nat
        BY <1>1, <1>2, KeysType, PartsType
    <3> QED
        BY <1>2, <1>3, <3>2, <3>3
  <2>4. MostSpecificWins'
    <3> HIDE DEF key
    <3>1. UNCHANGED <<subModes, toolModes, subcommandParts>>
        BY <1>1, InputKept DEF Input, Parts
    <3> QED
        BY <2>1, <2>2, <2>3, <3>1 DEF MostSpecificWins, Configured
  <2>5. TypeOK' /\ result' # "none"
      BY <1>5 DEF TypeOK, LoopInv, Mode
  <2> QED
      BY <1>1, <2>4, <2>5 DEF LoopInv
<1> QED
    BY <1>4, <1>5 DEF TryKey, Unconfigured, Keys

LEMMA KeysExhaustedInv == LoopInv /\ KeysExhausted => LoopInv'
<1> SUFFICES ASSUME LoopInv, KeysExhausted PROVE LoopInv'
    OBVIOUS
<1>1. InputOK /\ InputOK' /\ UNCHANGED Input
    BY InputKept DEF LoopInv, KeysExhausted
<1>2. /\ tool = "go" /\ result' = "jf" /\ UNCHANGED index
      /\ \A k \in 1..Len(Keys) : Unconfigured(Keys[k])
    BY <1>1, KeysType DEF LoopInv, KeysExhausted, Passed, TypeOK, Keys
<1>3. \A key \in Key : ~Configured(key)
  <2> SUFFICES ASSUME NEW key \in Key, Configured(key) PROVE FALSE
      OBVIOUS
  <2>1. Len(key) <= Len(Parts) - Len(Keys) /\ Len(key) \in Nat
      BY <1>1, <1>2, KeysType, ConfiguredIsKey, LongerAreUnconfigured
  <2> QED
      BY <1>1, <2>1, KeysType, PartsType
<1>4. MostSpecificWins'
    BY <1>1, <1>2, <1>3, InputKept DEF MostSpecificWins
<1>5. TypeOK' /\ result' # "none"
    BY <1>2 DEF TypeOK, LoopInv, Mode
<1> QED
    BY <1>1, <1>4, <1>5 DEF LoopInv

LEMMA LookUpToolInv == LoopInv /\ LookUpTool => LoopInv'
<1> SUFFICES ASSUME LoopInv, LookUpTool PROVE LoopInv'
    OBVIOUS
<1>1. InputOK' /\ tool # "go" /\ tool' = tool
    BY InputKept DEF LoopInv, LookUpTool, Input
<1>2. result' \in Mode
    BY DEF LookUpTool, getModeForTool, DefaultMode, LoopInv, InputOK, ModeEntry,
           Mode
<1>3. TypeOK' /\ result' # "none"
    BY <1>2 DEF TypeOK, LoopInv, Mode, LookUpTool
<1> QED
    BY <1>1, <1>3 DEF LoopInv, MostSpecificWins

(* LoopInv holds throughout: what the loop has passed is unconfigured.     *)
LEMMA LoopInvariant == Spec => []LoopInv
<1>1. LoopInv /\ UNCHANGED vars => LoopInv'
  <2> SUFFICES ASSUME LoopInv, UNCHANGED vars PROVE LoopInv'
      OBVIOUS
  <2>1. UNCHANGED Input /\ UNCHANGED <<index, result>>
      BY DEF vars, Input
  <2>2. Passed' = Passed
      BY <2>1, InputKept DEF Passed, Input
  <2>3. MostSpecificWins' = MostSpecificWins
      BY <2>1, InputKept DEF MostSpecificWins, Input
  <2> QED
      BY <2>1, <2>2, <2>3, InputKept DEF LoopInv, TypeOK
<1>2. LoopInv /\ [Next]_vars => LoopInv'
    BY <1>1, TryKeyInv, KeysExhaustedInv, LookUpToolInv DEF Next, Returned
<1> QED
    BY <1>2, InitInv, PTL DEF Spec

(* The loop ends within the keys of the longest command line, and a        *)
(* dispatch gets one of the two modes.                                     *)
THEOREM ModesTypes == Spec => []TypeOK
<1>1. LoopInv => TypeOK
    BY DEF LoopInv
<1> QED
    BY <1>1, LoopInvariant, PTL

(* A go command is dispatched by the longest configured prefix of its      *)
(* subcommand, for any policy keys and any command line.                   *)
THEOREM LongestPrefixWins == Spec => []MostSpecificWins
<1>1. LoopInv => MostSpecificWins
    BY DEF LoopInv
<1> QED
    BY <1>1, LoopInvariant, PTL
=============================================================================
