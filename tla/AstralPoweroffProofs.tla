------------------------ MODULE AstralPoweroffProofs ------------------------
(***************************************************************************)
(* One run of astral-guard, for any number of chips, samples and           *)
(* attributes and any cache TTL and intervals; then the poweroff unit's    *)
(* interlock, for any delay and however often the units fail or are        *)
(* cancelled or started by hand.                                           *)
(***************************************************************************)
EXTENDS AstralPoweroff, FiniteSetTheorems, TLAPS

-----------------------------------------------------------------------------
(* One run of the guard.                                                   *)

(* A sample's frame is gone, or stale, when the next sample starts: the    *)
(* nap is no shorter than what the frame has left to live.                 *)
FrameInv ==
    Gap >= TTL =>
        \/ /\ readBy \subseteq {k}
           /\ pc = "nap" /\ readBy # {} => age + asleep >= TTL
        \/ /\ age = TTL
           /\ pc \in {"read", "unread"}
           /\ \E j \in 1 .. samples : readBy = {j}

(* The verdicts so far are those of the chips before the current one.      *)
ChipInv ==
    /\ pc \in {"read", "nap", "eval", "unread"} =>
           chip <= found /\ Len(verdicts) = chip - 1
    /\ pc = "arguments" => verdicts = <<>> /\ chip = 1 /\ readBy = {}
    /\ found = Listed(named)
    /\ pc = "exit" =>
           \/ verdicts = <<>> /\ worst = "UNKNOWN"
           \/ verdicts # <<>> /\ Len(verdicts) = found

FoldInv ==
    /\ verdicts = <<>> /\ pc # "exit" => worst = "OK"
    /\ verdicts # <<>> =>
           /\ \E n \in 1 .. Len(verdicts) : verdicts[n] = worst
           /\ \A n \in 1 .. Len(verdicts) : Severity(verdicts[n]) <= Severity(worst)

RInv ==
    /\ TypeOK
    /\ pc \in {"nap"} => k < samples
    /\ FrameInv
    /\ ChipInv
    /\ FoldInv

-----------------------------------------------------------------------------

LEMMA RunInit == Init => RInv
<1> SUFFICES ASSUME Init PROVE RInv
  OBVIOUS
<1>1. TypeOK
  <2>1. verdicts \in Seq(Verdicts) /\ worst \in Verdicts
    BY DEF Init, Verdicts
  <2>2. /\ samples \in 1 .. MaxSamples /\ k \in 1 .. samples
        /\ present \in -1 .. MaxPresent /\ update_interval \in UpdateIntervals
        /\ named \in -1 .. present
        /\ found \in -1 .. MaxChips /\ chip \in 1 .. MaxChips
        /\ attr \in 1 .. NAttrs
    BY GuardMainAssumption DEF Init, UpdateIntervals
  <2>3. QED
    BY <2>1, <2>2 DEF Init, TypeOK
<1>2. QED
  BY <1>1, GuardMainAssumption DEF Init, RInv, FrameInv, ChipInv, FoldInv, Listed

LEMMA SeverityIsNat == \A v \in Verdicts : Severity(v) \in 0 .. 4
BY DEF Verdicts, Severity

(* Folding one more verdict.                                               *)
LEMMA ConcludeStep ==
    ASSUME RInv, pc \in {"eval", "unread"}, NEW v \in Verdicts, Conclude(v)
    PROVE  RInv'
<1> USE DEF RInv
<1>1. /\ worst \in Verdicts /\ verdicts \in Seq(Verdicts)
      /\ chip \in 1 .. MaxChips /\ found \in -1 .. MaxChips
      /\ MaxChips \in Nat /\ MaxSamples \in Nat \ {0}
      /\ chip <= found /\ Len(verdicts) = chip - 1
  BY GuardMainAssumption DEF TypeOK, ChipInv
<1>2. worst' \in Verdicts /\ worst' = (IF Severity(v) > Severity(worst)
                                       THEN v ELSE worst)
  BY <1>1 DEF Conclude, WorseOf
<1>3. /\ verdicts' = Append(verdicts, v)
      /\ verdicts' \in Seq(Verdicts) /\ verdicts' # <<>>
      /\ Len(verdicts') = Len(verdicts) + 1
  BY <1>1 DEF Conclude
<1>4. TypeOK'
  BY <1>1, <1>2, <1>3, GuardMainAssumption DEF TypeOK, Conclude, options, subject, UpdateIntervals
<1>5. FrameInv'
  BY DEF FrameInv, Conclude, options
<1>6. ChipInv'
  BY <1>1, <1>3 DEF ChipInv, Conclude, options
<1>7. FoldInv'
  <2>1. \A n \in 1 .. Len(verdicts) : verdicts'[n] = verdicts[n]
    BY <1>1, <1>3
  <2>2. verdicts'[Len(verdicts')] = v /\ Len(verdicts') \in Nat \ {0}
    BY <1>1, <1>3
  <2>3. \A n \in 1 .. Len(verdicts') :
            n \in 1 .. Len(verdicts) \/ n = Len(verdicts')
    BY <1>1, <1>3
  <2>4. \A n \in 1 .. Len(verdicts) : verdicts[n] \in Verdicts
    BY <1>1
  <2>5. CASE verdicts = <<>>
    <3>1. worst = "OK"
      BY <2>5 DEF FoldInv
    <3>2. worst' = v
      BY <1>2, <3>1 DEF Severity, Verdicts
    <3>3. Len(verdicts') = 1 /\ verdicts'[1] = v
      BY <1>3, <2>2, <2>5
    <3>4. QED
      BY <1>3, <3>2, <3>3, SeverityIsNat DEF FoldInv, Severity
  <2>6. CASE verdicts # <<>>
    <3>1. PICK n0 \in 1 .. Len(verdicts) : verdicts[n0] = worst
      BY <2>6 DEF FoldInv
    <3>2. \A n \in 1 .. Len(verdicts) : Severity(verdicts[n]) <= Severity(worst)
      BY <2>6 DEF FoldInv
    <3>3. \E n \in 1 .. Len(verdicts') : verdicts'[n] = worst'
      <4>1. n0 \in 1 .. Len(verdicts') /\ verdicts'[n0] = worst
        BY <1>1, <1>3, <2>1, <3>1
      <4>2. QED
        BY <1>2, <2>2, <4>1
    <3>4. /\ Severity(v) <= Severity(worst')
          /\ Severity(worst) <= Severity(worst')
          /\ Severity(worst') \in Nat
      BY <1>1, <1>2, SeverityIsNat
    <3>5. ASSUME NEW n \in 1 .. Len(verdicts')
          PROVE  Severity(verdicts'[n]) <= Severity(worst')
      BY <1>1, <2>1, <2>2, <2>3, <2>4, <3>2, <3>4, SeverityIsNat
    <3>6. QED
      BY <3>3, <3>5, <1>3 DEF FoldInv, Severity
  <2>7. QED
    BY <2>5, <2>6
<1>8. (pc \in {"nap"} => k < samples)'
  BY DEF Conclude
<1>9. QED
  BY <1>4, <1>5, <1>6, <1>7, <1>8

(* A step that leaves the verdicts alone and neither starts nor ends the   *)
(* run keeps them right.                                                   *)
LEMMA VerdictsStay ==
    ASSUME RInv, UNCHANGED <<named, found, chip, worst, verdicts>>,
           \/ pc' = pc /\ readBy' \in {readBy, {}}
           \/ /\ pc \in {"read", "nap"}
              /\ pc' \in {"read", "nap", "eval", "unread"}
    PROVE  ChipInv' /\ FoldInv'
<1>1. ChipInv'
  BY DEF RInv, ChipInv
<1>2. FoldInv'
  BY DEF RInv, FoldInv, Severity
<1>3. QED
  BY <1>1, <1>2

LEMMA RunStep == RInv /\ [Next]_vars => RInv'
<1> SUFFICES ASSUME RInv, [Next]_vars PROVE RInv'
  OBVIOUS
<1> USE DEF RInv, options, subject
<1>1. /\ TTL \in Nat \ {0} /\ age \in 0 .. TTL /\ asleep \in Nat
      /\ samples \in Nat /\ k \in 1 .. samples
      /\ interval \in Nat /\ update_interval \in Nat /\ Gap \in Nat
      /\ NAttrs \in Nat \ {0} /\ attr \in 1 .. NAttrs
  BY GuardMainAssumption DEF TypeOK, Gap, UpdateIntervals
<1>2. CASE RefuseArguments
  <2>1. TypeOK'
    BY <1>2 DEF TypeOK, RefuseArguments, Verdicts
  <2>2. QED
    BY <1>2, <2>1 DEF RefuseArguments, FrameInv, ChipInv, FoldInv, Gap
<1>3. CASE FindChips
  <2>1. /\ present' \in -1 .. MaxPresent
        /\ named' \in NamesRead(present')
        /\ found' = Listed(named')
        /\ found' = (IF named' > MaxChips THEN MaxChips ELSE named')
        /\ pc = "arguments"
        /\ \/ found' <= 0 /\ pc' = "exit" /\ worst' = "UNKNOWN"
           \/ found' > 0 /\ pc' = "read" /\ UNCHANGED worst
        /\ update_interval' \in UpdateIntervals
        /\ UNCHANGED <<samples, interval, chip, k, attr, asleep, age, readBy,
                       verdicts>>
    BY <1>3 DEF FindChips, Listed
  <2>2. named' \in -1 .. present' /\ found' \in -1 .. MaxChips
    BY <2>1, GuardMainAssumption DEF NamesRead
  <2>3. TypeOK'
    BY <2>1, <2>2 DEF TypeOK, Verdicts
  <2>4. FrameInv'
    <3>1. readBy' = {}
      BY <2>1 DEF RInv, ChipInv
    <3>2. QED
      BY <2>1, <3>1 DEF FrameInv
  <2>5. ChipInv' /\ FoldInv'
    <3>1. verdicts = <<>> /\ chip = 1 /\ verdicts' = <<>> /\ chip' = 1
      BY <2>1 DEF ChipInv
    <3>2. Len(verdicts') = 0 /\ found' \in Int
      BY <2>2, <3>1
    <3>3. ChipInv'
      BY <2>1, <3>1, <3>2 DEF ChipInv
    <3>4. FoldInv'
      BY <2>1, <3>1 DEF FoldInv
    <3>5. QED
      BY <3>3, <3>4
  <2>6. QED
    BY <2>1, <2>3, <2>4, <2>5
<1>4. CASE ReadAttr
  <2>1. /\ pc = "read" /\ pc' \in {"read", "nap", "eval"}
        /\ UNCHANGED <<options, subject, k, worst, verdicts>>
        /\ pc' = "nap" => asleep' = Gap /\ k < samples
        /\ asleep' \in Nat
        /\ attr' \in 1 .. NAttrs
    BY <1>1, <1>4 DEF ReadAttr, MoreSamples
  <2>2. /\ age' \in 0 .. TTL
        /\ readBy' = {k} \/ readBy' = readBy \cup {k}
        /\ age = TTL => readBy' = {k}
    BY <1>1, <1>4 DEF ReadAttr
  <2>3. TypeOK'
    BY <1>1, <2>1, <2>2 DEF TypeOK
  <2>4. FrameInv'
    <3>1. Gap' = Gap
      BY <2>1 DEF Gap
    <3>0. pc' = "nap" /\ Gap >= TTL => age' + asleep' >= TTL
      <4> SUFFICES ASSUME pc' = "nap", Gap >= TTL PROVE age' + asleep' >= TTL
        OBVIOUS
      <4>1. asleep' = Gap
        BY <2>1
      <4>2. age' \in Nat /\ TTL \in Nat /\ Gap \in Nat
        BY <1>1, <2>2
      <4>3. \A a, b, c \in Nat : b >= c => a + b >= c
        OBVIOUS
      <4>4. asleep' \in Nat /\ asleep' >= TTL
        BY <4>1, <4>2
      <4>5. QED
        BY <4>2, <4>3, <4>4
    <3>2. Gap >= TTL => readBy' \subseteq {k}
      <4>1. Gap >= TTL => readBy \subseteq {k} \/ age = TTL
        BY DEF FrameInv
      <4>2. QED
        BY <2>2, <4>1
    <3>3. QED
      <4>1. FrameInv' <=> (Gap >= TTL =>
               \/ /\ readBy' \subseteq {k'}
                  /\ pc' = "nap" /\ readBy' # {} => age' + asleep' >= TTL
               \/ /\ age' = TTL
                  /\ pc' \in {"read", "unread"}
                  /\ \E j \in 1 .. samples' : readBy' = {j})
        BY <3>1 DEF FrameInv
      <4>2. QED
        BY <2>1, <3>0, <3>2, <4>1
  <2>5. ChipInv' /\ FoldInv'
    BY <2>1, VerdictsStay
  <2>6. QED
    BY <2>1, <2>3, <2>4, <2>5
<1>5. CASE ReadFails
  <2>1. TypeOK' /\ FrameInv'
    BY <1>5 DEF ReadFails, TypeOK, FrameInv, Gap
  <2>2. ChipInv' /\ FoldInv'
    BY <1>5, VerdictsStay DEF ReadFails
  <2>3. QED
    BY <1>5, <2>1, <2>2 DEF ReadFails
<1>6. CASE Nap
  <2>1. TypeOK'
    BY <1>1, <1>6 DEF Nap, TypeOK
  <2>2. FrameInv'
    <3>1. /\ Gap' = Gap /\ pc' = "read"
          /\ UNCHANGED <<samples, age, readBy>> /\ k' = k + 1 /\ asleep = 0
      BY <1>6 DEF Nap, Gap
    <3>2. Gap >= TTL => readBy = {} \/ (readBy = {k} /\ age = TTL)
      BY <1>1, <1>6, <3>1 DEF FrameInv, Nap
    <3>3. QED
      BY <1>1, <3>1, <3>2 DEF FrameInv
  <2>3. ChipInv' /\ FoldInv'
    BY <1>6, VerdictsStay DEF Nap
  <2>4. QED
    BY <1>6, <2>1, <2>2, <2>3 DEF Nap
<1>7. CASE Evaluate
  BY <1>7, ConcludeStep DEF Evaluate, Verdicts
<1>8. CASE GiveUpOnChip
  BY <1>8, ConcludeStep DEF GiveUpOnChip, Verdicts
<1>9. CASE OtherReader
  <2>1. TypeOK'
    BY <1>1, <1>9 DEF OtherReader, TypeOK
  <2>2. FrameInv'
    BY <1>9 DEF OtherReader, FrameInv
  <2>3. ChipInv' /\ FoldInv'
    BY <1>9, VerdictsStay DEF OtherReader
  <2>4. QED
    BY <1>9, <2>1, <2>2, <2>3 DEF OtherReader
<1>10. CASE Tick
  <2>1. /\ age' = (IF age < TTL THEN age + 1 ELSE age)
        /\ asleep' = (IF asleep > 0 THEN asleep - 1 ELSE 0)
        /\ UNCHANGED <<pc, options, subject, k, attr, worst, readBy, verdicts>>
    BY <1>10 DEF Tick
  <2>2. age' \in 0 .. TTL /\ asleep' \in Nat
    BY <1>1, <2>1
  <2>3. TypeOK'
    BY <2>1, <2>2 DEF TypeOK
  <2>4. FrameInv'
    <3>1. Gap' = Gap
      BY <2>1 DEF Gap
    <3>2. age = TTL => age' = TTL
      BY <1>1, <2>1
    <3>3. age + asleep >= TTL => age' + asleep' >= TTL
      BY <1>1, <2>1
    <3>4. QED
      BY <2>1, <3>1, <3>2, <3>3 DEF FrameInv
  <2>5. ChipInv' /\ FoldInv'
    BY <2>1, VerdictsStay
  <2>6. QED
    BY <2>1, <2>3, <2>4, <2>5
<1>11. CASE UNCHANGED vars
  <2>1. UNCHANGED <<pc, options, subject, k, attr, asleep, age, worst, readBy,
                    verdicts>>
    BY <1>11 DEF vars
  <2>2. TypeOK' /\ FrameInv'
    BY <2>1 DEF TypeOK, FrameInv, Gap
  <2>3. ChipInv' /\ FoldInv'
    BY <2>1, VerdictsStay
  <2>4. QED
    BY <2>1, <2>2, <2>3
<1>12. QED
  BY <1>2, <1>3, <1>4, <1>5, <1>6, <1>7, <1>8, <1>9, <1>10, <1>11
  DEF Next, Run, Exited

(* The states of a run of the guard.                                       *)
LEMMA RunInvariance == Spec => []RInv
BY RunInit, RunStep, PTL DEF Spec

(* Every variable of a run keeps its type.                                 *)
THEOREM RunTyped == Spec => []TypeOK
<1>1. RInv => TypeOK
  BY DEF RInv
<1>2. QED
  BY <1>1, RunInvariance, PTL

(* What the states of a run promise.                                       *)
LEMMA IndependentFromInv == ASSUME RInv PROVE IndependentSamples
<1> SUFFICES ASSUME interval = 0 \/ interval >= TTL
             PROVE  Cardinality(readBy) <= 1
  BY DEF IndependentSamples
<1>1. Gap >= TTL
  BY GuardMainAssumption DEF Gap, RInv, TypeOK, UpdateIntervals
<1>2. readBy = {} \/ \E j : readBy = {j}
  BY <1>1 DEF RInv, FrameInv
<1>3. CASE readBy = {}
  BY <1>3, FS_EmptySet
<1>4. CASE \E j : readBy = {j}
  <2>1. PICK j : readBy = {j}
    BY <1>4
  <2>2. QED
    BY <2>1, FS_Singleton
<1>5. QED
  BY <1>2, <1>3, <1>4

LEMMA BlindFromInv == ASSUME RInv PROVE BlindIsNeverOk
<1> SUFFICES ASSUME pc = "exit", worst \in {"OK", "WARN"}
             PROVE  /\ found >= 1
                    /\ Len(verdicts) = found
                    /\ named <= MaxChips => Len(verdicts) = named
                    /\ Len(verdicts) < present =>
                          named < present \/ found = MaxChips
                    /\ \A n \in 1 .. found : verdicts[n] # "UNKNOWN"
  BY DEF BlindIsNeverOk
<1>1. verdicts # <<>> /\ Len(verdicts) = found /\ verdicts \in Seq(Verdicts)
  BY DEF RInv, ChipInv, TypeOK
<1>2. /\ named <= MaxChips => found = named
      /\ found < present => named < present \/ found = MaxChips
  <2>1. /\ present \in Int /\ named \in -1 .. present /\ MaxChips \in Int
        /\ found = Listed(named)
    BY GuardMainAssumption DEF RInv, ChipInv, TypeOK
  <2>2. QED
    BY <2>1 DEF Listed
<1>3. \A n \in 1 .. Len(verdicts) : Severity(verdicts[n]) <= Severity(worst)
  BY <1>1 DEF RInv, FoldInv
<1>4. Severity(worst) <= 2 /\ Severity("UNKNOWN") = 3 /\ Severity(worst) \in Nat
  BY DEF Severity
<1>5. found >= 1
  BY <1>1
<1>6. QED
  BY <1>1, <1>2, <1>3, <1>4, <1>5

LEMMA RunPromises ==
    RInv => TypeOK /\ IndependentSamples /\ ExitIsWorst /\ BlindIsNeverOk
<1>1. RInv => TypeOK /\ ExitIsWorst
  BY DEF RInv, FoldInv, ExitIsWorst
<1>2. QED
  BY <1>1, IndependentFromInv, BlindFromInv

(* Samples at least a cache TTL apart never read the same frame.           *)
THEOREM SamplesIndependent == Spec => []IndependentSamples
BY RunPromises, RunInvariance, PTL

(* The exit status is the most severe verdict.                             *)
THEOREM ExitSevere == Spec => []ExitIsWorst
BY RunPromises, RunInvariance, PTL

(* A chip once listed is never lost in an OK or a WARNING, and none that   *)
(* gave its name is left out while there is room.                          *)
THEOREM NeverBlindlyOk == Spec => []BlindIsNeverOk
BY RunPromises, RunInvariance, PTL

-----------------------------------------------------------------------------
(* The units. The states of a run of the guard are those of RInv.         *)

(* Status 2 is handed on for a CRITICAL chip only, and nothing else gets   *)
(* an activation past its interlock.                                       *)
CauseInv ==
    /\ act \in Acting => cause
    /\ act = "interlock" /\ status = ExitCode["CRIT"] => cause

(* The types of the units' variables (PoweroffTypeOK, but for the run).    *)
UnitsType ==
    /\ check \in {"inactive", "running"}
    /\ act \in Ended \cup Acting \cup {"interlock"}
    /\ status \in {ByHand, NotTheGuards} \cup (0 .. 3)
    /\ left \in 0 .. Delay
    /\ cause \in BOOLEAN

PInv == RInv /\ CauseInv

-----------------------------------------------------------------------------
(* A process that has not begun is in an initial state of the guard's.     *)
LEMMA ProcessBegins ==
    ASSUME NewProcess, samples' \in 1 .. MaxSamples, interval' \in Intervals,
           age' \in 0 .. TTL
    PROVE  RInv'
<1>1. Init'
  BY DEF NewProcess, Init
<1>2. QED
  BY <1>1, RunInit, PTL

LEMMA ProcessEnds == RInv /\ NoProcess => RInv'
<1> SUFFICES ASSUME RInv, NoProcess PROVE RInv'
  OBVIOUS
<1>1. interval \in Intervals
  BY DEF RInv, TypeOK
<1>2. interval' \in Intervals
  BY <1>1, Zenon DEF NoProcess
<1>3. samples' \in 1 .. MaxSamples /\ age' \in 0 .. TTL
  BY GuardMainAssumption DEF NoProcess
<1>4. NewProcess
  BY DEF NoProcess
<1>5. QED
  BY <1>2, <1>3, <1>4, ProcessBegins

(* A run that exits with status 2 had a CRITICAL chip.                     *)
LEMMA StatusTwo ==
    ASSUME RInv, pc = "exit", ExitCode[worst] = ExitCode["CRIT"]
    PROVE  Critical
<1>1. worst = "CRIT"
  BY DEF RInv, TypeOK, Verdicts, ExitCode
<1>2. verdicts # <<>>
  BY <1>1 DEF RInv, ChipInv
<1>3. \E n \in 1 .. Len(verdicts) : verdicts[n] = worst
  BY <1>2 DEF RInv, FoldInv
<1>4. QED
  BY <1>1, <1>3 DEF Critical

(* An activation that begins at its interlock, or changes nothing.         *)
LEMMA ActivateStep ==
    ASSUME NEW st, NEW why, CauseInv, Activate(st, why),
           st = ExitCode["CRIT"] => why
    PROVE  CauseInv'
BY DEF Activate, CauseInv, activation, Acting

LEMMA EndStep ==
    ASSUME NEW from, NEW how \in Ended, End(from, how)
    PROVE  CauseInv'
BY DEF End, CauseInv, Ended, Acting

LEMMA PoweroffStep == PInv /\ [PoweroffNext]_allVars => PInv'
<1> SUFFICES ASSUME PInv, [PoweroffNext]_allVars PROVE PInv'
  OBVIOUS
<1> USE DEF PInv
<1>0. /\ ByHand # ExitCode["CRIT"]
      /\ NotTheGuards # ExitCode["CRIT"]
  BY DEF ByHand, NotTheGuards, ExitCode
<1>1. CASE CheckStart
  BY <1>1, ProcessBegins DEF CheckStart, CauseInv, activation
<1>2. CASE GuardRuns \/ TimePasses \/ OthersRead
  <2>1. [Next]_vars /\ UNCHANGED unitVars
    BY <1>2 DEF GuardRuns, TimePasses, OthersRead, Next
  <2>2. RInv'
    BY <2>1, RunStep
  <2>3. QED
    BY <2>1, <2>2 DEF CauseInv, unitVars, activation
<1>3. CASE CheckExits
  <2>1. RInv'
    BY <1>3, ProcessEnds DEF CheckExits
  <2>2. CASE ExitCode[worst] \in SuccessExitStatus
    BY <1>3, <2>1, <2>2 DEF CheckExits, CauseInv, activation
  <2>3. CASE ExitCode[worst] \notin SuccessExitStatus
    BY <1>3, <2>1, <2>3, StatusTwo, ActivateStep DEF CheckExits
  <2>4. QED
    BY <2>2, <2>3
<1>4. CASE CheckBreaks
  BY <1>0, <1>4, ProcessEnds, ActivateStep DEF CheckBreaks
<1>5. CASE StartByHand
  <2>1. RInv'
    BY <1>5, RunStep DEF StartByHand
  <2>2. QED
    BY <1>0, <1>5, <2>1, ActivateStep DEF StartByHand
<1>6. CASE Interlock
  <2>1. RInv'
    BY <1>6, RunStep DEF Interlock
  <2>2. CauseInv'
    BY <1>6, EndStep
    DEF Interlock, Command, activation, CauseInv, FirstWarning, Acting, Ended
  <2>3. QED
    BY <2>1, <2>2
<1>7. CASE DesktopNotified \/ Wall \/ Sleeping \/ Cancel \/ Boot
  <2>1. RInv'
    BY <1>7, RunStep DEF DesktopNotified, Wall, Sleeping, Cancel, Boot
  <2>2. CauseInv'
    BY <1>7, EndStep
    DEF DesktopNotified, Wall, Sleeping, Cancel, Boot, Command, activation,
        CauseInv, Acting, Ended
  <2>3. QED
    BY <2>1, <2>2
<1>8. CASE Poweroff
  <2>1. RInv'
    BY <1>8, RunStep, ProcessEnds DEF Poweroff
  <2>2. CauseInv'
    BY <1>8, EndStep DEF Poweroff, Command, activation, CauseInv, Acting, Ended
  <2>3. QED
    BY <2>1, <2>2
<1>9. CASE UNCHANGED allVars
  <2>1. UNCHANGED vars /\ UNCHANGED <<act, status, cause>>
    BY <1>9 DEF allVars, unitVars, activation
  <2>2. QED
    BY <2>1, RunStep DEF CauseInv
<1>10. QED
  BY <1>1, <1>2, <1>3, <1>4, <1>5, <1>6, <1>7, <1>8, <1>9
  DEF PoweroffNext, UnitStep

LEMMA PoweroffInitial == PoweroffInit => PInv
BY RunInit DEF PoweroffInit, UnitsInit, PInv, CauseInv, Acting

(* The machine is warned and powered off only for a run of the guard in    *)
(* which a chip was CRITICAL (astral-guard-poweroff.service).              *)
THEOREM PoweroffIsJustified == PoweroffSpec => []PoweroffJustified
<1>1. PInv => PoweroffJustified
  BY DEF PInv, CauseInv, PoweroffJustified
<1>2. QED
  BY PoweroffInitial, PoweroffStep, <1>1, PTL DEF PoweroffSpec

(* The units' own variables keep their types: the status of a run that     *)
(* exited is one of its four.                                              *)
LEMMA UnitsTypeStep == PInv /\ UnitsType /\ [PoweroffNext]_allVars => UnitsType'
<1> SUFFICES ASSUME PInv, UnitsType, [PoweroffNext]_allVars PROVE UnitsType'
  OBVIOUS
<1> USE PoweroffAssumption DEF UnitsType, activation, Ended, Acting, ByHand,
       NotTheGuards
<1>1. ASSUME NEW st \in {ByHand, NotTheGuards} \cup (0 .. 3),
             NEW why \in BOOLEAN, Activate(st, why),
             check' \in {check, "inactive"}
      PROVE  UnitsType'
  BY <1>1 DEF Activate
<1>2. ASSUME NEW from, NEW how \in Ended, End(from, how), check' = check
      PROVE  UnitsType'
  <2>1. cause' \in BOOLEAN
    BY <1>2, Zenon DEF End
  <2>2. left' \in 0 .. Delay /\ status' \in {ByHand, NotTheGuards} \cup (0 .. 3)
    BY <1>2 DEF End
  <2>3. QED
    BY <1>2, <2>1, <2>2, Zenon DEF End
<1>3. ASSUME NEW from, NEW to \in Acting, Command(from, to),
             check' \in {check, "inactive"}
      PROVE  UnitsType'
  BY <1>3 DEF Command
<1>4. CASE CheckStart
  BY <1>4 DEF CheckStart
<1>5. CASE GuardRuns \/ TimePasses \/ OthersRead
  BY <1>5 DEF GuardRuns, TimePasses, OthersRead, unitVars
<1>6. CASE CheckExits
  <2>1. ExitCode[worst] \in 0 .. 3
    BY DEF PInv, RInv, TypeOK, Verdicts, ExitCode
  <2>2. CASE ExitCode[worst] \in SuccessExitStatus
    BY <1>6, <2>2 DEF CheckExits
  <2>3. CASE ExitCode[worst] \notin SuccessExitStatus
    <3>1. Activate(ExitCode[worst], Critical) /\ check' = "inactive"
      BY <1>6, <2>3 DEF CheckExits
    <3>2. Critical \in BOOLEAN
      BY DEF Critical
    <3>3. QED
      BY <1>1, <2>1, <3>1, <3>2
  <2>4. QED
    BY <2>2, <2>3
<1>7. CASE CheckBreaks
  BY <1>1, <1>7 DEF CheckBreaks
<1>8. CASE StartByHand
  BY <1>1, <1>8 DEF StartByHand
<1>9. CASE Interlock
  BY <1>2, <1>3, <1>9 DEF Interlock, FirstWarning
<1>10. CASE DesktopNotified
  BY <1>3, <1>10 DEF DesktopNotified
<1>11. CASE Wall
  BY <1>2, <1>11 DEF Wall
<1>12. CASE Sleeping
  BY <1>2, <1>3, <1>12 DEF Sleeping
<1>13. CASE Poweroff
  BY <1>2, <1>3, <1>13 DEF Poweroff
<1>14. CASE Cancel
  BY <1>2, <1>14 DEF Cancel
<1>15. CASE Boot
  BY <1>2, <1>15 DEF Boot
<1>16. CASE UNCHANGED allVars
  BY <1>16 DEF allVars, unitVars
<1>17. QED
  BY <1>4, <1>5, <1>6, <1>7, <1>8, <1>9, <1>10, <1>11, <1>12, <1>13, <1>14,
     <1>15, <1>16
  DEF PoweroffNext, UnitStep

LEMMA UnitsTypeInit == PoweroffInit => UnitsType
<1> SUFFICES ASSUME UnitsInit PROVE UnitsType
  BY DEF PoweroffInit
<1>1. left \in 0 .. Delay
  BY PoweroffAssumption DEF UnitsInit
<1>2. QED
  BY <1>1, Zenon DEF UnitsInit, UnitsType, Ended

(* Every variable of the units and of the runs inside them keeps its type. *)
THEOREM UnitsTyped == PoweroffSpec => []PoweroffTypeOK
<1>1. PInv /\ UnitsType => PoweroffTypeOK
  BY DEF PInv, RInv, UnitsType, PoweroffTypeOK
<1>2. QED
  BY PoweroffInitial, PoweroffStep, UnitsTypeInit, UnitsTypeStep, <1>1, PTL
  DEF PoweroffSpec

(* What a run of the guard promises it promises in every run the timer or  *)
(* anybody starts: none inherits from the one before it.                   *)
THEOREM EveryRunKeepsItsPromises ==
    PoweroffSpec =>
        [](TypeOK /\ IndependentSamples /\ ExitIsWorst /\ BlindIsNeverOk)
<1>1. PInv => TypeOK /\ IndependentSamples /\ ExitIsWorst /\ BlindIsNeverOk
  BY RunPromises DEF PInv
<1>2. QED
  BY PoweroffInitial, PoweroffStep, <1>1, PTL DEF PoweroffSpec
=============================================================================
