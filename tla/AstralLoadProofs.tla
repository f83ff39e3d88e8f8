-------------------------- MODULE AstralLoadProofs --------------------------
(***************************************************************************)
(* Proofs about AstralLoad, for every time the transfer, the power query,  *)
(* the sleep and the grace period may take, and any number of interrupts.  *)
(***************************************************************************)
EXTENDS AstralLoad, TLAPS

LoadTypeOK ==
    /\ pc \in Timed \cup Untimed
    /\ left \in Nat
    /\ reading \in Levels /\ current \in Levels
    /\ aborted \in BOOLEAN /\ strayed \in BOOLEAN
    /\ interrupts \in Nat /\ runs \in Nat
    /\ child \in {"none", "running", "zombie", "reaped"}
    /\ signal \in {"none", "TERM", "KILL"}
    /\ exposed \in Nat /\ unseen \in Nat

(* No time is left over but where time passes, and no more than is allowed.*)
LeftState ==
    /\ pc \in {"sampler", "measured"} => left <= TransferTime
    /\ pc = "power" => left <= PowerTimeout
    /\ pc = "sleep" => left <= Interval

(* Until run_burn() stops the child nobody has; and with the exception     *)
(* caught, or the child gone, nothing is gentle with it.                   *)
StopState ==
    /\ pc = "popen" => child = "none"
    /\ pc \notin {"wait", "over"} => signal = "none"
    /\ ~strayed /\ pc = "finally" => aborted \/ child # "running"
    /\ ~strayed /\ pc \in {"wait", "over"} => ~LoadOn
    /\ ~strayed => signal # "TERM"

(* What a round of the loop adds, from the measurement to the next.        *)
Round == TransferTime + PowerTimeout + Interval
Before == IF reading >= AbortLevel THEN Round ELSE 0

ExposureState ==
    /\ current < AbortLevel => exposed = 0
    /\ pc \in {"popen", "spawned"} => exposed = 0
    /\ pc = "stop" => exposed <= Round
    /\ pc = "sampler" => exposed <= Round + (TransferTime - left)
    /\ pc = "measured" => exposed <= Before + (TransferTime - left)
    /\ pc = "power" => exposed <= Before + TransferTime + (PowerTimeout - left)
    /\ pc = "check" => exposed <= Before + TransferTime + PowerTimeout
    /\ pc = "sleep" => exposed <= TransferTime + PowerTimeout + (Interval - left)
    /\ ExposureBounded

SightState ==
    /\ pc \in {"popen", "spawned"} => unseen = 0
    /\ pc = "stop" => unseen <= Round
    /\ pc = "sampler" => unseen <= Round + (TransferTime - left)
    /\ pc = "measured" => unseen <= TransferTime - left
    /\ pc = "power" => unseen <= TransferTime + (PowerTimeout - left)
    /\ pc = "check" => unseen <= TransferTime + PowerTimeout
    /\ pc = "sleep" => unseen <= TransferTime + PowerTimeout + (Interval - left)
    /\ SightBounded

LInv == LoadTypeOK /\ LeftState /\ StopState /\ ExposureState /\ SightState

-----------------------------------------------------------------------------
LEMMA LoadInit == Init => LInv
  <1> SUFFICES ASSUME Init PROVE LInv
    OBVIOUS
  <1> USE LoadAssumption DEF Init, Timed, Untimed, Levels, AbortLevel, LoadOn
  <1>0. aborted \in BOOLEAN /\ strayed \in BOOLEAN
    OBVIOUS
  <1>1. LoadTypeOK
    BY <1>0 DEF LoadTypeOK
  <1>2. LeftState /\ StopState
    BY DEF LeftState, StopState
  <1>3. ExposureState
    BY DEF ExposureState, ExposureBounded
  <1>4. SightState
    BY DEF SightState, SightBounded
  <1> QED
    BY <1>1, <1>2, <1>3, <1>4 DEF LInv

LEMMA LoadStep == LInv /\ [Next]_vars => LInv'
  <1> SUFFICES ASSUME LInv, [Next]_vars PROVE LInv'
    OBVIOUS
  <1> USE LoadAssumption
      DEF LInv, LoadTypeOK, LeftState, StopState, ExposureState, SightState,
          ExposureBounded, SightBounded, Timed, Untimed, Levels, AbortLevel,
          LoadOn, Round, Before, Goto, program, process, history
  <1>1. CASE Popen
    <2>1. LoadTypeOK'
      BY <1>1 DEF Popen
    <2>2. LeftState' /\ StopState'
      BY <1>1 DEF Popen
    <2>3. ExposureState' /\ SightState'
      BY <1>1 DEF Popen
    <2> QED
      BY <2>1, <2>2, <2>3
  <1>2. CASE Stop
    <2>1. LoadTypeOK'
      BY <1>2 DEF Stop
    <2>2. LeftState' /\ StopState'
      BY <1>2 DEF Stop
    <2>3. ExposureState' /\ SightState'
      BY <1>2 DEF Stop
    <2> QED
      BY <2>1, <2>2, <2>3
  <1>3. CASE Measure
    BY <1>3 DEF Measure
  <1>4. CASE SamplerReturns \/ SamplerRaises
    BY <1>4 DEF SamplerReturns, SamplerRaises
  <1>5. CASE PowerReturns
    BY <1>5 DEF PowerReturns
  <1>6. CASE Check
    BY <1>6 DEF Check, ReachesAbort
  <1>7. CASE EnterTry \/ Sleep
    BY <1>7 DEF EnterTry, Sleep
  <1>14. CASE Raised
    <2>0. aborted' \in BOOLEAN /\ strayed' \in BOOLEAN
      BY <1>14, Zenon DEF Raised
    <2>1. LoadTypeOK'
      BY <2>0, <1>14 DEF Raised
    <2>2. LeftState' /\ StopState'
      BY <1>14 DEF Raised
    <2>3. ExposureState' /\ SightState'
      BY <1>14 DEF Raised
    <2> QED
      BY <2>1, <2>2, <2>3
  <1>8. CASE StopBurn
    <2>1. LoadTypeOK'
      BY <1>8 DEF StopBurn
    <2>2. LeftState' /\ StopState'
      BY <1>8 DEF StopBurn
    <2>3. ExposureState' /\ SightState'
      BY <1>8 DEF StopBurn
    <2> QED
      BY <2>1, <2>2, <2>3
  <1>9. CASE Wait
    BY <1>9 DEF Wait
  <1>10. CASE Interrupt
    <2>0. aborted' \in BOOLEAN /\ strayed' \in BOOLEAN
      BY <1>10, Zenon DEF Interrupt
    <2>1. LoadTypeOK'
      BY <2>0, <1>10 DEF Interrupt
    <2>2. LeftState' /\ StopState'
      BY <1>10 DEF Interrupt
    <2>3. ExposureState' /\ SightState'
      BY <1>10 DEF Interrupt
    <2> QED
      BY <2>1, <2>2, <2>3
  <1>11. CASE BurnEnds \/ CurrentMoves
    BY <1>11 DEF BurnEnds, CurrentMoves
  <1>12. CASE Tick
    BY <1>12 DEF Tick
  <1>13. CASE UNCHANGED vars
    BY <1>13 DEF vars
  <1> QED
    BY <1>1, <1>2, <1>3, <1>4, <1>5, <1>6, <1>7, <1>8, <1>9, <1>10, <1>11,
       <1>12, <1>13, <1>14 DEF Next, Main

-----------------------------------------------------------------------------
(* A pin over the threshold is under load for at most two transfers, two   *)
(* power queries and a sleep (sample_until()).                             *)
THEOREM ExposureIsBounded == Spec => []ExposureBounded
  <1>1. LInv => ExposureBounded
    BY DEF LInv, ExposureState
  <1> QED
    BY LoadInit, LoadStep, <1>1, PTL DEF Spec

(* The load is never on for longer than a round without a measurement.     *)
THEOREM SightIsBounded == Spec => []SightBounded
  <1>1. LInv => SightBounded
    BY DEF LInv, SightState
  <1> QED
    BY LoadInit, LoadStep, <1>1, PTL DEF Spec

(* run_burn() never ends with the child at large (_stop_burn()).           *)
THEOREM NoLoadIsLeft == Spec => []NothingRunsOn
  <1>1. LInv => NothingRunsOn
    BY DEF LInv, StopState, NothingRunsOn
  <1> QED
    BY LoadInit, LoadStep, <1>1, PTL DEF Spec
=============================================================================
