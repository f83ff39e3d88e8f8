-------------------------- MODULE AstralCacheProofs --------------------------
(***************************************************************************)
(* Proofs about AstralCache for any number of readers, any width of        *)
(* jiffies and any TTL within half its range.                              *)
(***************************************************************************)
EXTENDS AstralCache, TLAPS

(* The mutex: held exactly by the thread between check and copy.           *)
MutexState ==
    \A t \in Threads : pc[t] \in {"transfer", "copy"} <=> lock = t

(* The age of a valid frame is what jiffies has moved on since its commit. *)
ClockState == valid => jiffies = Plus(last_updated, age)

(* Before the registration only the attach works on the data; after it the *)
(* attach is over and a measured frame is there.                           *)
PhaseState ==
    /\ ~registered => \A r \in Readers : pc[r] = "idle"
    /\ registered => pc["attach"] = "idle" /\ frame = "measured"
    /\ pc["attach"] = "done" /\ ret["attach"] = "measured" => valid

FrameState ==
    /\ valid => frame = "measured"
    /\ CopyIsValid
    /\ ZerosNeverRead

(* A reader is at the bus only when the last commit is a TTL ago.          *)
SpacingState ==
    /\ registered /\ ~valid => age >= TTL
    /\ \A r \in Readers : pc[r] = "transfer" => age >= TTL

CInv ==
    /\ TypeOK
    /\ MutexState
    /\ ClockState
    /\ PhaseState
    /\ FrameState
    /\ SpacingState

-----------------------------------------------------------------------------
(* The signed comparison of two wrapping counters agrees with the time     *)
(* that passed, for as long as that stays within half the range.           *)
LEMMA JiffiesHonest ==
    ASSUME NEW u \in 0 .. Modulus - 1, NEW n \in 0 .. MaxIdle
    PROVE  TimeBefore(Plus(u, n), Plus(u, TTL)) <=> n < TTL
  BY CacheAssumption, SMTT(60) DEF TimeBefore, Plus

LEMMA PlusInRange ==
    ASSUME NEW u \in 0 .. Modulus - 1, NEW n \in 0 .. MaxIdle
    PROVE  Plus(u, n) \in 0 .. Modulus - 1
  BY CacheAssumption DEF Plus

LEMMA FreshFromClock == TypeOK /\ ClockState => FreshMeansFresh
  BY JiffiesHonest DEF TypeOK, ClockState, FreshMeansFresh, Hit

LEMMA CacheInit == Init => CInv
  <1> SUFFICES ASSUME Init PROVE CInv
    OBVIOUS
  <1> USE CacheAssumption DEF Init, Threads
  <1>1. valid \in BOOLEAN /\ registered \in BOOLEAN
    OBVIOUS
  <1>2. TypeOK
    BY <1>1 DEF TypeOK, Requests, Returns
  <1>3. MutexState /\ PhaseState
    BY DEF MutexState, PhaseState
  <1>4. ClockState /\ SpacingState
    BY DEF ClockState, SpacingState
  <1>5. FrameState
    BY DEF FrameState, CopyIsValid, ZerosNeverRead
  <1> QED
    BY <1>2, <1>3, <1>4, <1>5 DEF CInv

LEMMA CacheStep == CInv /\ [Next]_vars => CInv'
  <1> SUFFICES ASSUME CInv, [Next]_vars PROVE CInv'
    OBVIOUS
  <1> USE CacheAssumption
      DEF CInv, TypeOK, MutexState, PhaseState, FrameState, SpacingState,
          CopyIsValid, ZerosNeverRead, Threads, Requests, Returns, cacheVars
  <1>0. FreshMeansFresh
    BY FreshFromClock
  <1>1. CASE Tick
    <2>1. jiffies' \in 0 .. Modulus - 1
      BY <1>1 DEF Tick, Plus
    <2>2. ClockState'
      BY <1>1 DEF Tick, ClockState, Plus
    <2> QED
      BY <1>1, <2>1, <2>2 DEF Tick
  <1>2. CASE AttachStart
    <2>1. ~valid' /\ valid' \in BOOLEAN
      BY <1>2 DEF AttachStart
    <2> QED
      BY <1>2, <2>1 DEF AttachStart, ClockState
  <1>3. CASE AttachDone
    <2>1. /\ registered' \in BOOLEAN
          /\ registered' => ret["attach"] = "measured"
      BY <1>3 DEF AttachDone
    <2> QED
      BY <1>3, <2>1 DEF AttachDone, ClockState
  <1>4. ASSUME NEW r \in Readers, Return(r) PROVE CInv'
    BY <1>4 DEF Return, ClockState
  <1>5. ASSUME NEW r \in Readers, NEW q \in Requests, Call(r, q) PROVE CInv'
    BY <1>5 DEF Call, ClockState
  <1>6. ASSUME NEW t \in Threads, CacheHit(t) PROVE CInv'
    BY <1>6 DEF CacheHit, Hit, ClockState
  <1>7. ASSUME NEW t \in Threads, Transfer(t) PROVE CInv'
    BY <1>0, <1>7 DEF Transfer, FreshMeansFresh, ClockState
  <1>8. ASSUME NEW t \in Threads, Commit(t) PROVE CInv'
    <2>1. ClockState'
      BY <1>8 DEF Commit, ClockState, Plus
    <2> QED
      BY <1>8, <2>1 DEF Commit
  <1>9. ASSUME NEW t \in Threads, Copy(t) PROVE CInv'
    BY <1>9 DEF Copy, ClockState
  <1>10. ASSUME NEW t \in Threads, NEW error \in {"errno", "EPROTO"}, TransferFails(t, error)
         PROVE  CInv'
    <2>1. ~valid' /\ valid' \in BOOLEAN
      BY <1>10 DEF TransferFails
    <2> QED
      BY <1>10, <2>1 DEF TransferFails, ClockState
  <1>11. CASE UNCHANGED vars
    BY <1>11 DEF vars, ClockState
  <1> HIDE DEF CInv
  <1> QED
    BY <1>1, <1>2, <1>3, <1>4, <1>5, <1>6, <1>7, <1>8, <1>9, <1>10, <1>11 DEF Next, Locked

LEMMA CacheInvariance == Spec => []CInv
  BY CacheInit, CacheStep, PTL DEF Spec

(* The cache, the clock and every reader keep their types.                 *)
THEOREM CacheTyped == Spec => []TypeOK
  <1>1. CInv => TypeOK
    BY DEF CInv
  <1> QED
    BY <1>1, CacheInvariance, PTL

(* A valid frame is served from the cache exactly while it is younger than *)
(* the TTL, whatever value jiffies has and however often it wrapped.       *)
THEOREM CacheIsFresh == Spec => []FreshMeansFresh
  <1>1. CInv => FreshMeansFresh
    BY FreshFromClock DEF CInv
  <1> QED
    BY <1>1, CacheInvariance, PTL

(* Where a value is copied the frame is valid and was measured.            *)
THEOREM CopiesValid == Spec => []CopyIsValid
  <1>1. CInv => CopyIsValid
    BY DEF CInv, FrameState
  <1> QED
    BY <1>1, CacheInvariance, PTL

(* Every value handed out was measured and passed the plausibility check.  *)
THEOREM OnlyMeasured == Spec => []ZerosNeverRead
  <1>1. CInv => ZerosNeverRead
    BY DEF CInv, FrameState
  <1> QED
    BY <1>1, CacheInvariance, PTL

(* A reader commits a new frame only when the last one is a TTL old.       *)
THEOREM CommitsSpaced == Spec => CommitSpacing
  <1>1. CInv => \A r \in Readers : Commit(r) => age >= TTL
    BY DEF CInv, SpacingState, Commit
  <1> QED
    BY <1>1, CacheInvariance, PTL DEF CommitSpacing
=============================================================================
