------------------------- MODULE AstralHwmonProofs -------------------------
(***************************************************************************)
(* Proofs about AstralHwmon for every set of buses, adapters and clients,  *)
(* every retry limit and either use of bus=.                               *)
(***************************************************************************)
EXTENDS AstralHwmon, TLAPS

-----------------------------------------------------------------------------
(* The inductive invariant, part by part.                                  *)

(* Who may hold the lock, and which loader states the notifier, a queued   *)
(* run and a running worker exclude.                                       *)
LoaderState ==
    /\ pc["loader"] \in {"teardown", "release", "oops"} <=> astral_lock = "loader"
    /\ astral_nb <=> pc["loader"] \in {"schedule", "live"} \cup PassPcs
    /\ pc["loader"] \in {"flush", "lock", "teardown", "release", "oops", "unloaded"}
          => ~probe_work
    /\ pc["loader"] \in {"lock", "teardown", "release", "oops", "unloaded"}
          => pc["worker"] = "idle"
    /\ ~astral_nb => pc["host"] # "rearm"
    /\ pc["loader"] = "unloaded" => astral_client = None
    /\ pc["loader"] = "release" => astral_client # None

(* Adapters: a listed number has an adapter, one being deleted still has   *)
(* it, and it is not listed any more once its clients are gone.            *)
AdapterState ==
    /\ \A b \in listed : bus[b] # None
    /\ pc["host"] \in DeletePcs => hostBus # None /\ bus[hostBus] # None
    /\ pc["host"] \in {"deleting", "delclient"} => hostBus \in listed
    /\ pc["host"] = "added" => hostBus # None
    /\ pc["host"] = "drain" => hostBus \notin listed

(* References: a pass holds one exactly while it needs it, and an adapter  *)
(* with a reference is not being deleted.                                  *)
ReferenceState ==
    \A t \in Probers :
        /\ pc[t] \in {"recheck", "new"} \cup AttachPcs => adap[t] # None
        /\ adap[t] # None =>
              /\ pc[t] \in {"recheck", "new", "settle", "put"} \cup AttachPcs
              /\ bus[adap[t]] # None
              /\ ~(pc["host"] \in DeletePcs /\ hostBus = adap[t])
        /\ pc[t] \in {"new"} \cup AttachPcs => Candidate(adap[t])

(* Clients: each sits on a listed adapter of the card, alone there, and    *)
(* the host tears down only those of the adapter it deletes.               *)
ClientState ==
    /\ \A c \in Clients : Live(c) => clientBus[c] \in listed /\ Candidate(clientBus[c])
    /\ \A c, d \in Clients : Live(c) /\ clientBus[c] = clientBus[d] => c = d
    /\ pc["host"] = "delclient" =>
          /\ cl["host"] # None
          /\ clientBus[cl["host"]] = hostBus
          /\ astral_nb => astral_client # cl["host"]

(* The attach: what a pass works on exists, is published exactly from its  *)
(* publication to its withdrawal, and has no hwmon device before the end.  *)
AttachState ==
    \A t \in Probers :
        /\ pc[t] \in AttachPcs =>
              /\ cl[t] # None
              /\ clientBus[cl[t]] = adap[t]
              /\ cl[t] \notin hwmon
        /\ pc[t] \in {"refresh", "register", "unpublish"} => astral_client = cl[t]
        /\ pc[t] \in {"walk", "get", "recheck", "new", "publish", "delnotify", "destroy"}
              => astral_client = None

IInv ==
    /\ TypeOK
    /\ ClaimBalanced
    /\ LoaderState
    /\ AdapterState
    /\ ReferenceState
    /\ ClientState
    /\ AttachState
    /\ PublishedLive
    /\ NoLeakedClient
    /\ SensorsOwned

-----------------------------------------------------------------------------
LEMMA InitInv == Init => IInv
  <1> SUFFICES ASSUME Init PROVE IInv
    OBVIOUS
  <1> USE ConstantsAssumption DEF Init, Probers, Threads, AttachPcs, ClaimPcs, PassPcs
  <1>1. TypeOK
    BY DEF TypeOK, PcsOK, NoTally, LoaderPcs, WorkerPcs, HostPcs
  <1>2. ClaimBalanced
    BY DEF ClaimBalanced
  <1>3. LoaderState
    BY DEF LoaderState
  <1>4. AdapterState
    BY DEF AdapterState, DeletePcs
  <1>5. ReferenceState
    BY DEF ReferenceState
  <1>6. ClientState
    BY DEF ClientState, Live
  <1>7. AttachState
    BY DEF AttachState
  <1>8. PublishedLive
    BY DEF PublishedLive
  <1>9. NoLeakedClient
    BY DEF NoLeakedClient, Live
  <1>10. SensorsOwned
    BY DEF SensorsOwned
  <1> QED
    BY <1>1, <1>2, <1>3, <1>4, <1>5, <1>6, <1>7, <1>8, <1>9, <1>10 DEF IInv

LEMMA StepInv == IInv /\ [Next]_vars => IInv'
  <1> SUFFICES ASSUME IInv, [Next]_vars PROVE IInv'
    OBVIOUS
  <1> USE ConstantsAssumption
      DEF Probers, Threads, AttachPcs, ClaimPcs, PassPcs, ExitPcs, DeletePcs,
              LoaderPcs, WorkerPcs, HostPcs, Goto, moduleVars, passVars, worldVars
  <1> USE DEF IInv, TypeOK, PcsOK, ClaimBalanced, LoaderState, AdapterState, ReferenceState,
              ClientState, AttachState, PublishedLive, NoLeakedClient, SensorsOwned,
              Live, Candidate, CardMatches, Selected
  <1>1. ASSUME NEW t \in Probers, ProbeBusy(t) PROVE IInv'
    BY <1>1 DEF ProbeBusy, LockFree
  <1>2. ASSUME NEW t \in Probers, ProbeClaim(t) PROVE IInv'
    BY <1>2 DEF ProbeClaim, LockFree
  <1>3. ASSUME NEW t \in Probers, Walk(t) PROVE IInv'
    <2>1. PcsOK'
      BY <1>3 DEF Walk
    <2>2. unseen' \in BOOLEAN
      BY <1>3 DEF Walk
    <2>3. TypeOK'
      BY <1>3, <2>1, <2>2 DEF Walk
    <2>4. ClaimBalanced'
      BY <1>3 DEF Walk
    <2>5. LoaderState'
      BY <1>3 DEF Walk
    <2>6. AdapterState'
      BY <1>3 DEF Walk
    <2>7. ReferenceState'
      BY <1>3 DEF Walk
    <2>8. ClientState'
      BY <1>3 DEF Walk
    <2>9. AttachState'
      BY <1>3 DEF Walk
    <2>10. PublishedLive'
      BY <1>3 DEF Walk
    <2>11. NoLeakedClient'
      BY <1>3 DEF Walk
    <2>12. SensorsOwned'
      BY <1>3 DEF Walk
    <2> QED
      BY <2>3, <2>4, <2>5, <2>6, <2>7, <2>8, <2>9, <2>10, <2>11, <2>12
  <1>4. ASSUME NEW t \in Probers, GetAdapter(t) PROVE IInv'
    BY <1>4 DEF GetAdapter, Gettable
  <1>5. ASSUME NEW t \in Probers, Recheck(t) PROVE IInv'
    BY <1>5 DEF Recheck
  <1>6. ASSUME NEW t \in Probers, NewClient(t) PROVE IInv'
    BY <1>6 DEF NewClient
  <1>7. ASSUME NEW t \in Probers, Publish(t) PROVE IInv'
    BY <1>7 DEF Publish, LockFree
  <1>8. ASSUME NEW t \in Probers, Refresh(t) PROVE IInv'
    BY <1>8 DEF Refresh
  <1>9. ASSUME NEW t \in Probers, Register(t) PROVE IInv'
    BY <1>9 DEF Register
  <1>10. ASSUME NEW t \in Probers, Unpublish(t) PROVE IInv'
    BY <1>10 DEF Unpublish, LockFree
  <1>11. ASSUME NEW t \in Probers, UnregisterNotify(t) PROVE IInv'
    BY <1>11 DEF UnregisterNotify, NotifyDel
  <1>12. ASSUME NEW t \in Probers, UnregisterFree(t) PROVE IInv'
    BY <1>12 DEF UnregisterFree, FreeClient
  <1>13. ASSUME NEW t \in Probers, Settle(t) PROVE IInv'
    <2>1. PcsOK'
      BY <1>13 DEF Settle, SettleAs
    <2>2. astral_claiming' \in BOOLEAN
      BY <1>13 DEF Settle, SettleAs, LockFree
    <2>3. TypeOK'
      BY <1>13, <2>1, <2>2 DEF Settle, SettleAs, LockFree
    <2>4. ClaimBalanced'
      BY <1>13 DEF Settle, SettleAs, LockFree
    <2>5. LoaderState'
      BY <1>13 DEF Settle, SettleAs, LockFree
    <2>6. AdapterState'
      BY <1>13 DEF Settle, SettleAs, LockFree
    <2>7. ReferenceState'
      BY <1>13 DEF Settle, SettleAs, LockFree
    <2>8. ClientState'
      BY <1>13 DEF Settle, SettleAs, LockFree
    <2>9. AttachState'
      BY <1>13 DEF Settle, SettleAs, LockFree
    <2>10. PublishedLive'
      BY <1>13 DEF Settle, SettleAs, LockFree
    <2>11. NoLeakedClient'
      BY <1>13 DEF Settle, SettleAs, LockFree
    <2>12. SensorsOwned'
      BY <1>13 DEF Settle, SettleAs, LockFree
    <2> QED
      BY <2>3, <2>4, <2>5, <2>6, <2>7, <2>8, <2>9, <2>10, <2>11, <2>12
  <1>14. ASSUME NEW t \in Probers, Put(t) PROVE IInv'
    BY <1>14 DEF Put
  <1>15. CASE InitCheck
    BY <1>15 DEF InitCheck, LockFree
  <1>16. CASE Schedule
    BY <1>16 DEF Schedule, QueueWork
  <1>17. CASE Load
    <2>1. TypeOK'
      BY <1>17 DEF Load
    <2>2. ClaimBalanced'
      BY <1>17 DEF Load
    <2>3. LoaderState'
      BY <1>17 DEF Load
    <2>4. AdapterState'
      BY <1>17 DEF Load
    <2>5. ReferenceState'
      BY <1>17 DEF Load
    <2>6. ClientState'
      BY <1>17 DEF Load
    <2>7. AttachState'
      BY <1>17 DEF Load
    <2>8. PublishedLive'
      BY <1>17 DEF Load
    <2>9. NoLeakedClient'
      BY <1>17 DEF Load
    <2>10. SensorsOwned'
      BY <1>17 DEF Load
    <2> QED
      BY <2>1, <2>2, <2>3, <2>4, <2>5, <2>6, <2>7, <2>8, <2>9, <2>10
  <1>18. CASE ExitNotifier
    <2>1. PcsOK'
      BY <1>18 DEF ExitNotifier
    <2>2. astral_nb' \in BOOLEAN
      BY <1>18 DEF ExitNotifier
    <2>3. TypeOK'
      BY <1>18, <2>1, <2>2 DEF ExitNotifier
    <2>4. ClaimBalanced'
      BY <1>18 DEF ExitNotifier
    <2>5. LoaderState'
      BY <1>18 DEF ExitNotifier
    <2>6. AdapterState'
      BY <1>18 DEF ExitNotifier
    <2>7. ReferenceState'
      BY <1>18 DEF ExitNotifier
    <2>8. ClientState'
      BY <1>18 DEF ExitNotifier
    <2>9. AttachState'
      BY <1>18 DEF ExitNotifier
    <2>10. PublishedLive'
      BY <1>18 DEF ExitNotifier
    <2>11. NoLeakedClient'
      BY <1>18 DEF ExitNotifier
    <2>12. SensorsOwned'
      BY <1>18 DEF ExitNotifier
    <2> QED
      BY <2>3, <2>4, <2>5, <2>6, <2>7, <2>8, <2>9, <2>10, <2>11, <2>12
  <1>19. CASE ExitCancel
    <2>1. PcsOK'
      BY <1>19 DEF ExitCancel
    <2>2. probe_work' \in BOOLEAN
      BY <1>19 DEF ExitCancel
    <2>3. TypeOK'
      BY <1>19, <2>1, <2>2 DEF ExitCancel
    <2>4. ClaimBalanced'
      BY <1>19 DEF ExitCancel
    <2>5. LoaderState'
      BY <1>19 DEF ExitCancel
    <2>6. AdapterState'
      BY <1>19 DEF ExitCancel
    <2>7. ReferenceState'
      BY <1>19 DEF ExitCancel
    <2>8. ClientState'
      BY <1>19 DEF ExitCancel
    <2>9. AttachState'
      BY <1>19 DEF ExitCancel
    <2>10. PublishedLive'
      BY <1>19 DEF ExitCancel
    <2>11. NoLeakedClient'
      BY <1>19 DEF ExitCancel
    <2>12. SensorsOwned'
      BY <1>19 DEF ExitCancel
    <2> QED
      BY <2>3, <2>4, <2>5, <2>6, <2>7, <2>8, <2>9, <2>10, <2>11, <2>12
  <1>20. CASE ExitFlush
    BY <1>20 DEF ExitFlush
  <1>21. CASE ExitLock
    BY <1>21 DEF ExitLock, LockFree
  <1>22. CASE ExitTeardown
    BY <1>22 DEF ExitTeardown, NotifyDel, Gone
  <1>23. CASE ExitRelease
    BY <1>23 DEF ExitRelease, FreeClient, Gone
  <1>24. CASE WorkStart
    <2>1. PcsOK'
      BY <1>24 DEF WorkStart
    <2>2. probe_work' \in BOOLEAN
      BY <1>24 DEF WorkStart
    <2>3. TypeOK'
      BY <1>24, <2>1, <2>2 DEF WorkStart
    <2>4. ClaimBalanced'
      BY <1>24 DEF WorkStart
    <2>5. LoaderState'
      BY <1>24 DEF WorkStart
    <2>6. AdapterState'
      BY <1>24 DEF WorkStart
    <2>7. ReferenceState'
      BY <1>24 DEF WorkStart
    <2>8. ClientState'
      BY <1>24 DEF WorkStart
    <2>9. AttachState'
      BY <1>24 DEF WorkStart
    <2>10. PublishedLive'
      BY <1>24 DEF WorkStart
    <2>11. NoLeakedClient'
      BY <1>24 DEF WorkStart
    <2>12. SensorsOwned'
      BY <1>24 DEF WorkStart
    <2> QED
      BY <2>3, <2>4, <2>5, <2>6, <2>7, <2>8, <2>9, <2>10, <2>11, <2>12
  <1>25. CASE WorkCheck
    <2>1. PcsOK'
      BY <1>25 DEF WorkCheck, WorkReturn
    <2>2. tally' \in [attempts : Nat, report : BOOLEAN]
      <3>1. CASE tally' = NoTally
        BY <3>1 DEF NoTally
      <3>2. CASE tally' = tally
        BY <3>2
      <3> QED
        BY <1>25, <3>1, <3>2 DEF WorkCheck, WorkReturn
    <2>3. TypeOK'
      BY <1>25, <2>1, <2>2 DEF WorkCheck, LockFree, WorkReturn
    <2>4. ClaimBalanced'
      BY <1>25 DEF WorkCheck, LockFree, WorkReturn
    <2>5. LoaderState'
      BY <1>25 DEF WorkCheck, LockFree, WorkReturn
    <2>6. AdapterState'
      BY <1>25 DEF WorkCheck, LockFree, WorkReturn
    <2>7. ReferenceState'
      BY <1>25 DEF WorkCheck, LockFree, WorkReturn
    <2>8. ClientState'
      BY <1>25 DEF WorkCheck, LockFree, WorkReturn
    <2>9. AttachState'
      BY <1>25 DEF WorkCheck, LockFree, WorkReturn
    <2>10. PublishedLive'
      BY <1>25 DEF WorkCheck, LockFree, WorkReturn
    <2>11. NoLeakedClient'
      BY <1>25 DEF WorkCheck, LockFree, WorkReturn
    <2>12. SensorsOwned'
      BY <1>25 DEF WorkCheck, LockFree, WorkReturn
    <2> QED
      BY <2>3, <2>4, <2>5, <2>6, <2>7, <2>8, <2>9, <2>10, <2>11, <2>12
  <1>26. CASE WorkTally
    BY <1>26 DEF WorkTally, LockFree
  <1>27. CASE WorkRequeue
    <2>1. PcsOK'
      BY <1>27 DEF WorkRequeue, WorkReturn
    <2>2. probe_work' \in BOOLEAN
      BY <1>27 DEF WorkRequeue, QueueWork, WorkReturn
    <2>3. tally' \in [attempts : Nat, report : BOOLEAN]
      BY <1>27 DEF WorkRequeue, WorkReturn, NoTally
    <2>4. TypeOK'
      BY <1>27, <2>1, <2>2, <2>3 DEF WorkRequeue, QueueWork, WorkReturn
    <2>5. ClaimBalanced'
      BY <1>27 DEF WorkRequeue, QueueWork, WorkReturn
    <2>6. LoaderState'
      BY <1>27 DEF WorkRequeue, QueueWork, WorkReturn
    <2>7. AdapterState'
      BY <1>27 DEF WorkRequeue, QueueWork, WorkReturn
    <2>8. ReferenceState'
      BY <1>27 DEF WorkRequeue, QueueWork, WorkReturn
    <2>9. ClientState'
      BY <1>27 DEF WorkRequeue, QueueWork, WorkReturn
    <2>10. AttachState'
      BY <1>27 DEF WorkRequeue, QueueWork, WorkReturn
    <2>11. PublishedLive'
      BY <1>27 DEF WorkRequeue, QueueWork, WorkReturn
    <2>12. NoLeakedClient'
      BY <1>27 DEF WorkRequeue, QueueWork, WorkReturn
    <2>13. SensorsOwned'
      BY <1>27 DEF WorkRequeue, QueueWork, WorkReturn
    <2> QED
      BY <2>4, <2>5, <2>6, <2>7, <2>8, <2>9, <2>10, <2>11, <2>12, <2>13
  <1>28. CASE WorkGiveUp
    <2>1. PcsOK'
      BY <1>28 DEF WorkGiveUp, WorkReturn
    <2>2. tally' \in [attempts : Nat, report : BOOLEAN]
      BY <1>28 DEF WorkGiveUp, WorkReturn, NoTally
    <2>3. TypeOK'
      BY <1>28, <2>1, <2>2 DEF WorkGiveUp, WorkReturn
    <2>4. ClaimBalanced'
      BY <1>28 DEF WorkGiveUp, WorkReturn
    <2>5. LoaderState'
      BY <1>28 DEF WorkGiveUp, WorkReturn
    <2>6. AdapterState'
      BY <1>28 DEF WorkGiveUp, WorkReturn
    <2>7. ReferenceState'
      BY <1>28 DEF WorkGiveUp, WorkReturn
    <2>8. ClientState'
      BY <1>28 DEF WorkGiveUp, WorkReturn
    <2>9. AttachState'
      BY <1>28 DEF WorkGiveUp, WorkReturn
    <2>10. PublishedLive'
      BY <1>28 DEF WorkGiveUp, WorkReturn
    <2>11. NoLeakedClient'
      BY <1>28 DEF WorkGiveUp, WorkReturn
    <2>12. SensorsOwned'
      BY <1>28 DEF WorkGiveUp, WorkReturn
    <2> QED
      BY <2>3, <2>4, <2>5, <2>6, <2>7, <2>8, <2>9, <2>10, <2>11, <2>12
  <1>29. CASE HostNotifyAdd
    <2>1. PcsOK'
      BY <1>29 DEF HostNotifyAdd
    <2>2. unseen' \in BOOLEAN
      BY <1>29 DEF HostNotifyAdd, LockFree
    <2>3. astral_stage_reported' \in BOOLEAN
      BY <1>29 DEF HostNotifyAdd, LockFree
    <2>4. TypeOK'
      BY <1>29, <2>1, <2>2, <2>3 DEF HostNotifyAdd, LockFree
    <2>5. ClaimBalanced'
      BY <1>29 DEF HostNotifyAdd, LockFree
    <2>6. LoaderState'
      BY <1>29 DEF HostNotifyAdd, LockFree
    <2>7. AdapterState'
      BY <1>29 DEF HostNotifyAdd, LockFree
    <2>8. ReferenceState'
      BY <1>29 DEF HostNotifyAdd, LockFree
    <2>9. ClientState'
      BY <1>29 DEF HostNotifyAdd, LockFree
    <2>10. AttachState'
      BY <1>29 DEF HostNotifyAdd, LockFree
    <2>11. PublishedLive'
      BY <1>29 DEF HostNotifyAdd, LockFree
    <2>12. NoLeakedClient'
      BY <1>29 DEF HostNotifyAdd, LockFree
    <2>13. SensorsOwned'
      BY <1>29 DEF HostNotifyAdd, LockFree
    <2> QED
      BY <2>4, <2>5, <2>6, <2>7, <2>8, <2>9, <2>10, <2>11, <2>12, <2>13
  <1>30. CASE HostRearm
    BY <1>30 DEF HostRearm, QueueWork
  <1>31. ASSUME NEW c \in Clients, HostDelNotify(c) PROVE IInv'
    BY <1>31 DEF HostDelNotify, NotifyDel
  <1>32. CASE HostFreeClient
    BY <1>32 DEF HostFreeClient, FreeClient
  <1>33. CASE HostDelist
    BY <1>33 DEF HostDelist
  <1>34. CASE HostDrain
    BY <1>34 DEF HostDrain
  <1>35. ASSUME NEW b \in Buses, HostDelete(b) PROVE IInv'
    BY <1>35 DEF HostDelete
  <1>36. ASSUME NEW b \in Buses, NEW a \in Adapters, HostAdd(b, a) PROVE IInv'
    BY <1>36 DEF HostAdd
  <1>37. CASE HealthChange
    BY <1>37 DEF HealthChange
  <1>38. CASE UNCHANGED vars
    BY <1>38 DEF vars, LockFree
  <1> HIDE DEF IInv
  <1> QED
    BY <1>1, <1>2, <1>3, <1>4, <1>5, <1>6, <1>7, <1>8, <1>9, <1>10, <1>11,
       <1>12, <1>13, <1>14, <1>15, <1>16, <1>17, <1>18, <1>19, <1>20, <1>21,
       <1>22, <1>23, <1>24, <1>25, <1>26, <1>27, <1>28, <1>29, <1>30, <1>31,
       <1>32, <1>33, <1>34, <1>35, <1>36, <1>37, <1>38
       DEF Next, ProbeStep, LoaderStep, WorkerStep, HostStep

-----------------------------------------------------------------------------
LEMMA Invariance == Spec => []IInv
  BY InitInv, StepInv, PTL DEF Spec

(* Every variable keeps its type.                                          *)
THEOREM TypeCorrect == Spec => []TypeOK
  <1>1. IInv => TypeOK
    BY DEF IInv
  <1> QED
    BY <1>1, Invariance, PTL

(* No client, and so no traffic, ever on a bus the gate does not accept:   *)
(* the guarantee astral_probe_once() re-checks for.                        *)
THEOREM NoForeignBus == Spec => []ForeignBusUntouched
  <1>1. IInv => ForeignBusUntouched
    BY DEF IInv, ClientState, ForeignBusUntouched
  <1> QED
    BY <1>1, Invariance, PTL

(* The client under attach is never freed underneath astral_attach().      *)
THEOREM AttachSafe == Spec => []AttachClientLive
  <1>1. IInv => AttachClientLive
    BY DEF IInv, AttachState, AttachClientLive
  <1> QED
    BY <1>1, Invariance, PTL

(* With the notifier in place astral_client never dangles.                 *)
THEOREM NeverDangles == Spec => []PublishedLive
  <1>1. IInv => PublishedLive
    BY DEF IInv
  <1> QED
    BY <1>1, Invariance, PTL

(* No client is ever forgotten.                                            *)
THEOREM NothingLeaks == Spec => []NoLeakedClient
  <1>1. IInv => NoLeakedClient
    BY DEF IInv
  <1> QED
    BY <1>1, Invariance, PTL

(* A hwmon device belongs to the published client, or to one that goes.    *)
THEOREM SensorsHeld == Spec => []SensorsOwned
  <1>1. IInv => SensorsOwned
    BY DEF IInv
  <1> QED
    BY <1>1, Invariance, PTL

(* astral_claiming admits one pass at a time.                              *)
THEOREM OneClaim == Spec => []ClaimBalanced
  <1>1. IInv => ClaimBalanced
    BY DEF IInv
  <1> QED
    BY <1>1, Invariance, PTL

(* The reference outlasts the claim and never the pass.                    *)
THEOREM PinsHold == Spec => []ReferencePins
  <1>1. IInv => ReferencePins
    BY DEF IInv, ReferenceState, ReferencePins, PassPcs, ClaimPcs, AttachPcs, Probers
  <1> QED
    BY <1>1, Invariance, PTL

(* module_exit leaves nothing behind.                                      *)
THEOREM CleanUnload == Spec => []UnloadClean
  <1>1. IInv => UnloadClean
    <2> SUFFICES ASSUME IInv, pc["loader"] = "unloaded"
                 PROVE  /\ ~astral_nb /\ ~probe_work /\ pc["worker"] = "idle"
                        /\ ~astral_claiming /\ LockFree
                        /\ \A c \in Clients :
                              Live(c) => cl["host"] = c /\ pc["host"] = "delclient"
      BY DEF UnloadClean
    <2>1. ~astral_nb /\ ~probe_work /\ pc["worker"] = "idle" /\ astral_client = None
      BY DEF IInv, LoaderState, PassPcs, ClaimPcs, AttachPcs
    <2>2. \A t \in Probers : pc[t] \notin ClaimPcs
      BY <2>1 DEF Probers, ClaimPcs, AttachPcs
    <2>3. ~astral_claiming
      BY <2>2 DEF IInv, ClaimBalanced
    <2>4. LockFree
      BY DEF IInv, LoaderState, LockFree, TypeOK
    <2>5. \A c \in Clients : Live(c) => cl["host"] = c /\ pc["host"] = "delclient"
      BY <2>1, <2>2, ConstantsAssumption DEF IInv, NoLeakedClient, ClaimPcs
    <2> QED
      BY <2>1, <2>3, <2>4, <2>5
  <1> QED
    BY <1>1, Invariance, PTL

-----------------------------------------------------------------------------
(* Why the search is never abandoned with something left to try.           *)

(* When the published chip's adapter is deleted there is no other number   *)
(* to try: astral_bus_notify() clears astral_client then and asks for no   *)
(* run, so an adapter of a second card would be left.                      *)
LastToGo ==
    \A c \in Clients : HostDelNotify(c) /\ astral_client = c
        => \A b \in listed : Candidate(b) => b = hostBus

(* Machines where that is always so: bus= names the number, or one adapter *)
(* of one card has the sensor's name.                                      *)
OneSensor == BusParam # None \/ \A a, b \in CardAdapters \cap SensorNamed : a = b

(* No adapter has two numbers.                                             *)
OneNumber == \A a, b \in Buses : bus[a] = bus[b] /\ bus[a] # None => a = b

(* The number the host has yet to announce, or is taking away.             *)
InHostHands(b) == pc["host"] \in {"added", "deleting", "delclient"} /\ hostBus = b

(* With every thread asleep, any adapter left to try is in the host's      *)
(* hands: its announcement will arm the timer, or it goes.                 *)
Wakeful ==
    /\ pc["loader"] = "live" /\ pc["worker"] = "idle" /\ ~probe_work
    /\ pc["host"] # "rearm" /\ astral_client = None
    /\ astral_attempts < RetryLimit
    => \A b \in listed : Candidate(b) => InHostHands(b)

(* The worker's copy of the counter is behind, or someone arms the timer:  *)
(* giving up on an old count is then no harm.                              *)
TallyCurrent ==
    astral_nb /\ pc["worker"] = "requeue" =>
        \/ tally.attempts <= astral_attempts
        \/ pc["host"] = "rearm"
        \/ probe_work

WInv == OneNumber /\ Wakeful /\ TallyCurrent

LEMMA WakefulInit == Init => WInv
  BY ConstantsAssumption
     DEF Init, WInv, OneNumber, Wakeful, TallyCurrent, Probers, Threads

LEMMA WakefulStep ==
    ASSUME IInv, WInv, [Next]_vars, [LastToGo]_vars
    PROVE  WInv'
  <1> USE ConstantsAssumption
      DEF Goto, moduleVars, passVars, worldVars, Probers, Threads, WInv, OneNumber, Wakeful,
          TallyCurrent, InHostHands, Candidate, CardMatches, Selected
  <1>0. /\ TypeOK /\ LoaderState /\ AdapterState /\ ClientState
        /\ pc \in [Threads -> LoaderPcs \cup WorkerPcs \cup HostPcs]
    BY DEF IInv, TypeOK, PcsOK
  <1>1. ASSUME NEW t \in Probers, ProbeBusy(t) PROVE WInv'
    BY <1>0, <1>1 DEF ProbeBusy, LockFree, TypeOK, LoaderState, PassPcs, ClaimPcs, AttachPcs
  <1>2. ASSUME NEW t \in Probers, ProbeClaim(t) PROVE WInv'
    BY <1>0, <1>2 DEF ProbeClaim, LockFree, TypeOK, LoaderState, PassPcs, ClaimPcs, AttachPcs
  <1>3. ASSUME NEW t \in Probers, Walk(t) PROVE WInv'
    BY <1>0, <1>3 DEF Walk, TypeOK, LoaderState, PassPcs, ClaimPcs, AttachPcs
  <1>4. ASSUME NEW t \in Probers, GetAdapter(t) PROVE WInv'
    BY <1>0, <1>4 DEF GetAdapter, Gettable, TypeOK, LoaderState, PassPcs, ClaimPcs, AttachPcs
  <1>5. ASSUME NEW t \in Probers, Recheck(t) PROVE WInv'
    BY <1>0, <1>5 DEF Recheck, TypeOK, LoaderState, PassPcs, ClaimPcs, AttachPcs
  <1>6. ASSUME NEW t \in Probers, NewClient(t) PROVE WInv'
    BY <1>0, <1>6 DEF NewClient, TypeOK, LoaderState, PassPcs, ClaimPcs, AttachPcs
  <1>7. ASSUME NEW t \in Probers, Publish(t) PROVE WInv'
    BY <1>0, <1>7 DEF Publish, LockFree, TypeOK, LoaderState, PassPcs, ClaimPcs, AttachPcs
  <1>8. ASSUME NEW t \in Probers, Refresh(t) PROVE WInv'
    BY <1>0, <1>8 DEF Refresh, TypeOK, LoaderState, PassPcs, ClaimPcs, AttachPcs
  <1>9. ASSUME NEW t \in Probers, Register(t) PROVE WInv'
    BY <1>0, <1>9 DEF Register, TypeOK, LoaderState, PassPcs, ClaimPcs, AttachPcs
  <1>10. ASSUME NEW t \in Probers, Unpublish(t) PROVE WInv'
    BY <1>0, <1>10 DEF Unpublish, LockFree, TypeOK, LoaderState, PassPcs, ClaimPcs, AttachPcs
  <1>11. ASSUME NEW t \in Probers, UnregisterNotify(t) PROVE WInv'
    BY <1>0, <1>11 DEF UnregisterNotify, NotifyDel, TypeOK, LoaderState, PassPcs, ClaimPcs, AttachPcs
  <1>12. ASSUME NEW t \in Probers, UnregisterFree(t) PROVE WInv'
    BY <1>0, <1>12 DEF UnregisterFree, FreeClient, TypeOK, LoaderState, PassPcs, ClaimPcs, AttachPcs
  <1>13. ASSUME NEW t \in Probers, Settle(t) PROVE WInv'
    BY <1>0, <1>13 DEF Settle, SettleAs, LockFree, TypeOK, LoaderState, PassPcs, ClaimPcs, AttachPcs
  <1>14. ASSUME NEW t \in Probers, Put(t) PROVE WInv'
    BY <1>0, <1>14 DEF Put, TypeOK, LoaderState, PassPcs, ClaimPcs, AttachPcs
  <1>15. CASE InitCheck
    BY <1>0, <1>15 DEF InitCheck, LockFree, TypeOK, LoaderState, PassPcs, ClaimPcs, AttachPcs
  <1>16. CASE Schedule
    BY <1>0, <1>16 DEF Schedule, QueueWork, TypeOK, LoaderState, PassPcs, ClaimPcs, AttachPcs
  <1>17. CASE Load
    BY <1>0, <1>17 DEF Load, TypeOK, LoaderState, PassPcs, ClaimPcs, AttachPcs
  <1>18. CASE ExitNotifier
    BY <1>0, <1>18 DEF ExitNotifier, TypeOK, LoaderState, PassPcs, ClaimPcs, AttachPcs
  <1>19. CASE ExitCancel
    BY <1>0, <1>19 DEF ExitCancel, TypeOK, LoaderState, PassPcs, ClaimPcs, AttachPcs
  <1>20. CASE ExitFlush
    BY <1>0, <1>20 DEF ExitFlush, TypeOK, LoaderState, PassPcs, ClaimPcs, AttachPcs
  <1>21. CASE ExitLock
    BY <1>0, <1>21 DEF ExitLock, LockFree, TypeOK, LoaderState, PassPcs, ClaimPcs, AttachPcs
  <1>22. CASE ExitTeardown
    BY <1>0, <1>22 DEF ExitTeardown, NotifyDel, TypeOK, LoaderState, PassPcs, ClaimPcs, AttachPcs
  <1>23. CASE ExitRelease
    BY <1>0, <1>23 DEF ExitRelease, FreeClient, TypeOK, LoaderState, PassPcs, ClaimPcs, AttachPcs
  <1>24. CASE WorkStart
    BY <1>0, <1>24 DEF WorkStart, TypeOK, LoaderState, PassPcs, ClaimPcs, AttachPcs
  <1>25. CASE WorkCheck
    BY <1>0, <1>25 DEF WorkCheck, LockFree, WorkReturn, TypeOK, LoaderState, PassPcs, ClaimPcs, AttachPcs
  <1>26. CASE WorkTally
    BY <1>0, <1>26 DEF WorkTally, LockFree, TypeOK, LoaderState, PassPcs, ClaimPcs, AttachPcs
  <1>27. CASE WorkRequeue
    BY <1>0, <1>27 DEF WorkRequeue, QueueWork, WorkReturn, TypeOK, LoaderState, PassPcs, ClaimPcs, AttachPcs
  <1>28. CASE WorkGiveUp
    BY <1>0, <1>28 DEF WorkGiveUp, WorkReturn, TypeOK, LoaderState, PassPcs, ClaimPcs, AttachPcs
  <1>29. CASE HostNotifyAdd
    BY <1>0, <1>29 DEF HostNotifyAdd, LockFree, TypeOK, LoaderState, PassPcs, ClaimPcs, AttachPcs
  <1>30. CASE HostRearm
    BY <1>0, <1>30 DEF HostRearm, QueueWork, TypeOK, LoaderState, PassPcs, ClaimPcs, AttachPcs
  <1>31. ASSUME NEW c \in Clients, HostDelNotify(c) PROVE WInv'
    <2>1. OneNumber' /\ TallyCurrent'
      BY <1>0, <1>31 DEF HostDelNotify, NotifyDel, TypeOK, LoaderState, PassPcs, ClaimPcs, AttachPcs
    <2>2. pc["host"] = "deleting" /\ pc' = [pc EXCEPT !["host"] = "delclient"]
      BY <1>31 DEF HostDelNotify
    <2>3. CASE astral_client' = astral_client
      BY <1>0, <1>31, <2>2, <2>3 DEF HostDelNotify
    <2>4. CASE astral_client = c
      <3>0. LastToGo
        BY <1>0, <2>2 DEF vars
      <3>1. \A b \in listed : Candidate(b) => b = hostBus
        BY <1>31, <2>4, <3>0 DEF LastToGo
      <3> QED
        BY <1>0, <1>31, <2>1, <2>2, <3>1 DEF HostDelNotify
    <2> QED
      BY <1>31, <2>1, <2>3, <2>4 DEF HostDelNotify, NotifyDel
  <1>32. CASE HostFreeClient
    BY <1>0, <1>32 DEF HostFreeClient, FreeClient, TypeOK, LoaderState, PassPcs, ClaimPcs, AttachPcs
  <1>33. CASE HostDelist
    BY <1>0, <1>33 DEF HostDelist, TypeOK, LoaderState, PassPcs, ClaimPcs, AttachPcs
  <1>34. CASE HostDrain
    BY <1>0, <1>34 DEF HostDrain, TypeOK, LoaderState, PassPcs, ClaimPcs, AttachPcs
  <1>35. ASSUME NEW b \in Buses, HostDelete(b) PROVE WInv'
    BY <1>0, <1>35 DEF HostDelete, TypeOK, LoaderState, PassPcs, ClaimPcs, AttachPcs
  <1>36. ASSUME NEW b \in Buses, NEW a \in Adapters, HostAdd(b, a) PROVE WInv'
    BY <1>0, <1>36 DEF HostAdd, TypeOK, LoaderState, PassPcs, ClaimPcs, AttachPcs
  <1>37. CASE HealthChange
    BY <1>0, <1>37 DEF HealthChange, TypeOK, LoaderState, PassPcs, ClaimPcs, AttachPcs
  <1>38. CASE UNCHANGED vars
    BY <1>38 DEF vars
  <1> HIDE DEF WInv
  <1> QED
    BY <1>1, <1>2, <1>3, <1>4, <1>5, <1>6, <1>7, <1>8, <1>9, <1>10, <1>11, <1>12,
       <1>13, <1>14, <1>15, <1>16, <1>17, <1>18, <1>19, <1>20, <1>21, <1>22, <1>23,
       <1>24, <1>25, <1>26, <1>27, <1>28, <1>29, <1>30, <1>31, <1>32, <1>33, <1>34,
       <1>35, <1>36, <1>37, <1>38
       DEF Next, ProbeStep, LoaderStep, WorkerStep, HostStep

LEMMA OneSensorGoesLast ==
    ASSUME OneSensor, IInv, OneNumber
    PROVE  LastToGo
  <1> SUFFICES ASSUME NEW c \in Clients, HostDelNotify(c),
                      NEW b \in listed, Candidate(b)
               PROVE  b = hostBus
    BY DEF LastToGo
  <1>1. hostBus \in Buses /\ Candidate(hostBus)
    BY ConstantsAssumption
       DEF HostDelNotify, IInv, TypeOK, ClientState, AdapterState, Live, DeletePcs
  <1>2. b \in Buses
    BY DEF IInv, TypeOK
  <1>3. CASE BusParam # None
    BY <1>1, <1>3 DEF Candidate, Selected
  <1>4. CASE \A x, y \in CardAdapters \cap SensorNamed : x = y
    <2>1. CASE BusParam # None
      BY <1>3, <2>1
    <2>2. CASE BusParam = None
      <3>1. bus[b] = bus[hostBus] /\ bus[b] # None
        BY <1>1, <1>4, <2>2, ConstantsAssumption DEF Candidate, CardMatches, Selected
      <3> QED
        BY <1>1, <1>2, <3>1 DEF OneNumber
    <2> QED
      BY <2>1, <2>2
  <1> QED
    BY <1>3, <1>4 DEF OneSensor

(* A driver at rest has attached, spent its retries or has nothing to try, *)
(* whatever the host and the worker did between them: no wake-up is lost,  *)
(* but for a card left over when the one with the chip goes.               *)
THEOREM OnlyTheSpareCard == Spec /\ [][LastToGo]_vars => []NeverDormant
  <1>1. IInv /\ WInv => NeverDormant
    BY ConstantsAssumption DEF IInv, TypeOK, WInv, Wakeful, InHostHands, NeverDormant
  <1>2. IInv /\ WInv /\ [Next]_vars /\ [LastToGo]_vars => WInv'
    BY WakefulStep
  <1> QED
    BY <1>1, <1>2, WakefulInit, Invariance, PTL DEF Spec

LEMMA WakefulInvariance == ASSUME OneSensor PROVE Spec => []WInv
  <1>1. IInv /\ WInv /\ [Next]_vars => WInv'
    BY WakefulStep, OneSensorGoesLast DEF WInv
  <1> QED
    BY <1>1, WakefulInit, Invariance, PTL DEF Spec

(* With one number to try no wake-up is ever lost.                         *)
THEOREM WakeUpNeverLost == ASSUME OneSensor PROVE Spec => []NeverDormant
  <1>1. IInv /\ WInv => NeverDormant
    BY ConstantsAssumption DEF IInv, TypeOK, WInv, Wakeful, InHostHands, NeverDormant
  <1> QED
    BY <1>1, WakefulInvariance, Invariance, PTL

-----------------------------------------------------------------------------
(* How often a card that never answers is tried. The limit is compared in  *)
(* the worker, with a copy of the counter, while passes are counted        *)
(* wherever they run: what is under way or asked for can still follow.     *)

(* The passes that may still be counted: the loader's own and the one it   *)
(* asks for, the worker's, the one queued and the one being asked for.     *)
LoaderDue ==
    IF pc["loader"] \in {"claim"} \cup ClaimPcs THEN 2
    ELSE IF pc["loader"] \in {"put", "check", "schedule"} THEN 1 ELSE 0
WorkerDue == IF pc["worker"] \in {"claim"} \cup ClaimPcs THEN 1 ELSE 0
QueueDue == IF probe_work THEN 1 ELSE 0
HostDue == IF pc["host"] = "rearm" THEN 1 ELSE 0

(* A worker that will go on has seen less than the limit, and only the     *)
(* loader's pass can have been counted since.                              *)
RetryState ==
    /\ astral_attempts + LoaderDue + WorkerDue + QueueDue + HostDue <= RetryLimit + 3
    /\ pc["worker"] = "requeue" /\ tally.attempts < RetryLimit
          => astral_attempts + LoaderDue <= RetryLimit + 1

(* The bound TLC finds attained: three passes past ASTRAL_RETRY_LIMIT.     *)
RetriesBounded == astral_attempts <= RetryLimit + 3

LEMMA RetryInit == RetryLimit > 1 /\ Init => RetryState
  BY ConstantsAssumption
     DEF Init, RetryState, LoaderDue, WorkerDue, QueueDue, HostDue, Probers, Threads,
         ClaimPcs, AttachPcs

LEMMA RetryStep ==
    ASSUME RetryLimit > 1, IInv, RetryState, [Next]_vars
    PROVE  RetryState'
  <1> USE ConstantsAssumption
      DEF Goto, moduleVars, passVars, worldVars, Probers, Threads, RetryState, LoaderDue,
          WorkerDue, QueueDue, HostDue, PassPcs, ClaimPcs, AttachPcs
  <1>0. /\ astral_attempts \in Nat /\ tally.attempts \in Nat /\ probe_work \in BOOLEAN
        /\ LoaderState
        /\ pc \in [Threads -> LoaderPcs \cup WorkerPcs \cup HostPcs]
    BY DEF IInv, TypeOK, PcsOK
  <1>1. ASSUME NEW t \in Probers, ProbeBusy(t) PROVE RetryState'
    BY <1>0, <1>1 DEF ProbeBusy, LockFree
  <1>2. ASSUME NEW t \in Probers, ProbeClaim(t) PROVE RetryState'
    BY <1>0, <1>2 DEF ProbeClaim, LockFree
  <1>3. ASSUME NEW t \in Probers, Walk(t) PROVE RetryState'
    BY <1>0, <1>3 DEF Walk
  <1>4. ASSUME NEW t \in Probers, GetAdapter(t) PROVE RetryState'
    BY <1>0, <1>4 DEF GetAdapter, Gettable
  <1>5. ASSUME NEW t \in Probers, Recheck(t) PROVE RetryState'
    BY <1>0, <1>5 DEF Recheck
  <1>6. ASSUME NEW t \in Probers, NewClient(t) PROVE RetryState'
    BY <1>0, <1>6 DEF NewClient
  <1>7. ASSUME NEW t \in Probers, Publish(t) PROVE RetryState'
    BY <1>0, <1>7 DEF Publish, LockFree
  <1>8. ASSUME NEW t \in Probers, Refresh(t) PROVE RetryState'
    BY <1>0, <1>8 DEF Refresh
  <1>9. ASSUME NEW t \in Probers, Register(t) PROVE RetryState'
    BY <1>0, <1>9 DEF Register
  <1>10. ASSUME NEW t \in Probers, Unpublish(t) PROVE RetryState'
    BY <1>0, <1>10 DEF Unpublish, LockFree
  <1>11. ASSUME NEW t \in Probers, UnregisterNotify(t) PROVE RetryState'
    BY <1>0, <1>11 DEF UnregisterNotify, NotifyDel
  <1>12. ASSUME NEW t \in Probers, UnregisterFree(t) PROVE RetryState'
    BY <1>0, <1>12 DEF UnregisterFree, FreeClient
  <1>13. ASSUME NEW t \in Probers, Settle(t) PROVE RetryState'
    BY <1>0, <1>13 DEF Settle, SettleAs, LockFree
  <1>14. ASSUME NEW t \in Probers, Put(t) PROVE RetryState'
    BY <1>0, <1>14 DEF Put
  <1>15. CASE InitCheck
    BY <1>0, <1>15 DEF InitCheck, LockFree
  <1>16. CASE Schedule
    BY <1>0, <1>16 DEF Schedule, QueueWork
  <1>17. CASE Load
    BY <1>0, <1>17 DEF Load, LoaderState
  <1>18. CASE ExitNotifier
    BY <1>0, <1>18 DEF ExitNotifier
  <1>19. CASE ExitCancel
    BY <1>0, <1>19 DEF ExitCancel
  <1>20. CASE ExitFlush
    BY <1>0, <1>20 DEF ExitFlush
  <1>21. CASE ExitLock
    BY <1>0, <1>21 DEF ExitLock, LockFree
  <1>22. CASE ExitTeardown
    BY <1>0, <1>22 DEF ExitTeardown, NotifyDel
  <1>23. CASE ExitRelease
    BY <1>0, <1>23 DEF ExitRelease, FreeClient
  <1>24. CASE WorkStart
    BY <1>0, <1>24 DEF WorkStart
  <1>25. CASE WorkCheck
    BY <1>0, <1>25 DEF WorkCheck, LockFree, WorkReturn, NoTally
  <1>26. CASE WorkTally
    BY <1>0, <1>26 DEF WorkTally, LockFree
  <1>27. CASE WorkRequeue
    BY <1>0, <1>27 DEF WorkRequeue, QueueWork, WorkReturn, NoTally
  <1>28. CASE WorkGiveUp
    BY <1>0, <1>28 DEF WorkGiveUp, WorkReturn, NoTally
  <1>29. CASE HostNotifyAdd
    BY <1>0, <1>29 DEF HostNotifyAdd, LockFree
  <1>30. CASE HostRearm
    BY <1>0, <1>30 DEF HostRearm, QueueWork
  <1>31. ASSUME NEW c \in Clients, HostDelNotify(c) PROVE RetryState'
    BY <1>0, <1>31 DEF HostDelNotify, NotifyDel
  <1>32. CASE HostFreeClient
    BY <1>0, <1>32 DEF HostFreeClient, FreeClient
  <1>33. CASE HostDelist
    BY <1>0, <1>33 DEF HostDelist
  <1>34. CASE HostDrain
    BY <1>0, <1>34 DEF HostDrain
  <1>35. ASSUME NEW b \in Buses, HostDelete(b) PROVE RetryState'
    BY <1>0, <1>35 DEF HostDelete
  <1>36. ASSUME NEW b \in Buses, NEW a \in Adapters, HostAdd(b, a) PROVE RetryState'
    BY <1>0, <1>36 DEF HostAdd
  <1>37. CASE HealthChange
    BY <1>0, <1>37 DEF HealthChange
  <1>38. CASE UNCHANGED vars
    BY <1>38 DEF vars
  <1> HIDE DEF RetryState
  <1> QED
    BY <1>1, <1>2, <1>3, <1>4, <1>5, <1>6, <1>7, <1>8, <1>9, <1>10, <1>11, <1>12,
       <1>13, <1>14, <1>15, <1>16, <1>17, <1>18, <1>19, <1>20, <1>21, <1>22, <1>23,
       <1>24, <1>25, <1>26, <1>27, <1>28, <1>29, <1>30, <1>31, <1>32, <1>33, <1>34,
       <1>35, <1>36, <1>37, <1>38
       DEF Next, ProbeStep, LoaderStep, WorkerStep, HostStep

(* Whatever is announced, loaded and queued at the same time, the search   *)
(* counts at most three passes more than its limit before it is reset.     *)
THEOREM SearchIsBounded == ASSUME RetryLimit > 1 PROVE Spec => []RetriesBounded
  <1>1. IInv /\ RetryState => RetriesBounded
    BY ConstantsAssumption
       DEF IInv, TypeOK, RetryState, RetriesBounded, LoaderDue, WorkerDue, QueueDue, HostDue
  <1>2. IInv /\ RetryState /\ [Next]_vars => RetryState'
    BY RetryStep
  <1> QED
    BY <1>1, <1>2, RetryInit, Invariance, PTL DEF Spec

-----------------------------------------------------------------------------
(* That nothing but the race of hwmon_exit_race harms module_exit.         *)

(* No deletion reaches a client while the notifier is not there to hear of *)
(* it: astral_exit() takes it away before it takes the client.             *)
NoUnheardDeletion == (\E c \in Clients : HostDelNotify(c)) => astral_nb

HeldClientLive ==
    /\ ExitClientLive
    /\ astral_client # None => ~Gone(astral_client)

LEMMA HeldInit == Init => HeldClientLive
  BY DEF Init, HeldClientLive, ExitClientLive, Threads, Probers

LEMMA HeldStep ==
    ASSUME IInv, HeldClientLive, [Next]_vars, [NoUnheardDeletion]_vars
    PROVE  HeldClientLive'
  <1> USE ConstantsAssumption
      DEF Goto, moduleVars, passVars, worldVars, Probers, Threads, HeldClientLive,
          ExitClientLive, Gone
  <1>0. /\ pc \in [Threads -> LoaderPcs \cup WorkerPcs \cup HostPcs]
        /\ cl \in [Threads -> Clients \cup {None}]
        /\ clientBus \in [Clients -> Buses \cup {None}]
        /\ astral_client \in Clients \cup {None}
    BY DEF IInv, TypeOK, PcsOK
  <1>1. ASSUME NEW t \in Probers, ProbeBusy(t) PROVE HeldClientLive'
    BY <1>0, <1>1 DEF ProbeBusy
  <1>2. ASSUME NEW t \in Probers, ProbeClaim(t) PROVE HeldClientLive'
    BY <1>0, <1>2 DEF ProbeClaim
  <1>3. ASSUME NEW t \in Probers, Walk(t) PROVE HeldClientLive'
    BY <1>0, <1>3 DEF Walk
  <1>4. ASSUME NEW t \in Probers, GetAdapter(t) PROVE HeldClientLive'
    BY <1>0, <1>4 DEF GetAdapter
  <1>5. ASSUME NEW t \in Probers, Recheck(t) PROVE HeldClientLive'
    BY <1>0, <1>5 DEF Recheck
  <1>6. ASSUME NEW t \in Probers, NewClient(t) PROVE HeldClientLive'
    BY <1>0, <1>6 DEF NewClient
  <1>7. ASSUME NEW t \in Probers, Publish(t) PROVE HeldClientLive'
    <2>1. clientBus[cl[t]] = adap[t] /\ adap[t] # None /\ cl[t] \in Clients
      BY <1>0, <1>7 DEF Publish, IInv, AttachState, ReferenceState, AttachPcs
    <2>2. ~(pc["host"] = "delclient" /\ cl["host"] = cl[t])
      BY <2>1 DEF IInv, ReferenceState, ClientState, DeletePcs
    <2> QED
      BY <1>0, <1>7, <2>1, <2>2 DEF Publish
  <1>8. ASSUME NEW t \in Probers, Refresh(t) PROVE HeldClientLive'
    BY <1>0, <1>8 DEF Refresh
  <1>9. ASSUME NEW t \in Probers, Register(t) PROVE HeldClientLive'
    BY <1>0, <1>9 DEF Register
  <1>10. ASSUME NEW t \in Probers, Unpublish(t) PROVE HeldClientLive'
    BY <1>0, <1>10 DEF Unpublish
  <1>11. ASSUME NEW t \in Probers, UnregisterNotify(t) PROVE HeldClientLive'
    BY <1>0, <1>11 DEF UnregisterNotify, NotifyDel
  <1>12. ASSUME NEW t \in Probers, UnregisterFree(t) PROVE HeldClientLive'
    BY <1>0, <1>12 DEF UnregisterFree, IInv, AttachState
  <1>13. ASSUME NEW t \in Probers, Settle(t) PROVE HeldClientLive'
    BY <1>0, <1>13 DEF Settle, SettleAs
  <1>14. ASSUME NEW t \in Probers, Put(t) PROVE HeldClientLive'
    BY <1>0, <1>14 DEF Put
  <1>15. CASE InitCheck
    BY <1>0, <1>15 DEF InitCheck
  <1>16. CASE Schedule
    BY <1>0, <1>16 DEF Schedule
  <1>17. CASE Load
    BY <1>0, <1>17 DEF Load
  <1>18. CASE ExitNotifier
    BY <1>0, <1>18 DEF ExitNotifier
  <1>19. CASE ExitCancel
    BY <1>0, <1>19 DEF ExitCancel
  <1>20. CASE ExitFlush
    BY <1>0, <1>20 DEF ExitFlush
  <1>21. CASE ExitLock
    BY <1>0, <1>21 DEF ExitLock
  <1>22. CASE ExitTeardown
    BY <1>0, <1>22 DEF ExitTeardown, NotifyDel
  <1>23. CASE ExitRelease
    BY <1>0, <1>23 DEF ExitRelease, IInv, LoaderState
  <1>24. CASE WorkStart
    BY <1>0, <1>24 DEF WorkStart
  <1>25. CASE WorkCheck
    BY <1>0, <1>25 DEF WorkCheck, WorkReturn
  <1>26. CASE WorkTally
    BY <1>0, <1>26 DEF WorkTally
  <1>27. CASE WorkRequeue
    BY <1>0, <1>27 DEF WorkRequeue, WorkReturn
  <1>28. CASE WorkGiveUp
    BY <1>0, <1>28 DEF WorkGiveUp, WorkReturn
  <1>29. CASE HostNotifyAdd
    BY <1>0, <1>29 DEF HostNotifyAdd
  <1>30. CASE HostRearm
    BY <1>0, <1>30 DEF HostRearm
  <1>31. ASSUME NEW c \in Clients, HostDelNotify(c) PROVE HeldClientLive'
    <2>1. pc["host"] = "deleting" /\ pc'["host"] = "delclient"
      BY <1>0, <1>31 DEF HostDelNotify
    <2>2. astral_nb
      BY <1>31, <2>1 DEF NoUnheardDeletion, vars
    <2>3. astral_client' = IF astral_client = c THEN None ELSE astral_client
      BY <1>31, <2>2 DEF HostDelNotify, NotifyDel
    <2> QED
      BY <1>0, <1>31, <2>1, <2>3 DEF HostDelNotify
  <1>32. CASE HostFreeClient
    BY <1>0, <1>32 DEF HostFreeClient, FreeClient
  <1>33. CASE HostDelist
    BY <1>0, <1>33 DEF HostDelist
  <1>34. CASE HostDrain
    BY <1>0, <1>34 DEF HostDrain
  <1>35. ASSUME NEW b \in Buses, HostDelete(b) PROVE HeldClientLive'
    BY <1>0, <1>35 DEF HostDelete
  <1>36. ASSUME NEW b \in Buses, NEW a \in Adapters, HostAdd(b, a) PROVE HeldClientLive'
    BY <1>0, <1>36 DEF HostAdd
  <1>37. CASE HealthChange
    BY <1>0, <1>37 DEF HealthChange
  <1>38. CASE UNCHANGED vars
    BY <1>38 DEF vars
  <1> HIDE DEF HeldClientLive
  <1> QED
    BY <1>1, <1>2, <1>3, <1>4, <1>5, <1>6, <1>7, <1>8, <1>9, <1>10, <1>11, <1>12,
       <1>13, <1>14, <1>15, <1>16, <1>17, <1>18, <1>19, <1>20, <1>21, <1>22, <1>23,
       <1>24, <1>25, <1>26, <1>27, <1>28, <1>29, <1>30, <1>31, <1>32, <1>33, <1>34,
       <1>35, <1>36, <1>37, <1>38
       DEF Next, ProbeStep, LoaderStep, WorkerStep, HostStep

(* If every deletion of a client is heard by the notifier, module_exit     *)
(* never meets one that is gone: the window between bus_unregister_notifier *)
(* and the lock is the only way to hwmon_exit_race's end.                  *)
THEOREM OnlyTheExitRace ==
    Spec /\ [][NoUnheardDeletion]_vars => []ExitClientLive
  <1>1. HeldClientLive => ExitClientLive
    BY DEF HeldClientLive
  <1>2. IInv /\ HeldClientLive /\ [Next]_vars /\ [NoUnheardDeletion]_vars
           => HeldClientLive'
    BY HeldStep
  <1> QED
    BY <1>1, <1>2, HeldInit, Invariance, PTL DEF Spec

-----------------------------------------------------------------------------
(* That nothing but an announcement no one acts on lets the worker give up *)
(* on an adapter it has not seen.                                          *)

(* No adapter of the card is announced while a client is published: then   *)
(* astral_bus_notify() would neither reset the counter nor ask for a run.  *)
AddsHeard ==
    HostNotifyAdd /\ astral_nb /\ CardMatches(hostBus) => astral_client = None

(* Since the announcement only the pass that had walked before can have    *)
(* been counted; a worker that counted earlier has another run ahead.      *)
SearchFresh ==
    unseen =>
        /\ astral_attempts <= 1
        /\ (\E t \in Probers : pc[t] \in ClaimPcs \ {"walk"}) => astral_attempts = 0
        /\ astral_nb /\ pc["worker"] = "requeue" /\ tally.attempts > 1
              => probe_work \/ pc["host"] = "rearm"

LEMMA FreshInit == Init => SearchFresh
  BY DEF Init, SearchFresh

LEMMA FreshStep ==
    ASSUME IInv, SearchFresh, [Next]_vars, [AddsHeard]_vars
    PROVE  SearchFresh'
  <1> USE ConstantsAssumption
      DEF Goto, moduleVars, passVars, worldVars, Probers, Threads, SearchFresh,
          PassPcs, ClaimPcs, AttachPcs
  <1>0. /\ astral_attempts \in Nat /\ tally.attempts \in Nat /\ probe_work \in BOOLEAN
        /\ LoaderState /\ ClaimBalanced
        /\ pc \in [Threads -> LoaderPcs \cup WorkerPcs \cup HostPcs]
    BY DEF IInv, TypeOK, PcsOK
  <1>1. ASSUME NEW t \in Probers, ProbeBusy(t) PROVE SearchFresh'
    BY <1>0, <1>1 DEF ProbeBusy, LockFree
  <1>2. ASSUME NEW t \in Probers, ProbeClaim(t) PROVE SearchFresh'
    BY <1>0, <1>2 DEF ProbeClaim, LockFree
  <1>3. ASSUME NEW t \in Probers, Walk(t) PROVE SearchFresh'
    BY <1>0, <1>3 DEF Walk
  <1>4. ASSUME NEW t \in Probers, GetAdapter(t) PROVE SearchFresh'
    BY <1>0, <1>4 DEF GetAdapter
  <1>5. ASSUME NEW t \in Probers, Recheck(t) PROVE SearchFresh'
    BY <1>0, <1>5 DEF Recheck
  <1>6. ASSUME NEW t \in Probers, NewClient(t) PROVE SearchFresh'
    BY <1>0, <1>6 DEF NewClient
  <1>7. ASSUME NEW t \in Probers, Publish(t) PROVE SearchFresh'
    BY <1>0, <1>7 DEF Publish
  <1>8. ASSUME NEW t \in Probers, Refresh(t) PROVE SearchFresh'
    BY <1>0, <1>8 DEF Refresh
  <1>9. ASSUME NEW t \in Probers, Register(t) PROVE SearchFresh'
    BY <1>0, <1>9 DEF Register
  <1>10. ASSUME NEW t \in Probers, Unpublish(t) PROVE SearchFresh'
    BY <1>0, <1>10 DEF Unpublish
  <1>11. ASSUME NEW t \in Probers, UnregisterNotify(t) PROVE SearchFresh'
    BY <1>0, <1>11 DEF UnregisterNotify, NotifyDel
  <1>12. ASSUME NEW t \in Probers, UnregisterFree(t) PROVE SearchFresh'
    BY <1>0, <1>12 DEF UnregisterFree
  <1>13. ASSUME NEW t \in Probers, Settle(t) PROVE SearchFresh'
    BY <1>0, <1>13 DEF Settle, SettleAs, ClaimBalanced
  <1>14. ASSUME NEW t \in Probers, Put(t) PROVE SearchFresh'
    BY <1>0, <1>14 DEF Put
  <1>15. CASE InitCheck
    BY <1>0, <1>15 DEF InitCheck
  <1>16. CASE Schedule
    BY <1>0, <1>16 DEF Schedule, QueueWork
  <1>17. CASE Load
    BY <1>0, <1>17 DEF Load, LoaderState
  <1>18. CASE ExitNotifier
    BY <1>0, <1>18 DEF ExitNotifier
  <1>19. CASE ExitCancel
    BY <1>0, <1>19 DEF ExitCancel, LoaderState
  <1>20. CASE ExitFlush
    BY <1>0, <1>20 DEF ExitFlush
  <1>21. CASE ExitLock
    BY <1>0, <1>21 DEF ExitLock
  <1>22. CASE ExitTeardown
    BY <1>0, <1>22 DEF ExitTeardown, NotifyDel
  <1>23. CASE ExitRelease
    BY <1>0, <1>23 DEF ExitRelease
  <1>24. CASE WorkStart
    BY <1>0, <1>24 DEF WorkStart
  <1>25. CASE WorkCheck
    BY <1>0, <1>25 DEF WorkCheck, WorkReturn, NoTally
  <1>26. CASE WorkTally
    BY <1>0, <1>26 DEF WorkTally
  <1>27. CASE WorkRequeue
    BY <1>0, <1>27 DEF WorkRequeue, QueueWork, WorkReturn, NoTally
  <1>28. CASE WorkGiveUp
    BY <1>0, <1>28 DEF WorkGiveUp, WorkReturn, NoTally
  <1>29. CASE HostNotifyAdd
    <2>1. CASE ~astral_nb \/ ~CardMatches(hostBus)
      BY <1>0, <1>29, <2>1 DEF HostNotifyAdd
    <2>2. CASE astral_nb /\ CardMatches(hostBus)
      <3>1. pc["host"] = "added" /\ pc'["host"] \in {"rearm", "idle"}
        BY <1>0, <1>29 DEF HostNotifyAdd
      <3>2. astral_client = None
        BY <1>29, <2>2, <3>1 DEF AddsHeard, vars
      <3> QED
        BY <1>0, <1>29, <2>2, <3>2 DEF HostNotifyAdd
    <2> QED
      BY <2>1, <2>2
  <1>30. CASE HostRearm
    BY <1>0, <1>30 DEF HostRearm, QueueWork, LoaderState
  <1>31. ASSUME NEW c \in Clients, HostDelNotify(c) PROVE SearchFresh'
    BY <1>0, <1>31 DEF HostDelNotify, NotifyDel
  <1>32. CASE HostFreeClient
    BY <1>0, <1>32 DEF HostFreeClient, FreeClient
  <1>33. CASE HostDelist
    BY <1>0, <1>33 DEF HostDelist
  <1>34. CASE HostDrain
    BY <1>0, <1>34 DEF HostDrain
  <1>35. ASSUME NEW b \in Buses, HostDelete(b) PROVE SearchFresh'
    BY <1>0, <1>35 DEF HostDelete
  <1>36. ASSUME NEW b \in Buses, NEW a \in Adapters, HostAdd(b, a) PROVE SearchFresh'
    BY <1>0, <1>36 DEF HostAdd
  <1>37. CASE HealthChange
    BY <1>0, <1>37 DEF HealthChange
  <1>38. CASE UNCHANGED vars
    BY <1>38 DEF vars
  <1> HIDE DEF SearchFresh
  <1> QED
    BY <1>1, <1>2, <1>3, <1>4, <1>5, <1>6, <1>7, <1>8, <1>9, <1>10, <1>11, <1>12,
       <1>13, <1>14, <1>15, <1>16, <1>17, <1>18, <1>19, <1>20, <1>21, <1>22, <1>23,
       <1>24, <1>25, <1>26, <1>27, <1>28, <1>29, <1>30, <1>31, <1>32, <1>33, <1>34,
       <1>35, <1>36, <1>37, <1>38
       DEF Next, ProbeStep, LoaderStep, WorkerStep, HostStep

(* The converse of hwmon_lost_rearm: if every announcement finds no client *)
(* published, the search is never given up with an adapter it has not      *)
(* looked at.                                                              *)
THEOREM OnlyTheUnheardAdd ==
    ASSUME RetryLimit > 1
    PROVE  Spec /\ [][AddsHeard]_vars => GiveUpAfterLastAdd
  <1>1. IInv /\ SearchFresh /\ [Next]_vars
           => [WorkGiveUp /\ pc["loader"] = "live"
                 => ~unseen \/ probe_work \/ pc["host"] = "rearm"]_vars
    BY ConstantsAssumption
       DEF IInv, TypeOK, LoaderState, SearchFresh, WorkGiveUp
  <1>2. IInv /\ SearchFresh /\ [Next]_vars /\ [AddsHeard]_vars => SearchFresh'
    BY FreshStep
  <1> QED
    BY <1>1, <1>2, FreshInit, Invariance, PTL DEF Spec, GiveUpAfterLastAdd
=============================================================================
