------------------------ MODULE AstralSurfaceProofs ------------------------
(***************************************************************************)
(* AstralHwmon implements AstralSurface: under the inductive invariant     *)
(* every step of a thread is a step of the surface or invisible to it.     *)
(***************************************************************************)
EXTENDS AstralHwmonProofs, AstralMachine

(* What leaves the surface as it is: the loader stays on its side of the   *)
(* boundaries, the adapters do not move, and no client with a hwmon device *)
(* does.                                                                   *)
Invisible ==
    /\ SurfaceModule' = SurfaceModule
    /\ bus' = bus
    /\ SurfaceDeparting' = SurfaceDeparting
    /\ hwmon' = hwmon
    /\ \A c \in hwmon : clientBus'[c] = clientBus[c]

LEMMA InvisibleStutters == Invisible => UNCHANGED Surface!surfaceVars
  BY DEF Invisible, Surface!surfaceVars, SurfaceChips

(* What the invariant says of the chips shown: each is the published one   *)
(* or the one the host is tearing down, and each bus shows one.            *)
LEMMA ChipsShown ==
    ASSUME IInv
    PROVE  /\ hwmon \subseteq Clients
           /\ \A c \in hwmon : Live(c) /\ clientBus[c] \in listed
           /\ \A c, d \in hwmon : clientBus[c] = clientBus[d] => c = d
           /\ \A c \in hwmon : c # astral_client
                 => /\ pc["host"] = "delclient"
                    /\ cl["host"] = c
                    /\ clientBus[c] = SurfaceDeparting
  BY ConstantsAssumption
  DEF IInv, TypeOK, AdapterState, ClientState, SensorsOwned, Live, SurfaceDeparting, DeletePcs

LEMMA SurfaceInitial == Init => Surface!SurfaceInit
  BY DEF Init, Surface!SurfaceInit, SurfaceModule, SurfaceDeparting, SurfaceChips,
         Threads, Probers, DeletePcs

LEMMA SurfaceStep ==
    ASSUME IInv, [Next]_vars
    PROVE  [Surface!SurfaceNext]_(Surface!surfaceVars)
  <1> USE DEF Goto, moduleVars, passVars, worldVars
  <1> DEFINE Pc == pc \in [Threads -> LoaderPcs \cup WorkerPcs \cup HostPcs]
  <1>0. Pc
    BY DEF IInv, TypeOK, PcsOK
  <1>1. ASSUME NEW t \in Probers, ProbeBusy(t) PROVE Invisible
    BY <1>0, <1>1 DEF Invisible, SurfaceModule, SurfaceDeparting, ProbeBusy,
       Probers, Threads, DeletePcs, PassPcs, ClaimPcs, AttachPcs
  <1>2. ASSUME NEW t \in Probers, ProbeClaim(t) PROVE Invisible
    BY <1>0, <1>2 DEF Invisible, SurfaceModule, SurfaceDeparting, ProbeClaim,
       Probers, Threads, DeletePcs, PassPcs, ClaimPcs, AttachPcs
  <1>3. ASSUME NEW t \in Probers, Walk(t) PROVE Invisible
    BY <1>0, <1>3 DEF Invisible, SurfaceModule, SurfaceDeparting, Walk,
       Probers, Threads, DeletePcs, PassPcs, ClaimPcs, AttachPcs
  <1>4. ASSUME NEW t \in Probers, GetAdapter(t) PROVE Invisible
    BY <1>0, <1>4 DEF Invisible, SurfaceModule, SurfaceDeparting, GetAdapter,
       Probers, Threads, DeletePcs, PassPcs, ClaimPcs, AttachPcs
  <1>5. ASSUME NEW t \in Probers, Recheck(t) PROVE Invisible
    BY <1>0, <1>5 DEF Invisible, SurfaceModule, SurfaceDeparting, Recheck,
       Probers, Threads, DeletePcs, PassPcs, ClaimPcs, AttachPcs
  <1>6. ASSUME NEW t \in Probers, NewClient(t)
       PROVE  Invisible
    <2>1. \A c \in hwmon : clientBus'[c] = clientBus[c]
      BY <1>6, ChipsShown DEF NewClient, Live, IInv, TypeOK
    <2> QED
      BY <1>0, <1>6, <2>1 DEF Invisible, SurfaceModule, SurfaceDeparting, NewClient, Probers, Threads, DeletePcs, PassPcs, ClaimPcs, AttachPcs
  <1>7. ASSUME NEW t \in Probers, Publish(t) PROVE Invisible
    BY <1>0, <1>7 DEF Invisible, SurfaceModule, SurfaceDeparting, Publish,
       Probers, Threads, DeletePcs, PassPcs, ClaimPcs, AttachPcs
  <1>8. ASSUME NEW t \in Probers, Refresh(t) PROVE Invisible
    BY <1>0, <1>8 DEF Invisible, SurfaceModule, SurfaceDeparting, Refresh,
       Probers, Threads, DeletePcs, PassPcs, ClaimPcs, AttachPcs
  <1>9. ASSUME NEW t \in Probers, Register(t)
       PROVE  [Surface!SurfaceNext]_(Surface!surfaceVars)
    <2>1. CASE hwmon' = hwmon
      BY <1>0, <1>9, <2>1, InvisibleStutters
      DEF Invisible, SurfaceModule, SurfaceDeparting, Register, Probers, Threads, DeletePcs, PassPcs, ClaimPcs, AttachPcs
    <2>2. CASE hwmon' = hwmon \cup {cl[t]}
      <3>1. /\ pc[t] = "register"
            /\ UNCHANGED <<bus, clientBus, hostBus>>
            /\ SurfaceModule' = SurfaceModule
            /\ SurfaceDeparting' = SurfaceDeparting
        BY <1>0, <1>9, <2>2 DEF SurfaceModule, SurfaceDeparting, Register, Probers, Threads, DeletePcs, PassPcs, ClaimPcs, AttachPcs
      <3>2. /\ cl[t] \in Clients /\ clientBus[cl[t]] = adap[t]
            /\ adap[t] \in Buses /\ adap[t] # None /\ Candidate(adap[t])
            /\ adap[t] # SurfaceDeparting
            /\ astral_client = cl[t] /\ cl[t] \notin hwmon
        BY <3>1 DEF IInv, TypeOK, AttachState, ReferenceState, SurfaceDeparting, Probers, Threads, DeletePcs, PassPcs, ClaimPcs, AttachPcs
      <3>3. SurfaceModule = "in"
        BY <3>1 DEF IInv, LoaderState, SurfaceModule, Probers
      <3>4. SurfaceChips \subseteq {SurfaceDeparting}
        BY <3>2, ChipsShown DEF SurfaceChips
      <3>5. SurfaceChips' = SurfaceChips \cup {adap[t]}
        BY <2>2, <3>1, <3>2 DEF SurfaceChips
      <3>6. Surface!Show(adap[t])
        BY <3>1, <3>2, <3>3, <3>4, <3>5
        DEF Surface!Show, Surface!Eligible, Candidate, CardMatches, Selected
      <3> QED
        BY <3>2, <3>6 DEF Surface!SurfaceNext
    <2> QED
      BY <1>9, <2>1, <2>2 DEF Register
  <1>10. ASSUME NEW t \in Probers, Unpublish(t) PROVE Invisible
    BY <1>0, <1>10 DEF Invisible, SurfaceModule, SurfaceDeparting, Unpublish,
       Probers, Threads, DeletePcs, PassPcs, ClaimPcs, AttachPcs
  <1>11. ASSUME NEW t \in Probers, UnregisterNotify(t) PROVE Invisible
    BY <1>0, <1>11 DEF Invisible, SurfaceModule, SurfaceDeparting, UnregisterNotify,
       Probers, Threads, DeletePcs, PassPcs, ClaimPcs, AttachPcs
  <1>12. ASSUME NEW t \in Probers, UnregisterFree(t)
       PROVE  Invisible
    <2>1. cl[t] \notin hwmon
      BY <1>12 DEF UnregisterFree, IInv, AttachState, AttachPcs
    <2>2. hwmon' = hwmon /\ \A c \in hwmon : clientBus'[c] = clientBus[c]
      BY <1>12, <2>1, ChipsShown DEF UnregisterFree, FreeClient, IInv, TypeOK
    <2> QED
      BY <1>0, <1>12, <2>2 DEF Invisible, SurfaceModule, SurfaceDeparting, UnregisterFree, Probers, Threads, DeletePcs, PassPcs, ClaimPcs, AttachPcs
  <1>13. ASSUME NEW t \in Probers, Settle(t) PROVE Invisible
    BY <1>0, <1>13 DEF Invisible, SurfaceModule, SurfaceDeparting, Settle, SettleAs,
       Probers, Threads, DeletePcs, PassPcs, ClaimPcs, AttachPcs
  <1>14. ASSUME NEW t \in Probers, Put(t) PROVE Invisible
    BY <1>0, <1>14 DEF Invisible, SurfaceModule, SurfaceDeparting, Put,
       Probers, Threads, DeletePcs, PassPcs, ClaimPcs, AttachPcs
  <1>15. ASSUME InitCheck PROVE Invisible
    BY <1>0, <1>15 DEF Invisible, SurfaceModule, SurfaceDeparting, InitCheck,
       Probers, Threads, DeletePcs, PassPcs, ClaimPcs, AttachPcs
  <1>16. ASSUME Schedule PROVE Invisible
    BY <1>0, <1>16 DEF Invisible, SurfaceModule, SurfaceDeparting, Schedule,
       Probers, Threads, DeletePcs, PassPcs, ClaimPcs, AttachPcs
  <1>17. ASSUME Load
       PROVE  [Surface!SurfaceNext]_(Surface!surfaceVars)
    <2>1. Surface!Insert
      BY <1>0, <1>17 DEF Load, Surface!Insert, SurfaceModule, SurfaceDeparting, SurfaceChips, Probers, Threads, DeletePcs, PassPcs, ClaimPcs, AttachPcs
    <2> QED
      BY <2>1 DEF Surface!SurfaceNext
  <1>18. ASSUME ExitNotifier PROVE Invisible
    BY <1>0, <1>18 DEF Invisible, SurfaceModule, SurfaceDeparting, ExitNotifier,
       Probers, Threads, DeletePcs, PassPcs, ClaimPcs, AttachPcs
  <1>19. ASSUME ExitCancel PROVE Invisible
    BY <1>0, <1>19 DEF Invisible, SurfaceModule, SurfaceDeparting, ExitCancel,
       Probers, Threads, DeletePcs, PassPcs, ClaimPcs, AttachPcs
  <1>20. ASSUME ExitFlush
       PROVE  [Surface!SurfaceNext]_(Surface!surfaceVars)
    <2>1. Surface!Leave
      BY <1>0, <1>20 DEF ExitFlush, Surface!Leave, SurfaceModule, SurfaceDeparting, SurfaceChips, Probers, Threads, DeletePcs, PassPcs, ClaimPcs, AttachPcs
    <2> QED
      BY <2>1 DEF Surface!SurfaceNext
  <1>21. ASSUME ExitLock PROVE Invisible
    BY <1>0, <1>21 DEF Invisible, SurfaceModule, SurfaceDeparting, ExitLock,
       Probers, Threads, DeletePcs, PassPcs, ClaimPcs, AttachPcs
  <1>22. ASSUME ExitTeardown
       PROVE  [Surface!SurfaceNext]_(Surface!surfaceVars)
    <2>1. CASE astral_client = None /\ pc' = [pc EXCEPT !["loader"] = "unloaded"]
      <3>1. SurfaceChips \subseteq {SurfaceDeparting}
        BY <2>1, ChipsShown, ConstantsAssumption DEF SurfaceChips
      <3>2. /\ SurfaceModule = "leaving" /\ SurfaceModule' = "out"
            /\ UNCHANGED <<bus, SurfaceDeparting, SurfaceChips>>
        BY <1>0, <1>22, <2>1
        DEF ExitTeardown, SurfaceModule, SurfaceDeparting, SurfaceChips, Probers, Threads, DeletePcs, PassPcs, ClaimPcs, AttachPcs
      <3>3. Surface!Remove
        BY <3>1, <3>2 DEF Surface!Remove
      <3> QED
        BY <3>3 DEF Surface!SurfaceNext
    <2>2. CASE pc'["loader"] \in {"oops", "release"} /\ pc'["host"] = pc["host"]
      BY <1>22, <2>2, InvisibleStutters
      DEF ExitTeardown, Invisible, SurfaceModule, SurfaceDeparting
    <2> QED
      BY <1>0, <1>22, <2>1, <2>2 DEF ExitTeardown, Threads, Probers
  <1>23. ASSUME ExitRelease
       PROVE  [Surface!SurfaceNext]_(Surface!surfaceVars)
    <2>1. CASE pc'["loader"] = "oops" /\ pc'["host"] = pc["host"] /\ UNCHANGED <<clientBus, hwmon>>
      BY <1>23, <2>1, InvisibleStutters
      DEF ExitRelease, Invisible, SurfaceModule, SurfaceDeparting
    <2>2. CASE FreeClient(astral_client) /\ pc' = [pc EXCEPT !["loader"] = "unloaded"]
      <3>1. /\ SurfaceModule = "leaving" /\ SurfaceModule' = "out"
            /\ UNCHANGED <<bus, SurfaceDeparting>>
        BY <1>0, <1>23, <2>2 DEF ExitRelease, SurfaceModule, SurfaceDeparting, Probers, Threads, DeletePcs, PassPcs, ClaimPcs, AttachPcs
      <3>2. hwmon' = hwmon \ {astral_client} /\ \A c \in hwmon' : clientBus'[c] = clientBus[c]
        BY <2>2, ChipsShown DEF FreeClient, IInv, TypeOK
      <3>3. SurfaceChips' \in SUBSET SurfaceChips /\ SurfaceChips' \subseteq {SurfaceDeparting}
        BY <3>2, ChipsShown DEF SurfaceChips
      <3>4. Surface!Remove
        BY <3>1, <3>3 DEF Surface!Remove
      <3> QED
        BY <3>4 DEF Surface!SurfaceNext
    <2> QED
      BY <1>0, <1>23, <2>1, <2>2 DEF ExitRelease, Threads, Probers
  <1>24. ASSUME WorkStart PROVE Invisible
    BY <1>0, <1>24 DEF Invisible, SurfaceModule, SurfaceDeparting, WorkStart,
       Probers, Threads, DeletePcs, PassPcs, ClaimPcs, AttachPcs
  <1>25. ASSUME WorkCheck PROVE Invisible
    BY <1>0, <1>25 DEF Invisible, SurfaceModule, SurfaceDeparting, WorkCheck, WorkReturn,
       Probers, Threads, DeletePcs, PassPcs, ClaimPcs, AttachPcs
  <1>26. ASSUME WorkTally PROVE Invisible
    BY <1>0, <1>26 DEF Invisible, SurfaceModule, SurfaceDeparting, WorkTally,
       Probers, Threads, DeletePcs, PassPcs, ClaimPcs, AttachPcs
  <1>27. ASSUME WorkRequeue PROVE Invisible
    BY <1>0, <1>27 DEF Invisible, SurfaceModule, SurfaceDeparting, WorkRequeue, WorkReturn,
       Probers, Threads, DeletePcs, PassPcs, ClaimPcs, AttachPcs
  <1>28. ASSUME WorkGiveUp PROVE Invisible
    BY <1>0, <1>28 DEF Invisible, SurfaceModule, SurfaceDeparting, WorkGiveUp, WorkReturn,
       Probers, Threads, DeletePcs, PassPcs, ClaimPcs, AttachPcs
  <1>29. ASSUME HostNotifyAdd PROVE Invisible
    BY <1>0, <1>29 DEF Invisible, SurfaceModule, SurfaceDeparting, HostNotifyAdd,
       Probers, Threads, DeletePcs, PassPcs, ClaimPcs, AttachPcs
  <1>30. ASSUME HostRearm PROVE Invisible
    BY <1>0, <1>30 DEF Invisible, SurfaceModule, SurfaceDeparting, HostRearm,
       Probers, Threads, DeletePcs, PassPcs, ClaimPcs, AttachPcs
  <1>31. ASSUME NEW c \in Clients, HostDelNotify(c) PROVE Invisible
    BY <1>0, <1>31 DEF Invisible, SurfaceModule, SurfaceDeparting, HostDelNotify,
       Probers, Threads, DeletePcs, PassPcs, ClaimPcs, AttachPcs
  <1>32. ASSUME HostFreeClient
       PROVE  [Surface!SurfaceNext]_(Surface!surfaceVars)
    <2>1. /\ cl["host"] \in Clients /\ pc["host"] = "delclient"
          /\ clientBus[cl["host"]] = SurfaceDeparting
          /\ SurfaceModule' = SurfaceModule
          /\ UNCHANGED <<bus, SurfaceDeparting>>
      BY <1>0, <1>32
      DEF HostFreeClient, IInv, TypeOK, ClientState, SurfaceModule, SurfaceDeparting, Probers, Threads, DeletePcs, PassPcs, ClaimPcs, AttachPcs
    <2>2. /\ hwmon' = hwmon \ {cl["host"]}
          /\ \A c \in hwmon' : clientBus'[c] = clientBus[c]
      BY <1>32, ChipsShown DEF HostFreeClient, FreeClient, IInv, TypeOK
    <2>3. CASE cl["host"] \notin hwmon
      BY <2>1, <2>2, <2>3, InvisibleStutters DEF Invisible
    <2>4. CASE cl["host"] \in hwmon
      <3>1. SurfaceDeparting \in SurfaceChips
        BY <2>1, <2>4 DEF SurfaceChips
      <3>2. SurfaceChips' = SurfaceChips \ {SurfaceDeparting}
        BY <2>1, <2>2, <2>4, ChipsShown DEF SurfaceChips
      <3>3. Surface!Hide
        BY <2>1, <3>1, <3>2 DEF Surface!Hide
      <3> QED
        BY <3>3 DEF Surface!SurfaceNext
    <2> QED
      BY <2>3, <2>4
  <1>33. ASSUME HostDelist PROVE Invisible
    BY <1>0, <1>33 DEF Invisible, SurfaceModule, SurfaceDeparting, HostDelist,
       Probers, Threads, DeletePcs, PassPcs, ClaimPcs, AttachPcs
  <1>34. ASSUME HostDrain
       PROVE  [Surface!SurfaceNext]_(Surface!surfaceVars)
    <2>1. /\ SurfaceModule' = SurfaceModule
          /\ SurfaceDeparting = hostBus /\ hostBus # None /\ SurfaceDeparting' = None
          /\ bus' = [bus EXCEPT ![hostBus] = None]
          /\ SurfaceChips' = SurfaceChips
      BY <1>0, <1>34
      DEF HostDrain, IInv, AdapterState, SurfaceModule, SurfaceDeparting, SurfaceChips, Probers, Threads, DeletePcs, PassPcs, ClaimPcs, AttachPcs
    <2>2. hostBus \notin SurfaceChips
      BY <1>34, ChipsShown DEF HostDrain, SurfaceChips, IInv, AdapterState
    <2>3. Surface!Unplug
      BY <2>1, <2>2 DEF Surface!Unplug
    <2> QED
      BY <2>3 DEF Surface!SurfaceNext
  <1>35. ASSUME NEW b \in Buses, HostDelete(b)
       PROVE  [Surface!SurfaceNext]_(Surface!surfaceVars)
    <2>1. Surface!Depart(b)
      BY <1>0, <1>35
      DEF HostDelete, IInv, AdapterState, Surface!Depart, SurfaceModule, SurfaceDeparting,
          SurfaceChips, Probers, Threads, DeletePcs, PassPcs, ClaimPcs, AttachPcs
    <2> QED
      BY <2>1 DEF Surface!SurfaceNext
  <1>36. ASSUME NEW b \in Buses, NEW a \in Adapters, HostAdd(b, a)
       PROVE  [Surface!SurfaceNext]_(Surface!surfaceVars)
    <2>1. Surface!Plug(b, a)
      BY <1>0, <1>36
      DEF HostAdd, Surface!Plug, SurfaceModule, SurfaceDeparting, SurfaceChips, Probers, Threads, DeletePcs, PassPcs, ClaimPcs, AttachPcs
    <2> QED
      BY <2>1 DEF Surface!SurfaceNext
  <1>37. ASSUME HealthChange PROVE Invisible
    BY <1>0, <1>37 DEF Invisible, SurfaceModule, SurfaceDeparting, HealthChange,
       Probers, Threads, DeletePcs, PassPcs, ClaimPcs, AttachPcs
  <1>38. CASE UNCHANGED vars
    BY <1>38, InvisibleStutters DEF vars, Invisible, SurfaceModule, SurfaceDeparting
  <1> QED
    BY <1>1, <1>2, <1>3, <1>4, <1>5, <1>6, <1>7, <1>8, <1>9, <1>10, <1>11,
       <1>12, <1>13, <1>14, <1>15, <1>16, <1>17, <1>18, <1>19, <1>20, <1>21,
       <1>22, <1>23, <1>24, <1>25, <1>26, <1>27, <1>28, <1>29, <1>30, <1>31,
       <1>32, <1>33, <1>34, <1>35, <1>36, <1>37, <1>38, InvisibleStutters
       DEF Next, ProbeStep, LoaderStep, WorkerStep, HostStep

(* The module with its threads, locks and retries refines the surface.     *)
THEOREM RefinesSurface == Spec => ImplementsSurface
  <1>1. IInv /\ [Next]_vars => [Surface!SurfaceNext]_(Surface!surfaceVars)
    BY SurfaceStep
  <1> QED
    BY <1>1, SurfaceInitial, Invariance, PTL DEF Spec, ImplementsSurface, Surface!SurfaceSpec

(* The surface keeps its promise, whoever implements it.                   *)
SurfaceInv ==
    /\ bus \in [Buses -> Adapters \cup {None}]
    /\ SurfaceDeparting \in Buses \cup {None}
    /\ Surface!SurfacePromise

LEMMA PromiseKept ==
    ASSUME SurfaceInv, [Surface!SurfaceNext]_(Surface!surfaceVars)
    PROVE  SurfaceInv'
  <1> USE ConstantsAssumption
      DEF SurfaceInv, Surface!SurfacePromise, Surface!Eligible
  <1>1. CASE Surface!Insert \/ Surface!Leave
    BY <1>1 DEF Surface!Insert, Surface!Leave
  <1>2. CASE Surface!Remove
    BY <1>2 DEF Surface!Remove
  <1>3. CASE Surface!Hide
    BY <1>3 DEF Surface!Hide
  <1>4. CASE Surface!Unplug
    BY <1>4 DEF Surface!Unplug
  <1>5. ASSUME NEW b \in Buses, Surface!Show(b) PROVE SurfaceInv'
    BY <1>5 DEF Surface!Show
  <1>6. ASSUME NEW b \in Buses, Surface!Depart(b) PROVE SurfaceInv'
    BY <1>6 DEF Surface!Depart
  <1>7. ASSUME NEW b \in Buses, NEW a \in Adapters, Surface!Plug(b, a) PROVE SurfaceInv'
    BY <1>7 DEF Surface!Plug
  <1>8. CASE UNCHANGED Surface!surfaceVars
    BY <1>8 DEF Surface!surfaceVars
  <1> HIDE DEF SurfaceInv
  <1> QED
    BY <1>1, <1>2, <1>3, <1>4, <1>5, <1>6, <1>7, <1>8 DEF Surface!SurfaceNext

(* What the abstract specification promises userspace holds of the module  *)
(* with all its threads: the refinement carries it down.                   *)
THEOREM UserspaceCanRely == Spec => []Surface!SurfacePromise
  <1>1. Surface!SurfaceInit => SurfaceInv
    BY ConstantsAssumption DEF Surface!SurfaceInit, SurfaceInv, Surface!SurfacePromise
  <1>2. SurfaceInv /\ [Surface!SurfaceNext]_(Surface!surfaceVars) => SurfaceInv'
    BY PromiseKept
  <1>3. SurfaceInv => Surface!SurfacePromise
    BY DEF SurfaceInv
  <1> QED
    BY <1>1, <1>2, <1>3, RefinesSurface, PTL DEF ImplementsSurface, Surface!SurfaceSpec

-----------------------------------------------------------------------------
(* What the oracle sees of a chip the driver shows.                        *)

(* The machine the hardware tests are written for: the driver is on auto,  *)
(* one adapter has the sensor's name on a card of the table, and the host  *)
(* writes no letters after a number. With bus= the user overrules the      *)
(* name, which the oracle knows nothing of.                                *)
TestedMachine ==
    /\ BusParam = None
    /\ OneSensor
    /\ \A a \in CardAdapters \cap SensorNamed :
          Detect!ModelKnown(Describe[a].parent) /\ ~Describe[a].name.glued

(* On such a machine the oracle's selection is the driver's, number by     *)
(* number, whether or not it lets unknown cards pass.                      *)
LEMMA SameSelection ==
    ASSUME TestedMachine, TypeOK, AdapterState, NEW unknown \in {FALSE, AllowUnknown}
    PROVE  Detect!AstralAdapters(Sysfs, unknown) = {b \in listed : Candidate(b)}
  <1> USE ConstantsAssumption, MachineAssumption
  <1>1. ASSUME NEW b \in listed
       PROVE  b \in Detect!AstralAdapters(Sysfs, unknown) <=> Candidate(b)
    <2>1. bus[b] \in Adapters /\ Sysfs[b] = Describe[bus[b]]
      BY DEF TypeOK, AdapterState, Sysfs
    <2>2. Candidate(b) <=> bus[b] \in CardAdapters \cap SensorNamed
      BY DEF TestedMachine, Candidate, CardMatches, Selected
    <2>3. Candidate(b) => b \in Detect!AstralAdapters(Sysfs, unknown)
      BY <2>1, <2>2
         DEF TestedMachine, Detect!AstralAdapters, Detect!AdapterNumber, Detect!CardMatches,
             Detect!IsSensorAdapter, Detect!ModelKnown, Sysfs
    <2>4. b \in Detect!AstralAdapters(Sysfs, unknown) => Candidate(b)
      BY <2>1, <2>2
         DEF Detect!AstralAdapters, Detect!AdapterNumber, Detect!CardMatches,
             Detect!IsSensorAdapter, Detect!ModelKnown
    <2> QED
      BY <2>3, <2>4
  <1>2. Detect!AstralAdapters(Sysfs, unknown) \subseteq listed
    BY DEF Detect!AstralAdapters, Sysfs
  <1> QED
    BY <1>1, <1>2

(* The oracle answers the number of the chip, and hands it to no test that *)
(* wants a bus without one.                                                *)
THEOREM OracleAgrees == ASSUME TestedMachine PROVE Spec => []OracleFindsTheChip
  <1>1. ASSUME IInv, WInv PROVE OracleFindsTheChip
    <2> SUFFICES ASSUME NEW c \in hwmon
                 PROVE  /\ Detect!AstralAdapters(Sysfs, AllowUnknown) = {clientBus[c]}
                        /\ clientBus[c] \notin Detect!ForeignAdapters(Sysfs)
                        /\ clientBus[c] \notin Detect!ChiplessAdapters(Sysfs)
      BY DEF OracleFindsTheChip
    <2>1. clientBus[c] \in listed /\ Candidate(clientBus[c])
      BY <1>1, ChipsShown DEF IInv, ClientState
    <2>2. {b \in listed : Candidate(b)} = {clientBus[c]}
      BY <1>1, <2>1
         DEF TestedMachine, OneSensor, WInv, OneNumber, IInv, TypeOK, AdapterState,
             Candidate, CardMatches, Selected
    <2>3. \A unknown \in {FALSE, AllowUnknown} :
             Detect!AstralAdapters(Sysfs, unknown) = {clientBus[c]}
      BY <1>1, <2>2, SameSelection DEF IInv
    <2>4. Detect!OnNvidia(Sysfs[clientBus[c]])
      BY <2>3 DEF Detect!AstralAdapters
    <2> QED
      BY <2>3, <2>4
         DEF Detect!ForeignAdapters, Detect!NvidiaAdapters, Detect!ChiplessAdapters
  <1>2. Spec => []WInv
    BY WakefulInvariance DEF TestedMachine
  <1> QED
    BY <1>1, <1>2, Invariance, PTL
=============================================================================
