---------------------------- MODULE AstralHwmon ----------------------------
(***************************************************************************)
(* The lifecycle of the astral-hwmon kernel module (driver/astral_hwmon.c): *)
(* module_init and its synchronous probe pass, the delayed-work retry      *)
(* worker, the i2c bus notifier, and module_exit, all running against a    *)
(* host that registers and deletes i2c adapters at any time.               *)
(*                                                                         *)
(* Three threads: "loader" runs module_init and module_exit, "worker" runs *)
(* astral_probe_work (a work item never runs concurrently with itself),    *)
(* "host" is the GPU driver calling i2c_add_adapter and i2c_del_adapter.   *)
(* A section under astral_lock with no blocking call in it is one step     *)
(* that needs the lock free; only module_exit keeps the lock across steps. *)
(***************************************************************************)
EXTENDS Naturals

CONSTANTS
    Buses,          \* i2c bus numbers; a number is reused once its adapter is gone
    Adapters,       \* adapters the host may register
    CardAdapters,   \* those whose PCI parent passes astral_card_matches()
    SensorNamed,    \* those whose name parses to ASTRAL_ADAPTER_INDEX
    BusParam,       \* the bus= parameter, None when it is left on auto
    Clients,        \* i2c_client objects
    None,
    RetryLimit,     \* ASTRAL_RETRY_LIMIT
    CardFound,      \* does astral_card_present() find a card on the PCI bus?
    MaxAdds         \* bound: adapter registrations in a behaviour

ASSUME ConstantsAssumption ==
    /\ CardAdapters \subseteq Adapters
    /\ SensorNamed \subseteq Adapters
    /\ BusParam \in Buses \cup {None}
    /\ None \notin Buses \cup Adapters \cup Clients \cup {"loader", "worker", "host"}
    /\ RetryLimit \in Nat \ {0}
    /\ CardFound \in BOOLEAN
    /\ MaxAdds \in Nat

VARIABLES
    astral_nb,              \* is the bus notifier registered?
    astral_lock,            \* the thread holding astral_lock, or None
    astral_client,          \* the published chip, or None
    astral_claiming,        \* an attach is in flight
    astral_attempts,
    astral_stage_reported,
    probe_work,             \* is astral_probe_work queued (its timer armed)?
    pc,                     \* where each thread is
    cand,                   \* ctx.adapter_id of a probe pass
    adap,                   \* the adapter a pass holds a reference on
    cl,                     \* the client a thread is working on
    scan,                   \* the stage the worker's scan established
    tally,                  \* the worker's copy of the counters
    bus,                    \* the adapter behind each bus number
    listed,                 \* the numbers i2c_for_each_dev() visits
    clientBus,              \* the bus a client sits on, None when it is freed
    hwmon,                  \* clients with a registered hwmon device
    hostBus,                \* the number the host is adding or deleting
    healthy,                \* chip answers plausibly and allocations succeed
    unseen,                 \* history: a card adapter announced since the last walk
    adds                    \* adapter registrations so far

moduleVars == <<astral_nb, astral_lock, astral_client, astral_claiming,
                astral_attempts, astral_stage_reported, probe_work>>
passVars == <<cand, adap, cl, scan, tally>>
worldVars == <<bus, listed, clientBus, hwmon, hostBus, healthy, adds>>
vars == <<moduleVars, pc, passVars, worldVars, unseen>>

Probers == {"loader", "worker"}
Threads == Probers \cup {"host"}

(* What each thread's program counter can be: the steps of                 *)
(* astral_probe_once() are shared by module_init and the worker.           *)
AttachPcs == {"publish", "refresh", "register", "unpublish", "delnotify", "destroy"}
ClaimPcs == {"walk", "get", "recheck", "new", "settle"} \cup AttachPcs
PassPcs == {"claim", "put", "check"} \cup ClaimPcs
ExitPcs == {"cancel", "flush", "lock", "teardown", "release", "oops"}
DeletePcs == {"deleting", "delclient", "drain"}
LoaderPcs == {"unloaded", "schedule", "live"} \cup PassPcs \cup ExitPcs
WorkerPcs == {"idle", "tally", "requeue"} \cup PassPcs
HostPcs == {"idle", "added", "rearm"} \cup DeletePcs

Goto(t, label) == pc' = [pc EXCEPT ![t] = label]
LockFree == astral_lock = None

(* astral_adapter_selected(): bus= chooses by number, auto by name.        *)
Selected(b) == IF BusParam # None THEN b = BusParam ELSE bus[b] \in SensorNamed
CardMatches(b) == bus[b] \in CardAdapters
Candidate(b) == CardMatches(b) /\ Selected(b)

(* schedule_delayed_work(), mod_delayed_work(): a queue request made while *)
(* cancel_delayed_work_sync() waits is refused.                            *)
QueueWork == probe_work' = (probe_work \/ pc["loader"] # "flush")

(* Mutant: the DEL notification leaves astral_client alone.                *)
NotifyDelIgnored(c) == (~astral_nb \/ LockFree) /\ UNCHANGED astral_client

(* BUS_NOTIFY_DEL_DEVICE, fired by device_del() before anything of the     *)
(* client is torn down: the notifier compares and clears under astral_lock.*)
NotifyDel(c) ==
    \/ /\ astral_nb
       /\ LockFree
       /\ astral_client' = IF astral_client = c THEN None ELSE astral_client
    \/ /\ ~astral_nb
       /\ UNCHANGED astral_client

(* The rest of i2c_unregister_device(): devres takes hwmon, data and mutex *)
(* down and the client is freed.                                           *)
FreeClient(c) ==
    /\ clientBus' = [clientBus EXCEPT ![c] = None]
    /\ hwmon' = hwmon \ {c}

NoTally == [attempts |-> 0, report |-> FALSE]

Init ==
    /\ astral_nb = FALSE
    /\ astral_lock = None
    /\ astral_client = None
    /\ astral_claiming = FALSE
    /\ astral_attempts = 0
    /\ astral_stage_reported = FALSE
    /\ probe_work = FALSE
    /\ pc = [t \in Threads |-> IF t = "loader" THEN "unloaded" ELSE "idle"]
    /\ cand = [t \in Probers |-> None]
    /\ adap = [t \in Probers |-> None]
    /\ cl = [t \in Threads |-> None]
    /\ scan = "none"
    /\ tally = NoTally
    /\ bus = [b \in Buses |-> None]
    /\ listed = {}
    /\ clientBus = [c \in Clients |-> None]
    /\ hwmon = {}
    /\ hostBus = None
    /\ healthy \in BOOLEAN
    /\ unseen = FALSE
    /\ adds = 0

-----------------------------------------------------------------------------
(* One probe pass, astral_probe_once(), run by module_init or the worker.  *)

ProbeBusy(t) ==
    /\ pc[t] = "claim"
    /\ LockFree
    /\ astral_client # None \/ astral_claiming
    /\ Goto(t, "check")
    /\ UNCHANGED <<moduleVars, passVars, worldVars, unseen>>

(* Mutant: a pass that does not raise the claim.                           *)
ProbeClaimUnflagged(t) ==
    /\ pc[t] = "claim"
    /\ LockFree
    /\ astral_client = None /\ ~astral_claiming
    /\ Goto(t, "walk")
    /\ UNCHANGED <<moduleVars, passVars, worldVars, unseen>>

ProbeClaim(t) ==
    /\ pc[t] = "claim"
    /\ LockFree
    /\ astral_client = None /\ ~astral_claiming
    /\ astral_claiming' = TRUE
    /\ Goto(t, "walk")
    /\ UNCHANGED <<astral_nb, astral_lock, astral_client, astral_attempts,
                   astral_stage_reported, probe_work, passVars, worldVars, unseen>>

(* i2c_for_each_dev() with astral_try_adapter(): stops at the first        *)
(* candidate in a registration order the model leaves open. The worker     *)
(* keeps what the two counters say; module_init ignores them.              *)
Walk(t) ==
    /\ pc[t] = "walk"
    /\ LET found == {b \in listed : Candidate(b)}
           stage == IF found # {} THEN "chip"
                    ELSE IF \E b \in listed : CardMatches(b) THEN "bus" ELSE "adapters"
       IN  /\ \/ found = {} /\ cand' = [cand EXCEPT ![t] = None]
              \/ \E b \in found : cand' = [cand EXCEPT ![t] = b]
           /\ scan' = IF t = "worker" THEN stage ELSE scan
    /\ unseen' = FALSE
    /\ Goto(t, "get")
    /\ UNCHANGED <<moduleVars, adap, cl, tally, worldVars>>

(* try_module_get() on the adapter's owner fails once its unload started.  *)
Gettable(b) ==
    /\ bus[b] # None
    /\ ~(pc["host"] \in DeletePcs /\ hostBus = b)

(* i2c_get_adapter(): by number, pinning the adapter and its owner module. *)
GetAdapter(t) ==
    /\ pc[t] = "get"
    /\ \/ /\ cand[t] # None /\ Gettable(cand[t])
          /\ adap' = [adap EXCEPT ![t] = cand[t]]
          /\ Goto(t, "recheck")
       \/ /\ ~(cand[t] # None /\ Gettable(cand[t]))
          /\ Goto(t, "settle")
          /\ UNCHANGED adap
    /\ cand' = [cand EXCEPT ![t] = None]
    /\ UNCHANGED <<moduleVars, cl, scan, tally, worldVars, unseen>>

(* Mutants: no second look at the number, or only at the selection.        *)
RecheckSkipped(t) ==
    /\ pc[t] = "recheck"
    /\ Goto(t, "new")
    /\ UNCHANGED <<moduleVars, passVars, worldVars, unseen>>

RecheckSelectedOnly(t) ==
    /\ pc[t] = "recheck"
    /\ Goto(t, IF Selected(adap[t]) THEN "new" ELSE "settle")
    /\ UNCHANGED <<moduleVars, passVars, worldVars, unseen>>

(* The number was chosen under a lock since dropped: the gate runs again.  *)
Recheck(t) ==
    /\ pc[t] = "recheck"
    /\ Goto(t, IF Candidate(adap[t]) THEN "new" ELSE "settle")
    /\ UNCHANGED <<moduleVars, passVars, worldVars, unseen>>

(* i2c_new_client_device(): fails when the address is taken on that bus,   *)
(* when the adapter is no longer registered, or for want of memory.        *)
NewClient(t) ==
    /\ pc[t] = "new"
    /\ \/ /\ adap[t] \in listed
          /\ \A c \in Clients : clientBus[c] # adap[t]
          /\ \E c \in Clients :
                /\ clientBus[c] = None
                /\ clientBus' = [clientBus EXCEPT ![c] = adap[t]]
                /\ cl' = [cl EXCEPT ![t] = c]
          /\ Goto(t, "publish")
       \/ /\ \/ ~healthy
             \/ adap[t] \notin listed
             \/ \E c \in Clients : clientBus[c] = adap[t]
          /\ Goto(t, "settle")
          /\ UNCHANGED <<clientBus, cl>>
    /\ UNCHANGED <<moduleVars, cand, adap, scan, tally, bus, listed, hwmon,
                   hostBus, healthy, adds, unseen>>

Publish(t) ==
    /\ pc[t] = "publish"
    /\ LockFree
    /\ astral_client' = cl[t]
    /\ Goto(t, "refresh")
    /\ UNCHANGED <<astral_nb, astral_lock, astral_claiming, astral_attempts,
                   astral_stage_reported, probe_work, passVars, worldVars, unseen>>

(* The data and mutex allocations and the first frame, which has to be     *)
(* plausible.                                                              *)
Refresh(t) ==
    /\ pc[t] = "refresh"
    /\ \/ Goto(t, "register")
       \/ ~healthy /\ Goto(t, "unpublish")
    /\ UNCHANGED <<moduleVars, passVars, worldVars, unseen>>

(* Mutant: a registration that failed leaves its hwmon device behind.      *)
RegisterPartly(t) ==
    /\ pc[t] = "register"
    /\ hwmon' = hwmon \cup {cl[t]}
    /\ Goto(t, "settle") \/ (~healthy /\ Goto(t, "unpublish"))
    /\ UNCHANGED <<moduleVars, passVars, bus, listed, clientBus, hostBus,
                   healthy, adds, unseen>>

Register(t) ==
    /\ pc[t] = "register"
    /\ \/ /\ hwmon' = hwmon \cup {cl[t]}
          /\ Goto(t, "settle")
       \/ /\ ~healthy
          /\ Goto(t, "unpublish")
          /\ UNCHANGED hwmon
    /\ UNCHANGED <<moduleVars, passVars, bus, listed, clientBus, hostBus,
                   healthy, adds, unseen>>

(* Mutant: the failure path forgets i2c_unregister_device().               *)
UnpublishOnly(t) ==
    /\ pc[t] = "unpublish"
    /\ LockFree
    /\ astral_client' = IF astral_client = cl[t] THEN None ELSE astral_client
    /\ Goto(t, "settle")
    /\ UNCHANGED <<astral_nb, astral_lock, astral_claiming, astral_attempts,
                   astral_stage_reported, probe_work, passVars, worldVars, unseen>>

(* err_unregister: compare and clear first, unregister with the lock       *)
(* dropped, because the DEL notification takes it again.                   *)
Unpublish(t) ==
    /\ pc[t] = "unpublish"
    /\ LockFree
    /\ astral_client' = IF astral_client = cl[t] THEN None ELSE astral_client
    /\ Goto(t, "delnotify")
    /\ UNCHANGED <<astral_nb, astral_lock, astral_claiming, astral_attempts,
                   astral_stage_reported, probe_work, passVars, worldVars, unseen>>

UnregisterNotify(t) ==
    /\ pc[t] = "delnotify"
    /\ NotifyDel(cl[t])
    /\ Goto(t, "destroy")
    /\ UNCHANGED <<astral_nb, astral_lock, astral_claiming, astral_attempts,
                   astral_stage_reported, probe_work, passVars, worldVars, unseen>>

UnregisterFree(t) ==
    /\ pc[t] = "destroy"
    /\ FreeClient(cl[t])
    /\ cl' = [cl EXCEPT ![t] = None]
    /\ Goto(t, "settle")
    /\ UNCHANGED <<moduleVars, cand, adap, scan, tally, bus, listed, hostBus,
                   healthy, adds, unseen>>

(* The second section under the lock: the claim flag and the counter.      *)
SettleAs(t, claiming, attempts) ==
    /\ pc[t] = "settle"
    /\ LockFree
    /\ astral_claiming' = claiming
    /\ astral_attempts' = attempts
    /\ cl' = [cl EXCEPT ![t] = None]
    /\ Goto(t, "put")
    /\ UNCHANGED <<astral_nb, astral_lock, astral_client, astral_stage_reported,
                   probe_work, cand, adap, scan, tally, worldVars, unseen>>

(* Mutants: the counter runs down, is not moved, or the claim stays up     *)
(* when the pass found nothing.                                            *)
SettleCountsDown(t) == SettleAs(t, FALSE, astral_attempts - 1)
SettleUncounted(t) == SettleAs(t, FALSE, astral_attempts)
SettleClaimKept(t) == SettleAs(t, cl[t] = None, astral_attempts)

(* The claim is settled, and a pass that returned no client is counted.    *)
Settle(t) ==
    SettleAs(t, FALSE, IF cl[t] = None THEN astral_attempts + 1 ELSE astral_attempts)

(* Mutant: the adapter is never put.                                       *)
PutForgotten(t) ==
    /\ pc[t] = "put"
    /\ Goto(t, "check")
    /\ UNCHANGED <<moduleVars, passVars, worldVars, unseen>>

Put(t) ==
    /\ pc[t] = "put"
    /\ adap' = [adap EXCEPT ![t] = None]
    /\ Goto(t, "check")
    /\ UNCHANGED <<moduleVars, cand, cl, scan, tally, worldVars, unseen>>

-----------------------------------------------------------------------------
(* module_init and module_exit                                             *)

(* The statics start afresh with every load of the module; a machine       *)
(* without a supported card refuses it.                                    *)
Load ==
    /\ pc["loader"] = "unloaded"
    /\ CardFound
    /\ astral_nb' = TRUE
    /\ astral_attempts' = 0
    /\ astral_stage_reported' = FALSE
    /\ unseen' = FALSE
    /\ Goto("loader", "claim")
    /\ UNCHANGED <<astral_lock, astral_client, astral_claiming, probe_work,
                   passVars, worldVars>>

(* Mutant: module_init leaves a failed first pass at that.                 *)
InitCheckOnce ==
    /\ pc["loader"] = "check"
    /\ LockFree
    /\ Goto("loader", "live")
    /\ UNCHANGED <<moduleVars, passVars, worldVars, unseen>>

(* astral_attached()                                                       *)
InitCheck ==
    /\ pc["loader"] = "check"
    /\ LockFree
    /\ Goto("loader", IF astral_client = None THEN "schedule" ELSE "live")
    /\ UNCHANGED <<moduleVars, passVars, worldVars, unseen>>

Schedule ==
    /\ pc["loader"] = "schedule"
    /\ QueueWork
    /\ Goto("loader", "live")
    /\ UNCHANGED <<astral_nb, astral_lock, astral_client, astral_claiming,
                   astral_attempts, astral_stage_reported, passVars, worldVars, unseen>>

(* Mutant: the notifier is still there when the client is unregistered.    *)
ExitNotifierKept ==
    /\ pc["loader"] = "live"
    /\ pc["host"] # "rearm"
    /\ Goto("loader", "cancel")
    /\ UNCHANGED <<moduleVars, passVars, worldVars, unseen>>

(* bus_unregister_notifier() waits for a notifier call in progress.        *)
ExitNotifier ==
    /\ pc["loader"] = "live"
    /\ pc["host"] # "rearm"
    /\ astral_nb' = FALSE
    /\ Goto("loader", "cancel")
    /\ UNCHANGED <<astral_lock, astral_client, astral_claiming, astral_attempts,
                   astral_stage_reported, probe_work, passVars, worldVars, unseen>>

(* cancel_delayed_work_sync(): drop a pending run, then wait for a current *)
(* one, which cannot requeue itself meanwhile.                             *)
ExitCancel ==
    /\ pc["loader"] = "cancel"
    /\ probe_work' = FALSE
    /\ Goto("loader", "flush")
    /\ UNCHANGED <<astral_nb, astral_lock, astral_client, astral_claiming,
                   astral_attempts, astral_stage_reported, passVars, worldVars, unseen>>

(* Mutant: cancel_delayed_work(), which does not wait for a current run.   *)
ExitFlushUnwaited ==
    /\ pc["loader"] = "flush"
    /\ Goto("loader", "lock")
    /\ UNCHANGED <<moduleVars, passVars, worldVars, unseen>>

ExitFlush ==
    /\ pc["loader"] = "flush"
    /\ pc["worker"] = "idle"
    /\ Goto("loader", "lock")
    /\ UNCHANGED <<moduleVars, passVars, worldVars, unseen>>

ExitLock ==
    /\ pc["loader"] = "lock"
    /\ LockFree
    /\ astral_lock' = "loader"
    /\ Goto("loader", "teardown")
    /\ UNCHANGED <<astral_nb, astral_client, astral_claiming, astral_attempts,
                   astral_stage_reported, probe_work, passVars, worldVars, unseen>>

(* Is the client freed, or being torn down by i2c_del_adapter()?           *)
Gone(c) == clientBus[c] = None \/ (pc["host"] = "delclient" /\ cl["host"] = c)

(* i2c_unregister_device() under astral_lock. On a client that is gone its *)
(* behaviour is undefined: the model stops that thread where it stands.    *)
ExitTeardown ==
    /\ pc["loader"] = "teardown"
    /\ \/ /\ astral_client = None
          /\ astral_lock' = None
          /\ Goto("loader", "unloaded")
          /\ UNCHANGED astral_client
       \/ /\ astral_client # None
          /\ Gone(astral_client)
          /\ Goto("loader", "oops")
          /\ UNCHANGED <<astral_client, astral_lock>>
       \/ /\ astral_client # None
          /\ ~Gone(astral_client)
          /\ NotifyDel(astral_client)
          /\ Goto("loader", "release")
          /\ UNCHANGED astral_lock
    /\ UNCHANGED <<astral_nb, astral_claiming, astral_attempts,
                   astral_stage_reported, probe_work, passVars, worldVars, unseen>>

ExitRelease ==
    /\ pc["loader"] = "release"
    /\ \/ /\ Gone(astral_client)
          /\ Goto("loader", "oops")
          /\ UNCHANGED <<astral_client, astral_lock, clientBus, hwmon>>
       \/ /\ ~Gone(astral_client)
          /\ FreeClient(astral_client)
          /\ astral_client' = None
          /\ astral_lock' = None
          /\ Goto("loader", "unloaded")
    /\ UNCHANGED <<astral_nb, astral_claiming, astral_attempts,
                   astral_stage_reported, probe_work, passVars, bus, listed,
                   hostBus, healthy, adds, unseen>>

-----------------------------------------------------------------------------
(* astral_probe_worker()                                                   *)

WorkStart ==
    /\ pc["worker"] = "idle"
    /\ probe_work
    /\ probe_work' = FALSE
    /\ Goto("worker", "claim")
    /\ UNCHANGED <<astral_nb, astral_lock, astral_client, astral_claiming,
                   astral_attempts, astral_stage_reported, passVars, worldVars, unseen>>

(* The worker returns, and its locals are gone.                            *)
WorkReturn ==
    /\ scan' = "none"
    /\ tally' = NoTally
    /\ Goto("worker", "idle")
    /\ UNCHANGED <<cand, adap, cl>>

WorkCheck ==
    /\ pc["worker"] = "check"
    /\ LockFree
    /\ \/ astral_client # None /\ WorkReturn
       \/ astral_client = None /\ Goto("worker", "tally") /\ UNCHANGED passVars
    /\ UNCHANGED <<moduleVars, worldVars, unseen>>

WorkTally ==
    /\ pc["worker"] = "tally"
    /\ LockFree
    /\ tally' = [attempts |-> astral_attempts, report |-> ~astral_stage_reported]
    /\ astral_stage_reported' = TRUE
    /\ Goto("worker", "requeue")
    /\ UNCHANGED <<astral_nb, astral_lock, astral_client, astral_claiming,
                   astral_attempts, probe_work, cand, adap, cl, scan, worldVars, unseen>>

WorkRequeue ==
    /\ pc["worker"] = "requeue"
    /\ tally.attempts < RetryLimit
    /\ QueueWork
    /\ WorkReturn
    /\ UNCHANGED <<astral_nb, astral_lock, astral_client, astral_claiming,
                   astral_attempts, astral_stage_reported, worldVars, unseen>>

WorkGiveUp ==
    /\ pc["worker"] = "requeue"
    /\ tally.attempts >= RetryLimit
    /\ WorkReturn
    /\ UNCHANGED <<moduleVars, worldVars, unseen>>

-----------------------------------------------------------------------------
(* The host: i2c_add_adapter() and i2c_del_adapter() by the GPU driver.    *)

HostAdd(b, a) ==
    /\ pc["host"] = "idle"
    /\ adds < MaxAdds
    /\ bus[b] = None
    /\ \A x \in Buses : bus[x] # a
    /\ bus' = [bus EXCEPT ![b] = a]
    /\ listed' = listed \cup {b}
    /\ hostBus' = b
    /\ adds' = adds + 1
    /\ Goto("host", "added")
    /\ UNCHANGED <<moduleVars, passVars, clientBus, hwmon, healthy, unseen>>

(* BUS_NOTIFY_ADD_DEVICE, of an adapter that carries one of the card's     *)
(* buses. Any other device ends at the filters above the lock.             *)
HostNotifyAdd ==
    /\ pc["host"] = "added"
    /\ \/ /\ ~astral_nb \/ ~CardMatches(hostBus)
          /\ Goto("host", "idle")
          /\ UNCHANGED <<astral_attempts, astral_stage_reported, unseen>>
       \/ /\ astral_nb /\ CardMatches(hostBus)
          /\ LockFree
          /\ unseen' = TRUE
          /\ \/ /\ astral_client = None
                /\ astral_attempts' = 0
                /\ astral_stage_reported' = FALSE
                /\ Goto("host", "rearm")
             \/ /\ astral_client # None
                /\ Goto("host", "idle")
                /\ UNCHANGED <<astral_attempts, astral_stage_reported>>
    /\ hostBus' = None
    /\ UNCHANGED <<astral_nb, astral_lock, astral_client, astral_claiming,
                   probe_work, passVars, bus, listed, clientBus, hwmon, healthy, adds>>

HostRearm ==
    /\ pc["host"] = "rearm"
    /\ QueueWork
    /\ Goto("host", "idle")
    /\ UNCHANGED <<astral_nb, astral_lock, astral_client, astral_claiming,
                   astral_attempts, astral_stage_reported, passVars, worldVars, unseen>>

(* The GPU driver deletes its adapters when it is unloaded, and has to     *)
(* wait for the references on them.                                        *)
HostDelete(b) ==
    /\ pc["host"] = "idle"
    /\ b \in listed
    /\ \A t \in Probers : adap[t] # b
    /\ hostBus' = b
    /\ Goto("host", "deleting")
    /\ UNCHANGED <<moduleVars, passVars, bus, listed, clientBus, hwmon, healthy,
                   adds, unseen>>

(* i2c_del_adapter() unregisters every client on the adapter.              *)
HostDelNotify(c) ==
    /\ pc["host"] = "deleting"
    /\ clientBus[c] = hostBus
    /\ NotifyDel(c)
    /\ cl' = [cl EXCEPT !["host"] = c]
    /\ Goto("host", "delclient")
    /\ UNCHANGED <<astral_nb, astral_lock, astral_claiming, astral_attempts,
                   astral_stage_reported, probe_work, cand, adap, scan, tally,
                   worldVars, unseen>>

HostFreeClient ==
    /\ pc["host"] = "delclient"
    /\ FreeClient(cl["host"])
    /\ cl' = [cl EXCEPT !["host"] = None]
    /\ Goto("host", "deleting")
    /\ UNCHANGED <<moduleVars, cand, adap, scan, tally, bus, listed, hostBus,
                   healthy, adds, unseen>>

HostDelist ==
    /\ pc["host"] = "deleting"
    /\ \A c \in Clients : clientBus[c] # hostBus
    /\ listed' = listed \ {hostBus}
    /\ Goto("host", "drain")
    /\ UNCHANGED <<moduleVars, passVars, bus, clientBus, hwmon, hostBus, healthy,
                   adds, unseen>>

(* The number is free once the last reference on the device is dropped.    *)
HostDrain ==
    /\ pc["host"] = "drain"
    /\ \A t \in Probers : adap[t] # hostBus
    /\ bus' = [bus EXCEPT ![hostBus] = None]
    /\ hostBus' = None
    /\ Goto("host", "idle")
    /\ UNCHANGED <<moduleVars, passVars, listed, clientBus, hwmon, healthy, adds, unseen>>

(* The card finishes starting, or falls silent.                            *)
HealthChange ==
    /\ healthy' = ~healthy
    /\ UNCHANGED <<moduleVars, pc, passVars, bus, listed, clientBus, hwmon,
                   hostBus, adds, unseen>>

-----------------------------------------------------------------------------
ProbeStep(t) ==
    \/ ProbeBusy(t) \/ ProbeClaim(t) \/ Walk(t) \/ GetAdapter(t) \/ Recheck(t)
    \/ NewClient(t) \/ Publish(t) \/ Refresh(t) \/ Register(t)
    \/ Unpublish(t) \/ UnregisterNotify(t) \/ UnregisterFree(t)
    \/ Settle(t) \/ Put(t)

LoaderStep == InitCheck \/ Schedule \/ ExitCancel \/ ExitFlush \/ ExitLock
              \/ ExitTeardown \/ ExitRelease
WorkerStep == WorkStart \/ WorkCheck \/ WorkTally \/ WorkRequeue \/ WorkGiveUp
HostStep == HostNotifyAdd \/ HostRearm \/ (\E c \in Clients : HostDelNotify(c))
            \/ HostFreeClient \/ HostDelist \/ HostDrain

Next ==
    \/ \E t \in Probers : ProbeStep(t)
    \/ LoaderStep \/ Load \/ ExitNotifier
    \/ WorkerStep
    \/ HostStep
    \/ \E b \in Buses : HostDelete(b) \/ \E a \in Adapters : HostAdd(b, a)
    \/ HealthChange

Spec == Init /\ [][Next]_vars

(* A thread that can run does run, a timer that is armed fires, and a call *)
(* once begun is finished. Loading and unloading the module, adding and    *)
(* deleting adapters and the chip's health are left to their own pace.     *)
Fairness ==
    /\ \A t \in Probers : WF_vars(ProbeStep(t))
    /\ WF_vars(LoaderStep)
    /\ WF_vars(WorkerStep)
    /\ WF_vars(HostStep)

FairSpec == Spec /\ Fairness

-----------------------------------------------------------------------------
PcsOK ==
    /\ pc \in [Threads -> LoaderPcs \cup WorkerPcs \cup HostPcs]
    /\ pc["loader"] \in LoaderPcs
    /\ pc["worker"] \in WorkerPcs
    /\ pc["host"] \in HostPcs

(* Every variable has its type: counters are naturals, every client and    *)
(* every adapter a thread holds is one of the objects above.               *)
TypeOK ==
    /\ astral_nb \in BOOLEAN
    /\ astral_lock \in {None, "loader"}
    /\ astral_client \in Clients \cup {None}
    /\ astral_claiming \in BOOLEAN
    /\ astral_attempts \in Nat
    /\ astral_stage_reported \in BOOLEAN
    /\ probe_work \in BOOLEAN
    /\ PcsOK
    /\ cand \in [Probers -> Buses \cup {None}]
    /\ adap \in [Probers -> Buses \cup {None}]
    /\ cl \in [Threads -> Clients \cup {None}]
    /\ scan \in {"none", "adapters", "bus", "chip"}
    /\ tally \in [attempts : Nat, report : BOOLEAN]
    /\ bus \in [Buses -> Adapters \cup {None}]
    /\ listed \subseteq Buses
    /\ clientBus \in [Clients -> Buses \cup {None}]
    /\ hwmon \subseteq Clients
    /\ hostBus \in Buses \cup {None}
    /\ healthy \in BOOLEAN
    /\ unseen \in BOOLEAN
    /\ adds \in Nat

Live(c) == clientBus[c] # None

(* A client, and so traffic, only ever exists on a bus of a recognised     *)
(* card that the selection accepts, however often the number changed hands *)
(* between the walk and the attach (astral_probe_once, the re-check).      *)
ForeignBusUntouched == \A c \in Clients : Live(c) => Candidate(clientBus[c])

(* Throughout astral_attach() the client it works on exists and sits on    *)
(* the adapter the pass holds: no removal frees it underneath.             *)
AttachClientLive ==
    \A t \in Probers : pc[t] \in AttachPcs => cl[t] # None /\ clientBus[cl[t]] = adap[t]

(* While the notifier is registered astral_client never dangles.           *)
PublishedLive == astral_nb /\ astral_client # None => Live(astral_client)

(* No client is forgotten: each one is the published one, or in the hands  *)
(* of the thread that is attaching it or tearing it down.                  *)
NoLeakedClient ==
    \A c \in Clients : Live(c) =>
        \/ c = astral_client
        \/ \E t \in Probers : cl[t] = c /\ pc[t] \in AttachPcs
        \/ cl["host"] = c /\ pc["host"] = "delclient"

(* A chip userspace can read is the one module_exit would release, unless  *)
(* its adapter is being deleted at this moment: a failed attach never      *)
(* leaves sensors behind.                                                  *)
SensorsOwned ==
    \A c \in hwmon : \/ Live(c) /\ c = astral_client
                     \/ cl["host"] = c /\ pc["host"] = "delclient"

(* astral_claiming is up exactly while one pass is between its claim and   *)
(* its settling, so passes of module_init and the worker never overlap.    *)
ClaimBalanced ==
    /\ astral_claiming <=> \E t \in Probers : pc[t] \in ClaimPcs
    /\ ~(pc["loader"] \in ClaimPcs /\ pc["worker"] \in ClaimPcs)

(* A pass keeps its reference on the adapter until the claim is settled    *)
(* and drops it before it ends; the adapter cannot vanish meanwhile.       *)
ReferencePins ==
    \A t \in Probers :
        /\ pc[t] \in {"recheck", "new"} \cup AttachPcs => adap[t] # None
        /\ adap[t] # None => bus[adap[t]] # None
        /\ pc[t] \notin PassPcs => adap[t] = None

(* After module_exit nothing of the module is left: no notifier, no queued *)
(* or running work, no client, no hwmon device, no lock held.              *)
UnloadClean ==
    pc["loader"] = "unloaded" =>
        /\ ~astral_nb
        /\ ~probe_work
        /\ pc["worker"] = "idle"
        /\ ~astral_claiming
        /\ LockFree
        /\ \A c \in Clients :
              Live(c) => cl["host"] = c /\ pc["host"] = "delclient"

(* The driver never sleeps on a chip it could attach: with the timer down  *)
(* and nobody about to arm it, either the retries are spent or the card    *)
(* offers no adapter to try.                                               *)
NeverDormant ==
    /\ pc["loader"] = "live"
    /\ pc["worker"] = "idle"
    /\ ~probe_work
    /\ pc["host"] = "idle"
    /\ astral_client = None
    => \/ astral_attempts >= RetryLimit
       \/ ~\E b \in listed : Candidate(b)

(* module_exit always completes, except where it met a client that         *)
(* i2c_del_adapter() was freeing.                                          *)
ExitCompletes == pc["loader"] \in ExitPcs ~> pc["loader"] \in {"unloaded", "oops"}

(* The retry worker always comes to rest: once no adapter is announced it  *)
(* has attached or given up, and the timer is down.                        *)
SearchEnds == []<>(pc["worker"] = "idle" /\ ~probe_work)

Attached == astral_client # None /\ astral_client \in hwmon

(* Conditions under which a pass must succeed.                             *)
Good ==
    /\ healthy
    /\ pc["loader"] = "live"
    /\ pc["host"] \notin DeletePcs
    /\ \E b \in listed : Candidate(b)

(* An adapter announced while no chip is held leads to an attach, however  *)
(* the earlier search had ended, if from then on the card answers.         *)
RearmAttaches == pc["host"] = "rearm" /\ []Good ~> Attached

(* What the rest of the machine sees of this module. It counts as leaving  *)
(* once its worker has stopped: until then an attach may still finish.     *)
SurfaceModule ==
    IF pc["loader"] = "unloaded" THEN "out"
    ELSE IF pc["loader"] \in {"lock", "teardown", "release", "oops"} THEN "leaving"
    ELSE "in"
SurfaceDeparting == IF pc["host"] \in DeletePcs THEN hostBus ELSE None
SurfaceChips == {clientBus[c] : c \in hwmon}

Surface == INSTANCE AstralSurface WITH
    module <- SurfaceModule, present <- bus,
    departing <- SurfaceDeparting, chips <- SurfaceChips

(* The module with all its threads shows userspace only what AstralSurface *)
(* allows: one chip, on a recognised card, that stays until its adapter or *)
(* the module leaves.                                                      *)
ImplementsSurface == Surface!SurfaceSpec

(* The search is not abandoned with a card adapter announced since the     *)
(* last walk and no new run queued (astral_bus_notify, BUS_NOTIFY_ADD).    *)
GiveUpAfterLastAdd ==
    [][WorkGiveUp /\ pc["loader"] = "live"
         => ~unseen \/ probe_work \/ pc["host"] = "rearm"]_vars

(* When the worker reports what it is waiting for, it has looked.          *)
StageKnown ==
    pc["worker"] = "requeue" /\ tally.report /\ tally.attempts < RetryLimit
        => scan # "none"

(* module_exit only unregisters a client that exists (the DEL notification *)
(* is what keeps astral_client from dangling).                             *)
ExitClientLive == pc["loader"] # "oops"
=============================================================================
