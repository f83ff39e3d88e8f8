--------------------------- MODULE AstralSurface ---------------------------
(***************************************************************************)
(* What astral-hwmon promises the rest of the machine, without its threads, *)
(* locks and retries: while the module is in, it shows at most one sensor  *)
(* chip at a time, and only on a present adapter of a recognised card; a   *)
(* chip once shown stays until its adapter departs or the module leaves;   *)
(* and a module that is out shows nothing of its own.                      *)
(***************************************************************************)
CONSTANTS Buses, Adapters, CardAdapters, SensorNamed, BusParam, None

VARIABLES
    module,         \* "out", "in", or "leaving" once its work has stopped
    present,        \* the adapter behind each bus number
    departing,      \* the bus whose adapter is being deleted
    chips           \* the buses a sensor chip is shown on

surfaceVars == <<module, present, departing, chips>>

Eligible(b) ==
    /\ present[b] \in CardAdapters
    /\ IF BusParam # None THEN b = BusParam ELSE present[b] \in SensorNamed

SurfaceInit ==
    /\ module = "out"
    /\ present = [b \in Buses |-> None]
    /\ departing = None
    /\ chips = {}

Insert ==
    /\ module = "out"
    /\ module' = "in"
    /\ UNCHANGED <<present, departing, chips>>

Leave ==
    /\ module = "in"
    /\ module' = "leaving"
    /\ UNCHANGED <<present, departing, chips>>

(* The module is gone: what is still shown belongs to the departing bus.   *)
Remove ==
    /\ module = "leaving"
    /\ module' = "out"
    /\ chips' \in SUBSET chips
    /\ chips' \subseteq {departing}
    /\ UNCHANGED <<present, departing>>

Show(b) ==
    /\ module = "in"
    /\ Eligible(b)
    /\ b # departing
    /\ chips \subseteq {departing}
    /\ chips' = chips \cup {b}
    /\ UNCHANGED <<module, present, departing>>

Hide ==
    /\ departing \in chips
    /\ chips' = chips \ {departing}
    /\ UNCHANGED <<module, present, departing>>

Plug(b, a) ==
    /\ present[b] = None
    /\ present' = [present EXCEPT ![b] = a]
    /\ UNCHANGED <<module, departing, chips>>

Depart(b) ==
    /\ departing = None
    /\ present[b] # None
    /\ departing' = b
    /\ UNCHANGED <<module, present, chips>>

Unplug ==
    /\ departing # None
    /\ departing \notin chips
    /\ present' = [present EXCEPT ![departing] = None]
    /\ departing' = None
    /\ UNCHANGED <<module, chips>>

SurfaceNext ==
    \/ Insert \/ Leave \/ Remove \/ Hide \/ Unplug
    \/ \E b \in Buses : Show(b) \/ Depart(b) \/ \E a \in Adapters : Plug(b, a)

SurfaceSpec == SurfaceInit /\ [][SurfaceNext]_surfaceVars

(* What a reader of hwmon may count on: every chip shown is on an adapter  *)
(* of a recognised card that the selection accepts, there is one besides   *)
(* those on an adapter that departs, and none outlives the module there.   *)
SurfacePromise ==
    /\ chips \subseteq Buses
    /\ \A b \in chips : Eligible(b)
    /\ \A a, b \in chips \ {departing} : a = b
    /\ module = "out" => chips \subseteq {departing}
=============================================================================
