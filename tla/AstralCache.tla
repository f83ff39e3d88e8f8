----------------------------- MODULE AstralCache -----------------------------
(***************************************************************************)
(* The read path of driver/astral_hwmon.c: struct astral_data, filled by   *)
(* astral_refresh_locked() under its mutex, first by astral_attach(), which *)
(* proves the chip before it registers the hwmon device, then by any number *)
(* of concurrent astral_read() calls.                                      *)
(*                                                                         *)
(* A frame is abstracted to whether it would pass the plausibility check.  *)
(* Time is jiffies, a counter of Modulus values that wraps, and passes     *)
(* during a transfer as well as between steps.                             *)
(***************************************************************************)
EXTENDS Naturals

CONSTANTS
    Readers,        \* concurrent callers of astral_read()
    None,
    Modulus,        \* jiffies counts modulo this (ULONG_MAX + 1)
    TTL,            \* ASTRAL_CACHE_TTL in jiffies
    MaxIdle         \* bound: how long a valid frame may go untouched

(* time_before() is right as long as a valid frame is looked at before its *)
(* age passes half of what jiffies can count.                              *)
ASSUME CacheAssumption ==
    /\ None \notin Readers \cup {"attach", "zeros", "measured", "EPROTO"}
    /\ "attach" \notin Readers
    /\ Modulus \in Nat /\ TTL \in Nat \ {0} /\ MaxIdle \in Nat
    /\ 2 * TTL <= Modulus
    /\ TTL <= MaxIdle
    /\ 2 * (MaxIdle - TTL) < Modulus

VARIABLES
    jiffies,
    lock,           \* who holds data->lock, or None
    frame,          \* data->frame: "zeros" as allocated, or "measured"
    last_updated,
    valid,
    registered,     \* does the hwmon device exist?
    pc,
    req,            \* what a reader asked for
    ret,            \* what the call returns: a frame's value or an error
    age             \* history: time since the last commit, at most MaxIdle

cacheVars == <<frame, last_updated, valid>>
vars == <<jiffies, lock, cacheVars, registered, pc, req, ret, age>>

Threads == Readers \cup {"attach"}
Requests == {"pin", "interval", "badpin", "othertype"}
Returns == {None, "measured", "zeros", "TTL", "errno", "EPROTO", "EIO", "EINVAL",
            "EOPNOTSUPP"}

Plus(j, n) == IF j + n < Modulus THEN j + n ELSE j + n - Modulus

(* time_before(a, b): the difference, read as a signed number, is negative.*)
TimeBefore(a, b) ==
    IF a >= b THEN 2 * (a - b) >= Modulus ELSE 2 * (b - a) <= Modulus

(* Mutant: jiffies compared as plain numbers.                              *)
HitPlain == valid /\ jiffies < Plus(last_updated, TTL)

Hit == valid /\ TimeBefore(jiffies, Plus(last_updated, TTL))

Init ==
    /\ jiffies \in 0 .. Modulus - 1
    /\ lock = None
    /\ frame = "zeros"
    /\ last_updated = 0
    /\ valid = FALSE
    /\ registered = FALSE
    /\ pc = [t \in Threads |-> "idle"]
    /\ req = [r \in Readers |-> None]
    /\ ret = [t \in Threads |-> None]
    /\ age = MaxIdle

Tick ==
    /\ ~valid \/ age < MaxIdle
    /\ jiffies' = Plus(jiffies, 1)
    /\ age' = IF age < MaxIdle THEN age + 1 ELSE age
    /\ UNCHANGED <<lock, cacheVars, registered, pc, req, ret>>

-----------------------------------------------------------------------------
(* astral_attach(): a freshly zeroed astral_data, and one astral_refresh().*)
AttachStart ==
    /\ pc["attach"] = "idle"
    /\ ~registered
    /\ frame' = "zeros"
    /\ last_updated' = 0
    /\ valid' = FALSE
    /\ pc' = [pc EXCEPT !["attach"] = "wait"]
    /\ UNCHANGED <<jiffies, lock, registered, req, ret, age>>

(* Only after a refresh that succeeded is the hwmon device registered,     *)
(* which may fail too; a failed attach takes the data with it.             *)
AttachDone ==
    /\ pc["attach"] = "done"
    /\ registered' \in {FALSE, ret["attach"] = "measured"}
    /\ pc' = [pc EXCEPT !["attach"] = "idle"]
    /\ ret' = [ret EXCEPT !["attach"] = None]
    /\ UNCHANGED <<jiffies, lock, cacheVars, req, age>>

(* astral_read() up to the mutex: the update interval and a bad channel    *)
(* are answered without it.                                                *)
Call(r, q) ==
    /\ pc[r] = "idle"
    /\ registered
    /\ req' = [req EXCEPT ![r] = q]
    /\ \/ /\ q \in {"pin", "othertype"}
          /\ pc' = [pc EXCEPT ![r] = "wait"]
          /\ UNCHANGED ret
       \/ /\ q \in {"interval", "badpin"}
          /\ pc' = [pc EXCEPT ![r] = "done"]
          /\ ret' = [ret EXCEPT ![r] = IF q = "interval" THEN "TTL" ELSE "EINVAL"]
    /\ UNCHANGED <<jiffies, lock, cacheVars, registered, age>>

Return(r) ==
    /\ pc[r] = "done"
    /\ pc' = [pc EXCEPT ![r] = "idle"]
    /\ req' = [req EXCEPT ![r] = None]
    /\ ret' = [ret EXCEPT ![r] = None]
    /\ UNCHANGED <<jiffies, lock, cacheVars, registered, age>>

-----------------------------------------------------------------------------
(* astral_refresh_locked(), between mutex_lock() and mutex_unlock()        *)

(* Mutant: the lock is dropped between the check and the copy.             *)
CacheHitUnlocked(t) ==
    /\ pc[t] = "wait"
    /\ lock = None
    /\ Hit
    /\ pc' = [pc EXCEPT ![t] = "copy"]
    /\ UNCHANGED <<jiffies, lock, cacheVars, registered, req, ret, age>>

CacheHit(t) ==
    /\ pc[t] = "wait"
    /\ lock = None
    /\ Hit
    /\ lock' = t
    /\ pc' = [pc EXCEPT ![t] = "copy"]
    /\ UNCHANGED <<jiffies, cacheVars, registered, req, ret, age>>

(* Mutant: the transfer is done without the mutex.                         *)
TransferUnlocked(t) ==
    /\ pc[t] = "wait"
    /\ lock = None
    /\ ~Hit
    /\ pc' = [pc EXCEPT ![t] = "transfer"]
    /\ UNCHANGED <<jiffies, lock, cacheVars, registered, req, ret, age>>

Transfer(t) ==
    /\ pc[t] = "wait"
    /\ lock = None
    /\ ~Hit
    /\ lock' = t
    /\ pc' = [pc EXCEPT ![t] = "transfer"]
    /\ UNCHANGED <<jiffies, cacheVars, registered, req, ret, age>>

(* Mutants: an implausible frame is kept; the mutex is; -EPROTO gets out.  *)
ImplausibleKept(t, error) ==
    /\ pc[t] = "transfer"
    /\ frame' = "zeros"
    /\ valid' = TRUE
    /\ pc' = [pc EXCEPT ![t] = "copy"]
    /\ UNCHANGED <<jiffies, lock, last_updated, registered, req, ret, age>>

FailureKeepsLock(t, error) ==
    /\ pc[t] = "transfer"
    /\ valid' = FALSE
    /\ ret' = [ret EXCEPT ![t] = error]
    /\ pc' = [pc EXCEPT ![t] = "done"]
    /\ UNCHANGED <<jiffies, lock, frame, last_updated, registered, req, age>>

ErrorAsIs(t, error) ==
    /\ pc[t] = "transfer"
    /\ valid' = FALSE
    /\ ret' = [ret EXCEPT ![t] = error]
    /\ lock' = None
    /\ pc' = [pc EXCEPT ![t] = "done"]
    /\ UNCHANGED <<jiffies, frame, last_updated, registered, req, age>>

(* -EPROTO, the mark of an implausible frame, becomes -EIO for userspace.  *)
TransferFails(t, error) ==
    /\ pc[t] = "transfer"
    /\ valid' = FALSE
    /\ ret' = [ret EXCEPT ![t] = IF error = "EPROTO" /\ t \in Readers THEN "EIO" ELSE error]
    /\ lock' = None
    /\ pc' = [pc EXCEPT ![t] = "done"]
    /\ UNCHANGED <<jiffies, frame, last_updated, registered, req, age>>

Commit(t) ==
    /\ pc[t] = "transfer"
    /\ frame' = "measured"
    /\ last_updated' = jiffies
    /\ valid' = TRUE
    /\ age' = 0
    /\ pc' = [pc EXCEPT ![t] = "copy"]
    /\ UNCHANGED <<jiffies, lock, registered, req, ret>>

(* The value is taken under the lock the frame was checked under.          *)
Copy(t) ==
    /\ pc[t] = "copy"
    /\ ret' = [ret EXCEPT ![t] =
                  IF t \in Readers /\ req[t] = "othertype" THEN "EOPNOTSUPP" ELSE frame]
    /\ lock' = None
    /\ pc' = [pc EXCEPT ![t] = "done"]
    /\ UNCHANGED <<jiffies, cacheVars, registered, req, age>>

-----------------------------------------------------------------------------
Locked(t) ==
    \/ CacheHit(t) \/ Transfer(t) \/ Commit(t) \/ Copy(t)
    \/ \E error \in {"errno", "EPROTO"} : TransferFails(t, error)

Next ==
    \/ Tick \/ AttachStart \/ AttachDone
    \/ \E r \in Readers : Return(r) \/ \E q \in Requests : Call(r, q)
    \/ \E t \in Threads : Locked(t)

Spec == Init /\ [][Next]_vars

(* A transfer ends (the adapter has a timeout), a holder of the mutex gets *)
(* on, and a waiter is not passed over for ever (kernel mutexes hand off). *)
Fairness == \A t \in Threads : SF_vars(Locked(t))

FairSpec == Spec /\ Fairness

-----------------------------------------------------------------------------
(* Every variable has its type; jiffies and last_updated are within range, *)
(* and userspace is never given -EPROTO.                                   *)
TypeOK ==
    /\ jiffies \in 0 .. Modulus - 1
    /\ lock \in Threads \cup {None}
    /\ frame \in {"zeros", "measured"}
    /\ last_updated \in 0 .. Modulus - 1
    /\ valid \in BOOLEAN
    /\ registered \in BOOLEAN
    /\ pc \in [Threads -> {"idle", "wait", "transfer", "copy", "done"}]
    /\ req \in [Readers -> Requests \cup {None}]
    /\ ret \in [Threads -> Returns]
    /\ \A r \in Readers : ret[r] # "EPROTO"
    /\ age \in 0 .. MaxIdle

(* The jiffies test of astral_refresh_locked() tells the truth: a valid    *)
(* frame counts as fresh exactly while it is younger than the TTL, across  *)
(* every wrap of jiffies.                                                  *)
FreshMeansFresh == valid => (Hit <=> age < TTL)

(* Where a value is about to be taken the cache holds a valid measured     *)
(* frame: no other reader's failure got in between check and copy.         *)
CopyIsValid == \A t \in Threads : pc[t] = "copy" => valid /\ frame = "measured"

(* The all-zeros frame never reaches a reader, nor the attach: not from an *)
(* implausible answer, nor from the zeroed allocation.                     *)
ZerosNeverRead == \A t \in Threads : ret[t] # "zeros"

(* What readers see changes at most once in a TTL, whatever readers,       *)
(* failures and retries happen in between.                                 *)
CommitSpacing == [][\A r \in Readers : Commit(r) => age >= TTL]_vars

(* A read always returns.                                                  *)
ReadReturns == \A r \in Readers : pc[r] = "wait" ~> pc[r] = "done"
=============================================================================
