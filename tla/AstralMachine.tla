---------------------------- MODULE AstralMachine ---------------------------
(***************************************************************************)
(* AstralHwmon on a machine: its PCI devices, what each adapter is, and the *)
(* adapters of the board itself. The gate of the driver is the one of      *)
(* astral_detect.c, and the oracle of the tests looks at the same machine  *)
(* through sysfs.                                                          *)
(***************************************************************************)
EXTENDS AstralHwmon

CONSTANTS
    NVIDIA, Models, AdapterIndex, NoNumber,     \* those of AstralDetect
    AllowUnknown,   \* allow_unknown, of the driver and of the oracle
    Devices,        \* the PCI devices
    Describe,       \* what each of Adapters is
    Board           \* the board's own adapters, by number

Detect == INSTANCE AstralDetect WITH NoDevice <- None

(* The driver's gate on this machine. The board's adapters (SMBus and the  *)
(* like) have numbers of their own and sit on no NVIDIA card.              *)
ASSUME MachineAssumption ==
    /\ AdapterIndex \in Nat /\ NoNumber \notin Nat
    /\ CardFound = Detect!CardPresent(Devices, AllowUnknown)
    /\ CardAdapters = {a \in Adapters : Detect!CardMatches(Describe[a], AllowUnknown)}
    /\ SensorNamed = {a \in Adapters : Detect!IsSensorAdapter(Describe[a])}
    /\ DOMAIN Board \cap Buses = {}
    /\ \A n \in DOMAIN Board : ~Detect!OnNvidia(Board[n])

(* The adapters the oracle finds in sysfs.                                 *)
Sysfs == [b \in listed \cup DOMAIN Board |->
             IF b \in listed THEN Describe[bus[b]] ELSE Board[b]]

(* Driver and oracle agree on the hardware: a chip the driver shows, by    *)
(* whatever races and retries it got there, sits on the one number         *)
(* find_astral_adapter() answers, and never on one that the tests use as   *)
(* foreign or as chipless (discover.py mirrors astral_detect.c).           *)
OracleFindsTheChip ==
    \A c \in hwmon :
        /\ Detect!AstralAdapters(Sysfs, AllowUnknown) = {clientBus[c]}
        /\ clientBus[c] \notin Detect!ForeignAdapters(Sysfs)
        /\ clientBus[c] \notin Detect!ChiplessAdapters(Sysfs)
=============================================================================
