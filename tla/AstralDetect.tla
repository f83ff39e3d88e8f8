---------------------------- MODULE AstralDetect ----------------------------
(***************************************************************************)
(* Which adapters belong to a card we may talk to, twice: the driver's     *)
(* answer (driver/astral_detect.c) and the oracle's, which judges the      *)
(* driver in the hardware tests (src/astral_oracle/discover.py).           *)
(*                                                                         *)
(* A PCI device is [vendor, subsystem]. An adapter is [parent, name], its  *)
(* parent a PCI device or NoDevice. A name is [nvidia, number, glued]:     *)
(* does it begin with "NVIDIA i2c adapter", the number read after that     *)
(* (NoNumber when there is none), and whether a letter follows the number. *)
(* Devices stay, and their sysfs files can be read.                        *)
(***************************************************************************)
EXTENDS Integers

CONSTANTS
    NVIDIA,         \* PCI_VENDOR_NVIDIA
    Models,         \* the subsystem ids of ASTRAL_MODEL_LIST
    AdapterIndex,   \* ASTRAL_ADAPTER_INDEX
    NoDevice,
    NoNumber

OnNvidia(a) == a.parent # NoDevice /\ a.parent.vendor = NVIDIA

-----------------------------------------------------------------------------
(* The driver.                                                             *)

(* astral_model_name() finds a row.                                        *)
ModelKnown(device) == device.subsystem \in Models

(* astral_card_present() asks the PCI bus, before there are any adapters.   *)
CardPresent(devices, allow_unknown) ==
    \E d \in devices : d.vendor = NVIDIA /\ (ModelKnown(d) \/ allow_unknown)

CardMatches(a, allow_unknown) ==
    OnNvidia(a) /\ (ModelKnown(a.parent) \/ allow_unknown)

(* Mutant: "adapter 1" taken as a prefix, which "adapter 10" has too.      *)
IsSensorAdapterByPrefix(a) ==
    /\ a.name.nvidia
    /\ a.name.number \in {AdapterIndex} \cup (10 * AdapterIndex .. 10 * AdapterIndex + 9)

(* sscanf() wants the prefix and a number and ignores what follows.        *)
IsSensorAdapter(a) == a.name.nvidia /\ a.name.number = AdapterIndex

-----------------------------------------------------------------------------
(* The oracle, over the adapters it finds on each number of sysfs.         *)

(* The regular expression wants digits, and a word boundary after them.    *)
AdapterNumber(name) ==
    IF name.nvidia /\ name.number \in Nat /\ ~name.glued
    THEN name.number ELSE NoNumber

(* find_astral_adapter() returns the first of these in the order of the    *)
(* file names, which the model leaves open.                                *)
AstralAdapters(sysfs, allow_unknown) ==
    {b \in DOMAIN sysfs :
        /\ OnNvidia(sysfs[b])
        /\ sysfs[b].parent.subsystem \in Models \/ allow_unknown
        /\ AdapterNumber(sysfs[b].name) = AdapterIndex}

NvidiaAdapters(sysfs) == {b \in DOMAIN sysfs : OnNvidia(sysfs[b])}

(* find_foreign_adapter(): one of these.                                   *)
ForeignAdapters(sysfs) == DOMAIN sysfs \ NvidiaAdapters(sysfs)

(* find_chipless_nvidia_adapter(): one of these; it never passes on        *)
(* allow_unknown.                                                          *)
ChiplessAdapters(sysfs) ==
    LET sensor == AstralAdapters(sysfs, FALSE)
    IN {b \in NvidiaAdapters(sysfs) : sensor # {b}}
=============================================================================
