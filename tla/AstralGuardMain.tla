-------------------------- MODULE AstralGuardMain --------------------------
(***************************************************************************)
(* One run of astral-guard: main() of guard/guard_main.c over the chips    *)
(* guard_find_chips() lists, each sampled by guard_read_sample() through   *)
(* the driver's frame cache, napping between samples.                      *)
(*                                                                         *)
(* The rules are AstralGuard's; here they answer with any level they can.  *)
(* The driver's cache is AstralCache's, seen from sysfs: a chip's current  *)
(* frame has an age, TTL standing for "not fresh", and a read of a frame   *)
(* that is not fresh takes a new one.  Time passes between any two steps.  *)
(***************************************************************************)
EXTENDS GuardLevels, Sequences, FiniteSets

CONSTANTS
    MaxChips,       \* GUARD_MAX_CHIPS
    MaxSamples,     \* GUARD_MAX_SAMPLES
    NAttrs,         \* attributes of a sample (2 * GUARD_PINS)
    TTL,            \* the chip's update_interval, the driver's cache TTL
    DefaultGap,     \* GUARD_DEFAULT_INTERVAL_MS
    MaxPresent,     \* bound: chips in the class directory
    Intervals       \* what --interval may be; 0 is the chip's own

ASSUME GuardMainAssumption ==
    /\ MaxChips \in Nat \ {0} /\ MaxSamples \in Nat \ {0}
    /\ NAttrs \in Nat \ {0} /\ TTL \in Nat \ {0}
    /\ DefaultGap \in Nat /\ DefaultGap >= TTL
    /\ MaxPresent \in Nat
    /\ Intervals \subseteq Nat

VARIABLES
    pc,
    samples,        \* --samples
    interval,       \* --interval
    present,        \* the chips in the class directory, -1 if it is unreadable
    named,          \* those of them whose name could be read
    found,          \* what guard_find_chips() returned
    chip,           \* the chip being sampled
    update_interval, \* of that chip, as guard_find_chips() recorded it
    k,              \* the sample being read
    attr,           \* the attribute about to be read
    asleep,         \* how much of the nap is left
    age,            \* the chip's current frame: its age, at most TTL
    worst,          \* the worst verdict so far; at "exit" the exit status
    readBy,         \* history: the samples that read the chip's current frame
    verdicts        \* history: each chip's verdict

options == <<samples, interval, present, named, found>>
subject == <<chip, update_interval>>
vars == <<pc, options, subject, k, attr, asleep, age, worst, readBy, verdicts>>

(* Mutant: --interval taken as it stands, 0 included.                      *)
GapAsGiven == interval

Gap == IF interval > 0 THEN interval ELSE update_interval

(* An update_interval that cannot be read or is out of range is replaced.  *)
UpdateIntervals == {TTL, DefaultGap}

(* A chip's frame may be of any age, and not the guard's, at its first     *)
(* read.                                                                   *)
Init ==
    /\ pc = "arguments"
    /\ samples \in 1 .. MaxSamples
    /\ interval \in Intervals
    /\ present = 0 /\ named = 0 /\ found = 0
    /\ update_interval = TTL
    /\ chip = 1 /\ k = 1 /\ attr = 1
    /\ asleep = 0
    /\ age \in 0 .. TTL
    /\ worst = "OK"
    /\ readBy = {}
    /\ verdicts = <<>>

(* A malformed or out-of-range option ends the run.                        *)
RefuseArguments ==
    /\ pc = "arguments"
    /\ pc' = "exit"
    /\ worst' = "UNKNOWN"
    /\ UNCHANGED <<options, subject, k, attr, asleep, age, readBy, verdicts>>

(* Mutant: the array is full one chip early.                               *)
ListedOneShort(n) == IF n >= MaxChips THEN MaxChips - 1 ELSE n

(* An entry whose name cannot be read is passed over: a chip that goes     *)
(* away after readdir() has returned it is lost without a word.            *)
NamesRead(n) == IF n < 0 THEN {n} ELSE 0 .. n

(* The walk of the class directory stops when the array is full. It stops  *)
(* at the chips readdir() returned first and sorts only those.             *)
Listed(n) == IF n > MaxChips THEN MaxChips ELSE n

(* guard_find_chips(), and the ends of a run that found none.              *)
FindChips ==
    /\ pc = "arguments"
    /\ present' \in -1 .. MaxPresent
    /\ named' \in NamesRead(present')
    /\ found' = Listed(named')
    /\ \/ found' <= 0 /\ pc' = "exit" /\ worst' = "UNKNOWN"
       \/ found' > 0 /\ pc' = "read" /\ UNCHANGED worst
    /\ update_interval' \in UpdateIntervals
    /\ UNCHANGED <<samples, interval, chip, k, attr, asleep, age, readBy,
                   verdicts>>

(* Mutant: one sample too many.                                            *)
MoreSamplesInclusive == k <= samples

MoreSamples == k < samples

(* One attribute, out of the frame if it is fresh, else out of a new one.  *)
ReadAttr ==
    /\ pc = "read"
    /\ IF age < TTL
       THEN readBy' = readBy \cup {k} /\ UNCHANGED age
       ELSE readBy' = {k} /\ age' = 0
    /\ IF attr < NAttrs
       THEN attr' = attr + 1 /\ UNCHANGED <<pc, asleep>>
       ELSE /\ attr' = 1
            /\ IF MoreSamples
               THEN pc' = "nap" /\ asleep' = Gap
               ELSE pc' = "eval" /\ UNCHANGED asleep
    /\ UNCHANGED <<options, subject, k, worst, verdicts>>

(* Mutant: an unreadable attribute is tried again.                         *)
ReadAgain ==
    /\ pc = "read"
    /\ pc' = "read"
    /\ attr' = 1
    /\ UNCHANGED <<options, subject, k, asleep, age, worst, readBy, verdicts>>

(* An attribute that cannot be opened, read, parsed or is out of bounds    *)
(* fails the whole sample, and the chip with it.                           *)
ReadFails ==
    /\ pc = "read"
    /\ pc' = "unread"
    /\ UNCHANGED <<options, subject, k, attr, asleep, age, worst, readBy,
                   verdicts>>

Nap ==
    /\ pc = "nap" /\ asleep = 0
    /\ pc' = "read"
    /\ k' = k + 1
    /\ UNCHANGED <<options, subject, attr, asleep, age, worst, readBy, verdicts>>

(* Mutant: the verdicts compared by exit code.                             *)
WorseOfByCode(a, b) == IF ExitCode[b] > ExitCode[a] THEN b ELSE a

WorseOf(a, b) == IF Severity(b) > Severity(a) THEN b ELSE a

(* The chip's verdict folded into the run's, and on to the next chip.      *)
Conclude(v) ==
    /\ worst' = WorseOf(worst, v)
    /\ verdicts' = Append(verdicts, v)
    /\ k' = 1 /\ attr' = 1
    /\ readBy' = {}
    /\ IF chip < found
       THEN /\ pc' = "read" /\ chip' = chip + 1 /\ age' \in 0 .. TTL
            /\ update_interval' \in UpdateIntervals
       ELSE pc' = "exit" /\ UNCHANGED <<subject, age>>
    /\ UNCHANGED <<options, asleep>>

Evaluate == pc = "eval" /\ \E v \in {"OK", "WARN", "CRIT"} : Conclude(v)

GiveUpOnChip == pc = "unread" /\ Conclude("UNKNOWN")

(* Another reader of the same chip finds the frame stale and takes one.    *)
OtherReader ==
    /\ pc # "exit"
    /\ age = TTL
    /\ age' = 0
    /\ readBy' = {}
    /\ UNCHANGED <<pc, options, subject, k, attr, asleep, worst, verdicts>>

Tick ==
    /\ pc # "exit"
    /\ age < TTL \/ asleep > 0
    /\ age' = IF age < TTL THEN age + 1 ELSE age
    /\ asleep' = IF asleep > 0 THEN asleep - 1 ELSE 0
    /\ UNCHANGED <<pc, options, subject, k, attr, worst, readBy, verdicts>>

Exited == pc = "exit" /\ UNCHANGED vars

Run ==
    \/ RefuseArguments \/ FindChips \/ ReadAttr \/ ReadFails \/ Nap
    \/ Evaluate \/ GiveUpOnChip

Next == Run \/ OtherReader \/ Tick \/ Exited

Spec == Init /\ [][Next]_vars

-----------------------------------------------------------------------------

(* Every variable has its type; no sample index or chip index passes what  *)
(* the options and guard_find_chips() allow.                               *)
TypeOK ==
    /\ pc \in {"arguments", "read", "nap", "eval", "unread", "exit"}
    /\ samples \in 1 .. MaxSamples
    /\ interval \in Intervals
    /\ present \in -1 .. MaxPresent
    /\ named \in -1 .. present
    /\ found \in -1 .. MaxChips
    /\ update_interval \in UpdateIntervals
    /\ chip \in 1 .. MaxChips
    /\ k \in 1 .. samples
    /\ attr \in 1 .. NAttrs
    /\ asleep \in Nat
    /\ age \in 0 .. TTL
    /\ worst \in Verdicts
    /\ readBy \subseteq 1 .. samples
    /\ verdicts \in Seq(Verdicts)

(* Samples further apart than the cache lives are samples of different     *)
(* frames: persistence (R6) compares measurements, not copies of one.      *)
IndependentSamples ==
    (interval = 0 \/ interval >= TTL) => Cardinality(readBy) <= 1

(* The exit status is the most severe of the chips' verdicts, whatever     *)
(* their order: no chip's unreadable sensor hides another's overcurrent.   *)
ExitIsWorst ==
    pc = "exit" /\ verdicts # <<>> =>
        /\ \E n \in 1 .. Len(verdicts) : verdicts[n] = worst
        /\ \A n \in 1 .. Len(verdicts) : Severity(verdicts[n]) <= Severity(worst)

(* A run that listed no chip, or lost sight of one it had listed, never    *)
(* exits OK or WARNING. One that does has judged every chip that gave its  *)
(* name while there was room, so a chip present is missing from its        *)
(* verdicts in two ways only: it gave no name (guard_sysfs.c:93), or the   *)
(* array was full (guard_sysfs.c:86).                                      *)
BlindIsNeverOk ==
    pc = "exit" /\ worst \in {"OK", "WARN"} =>
        /\ found >= 1
        /\ Len(verdicts) = found
        /\ named <= MaxChips => Len(verdicts) = named
        /\ Len(verdicts) < present => named < present \/ found = MaxChips
        /\ \A n \in 1 .. found : verdicts[n] # "UNKNOWN"
=============================================================================
