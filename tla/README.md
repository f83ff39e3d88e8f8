# astral-hwmon in TLA+

TLA+ models of astral-hwmon: the Linux kernel module that publishes the per-pin
currents of an ASUS ROG Astral's 12VHPWR connector; `astral-guard`, the program
that judges them; the example systemd units that act on its verdict; and the
Python oracle that checks the driver on hardware. TLC model-checks them on small instances and TLAPS
proves every safety property of the passing runs for every value of the constants. Paths below
are relative to the repository.

To check a run: `tlc -config <run>.cfg <module>.tla`. To check the proofs of a
module: `tlapm <module>.tla`. Which definition stands for which lines of the
source, which run checks which property and which theorem proves which are
listed in `PROJECT.json`.

## 1. The system

| Component | Source | State it keeps | Operations | Modelled |
|---|---|---|---|---|
| Driver lifecycle | `driver/astral_hwmon.c` | `astral_client`, `astral_claiming`, `astral_attempts`, `astral_stage_reported`, the notifier, the delayed work, references on adapters | `module_init`, `module_exit`, probe pass and attach, retry worker, bus notifier | `AstralHwmon` |
| Driver read path | `driver/astral_hwmon.c`, `driver/astral_regs.c` | `struct astral_data`: frame, `last_updated`, `valid`, mutex | `astral_refresh_locked`, `astral_read`, the attach's first refresh | `AstralCache` |
| Detection | `driver/astral_detect.c` | none | is there a known card, does an adapter belong to it, does its name carry the sensor | `AstralDetect` |
| Register block | `driver/astral_regs.c` | none | 24-byte transfer, decode, plausibility | `AstralChannels`; outcomes in `AstralCache` |
| Guard rules | `guard/guard_eval.c` | counters and extremes of one evaluation, a bounded array of findings | `guard_eval`, `add`, `guard_severity` | `AstralGuard`, `GuardLevels` |
| Guard run | `guard/guard_main.c` | worst verdict so far | options, chip loop, sample loop, nap, exit status | `AstralGuardMain` |
| Guard sysfs | `guard/guard_sysfs.c` | none | `guard_find_chips`, `guard_read_sample` | `AstralGuardMain`; attributes and bounds in `AstralChannels` |
| Guard reports | `guard/guard_report.c` | none | text and JSON | no: formatting of a finished verdict |
| Oracle readings | `src/astral_oracle/decode.py`, `i2c.py`, `hwmon.py`, `discover.py` | none | decode, one block read, attributes, the search for adapters | `AstralChannels`, `AstralDetect` |
| Oracle load | `src/astral_oracle/load.py`, `tools/burn.cu` | the child process, the abort flag | `run_burn`, `sample_until`, `_stop_burn` | `AstralLoad` |
| Units | `examples/` | what systemd keeps of two units | timer, check unit, poweroff unit, notification hook | `AstralPoweroff` |

How they interact. The GPU driver (the *host* below) registers and deletes i2c
adapters; both call the module's bus notifier. The notifier and `module_init`
queue the retry worker, which runs probe passes; a pass picks an adapter, pins
it, creates a client, publishes it in `astral_client`, proves the chip with one
frame and registers a hwmon device. `i2c_del_adapter()` frees clients from
outside, which the notifier has to see. hwmon readers share one cached frame
under a mutex. The guard reads the twelve attributes of a sample one at a time
through that cache, several samples per chip, and folds the chips' verdicts into
an exit status, which systemd and monitoring act on: with the example units
enabled, a CRITICAL run starts a unit that warns, waits and powers the machine
off. The oracle decides by itself which adapter carries the chip and what its
registers mean, and the hardware tests compare its answers with the driver's,
under a load that `run_burn()` must stop when a pin carries too much.

What is hard here, and what makes each part correct:

- *Lifecycle*: three threads of control, and no lock held across the long steps.
  No client on a bus of another device, no dangling or forgotten client, one
  pass at a time, references dropped, an unload that leaves nothing and always
  ends, and a search that neither runs for ever nor sleeps on a chip it could
  attach to.
- *Read path*: concurrent readers, failing transfers, a counter that wraps. What
  is returned was measured and passed the plausibility check; fresh means fresh.
- *Rules*: no alarm missed, none invented, whatever the array of findings holds.
- *Run*: samples that are measurements and not copies; no chip's failure hides
  another's alarm; blindness never looks like health.
- *Channels*: big-endian pairs and reversed pins undone by two decoders, two
  numberings of attributes, three readers. A value never moves to another pin,
  and the decoders agree.
- *Units*: a poweroff for a CRITICAL chip and for nothing else, and one that
  comes in the end although units fail, are refused and are cancelled.
- *Load*: an exception, an interrupt or a stubborn child at any point must not
  leave the card under load.

`PROJECT.json` lists the hazards one by one, each at its line.

## 2. The modules

| Module | What it is |
|---|---|
| `AstralSurface` | abstract: what userspace may see of the driver |
| `AstralHwmon` | the driver's lifecycle, with its refinement mapping to `AstralSurface` |
| `AstralMachine` | the lifecycle on a machine whose adapters are described as `AstralDetect` wants them, and what the oracle sees there |
| `AstralHwmonProofs`, `AstralSurfaceProofs` | the theorems about the lifecycle; those about what is seen from outside: the refinement and the oracle |
| `AstralCache`, `AstralCacheProofs` | the read path and its theorems |
| `GuardLevels` | levels, exit codes and severities, shared by the two guard modules |
| `AstralGuard`, `AstralGuardProofs` | the rules and their theorems |
| `ReadingLemmas` | lemmas on minima, maxima and sums of readings, for `AstralGuardProofs` |
| `AstralGuardMain` | one run of the guard |
| `AstralPoweroff`, `AstralPoweroffProofs` | extends `AstralGuardMain`: the units around the runs; the theorems about both |
| `AstralDetect` | operators: the driver's and the oracle's search for the sensor's adapter |
| `AstralChannels`, `AstralChannelsProofs` | from the register block to a reader's sample, both decoders |
| `AstralLoad`, `AstralLoadProofs` | `run_burn()` and its theorems |
| `MCAstralHwmon`, `MCAstralCache`, `MCAstralGuard`, `MCAstralChannels` | instances for TLC; the first is one of `AstralMachine` |

The definitions marked `Mutant:` are deliberate mistakes (a dropped guard, a
missing reset); no specification uses them. Put in the place of the definition
they vary, each makes TLC report the property it is listed with, which shows
that the property can fail.

### AstralHwmon

Variables carry the names of the C statics; `probe_work` is the delayed work's
pending bit. `pc` says where each of three threads is: `loader` (module_init,
then module_exit), `worker` (one work item never runs concurrently with itself)
and `host` (the GPU driver in `i2c_add_adapter()` or `i2c_del_adapter()`; one
such call at a time). A section under `astral_lock` that cannot block is one
step that needs the lock free; `module_exit` is the only thread that holds it
across steps, because it calls `i2c_unregister_device()` under it.

| Code | Actions |
|---|---|
| `astral_probe_once` | `ProbeBusy` or `ProbeClaim`, `Walk`, `GetAdapter`, `Recheck`, then the attach, `Settle`, `Put` |
| `astral_attach` | `NewClient`, `Publish`, `Refresh`, `Register`; on failure `Unpublish`, `UnregisterNotify`, `UnregisterFree` |
| `astral_init` | `Load`, a probe pass, `InitCheck`, `Schedule` |
| `astral_exit` | `ExitNotifier`, `ExitCancel`, `ExitFlush`, `ExitLock`, `ExitTeardown`, `ExitRelease` |
| `astral_probe_worker` | `WorkStart`, a probe pass, `WorkCheck`, `WorkTally`, `WorkRequeue` or `WorkGiveUp` |
| `astral_bus_notify` | `HostNotifyAdd`, `HostRearm`; the DEL case is `NotifyDel`, part of whichever step deletes a client |
| i2c core, GPU driver | `HostAdd`, `HostDelete`, `HostDelNotify`, `HostFreeClient`, `HostDelist`, `HostDrain` |
| chip, allocator | `HealthChange`: while `healthy` is false an attach may fail at each of its steps |

`i2c_unregister_device()` is two steps, the DEL notification and the freeing,
because other threads run in between. A client is freed by exactly one of the
module and the host; a second unregistration is undefined behaviour in the
kernel, and the model stops the thread at `"oops"` where it would happen, so
that it shows as a state. `bus` survives `listed`: a deleted adapter's number is
reusable only after its last reference is dropped. `Walk` may choose any
candidate, since the order of `i2c_for_each_dev()` is the order of registration.

An adapter goes away with its driver, and unloading that driver waits for the
module references `i2c_get_adapter()` took. The other way for an adapter to go, a
GPU reset that deletes it while its driver stays, is left out: the repository
documents the window it opens and accepts it (`docs/STATUS.md:69-76`).

`AstralSurface` has four variables: whether the module is in, the adapters, the
one being deleted and the buses that show a sensor chip. Under the mapping the
module is "in" until its worker has been waited for, because until then an
attach that had begun may still finish.

### AstralCache

`Locked(t)` is `astral_refresh_locked()` and the copy under one hold of the
mutex, by a reader or by the attach: `CacheHit` or `Transfer`, then `Commit` or
`TransferFails`, then `Copy`. A frame is either the zeros of a fresh allocation
or `measured`. `jiffies` counts modulo `Modulus`, `TimeBefore` is the signed
comparison `time_before()` makes, and time passes between any two steps, during
a transfer too. `age` is history: nothing reads it but the
properties and the bound on `Tick`.

That bound is the assumption `MaxIdle`: a valid frame is looked at before its
age passes half the range of `jiffies`. On a 64-bit kernel that is no
restriction. On a 32-bit kernel with HZ=1000 a frame left unread for 24.8 days
looks fresh again; `time_before()` promises nothing there, and neither does the
model.

### AstralGuard

`Init` chooses the samples and the two limits the command line can move; the
rest of `guard_eval()` is deterministic. `Scan` counts one sample for all tests
(`hits`) and keeps the extremes (`worst`). Then each rule reports in the order
of the code, R1 and R2 once per pin. Ratios are compared by cross-multiplication
as the code does, and `Add` is `add()` with its bounded array.

### AstralGuardMain

The driver's cache is reduced to the age of the chip's current frame, `TTL`
standing for "not fresh". `ReadAttr` reads one attribute and takes a new frame
if there is no fresh one; `OtherReader` is any other process that does so. The
rules may answer with any level (`Evaluate`): what they answer is `AstralGuard`'s
question. `readBy` is history, the samples that read the current frame.
`FindChips` finds some chips `present`, of which `named` give their name: an
entry whose `name` cannot be read is passed over without a word, as a chip that
goes away during the scan is (`NamesRead`, `guard_sysfs.c:93`). It lists those,
up to `MaxChips` (`Listed`), and each has the interval it gave or, if that could
not be read, the default. A chip that goes away after it was listed fails its
sample (`ReadFails`).

### AstralPoweroff

The units as an administrator enables them: `OnFailure=` and
`SuccessExitStatus=` uncommented. `check` and `act` are the two units. Inside
`check = "running"` the steps are those of `AstralGuardMain` (`GuardRuns`,
`OthersRead`, `TimePasses`); `CheckExits` is systemd sorting the exit status,
`CheckBreaks` a unit that fails otherwise (no such binary, a signal). `act`
walks through the commands of `astral-guard-poweroff.service` in their order;
each step of the unit is one action, with its failure where the unit does not
ignore it: `wall`, `sleep` and `systemctl` have no leading `-`. systemd is external: a start of a unit that is already starting is
merged, a failed or cancelled oneshot unit can be started again, and
`MONITOR_EXIT_STATUS` is that of the run which started it, set anew by
each activation. `cause` is history.

### AstralDetect

No state: `astral_detect.c` and `discover.py` as operators over adapters
`[parent, name]`. `AstralMachine` describes the adapters of the host and of the
board in these terms, so that the sets `CardAdapters` and `SensorNamed` of the
lifecycle are what the driver's operators answer, and compares the chip that
results with what the oracle's operators find in sysfs at that moment.
`MCAstralHwmon` gives it three adapters and the board's SMBus.

### AstralChannels

`Block` is how the chip lays out its registers, `Transfer` what a block read may
come to, `DecodeFrame` and `OracleReads` the two decoders, `Value` the
attributes, `GuardNext`, `OracleNext` and `SensorsNext` the order in which three
readers take them and where they put them. Bytes are kept, since their order is
the question. `ReadCached`, `ReadTransferred` and `ReadRefused` are one read of
one attribute; the chip and the age of the frame change between any two. `of`
and `seen` are history: what was measured for the frame, and for the sample.
Driver, guard and oracle have bounds of their own, three groups of constants;
`MCAstralChannels` gives each the numbers its own source has.

### AstralLoad

`pc` is where `run_burn()` is, inlined with `sample_until()` and `_stop_burn()`.
Time passes only where the code takes time, and `left` says how much at most: in
the sampler, in `nvidia-smi`, in the sleep and in `proc.wait()`. The chip is
measured at some moment of the sampler's time. An interrupt may come at every
step; `strayed` records one at a point the `try` statement does not cover (before
it is entered, in its `except` clause before `aborted` is set, in its `finally`
clause). The load is on until the child ends or has been sent SIGKILL; a signal
is not sure to end the process, which may be in the GPU driver. `exposed` and
`unseen` are history.

## 3. What the runs check

| Run | States | What it asks |
|---|---|---|
| `hwmon_lifecycle` | 740,872 | all safety properties of the lifecycle, `NeverDormant`, that the driver implements `AstralSurface`, and that driver and oracle mean the same chip |
| `hwmon_progress` | 85,108 | liveness, and no foreign bus, with `bus=` pinning a number two adapters take turns on |
| `hwmon_exit_race` | violated | module_exit meets a client a deletion is freeing |
| `hwmon_lost_rearm` | violated | an adapter announced during a failing attach is forgotten |
| `hwmon_stage_report` | violated | the worker reports a stage it did not look at |
| `cache_reads` | 24,368 | safety of the cache with two readers and the attach, and that every read returns |
| `guard_rules` | about 125,000 | the verdict, the rating and the quoted values for every run of up to two samples |
| `poweroff` | 164,244 | runs of the guard under the timer, the interlock, and that the protection acts |
| `poweroff_warning` | violated | a warning that cannot be given keeps the machine on |
| `channels` | 39,600 | no value moves to another pin; the decoders agree; the guard takes what is published |
| `burn` | 59,609 | how long the card may be loaded too high or unwatched, and that nothing is left running |
| `burn_danger` | violated | a dangerous reading waits for nvidia-smi |

Properties of `hwmon_lifecycle`: `ForeignBusUntouched` (traffic only on a bus of
a recognised card, however often numbers change hands), `AttachClientLive`,
`PublishedLive` (`astral_client` never dangles while the notifier is there),
`NoLeakedClient`, `SensorsOwned` (a failed attach leaves no hwmon device),
`ClaimBalanced`, `ReferencePins`, `UnloadClean`, `NeverDormant` (with the timer
down and nobody about to arm it, the retries are spent or the card offers no
adapter), `ImplementsSurface` and `OracleFindsTheChip` (a chip the driver shows
is on the one number the oracle would answer, and on none the tests take for
foreign or chipless).

Of the cache: `FreshMeansFresh`, `CopyIsValid`, `ZerosNeverRead`, `CommitSpacing`
(what readers see changes at most once per TTL) and `ReadReturns`. Of the rules:
`VerdictIsWorst`, `RatingIsALimit`, `FindingsQuoteTheWorst`. Of the runs under the
timer: `IndependentSamples`, `ExitIsWorst`, `BlindIsNeverOk` (no chip once listed is
lost in an OK, none that gave its name left out while there is room), `PoweroffJustified`
(past the interlock only after a CRITICAL chip), `CheckEnds`, `CriticalActs` (if
every check sees a CRITICAL chip and nobody interferes any more, the machine goes
down, whatever refusals and cancellations came before). Of the channels:
`SampleOfThePins`, `OracleAgrees`, `GuardTakesWhatIsPublished` (the guard's copy
of the bounds refuses nothing the driver lets through, and no reader gets a
voltage or a current outside them). Of the load:
`ExposureBounded` (two rounds of transfer and query and one sleep),
`SightBounded`, `NothingRunsOn`, `BurnReturns`. TLC reaches both bounds of the
load exactly: with one tick less each is violated.

A sample may still mix two frames, values of pin 1 with later ones of pin 2:
`SampleOfThePins` says that this is all that can happen.

### Bounds, and why they are enough

- *Lifecycle*: two bus numbers, three adapters, two clients, `MaxAdds = 3`
  registrations, `RetryLimit = 2`. A number can change hands twice and go to the
  sensor adapter, to another adapter of the card and to a foreign one that bears
  the sensor's name, which is every mistake the two gates can make. Two clients
  suffice because at most one is published and one is being torn down; a third
  registration lets the card return after a failed or completed attach. A retry
  limit of 2 separates the first failure from the last. `astral_attempts` has no
  bound of its own: it grows with failed passes, of which there are at most
  `RetryLimit + 3` per reset (`SearchIsBounded`, attained in this run), and resets
  come with registrations. Symmetry in
  clients and numbers is sound there: the run has no temporal property but
  safety ones, `bus=` is on auto, and nothing chooses between numbers.
- *Progress*: one number that `bus=` pins, one card adapter, one foreign
  adapter that bears the sensor's name, one client, two registrations, no
  symmetry. Liveness is about a deletion, a return and an unload in any order.
- *Cache*: `Modulus = 8`, `TTL = 3`, `MaxIdle = 6` are the largest values that
  satisfy the assumption for a counter of 8, so every `last_updated` is tried
  against every wrap. Two readers and the attach give every pair of roles.
- *Rules*: two pins, up to two samples, room for two findings, so that the array
  is full before the third rule reports. The code's array cannot fill today
  (`guard_eval.c:61-66`); a small one checks the order `add()` has for that day. The currents include 9.2 and 9.5 A and
  values on both sides of each gate and ratio; the gates are scaled to two pins.
  The proof covers all sizes.
- *Units and runs*: room for two chips and up to three present, two samples, a
  TTL of two ticks and intervals below and at it. Two chips put a critical, an
  unreadable and a healthy one in either order, and a third one overflows the
  array; each may fail to give its name. Two attributes stand for twelve: a first and a last one. The
  notification hook is in use, the delay two ticks. Nothing is bounded in the
  units: checks, cancellations, starts by hand and reboots repeat for ever.
- *Channels*: two pins, so that order matters, with the real bounds in each of
  their three copies. A pin takes
  one of five pairs: both values within, on one end or the other, and one value
  just past a bound. The all-zeros, the short and the failed transfer are there.
- *Load*: transfer 2, query 3, sleep 1, grace 2 and a burn of 5 ticks, all
  different enough that a bound made of the wrong ones is off; two interrupts,
  so that one can hit the handling of another. Three levels of current: below,
  at and above the threshold.

### Fairness, and why the code justifies it

- `AstralHwmon!Fairness`: weak fairness for each thread: a runnable thread runs,
  an armed timer fires, a call begun goes on. Loading, unloading, adding and
  deleting adapters and the chip's health have none. A step that waits for
  `astral_lock` waits for `module_exit` at most, which finishes; weak fairness
  is enough as the lock is otherwise never held across steps. `ExitCompletes`
  allows `"oops"`, the end of `hwmon_exit_race`: what a kernel does there is
  not defined.
- `RearmAttaches` is conditional: the chip answers from then on, no adapter is
  being deleted and the module stays.
- `AstralCache!Fairness`: strong fairness per thread for the section under the
  mutex. A transfer ends because the adapter has a timeout, and a kernel mutex
  hands over to a waiter that was passed over.
- `AstralPoweroff!PoweroffFairness`: the timer fires, the guard's process is
  scheduled and its clock runs, systemd goes on from one command to the next.
  Nobody has to cancel, start by hand or switch the machine on. Reads of sysfs
  return, since a transfer is bounded by the adapter's timeout.
- `AstralLoad!FairSpec`: the program and its clock run; the burn ends by itself
  once its seconds are over and it has not been signalled. No signal is sure to
  end it, so `BurnReturns` rests on the grace periods alone after a SIGKILL.
  A query ends within its timeout: `subprocess.run()` kills an `nvidia-smi` that
  exceeds it and then waits for it with no timeout, so one that SIGKILL does not
  end holds the loop longer. The two bounds and `BurnReturns` assume that this
  does not happen.

## 4. Where the code and its comments disagree

Five runs end in a violation of what a comment or document says. `PROJECT.json`
quotes each of them.

1. `astral_exit()` unregisters the notifier before it takes `astral_client`, so
   a deletion at that moment frees the client with nobody to clear the pointer
   (`hwmon_exit_race`).
2. An adapter announced while an unproven client is published neither resets the
   counter nor pushes the timer out. If that attempt fails and was the last, the
   worker gives up (`hwmon_lost_rearm`).
3. A pass that found the claim taken has not looked, yet the worker reports that
   it waits for the NVIDIA driver's adapters and spends the one report of the
   cycle (`hwmon_stage_report`).
4. The poweroff unit calls `wall` without the leading `-` its optional
   notification has, so a warning that fails keeps the machine on
   (`poweroff_warning`); the hook's comment says that must never happen.
5. `sample_until()` asks `nvidia-smi`, for up to five seconds, between reading the
   pins and comparing them with the threshold, so sampling does not stop
   "immediately" (`burn_danger`). `ExposureBounded` says how late it can be.

Met on the way and not given a run of their own:

- `guard_find_chips()` passes over a chip whose `name` cannot be read, and those
  that come after the array is full, without a word; the run may exit OK on the
  others. `docs/GUARD-DESIGN.md:361-362` says that the absence of the chip is a
  fault state; the code keeps to that for the last chip only. `BlindIsNeverOk`
  says that there is no third way.
- The cache TTL limits successful transfers only: a chip that fails is asked
  again by every read.
- `--interval` accepts values under the cache TTL; persistence then compares
  copies of one frame. `IndependentSamples` asks about the other intervals.
- The comment in `astral-guard.service:14-15` says of `OnFailure=` and
  `SuccessExitStatus=` that neither works without the other. `OnFailure=` alone
  does act on status 2; without the list the interlock refuses 1 and 3.
- `find_chipless_nvidia_adapter()` ignores `allow_unknown`.

## 5. What is proved

All theorems are about the modules as checked, for every value of the constants
that meets the named assumption.

| Theorem | States | Assumes |
|---|---|---|
| `TypeCorrect`, `NoForeignBus`, `AttachSafe`, `NeverDangles`, `NothingLeaks`, `SensorsHeld`, `OneClaim`, `PinsHold`, `CleanUnload` | the safety invariants of the lifecycle but for the two below | `ConstantsAssumption` |
| `WakeUpNeverLost` | `NeverDormant` | the same, and `OneSensor`: `bus=` is given, or one adapter of one card has the sensor's name |
| `OnlyTheSpareCard` | `NeverDormant` on any machine, as long as a chip that is deleted leaves no other number to try (`LastToGo`) | the same without `OneSensor` |
| `SearchIsBounded` | at most `RetryLimit + 3` failed passes are counted before a reset | the same, `RetryLimit > 1` (the code's is 15) |
| `OnlyTheExitRace`, `OnlyTheUnheardAdd` | `ExitClientLive` and `GiveUpAfterLastAdd`, which two runs violate, in behaviours without the step those runs show | the same; the second with `RetryLimit > 1` |
| `RefinesSurface`, `UserspaceCanRely` | `AstralHwmon` implements `AstralSurface`, and so keeps its `SurfacePromise` | the same |
| `OracleAgrees` (lifecycle) | `OracleFindsTheChip` | the same, `MachineAssumption` and `TestedMachine`: `bus=` on auto, one sensor adapter, its card in the table, no letter after its number |
| `CacheTyped`, `CacheIsFresh`, `CopiesValid`, `OnlyMeasured`, `CommitsSpaced` | the safety properties of the cache | `CacheAssumption` |
| `VerdictSound`, `GuardTypeCorrect`, `RatingRespected`, `WorstQuoted` | all properties of the rules | `GuardAssumption` |
| `RunTyped`, `SamplesIndependent`, `ExitSevere`, `NeverBlindlyOk` | the safety properties of a run | `GuardMainAssumption` |
| `UnitsTyped`, `PoweroffIsJustified`, `EveryRunKeepsItsPromises` | `PoweroffTypeOK`, `PoweroffJustified`, and the properties of a run for each run under the timer | `GuardMainAssumption`, `PoweroffAssumption` |
| `EverySampleIsOfThePins` | `SampleOfThePins` | `ChannelsAssumption` |
| `GuardNeverRefuses` | `GuardTakesWhatIsPublished` | the same, `GuardNoTighter`: the guard's bounds take in the driver's |
| `DecodersAgree` | `OracleAgrees` | the same, `OracleSameRanges`: the oracle's ranges are the driver's bounds |
| `ExposureIsBounded`, `SightIsBounded`, `NoLoadIsLeft` | the safety properties of the load | `LoadAssumption` |

The arguments:

- *Lifecycle.* No safety property is inductive by itself. `IInv` adds which
  loader states exclude a notifier, a queued run and a running worker
  (`LoaderState`), that an adapter with a reference is not being deleted
  (`ReferenceState`), that clients sit alone on listed adapters of the card
  (`ClientState`), and what `astral_client` is at each step of an attach
  (`AttachState`). The last is the heart of it: from `Publish` to `Unpublish`
  the pointer is the attach's client, and from the claim to `Publish` it is
  `None`, which holds only because passes exclude each other and the pinned
  adapter cannot be deleted. The rest follow from `IInv`.
- *Search.* `NeverDormant` speaks of a moment when every thread sleeps; what
  leads there is `WInv`. `Wakeful` drops the host from that condition: an adapter
  nobody will look at is one the host has yet to announce or is taking away.
  `TallyCurrent` covers a worker that gives up on a copy of the counter that a
  notification has reset since: then the timer is about to be armed. The one step
  that breaks `Wakeful` is the deletion of the published chip while another card
  has an adapter to try, since the notifier asks for no run then; `LastToGo`
  excludes that step, and `OneSensorGoesLast` shows that on a machine with one
  sensor adapter it cannot happen. `RetryState` adds up the passes that may still
  be counted: the loader's own and the one it schedules, the worker's, a queued
  one and one a notification is about to queue.
- *The two races.* `HeldClientLive` and `SearchFresh` are the invariants that
  only the steps of `hwmon_exit_race` and `hwmon_lost_rearm` break. So those runs
  do not show two instances of something wider: closing these two windows closes
  all of them.
- *Oracle.* `SameSelection`: on a tested machine the oracle's selection of
  numbers is the driver's. The chip's number is in it (`ClientState`), and it is
  the only one, because no adapter has two numbers (`OneNumber`).
- *Refinement.* Under `IInv` each step is a step of `AstralSurface` or leaves
  the four mapped variables alone (`Invisible`). `ChipsShown` supplies the fact
  that only the published client, or one the host is tearing down, is shown.
- *Cache.* `CInv` ties the age of a valid frame to how far `jiffies` moved since
  its commit (`ClockState`); `JiffiesHonest` is the arithmetic that turns this
  into freshness. `PhaseState` keeps readers and the attach apart; it is why
  the zeros of the allocation never count as a frame.
- *Rules.* `Counted` says that a counter equals the number of samples exactly
  if the test held in each; `LevelComplete` and `LevelSound` carry the verdict
  over the rules already reported. Neither mentions the array of findings: its
  capacity cannot matter. `FInv` says that `worst` holds the extremes of the
  samples scanned so far and that every finding reported quotes one of them;
  `RatioIsPercent` is why the 100 the scan starts from hides no ratio: that of a
  comparable sample is at most 100. What minima, maxima and sums of
  finite sets are, whatever their size, is `ReadingLemmas`, by a minimal
  counterexample: the community modules define them by `CHOOSE` and by a fold.
- *Run.* `FrameInv` says that the nap left is no shorter than what the frame
  has to live, `ChipInv` and `FoldInv` that the verdicts so far are those of the
  chips before this one and `worst` their maximum.
- *Units.* The invariant of a run, `RInv`, holds when there is no process
  (`ProcessEnds`) and at the start of each (`ProcessBegins`), so it holds of all
  runs. `CauseInv` adds that a unit waiting at its interlock with status 2 was
  started by a CRITICAL run: `RInv` turns the exit status into a verdict.
- *Channels.* `TwoBytes` and `GroupReads` undo the byte and pin order of the
  block, `FrameOfTheChip` that of the decoder, `ReadsBelong` the numberings of
  the attributes. With those `SampleInv`, which says that the cached frame is
  the decoded block of an acceptable chip, is inductive. The two theorems about a second
  copy of the bounds say what the copy must satisfy; that the numbers of the
  sources do, `channels` shows.
- *Load.* `ExposureState` and `SightState` bound the histories at every `pc` by
  the time already used of each stay (`LeftState`); `StopState` follows the child
  from the `try` statement to SIGKILL. Neither bound is inductive without the
  other pcs, since a pin that rises just after it was measured stays for most of
  two rounds.

## 6. What is only model-checked

- Liveness (`ExitCompletes`, `SearchEnds`, `RearmAttaches`, `ReadReturns`,
  `CheckEnds`, `CriticalActs`, `BurnReturns`): needs ENABLED, which TLAPS does
  not reason about.
- That the bounds `SearchIsBounded`, `ExposureIsBounded` and `SightIsBounded`
  state are attained.
- The violations of section 4 are single behaviours TLC found.

## 7. What the models leave out

- GPU resets that delete an adapter under a loaded driver (section 2).
- `allow_unknown` is a parameter of `AstralDetect`; the runs have it off. An
  adapter's name is a number and what surrounds it, not characters; the eight
  rows of the model table are a set.
- `astral_is_visible()` and log wording, except for which stage is reported.
- The guard's option syntax (an option is refused or not), `--version` and
  `--help`, report formatting.
- Two recognised cards at once are in no run. `NeverDormant` is checked with one
  sensor adapter; with a second card, an adapter announced while the first card's
  chip is held is not looked at again when that chip goes away. `OnlyTheSpareCard`
  says that this is the only way to lose a wake-up.
- Why `guard_find_chips()` yields the chips it does when there are more than
  fit: it stops in `readdir()` order and sorts after.
- systemd beyond what the units rely on: job queues, start limits, a second
  unit with `OnFailure=` on the same unit. The unopted defaults, where nothing
  is ever powered off.
- Interrupts at the few points of `run_burn()` its `try` statement does not
  cover: modelled (`strayed`), and excluded by the properties.

## 8. Plan and its order

Done, in this order: the lifecycle with its abstract surface, the cache, the
rules, the run, detection, the units, the channels, the load, and the theorems
above. What is left:

1. A run with two cards: how long a spare card can go unseen (`LastToGo`).
2. A second instance of `AstralMachine` with `allow_unknown` on.
3. Safety lemmas towards the liveness properties: what decreases on the way.

## 9. Not modelled, and why

- `guard/guard_report.c`: formats a finished verdict; no state and no ordering.
- `src/astral_oracle/modctl.py`: `modprobe`, `modprobe -r` and a path check; what
  they set off is the lifecycle's `Load` and `ExitNotifier`.
- The opening of files and the ioctl in `i2c.py`, `find_hwmon_dir()` in
  `hwmon.py`: pure input; their outcomes are modelled where they are used.
- `tests/`, `docs/`, `tools/` (but for `burn.cu`), `scripts/`: read for what they
  say the code should do.
