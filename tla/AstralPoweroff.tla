--------------------------- MODULE AstralPoweroff ---------------------------
(***************************************************************************)
(* The example units of src/examples, as an administrator enables them:    *)
(* the timer starts the check unit, which runs the guard (AstralGuardMain);*)
(* a run systemd counts as failed starts the poweroff unit (OnFailure=),   *)
(* which asks why, warns, waits and powers the machine off.                *)
(*                                                                         *)
(* The units run side by side. A start of a unit that is already starting  *)
(* is merged with it, so it changes nothing.                               *)
(***************************************************************************)
EXTENDS AstralGuardMain

CONSTANTS
    Delay,          \* the sleep between the warning and the poweroff
    Notify          \* is the line of astral-guard-notify.sh uncommented?

ASSUME PoweroffAssumption == Delay \in Nat /\ Notify \in BOOLEAN

VARIABLES
    check,          \* astral-guard.service
    act,            \* astral-guard-poweroff.service, by its command at work
    status,         \* MONITOR_EXIT_STATUS of its activation
    left,           \* what is left of its sleep
    cause           \* history: a chip was CRITICAL in the run that started it

activation == <<status, left, cause>>
unitVars == <<check, act, activation>>
allVars == <<vars, unitVars>>

Critical == "CRIT" \in {verdicts[n] : n \in 1 .. Len(verdicts)}

(* Statuses of a run: the guard's own, or one that is not the guard's: 203 *)
(* when there is no such binary, a signal.                                 *)
NotTheGuards == 203
ByHand == -1

(* Ended activations: by what ended them. All but "inactive" are systemd's *)
(* "failed".                                                               *)
Ended == {"inactive", "refused", "unwarned", "unwaited", "cancelled", "stuck"}
Acting == {"notify", "wall", "sleep", "poweroff", "off"}

(* A process that has not begun: main()'s variables at their first values. *)
NewProcess ==
    /\ pc' = "arguments" /\ worst' = "OK"
    /\ present' = 0 /\ named' = 0 /\ found' = 0
    /\ chip' = 1 /\ k' = 1 /\ attr' = 1 /\ update_interval' = TTL
    /\ asleep' = 0
    /\ readBy' = {} /\ verdicts' = <<>>

(* No process: its variables stand at values of no meaning.                *)
NoProcess ==
    /\ NewProcess
    /\ samples' = 1 /\ age' = TTL
    /\ interval' = CHOOSE ms \in Intervals : TRUE

UnitsInit ==
    /\ check = "inactive"
    /\ act = "inactive"
    /\ status = ByHand
    /\ left = 0
    /\ cause = FALSE

PoweroffInit == Init /\ UnitsInit

-----------------------------------------------------------------------------
(* astral-guard.timer and astral-guard.service                             *)

(* The timer elapses, or somebody runs the check by hand.                  *)
CheckStart ==
    /\ act # "off"
    /\ check = "inactive"
    /\ check' = "running"
    /\ NewProcess
    /\ samples' \in 1 .. MaxSamples
    /\ interval' \in Intervals
    /\ age' \in 0 .. TTL
    /\ UNCHANGED <<act, activation>>

GuardRuns == check = "running" /\ Run /\ UNCHANGED unitVars

TimePasses == check = "running" /\ Tick /\ UNCHANGED unitVars

OthersRead == check = "running" /\ OtherReader /\ UNCHANGED unitVars

(* A start of the poweroff unit, with a status and for a cause.            *)
Activate(st, why) ==
    IF act \in Ended
    THEN act' = "interlock" /\ status' = st /\ cause' = why /\ left' = 0
    ELSE UNCHANGED <<act, activation>>

(* Mutant: a range instead of a list.                                      *)
SuccessExitStatusToo == 0 .. 3

SuccessExitStatus == {0, 1, 3}

(* The guard exited: systemd sorts its status into success and failure.    *)
CheckExits ==
    /\ check = "running" /\ pc = "exit"
    /\ check' = "inactive"
    /\ IF ExitCode[worst] \in SuccessExitStatus
       THEN UNCHANGED <<act, activation>>
       ELSE Activate(ExitCode[worst], Critical)
    /\ NoProcess

(* The check unit fails on something else than the guard's exit status.    *)
CheckBreaks ==
    /\ check = "running"
    /\ check' = "inactive"
    /\ Activate(NotTheGuards, FALSE)
    /\ NoProcess

-----------------------------------------------------------------------------
(* astral-guard-poweroff.service                                           *)

(* systemctl start astral-guard-poweroff.service: no monitored unit.       *)
StartByHand ==
    /\ act \in Ended
    /\ Activate(ByHand, FALSE)
    /\ UNCHANGED <<vars, check>>

(* The next command of the unit; or its end.                               *)
Command(from, to) == act = from /\ act' = to /\ UNCHANGED activation
End(from, how) ==
    /\ act = from /\ act' = how
    /\ status' = ByHand /\ left' = 0 /\ cause' = FALSE

FirstWarning == IF Notify THEN "notify" ELSE "wall"

(* Mutant: no interlock.                                                   *)
InterlockOpen ==
    /\ Command("interlock", FirstWarning)
    /\ UNCHANGED <<vars, check>>

(* ExecStartPre=/bin/sh -c 'test "$MONITOR_EXIT_STATUS" = 2'               *)
Interlock ==
    /\ IF status = ExitCode["CRIT"]
       THEN Command("interlock", FirstWarning)
       ELSE End("interlock", "refused")
    /\ UNCHANGED <<vars, check>>

(* The leading '-': whatever becomes of it, the unit goes on.              *)
DesktopNotified == Command("notify", "wall") /\ UNCHANGED <<vars, check>>

(* wall has no leading '-'.                                                *)
Wall ==
    /\ \/ /\ act = "wall" /\ act' = "sleep"
          /\ left' = Delay
          /\ UNCHANGED <<status, cause>>
       \/ End("wall", "unwarned")
    /\ UNCHANGED <<vars, check>>

(* Nor has sleep.                                                          *)
Sleeping ==
    /\ \/ /\ act = "sleep" /\ left > 0
          /\ left' = left - 1
          /\ UNCHANGED <<act, status, cause>>
       \/ left = 0 /\ Command("sleep", "poweroff")
       \/ End("sleep", "unwaited")
    /\ UNCHANGED <<vars, check>>

(* systemctl poweroff, which may fail like any command, takes everything   *)
(* down with it.                                                           *)
Poweroff ==
    \/ Command("poweroff", "off") /\ check' = "inactive" /\ NoProcess
    \/ End("poweroff", "stuck") /\ UNCHANGED <<vars, check>>

(* systemctl stop astral-guard-poweroff.service                            *)
Cancel ==
    /\ \E command \in {"interlock", "notify", "wall", "sleep"} :
          End(command, "cancelled")
    /\ UNCHANGED <<vars, check>>

(* The machine is switched on again, perhaps with the fault in place.      *)
Boot == End("off", "inactive") /\ UNCHANGED <<vars, check>>

UnitStep == Interlock \/ DesktopNotified \/ Wall \/ Sleeping \/ Poweroff

PoweroffNext ==
    \/ CheckStart \/ GuardRuns \/ TimePasses \/ OthersRead
    \/ CheckExits \/ CheckBreaks
    \/ UnitStep \/ StartByHand \/ Cancel \/ Boot

PoweroffSpec == PoweroffInit /\ [][PoweroffNext]_allVars

(* The timer fires, the guard and its clock run, systemd goes on from one  *)
(* command to the next. Nobody has to cancel, or switch on again.          *)
PoweroffFairness ==
    /\ WF_allVars(CheckStart)
    /\ WF_allVars(CheckExits)
    /\ WF_allVars(GuardRuns)
    /\ WF_allVars(TimePasses)
    /\ WF_allVars(UnitStep)

FairPoweroffSpec == PoweroffSpec /\ PoweroffFairness

-----------------------------------------------------------------------------

(* Every variable of the units has its type, beside those of a run; an     *)
(* activation has a status of a run, or none at all.                       *)
PoweroffTypeOK ==
    /\ TypeOK
    /\ check \in {"inactive", "running"}
    /\ act \in Ended \cup Acting \cup {"interlock"}
    /\ status \in {ByHand, NotTheGuards} \cup (0 .. 3)
    /\ left \in 0 .. Delay
    /\ cause \in BOOLEAN

(* The poweroff unit gets past its interlock only in an activation by a    *)
(* run of the guard in which a chip was CRITICAL, whatever broken checks,  *)
(* starts by hand and cancellations came in between                        *)
(* (astral-guard-poweroff.service:7, 48-59).                               *)
PoweroffJustified == act \in Acting => cause

(* A run of the check unit ends.                                           *)
CheckEnds == check = "running" ~> check = "inactive"

(* Somebody or something interferes with the protection.                   *)
Interference ==
    \/ CheckBreaks \/ StartByHand \/ Cancel
    \/ act' # act /\ act' \in {"unwarned", "unwaited", "stuck"}

(* A machine whose every check sees a CRITICAL chip, another one unreadable*)
(* or not, goes down in the end, unless the protection keeps being         *)
(* interfered with: an earlier refusal, cancellation or failed unit does   *)
(* not disarm it (astral-guard-poweroff.service:29-34).                    *)
CriticalActs ==
    /\ <>[](pc = "exit" => Critical)
    /\ <>[][~Interference]_allVars
    => []<>(act = "off")

(* "failing to warn must never stop the machine from protecting itself",   *)
(* astral-guard-notify.sh:24: no activation ends for want of a warning.    *)
WarningNeverStops == act # "unwarned"
=============================================================================
