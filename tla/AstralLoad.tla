----------------------------- MODULE AstralLoad -----------------------------
(***************************************************************************)
(* run_burn() of src/astral_oracle/load.py: a CUDA program that loads the  *)
(* card, sampled until it ends, and stopped at once when a pin reaches     *)
(* ABORT_MA, the sampling fails or the operator interrupts.                *)
(*                                                                         *)
(* Only what takes time lets time pass: the sampler, nvidia-smi, the sleep *)
(* and the wait for the child. An interrupt is a KeyboardInterrupt where   *)
(* Python raises one, at a call or while it waits.                         *)
(***************************************************************************)
EXTENDS Integers

CONSTANTS
    Seconds,        \* how long the burn runs if it is let
    TransferTime,   \* the sampler takes no longer than this
    PowerTimeout,   \* the timeout of nvidia-smi, if SIGKILL then ends it
    Interval,       \* the sleep between two samples
    Grace,          \* the timeout of proc.wait()
    MaxInterrupts   \* bound: KeyboardInterrupts

ASSUME LoadAssumption ==
    /\ Seconds \in Nat /\ TransferTime \in Nat /\ PowerTimeout \in Nat
    /\ Interval \in Nat \ {0} /\ Grace \in Nat /\ MaxInterrupts \in Nat

VARIABLES
    pc,
    left,           \* what is left of the time pc may take
    reading,        \* the worst pin of the last sample
    aborted,
    interrupts,     \* how many there were
    child,          \* "none", "running", "zombie" or "reaped"
    signal,         \* the last signal sent to the child
    runs,           \* what is left of the child's seconds
    current,        \* what the worst pin carries
    exposed,        \* history: how long it has been at ABORT_MA or above, and
    unseen,         \* how long no pin was measured, with the load on
    strayed         \* history: an interrupt fell outside the try block

program == <<pc, left, reading, aborted>>
process == <<child, signal>>
history == <<exposed, unseen>>
vars == <<program, interrupts, process, runs, current, history, strayed>>

(* Below, at and above ABORT_MA.                                           *)
Levels == 0 .. 2
AbortLevel == 1

(* What bounds a stay: the transfer, the query, the sleep, and the wait.   *)
Timed == {"sampler", "measured", "power", "sleep", "wait"}
Untimed == {"popen", "spawned", "stop", "check", "raised", "finally", "over"}

Goto(label, time) == pc' = label /\ left' = time

Init ==
    /\ pc = "popen" /\ left = 0
    /\ reading = 0
    /\ aborted = FALSE
    /\ interrupts = 0
    /\ child = "none" /\ signal = "none"
    /\ runs = Seconds
    /\ current \in Levels
    /\ exposed = 0 /\ unseen = 0
    /\ strayed = FALSE

-----------------------------------------------------------------------------
(* run_burn(): no binary, no child.                                        *)
Popen ==
    /\ pc = "popen"
    /\ \/ child' = "running" /\ Goto("spawned", 0)
       \/ Goto("over", 0) /\ UNCHANGED child
    /\ UNCHANGED <<reading, aborted, interrupts, signal, runs, current,
                   history, strayed>>

EnterTry ==
    /\ pc = "spawned"
    /\ Goto("stop", 0)
    /\ UNCHANGED <<reading, aborted, interrupts, process, runs, current,
                   history, strayed>>

(* stop() polls the child, and so reaps it.                                *)
Stop ==
    /\ pc = "stop"
    /\ IF child = "running"
       THEN Goto("sampler", TransferTime) /\ UNCHANGED child
       ELSE child' = "reaped" /\ Goto("finally", 0)
    /\ UNCHANGED <<reading, aborted, interrupts, signal, runs, current,
                   history, strayed>>

(* The chip answers at some moment of the sampler's time.                  *)
Measure ==
    /\ pc = "sampler"
    /\ pc' = "measured"
    /\ reading' = current
    /\ unseen' = 0
    /\ UNCHANGED <<left, aborted, interrupts, process, runs, current, exposed,
                   strayed>>

SamplerReturns ==
    /\ pc = "measured"
    /\ Goto("power", PowerTimeout)
    /\ UNCHANGED <<reading, aborted, interrupts, process, runs, current,
                   history, strayed>>

(* Mutants: a sample that failed is skipped; or it leaves the burn alone.  *)
SamplerSkips ==
    /\ pc \in {"sampler", "measured"}
    /\ Goto("sleep", Interval)
    /\ UNCHANGED <<reading, aborted, interrupts, process, runs, current,
                   history, strayed>>

SamplerEscapes ==
    /\ pc \in {"sampler", "measured"}
    /\ Goto("over", 0)
    /\ UNCHANGED <<reading, aborted, interrupts, process, runs, current,
                   history, strayed>>

(* A FrameError, an I2cError, or whatever a caller's sampler raises.       *)
SamplerRaises ==
    /\ pc \in {"sampler", "measured"}
    /\ Goto("raised", 0)
    /\ UNCHANGED <<reading, aborted, interrupts, process, runs, current,
                   history, strayed>>

(* read_power() answers or degrades to None, in its own time.              *)
PowerReturns ==
    /\ pc = "power"
    /\ Goto("check", 0)
    /\ UNCHANGED <<reading, aborted, interrupts, process, runs, current,
                   history, strayed>>

(* Mutant: the threshold itself is let pass.                               *)
AboveAbort(level) == level > AbortLevel

ReachesAbort(level) == level >= AbortLevel

Check ==
    /\ pc = "check"
    /\ IF ReachesAbort(reading) THEN Goto("raised", 0) ELSE Goto("sleep", Interval)
    /\ UNCHANGED <<reading, aborted, interrupts, process, runs, current,
                   history, strayed>>

Sleep ==
    /\ pc = "sleep" /\ left = 0
    /\ Goto("stop", 0)
    /\ UNCHANGED <<reading, aborted, interrupts, process, runs, current,
                   history, strayed>>

(* except BaseException                                                    *)
Raised ==
    /\ pc = "raised"
    /\ aborted' = TRUE
    /\ Goto("finally", 0)
    /\ UNCHANGED <<reading, interrupts, process, runs, current, history,
                   strayed>>

-----------------------------------------------------------------------------
(* _stop_burn()                                                            *)

StopBurn ==
    /\ pc = "finally"
    /\ IF child = "running"
       THEN /\ signal' = IF aborted THEN "KILL" ELSE "TERM"
            /\ Goto("wait", Grace)
            /\ UNCHANGED child
       ELSE child' = "reaped" /\ Goto("over", 0) /\ UNCHANGED signal
    /\ UNCHANGED <<reading, aborted, interrupts, runs, current, history,
                   strayed>>

(* Mutant: the wait has no timeout.                                        *)
WaitForEver ==
    /\ pc = "wait" /\ child = "zombie"
    /\ child' = "reaped" /\ Goto("over", 0)
    /\ UNCHANGED <<reading, aborted, interrupts, signal, runs, current,
                   history, strayed>>

(* A terminated child that outlives the grace period is killed. A killed   *)
(* one that does is left to the kernel.                                    *)
Wait ==
    /\ pc = "wait"
    /\ \/ child = "zombie" /\ child' = "reaped" /\ Goto("over", 0)
          /\ UNCHANGED signal
       \/ child = "running" /\ left = 0 /\ UNCHANGED child
          /\ IF signal = "TERM"
             THEN signal' = "KILL" /\ Goto("wait", Grace)
             ELSE Goto("over", 0) /\ UNCHANGED signal
    /\ UNCHANGED <<reading, aborted, interrupts, runs, current, history,
                   strayed>>

-----------------------------------------------------------------------------
(* Ctrl-C: inside the try statement it is an exception like any other. In  *)
(* the except clause it comes before aborted is set; before the statement, *)
(* and in its finally clause, nothing catches it.                          *)
Interrupt ==
    /\ interrupts < MaxInterrupts
    /\ interrupts' = interrupts + 1
    /\ \/ /\ pc \in {"stop", "sampler", "measured", "power", "check", "sleep"}
          /\ Goto("raised", 0)
          /\ UNCHANGED strayed
       \/ /\ pc = "raised"
          /\ Goto("finally", 0)
          /\ strayed' = TRUE
       \/ /\ pc \in {"spawned", "finally", "wait"}
          /\ Goto("over", 0)
          /\ strayed' = (strayed \/ pc # "wait")
    /\ UNCHANGED <<reading, aborted, process, runs, current, history>>

(* The burn ends: its seconds are over, it failed, or a signal ends it. A  *)
(* process in the driver may be out of a signal's reach for any time.      *)
BurnEnds ==
    /\ child = "running"
    /\ child' = "zombie"
    /\ UNCHANGED <<program, interrupts, signal, runs, current, history,
                   strayed>>

CurrentMoves ==
    /\ current' \in Levels \ {current}
    /\ exposed' = IF current' < AbortLevel THEN 0 ELSE exposed
    /\ UNCHANGED <<program, interrupts, process, runs, unseen, strayed>>

LoadOn == child = "running" /\ signal # "KILL"

Tick ==
    /\ \/ pc \in Timed /\ left > 0 /\ left' = left - 1
       \/ pc = "over" /\ child = "running" /\ runs > 0 /\ UNCHANGED left
    /\ runs' = IF child = "running" /\ runs > 0 THEN runs - 1 ELSE runs
    /\ exposed' = IF LoadOn /\ current >= AbortLevel THEN exposed + 1 ELSE exposed
    /\ unseen' = IF LoadOn THEN unseen + 1 ELSE unseen
    /\ UNCHANGED <<pc, reading, aborted, interrupts, process, current, strayed>>

Main ==
    \/ Popen \/ EnterTry \/ Stop \/ Measure \/ SamplerReturns \/ SamplerRaises
    \/ PowerReturns \/ Check \/ Sleep \/ Raised \/ StopBurn \/ Wait

Next == Main \/ Interrupt \/ BurnEnds \/ CurrentMoves \/ Tick

Spec == Init /\ [][Next]_vars

(* The program and its clock run; the burn ends when its seconds are over. *)
(* No signal is sure to end it.                                            *)
BurnTimesOut == runs = 0 /\ signal = "none" /\ BurnEnds

FairSpec == Spec /\ WF_vars(Main) /\ WF_vars(Tick) /\ WF_vars(BurnTimesOut)

-----------------------------------------------------------------------------
(* What a pin may carry too much, with the load on, before it is stopped   *)
(* (load.py:4-6): it rises just after it was measured, is measured late in *)
(* the next sample, and each sample asks nvidia-smi before it is checked.  *)
ExposureBounded ==
    ~strayed => exposed <= 2 * (TransferTime + PowerTimeout) + Interval

(* The load is never on for longer than a round of the loop without a pin  *)
(* having been measured: a failed sample stops it (load.py:133-139).       *)
SightBounded ==
    ~strayed => unseen <= 2 * TransferTime + PowerTimeout + Interval

(* run_burn() leaves no load behind: the child is reaped, or it has been   *)
(* sent SIGKILL, and no grace period came before it (load.py:80-88).       *)
NothingRunsOn ==
    ~strayed =>
        /\ pc = "over" => ~LoadOn
        /\ signal # "TERM"

(* run_burn() returns, even from a child that SIGKILL does not end.        *)
BurnReturns == <>(pc = "over")

(* "A pin reached the abort threshold; sampling stopped immediately" (the  *)
(* doc comment of LoadAbortedError): once the sampler has told it, no time *)
(* passes with the pin at the threshold and the load on.                   *)
StoppedImmediately ==
    [][(pc \in {"power", "check"} /\ ReachesAbort(reading))
         => (exposed' <= exposed)]_vars
=============================================================================
