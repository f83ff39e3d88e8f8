---------------------------- MODULE AstralGuard ----------------------------
(***************************************************************************)
(* guard_eval() of guard/guard_eval.c: the rules of astral-guard over the  *)
(* samples of one run.  One pass counts, for each test of each rule, the   *)
(* samples it holds in; then each rule reports the strongest of its tests  *)
(* that held in every sample, through add(), which keeps a bounded array   *)
(* of findings and a verdict.                                              *)
(*                                                                         *)
(* Currents, voltages and limits are integers in any unit; the ratios are  *)
(* compared by cross-multiplication, as the code does.                     *)
(***************************************************************************)
EXTENDS GuardLevels, Sequences, Functions, FiniteSetsExt

CONSTANTS
    NPins,          \* GUARD_PINS
    MaxFindings,    \* GUARD_MAX_FINDINGS
    MaxSamples,     \* bound on a run's samples (GUARD_MAX_SAMPLES)
    Readings,       \* the samples guard_read_sample() may return
    PinWarn, PinCrit, OpenPin, OpenGate, RatioGate, RatioCrit, MvWarn, MvCrit,
    RatioWarns,     \* what --warn-ratio may set
    RatioNotes      \* what --note-ratio may set

Pins == 1 .. NPins

ASSUME GuardAssumption ==
    /\ NPins \in Nat \ {0}
    /\ MaxFindings \in Nat /\ MaxSamples \in Nat
    /\ Readings \subseteq [ma : [Pins -> Nat], mv : [Pins -> Nat]]
    /\ RatioWarns \subseteq 1 .. 100 /\ RatioNotes \subseteq 1 .. 100
    /\ {PinWarn, PinCrit, OpenPin, OpenGate, RatioGate, RatioCrit, MvWarn, MvCrit}
           \subseteq Nat

VARIABLES
    s,              \* the samples
    lim,            \* the two limits the command line can move
    pc,             \* where guard_eval() is
    i,              \* samples counted
    pin,            \* the pin whose report is next
    hits,           \* the *_hits counters, by test
    worst,          \* worst_ma, worst_pct, worst_mv
    out             \* the verdict: its level and its findings

vars == <<s, lim, pc, i, pin, hits, worst, out>>

(* The level a test raises when it held in every sample.                   *)
LevelOf == [open |-> "CRIT", pin_crit |-> "CRIT", pin_warn |-> "WARN",
            ratio_crit |-> "CRIT", ratio_warn |-> "WARN", ratio_note |-> "NOTE",
            mv_crit |-> "CRIT", mv_warn |-> "WARN"]

PinTests == {"open", "pin_crit", "pin_warn"}
WholeTests == {"ratio_crit", "ratio_warn", "ratio_note", "mv_crit", "mv_warn"}
Tests == (PinTests \X Pins) \cup (WholeTests \X {0})

TotalMa(x) == SumFunction(x.ma)
Lowest(reading) == Min(Range(reading))
Highest(reading) == Max(Range(reading))

(* R2 and R3 say nothing below their load gates.                           *)
Open(x, p) == TotalMa(x) >= OpenGate /\ x.ma[p] < OpenPin

Comparable(x) == TotalMa(x) >= RatioGate /\ Highest(x.ma) > 0
Uneven(x, pct) ==
    Comparable(x) /\ Lowest(x.ma) * 100 < Highest(x.ma) * pct

(* Mutant: a rating is a target.                                           *)
AboveLimit(ma, limit) == ma > limit

(* Inclusive: a rating is a limit, not a target.                           *)
AtLimit(ma, limit) == ma >= limit

Holds(x, k) ==
    CASE k[1] = "open" -> Open(x, k[2])
      [] k[1] = "pin_crit" -> AtLimit(x.ma[k[2]], PinCrit)
      [] k[1] = "pin_warn" -> AtLimit(x.ma[k[2]], PinWarn)
      [] k[1] = "ratio_crit" -> Uneven(x, RatioCrit)
      [] k[1] = "ratio_warn" -> Uneven(x, lim.warn)
      [] k[1] = "ratio_note" -> Uneven(x, lim.note)
      [] k[1] = "mv_crit" -> Lowest(x.mv) < MvCrit
      [] OTHER -> Lowest(x.mv) < MvWarn

Init ==
    /\ s \in UNION {[1 .. n -> Readings] : n \in 0 .. MaxSamples}
    /\ lim \in [warn : RatioWarns, note : RatioNotes]
    /\ pc = "start"
    /\ i = 0
    /\ pin = 1
    /\ hits = [k \in Tests |-> 0]
    /\ worst = [ma |-> [p \in Pins |-> 0], pct |-> 100, mv |-> 0]
    /\ out = [level |-> "OK", f |-> <<>>]

(* An empty run returns OK before any rule is looked at.                   *)
Start ==
    /\ pc = "start"
    /\ \/ s = <<>> /\ pc' = "done" /\ UNCHANGED worst
       \/ s # <<>> /\ pc' = "scan" /\ worst' = [worst EXCEPT !.mv = s[1].mv[1]]
    /\ UNCHANGED <<s, lim, i, pin, hits, out>>

(* Mutant: only the currents are kept over the run.                        *)
WorsenLast(w, x) ==
    [ma |-> [p \in Pins |-> Max({w.ma[p], x.ma[p]})],
     pct |-> w.pct,
     mv |-> Lowest(x.mv)]

(* The extreme readings so far, x included.                                *)
Worsen(w, x) ==
    [ma |-> [p \in Pins |-> Max({w.ma[p], x.ma[p]})],
     pct |-> IF Comparable(x)
             THEN Min({w.pct, (Lowest(x.ma) * 100) \div Highest(x.ma)})
             ELSE w.pct,
     mv |-> Min({w.mv, Lowest(x.mv)})]

Count(h, x) == [k \in Tests |-> IF Holds(x, k) THEN h[k] + 1 ELSE h[k]]

Scan ==
    /\ pc = "scan" /\ i < Len(s)
    /\ i' = i + 1
    /\ hits' = Count(hits, s[i + 1])
    /\ worst' = Worsen(worst, s[i + 1])
    /\ UNCHANGED <<s, lim, pc, pin, out>>

Scanned ==
    /\ pc = "scan" /\ i = Len(s)
    /\ pc' = "open-pin"
    /\ UNCHANGED <<s, lim, i, pin, hits, worst, out>>

(* Mutant: add() without a capacity check.                                 *)
AddUnbounded(level, rule, p, value) ==
    [level |-> Raised(out.level, level),
     f |-> Append(out.f, [level |-> level, rule |-> rule, pin |-> p,
                          value |-> value])]

(* Mutant: add() returns on a full array before it raises the verdict.     *)
AddIfRoom(level, rule, p, value) ==
    IF Len(out.f) = MaxFindings
    THEN out
    ELSE [level |-> Raised(out.level, level),
          f |-> Append(out.f, [level |-> level, rule |-> rule, pin |-> p,
                               value |-> value])]

(* add(): a full array costs the detail, never the level.                  *)
Add(level, rule, p, value) ==
    [level |-> Raised(out.level, level),
     f |-> IF Len(out.f) = MaxFindings
           THEN out.f
           ELSE Append(out.f, [level |-> level, rule |-> rule, pin |-> p,
                               value |-> value])]

(* R6: the test held in every sample.                                      *)
Held(test, p) == hits[<<test, p>>] = Len(s)

(* The pins are walked twice, once per rule.                               *)
NextPin(rule) ==
    IF pin < NPins THEN pin' = pin + 1 /\ pc' = pc ELSE pin' = 1 /\ pc' = rule

ReportOpenPin ==
    /\ pc = "open-pin"
    /\ \/ Held("open", pin) /\ out' = Add("CRIT", "open-pin", pin, 0)
       \/ ~Held("open", pin) /\ UNCHANGED out
    /\ NextPin("pin-current")
    /\ UNCHANGED <<s, lim, i, hits, worst>>

ReportPinCurrent ==
    /\ pc = "pin-current"
    /\ \/ /\ Held("pin_crit", pin)
          /\ out' = Add("CRIT", "pin-current", pin, worst.ma[pin])
       \/ /\ ~Held("pin_crit", pin) /\ Held("pin_warn", pin)
          /\ out' = Add("WARN", "pin-current", pin, worst.ma[pin])
       \/ /\ ~Held("pin_crit", pin) /\ ~Held("pin_warn", pin)
          /\ UNCHANGED out
    /\ NextPin("imbalance")
    /\ UNCHANGED <<s, lim, i, hits, worst>>

ReportImbalance ==
    /\ pc = "imbalance"
    /\ \/ /\ Held("ratio_crit", 0)
          /\ out' = Add("CRIT", "imbalance", 0, worst.pct)
       \/ /\ ~Held("ratio_crit", 0) /\ Held("ratio_warn", 0)
          /\ out' = Add("WARN", "imbalance", 0, worst.pct)
       \/ /\ ~Held("ratio_crit", 0) /\ ~Held("ratio_warn", 0)
          /\ Held("ratio_note", 0)
          /\ out' = Add("NOTE", "imbalance", 0, worst.pct)
       \/ /\ ~Held("ratio_crit", 0) /\ ~Held("ratio_warn", 0)
          /\ ~Held("ratio_note", 0)
          /\ UNCHANGED out
    /\ pc' = "voltage"
    /\ UNCHANGED <<s, lim, i, pin, hits, worst>>

ReportVoltage ==
    /\ pc = "voltage"
    /\ \/ Held("mv_crit", 0) /\ out' = Add("CRIT", "voltage", 0, worst.mv)
       \/ /\ ~Held("mv_crit", 0) /\ Held("mv_warn", 0)
          /\ out' = Add("WARN", "voltage", 0, worst.mv)
       \/ ~Held("mv_crit", 0) /\ ~Held("mv_warn", 0) /\ UNCHANGED out
    /\ pc' = "done"
    /\ UNCHANGED <<s, lim, i, pin, hits, worst>>

Done == pc = "done" /\ UNCHANGED vars

Next ==
    \/ Start \/ Scan \/ Scanned
    \/ ReportOpenPin \/ ReportPinCurrent \/ ReportImbalance \/ ReportVoltage
    \/ Done

Spec == Init /\ [][Next]_vars

-----------------------------------------------------------------------------
(* What the rules promise of a whole run, read off the samples themselves. *)

InEverySample(k) == s # <<>> /\ \A j \in 1 .. Len(s) : Holds(s[j], k)

Pcs == {"start", "scan", "open-pin", "pin-current", "imbalance", "voltage", "done"}

Findings == [level : {"NOTE", "WARN", "CRIT"},
             rule : {"open-pin", "pin-current", "imbalance", "voltage"},
             pin : 0 .. NPins, value : Nat]

(* The counters and the findings have the types of the code's, no counter  *)
(* passes the number of samples, and the array is never overrun.           *)
TypeOK ==
    /\ pc \in Pcs
    /\ i \in 0 .. Len(s)
    /\ pin \in Pins
    /\ hits \in [Tests -> 0 .. i]
    /\ worst \in [ma : [Pins -> Nat], pct : 0 .. 100, mv : Nat]
    /\ out.level \in {"OK", "WARN", "CRIT"}
    /\ out.f \in Seq(Findings)
    /\ Len(out.f) <= MaxFindings

(* guard_eval()'s level is that of the worst test that held in every       *)
(* sample: none is missed, whether or not its finding fitted the array,    *)
(* and none is invented; an advisory never shows in it.                    *)
VerdictIsWorst ==
    pc = "done" =>
        /\ \A k \in Tests :
              InEverySample(k) /\ LevelOf[k[1]] # "NOTE" =>
                  Severity(out.level) >= Severity(LevelOf[k[1]])
        /\ out.level # "OK" =>
              \E k \in Tests : InEverySample(k) /\ LevelOf[k[1]] = out.level

(* A pin at or above its rating in every sample makes the run critical and *)
(* a run of samples that are never comparable is never called uneven: the  *)
(* rules R1 and R3 of guard/guard_eval.c, in the words of their comments.  *)
RatingIsALimit ==
    pc = "done" /\ s # <<>> =>
        /\ (\E p \in Pins : \A j \in 1 .. Len(s) : s[j].ma[p] >= PinCrit)
              => out.level = "CRIT"
        /\ (\A j \in 1 .. Len(s) : TotalMa(s[j]) < RatioGate)
              => \A n \in 1 .. Len(out.f) : out.f[n].rule # "imbalance"

(* Every finding quotes the extreme reading of the run it is about: the    *)
(* pin's highest current, the connector's lowest voltage, the worst ratio  *)
(* of any sample.                                                          *)
FindingsQuoteTheWorst ==
    \A n \in 1 .. Len(out.f) :
        LET f == out.f[n]
            Extreme(values) ==
                CASE f.rule = "pin-current" -> f.value = Max(values)
                  [] OTHER -> f.value = Min(values)
            Value(x) ==
                CASE f.rule = "pin-current" -> x.ma[f.pin]
                  [] f.rule = "imbalance" ->
                        (Lowest(x.ma) * 100) \div Highest(x.ma)
                  [] f.rule = "voltage" -> Lowest(x.mv)
        IN f.rule # "open-pin" => Extreme({Value(s[j]) : j \in 1 .. Len(s)})
=============================================================================
