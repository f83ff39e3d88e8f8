------------------------- MODULE AstralGuardProofs -------------------------
(***************************************************************************)
(* The verdict of guard_eval() for every connector, every set of limits,   *)
(* every number of samples and every capacity of the array of findings.    *)
(***************************************************************************)
EXTENDS AstralGuard, ReadingLemmas

(* The counters after i samples tell which tests held in all of them.      *)
Counted ==
    /\ hits \in [Tests -> Nat]
    /\ \A k \in Tests :
          /\ hits[k] <= i
          /\ hits[k] = i <=> \A j \in 1 .. i : Holds(s[j], k)

(* The tests whose rule has been reported, by where guard_eval() is.       *)
Reported(k) ==
    CASE k[1] = "open" ->
            pc \notin {"start", "scan"} /\ (pc = "open-pin" => k[2] < pin)
      [] k[1] \in {"pin_crit", "pin_warn"} ->
            /\ pc \in {"pin-current", "imbalance", "voltage", "done"}
            /\ pc = "pin-current" => k[2] < pin
      [] k[1] \in {"ratio_crit", "ratio_warn", "ratio_note"} ->
            pc \in {"voltage", "done"}
      [] OTHER -> pc = "done"

(* A test the verdict has to answer for.                                   *)
Alarming(k) == InEverySample(k) /\ LevelOf[k[1]] # "NOTE"

LevelSound ==
    out.level # "OK" =>
        \E k \in Tests : InEverySample(k) /\ LevelOf[k[1]] = out.level

LevelComplete ==
    \A k \in Tests :
        Reported(k) /\ Alarming(k) =>
            Severity(out.level) >= Severity(LevelOf[k[1]])

Control ==
    /\ s \in Seq(Readings)
    /\ pc \in Pcs
    /\ i \in 0 .. Len(s)
    /\ pin \in Pins
    /\ pc = "start" => i = 0
    /\ pc \in {"start", "scan"} => pin = 1
    /\ pc \in {"open-pin", "pin-current", "imbalance", "voltage"} =>
           i = Len(s) /\ i > 0
    /\ pc = "scan" => Len(s) > 0
    /\ out.level \in {"OK", "WARN", "CRIT"}

GInv == Control /\ Counted /\ LevelSound /\ LevelComplete

-----------------------------------------------------------------------------

(* What a test says of a sample is the same after any step: the samples    *)
(* and the limits are the run's.                                           *)
LEMMA SameRun ==
    ASSUME UNCHANGED <<s, lim>>
    PROVE  /\ \A x, k : Holds(x, k)' <=> Holds(x, k)
           /\ \A k : InEverySample(k)' <=> InEverySample(k)
           /\ \A k : Alarming(k)' <=> Alarming(k)
<1>1. \A x, k : Holds(x, k)' <=> Holds(x, k)
  BY DEF Holds, Uneven
<1>2. \A k : InEverySample(k)' <=> InEverySample(k)
  BY <1>1 DEF InEverySample
<1>3. QED
  BY <1>1, <1>2 DEF Alarming

(* Once all samples are counted, Held() is R6.                             *)
LEMMA HeldIsPersistence ==
    ASSUME Counted, s \in Seq(Readings), i = Len(s), i > 0,
           NEW test, NEW p, <<test, p>> \in Tests
    PROVE  Held(test, p) <=> InEverySample(<<test, p>>)
BY DEF Counted, Held, InEverySample

(* Raising a verdict by a level leaves it at least as severe as both, and  *)
(* equal to one of them.                                                   *)
LEMMA RaisedIsWorse ==
    ASSUME NEW v \in {"OK", "WARN", "CRIT"}, NEW l \in {"NOTE", "WARN", "CRIT"}
    PROVE  /\ Raised(v, l) \in {"OK", "WARN", "CRIT"}
           /\ Severity(Raised(v, l)) >= Severity(v)
           /\ l # "NOTE" => Severity(Raised(v, l)) >= Severity(l)
           /\ Raised(v, l) = v \/ (l # "NOTE" /\ Raised(v, l) = l)
           /\ l = "NOTE" => Raised(v, l) = v
BY DEF Raised, Severity

LEMMA SeverityIsRank ==
    \A l \in {"OK", "NOTE", "WARN", "CRIT"} : Severity(l) \in Nat
BY DEF Severity

(* A rule that reports a level: one test k that held, with its level, the  *)
(* others of the rule held nowhere or are no more severe.                  *)
LEMMA ReportStep ==
    ASSUME GInv, Control', Counted', UNCHANGED <<s, lim>>,
           NEW k \in Tests, InEverySample(k),
           out'.level = Raised(out.level, LevelOf[k[1]]),
           LevelOf[k[1]] \in {"NOTE", "WARN", "CRIT"},
           \A m \in Tests : Reported(m)' /\ Alarming(m) =>
               \/ Reported(m)
               \/ /\ LevelOf[k[1]] # "NOTE"
                  /\ Severity(LevelOf[m[1]]) <= Severity(LevelOf[k[1]])
    PROVE  GInv'
<1>1. out.level \in {"OK", "WARN", "CRIT"}
  BY DEF GInv, Control
<1>2. LevelSound'
  <2>1. \/ out'.level = out.level
        \/ out'.level = LevelOf[k[1]]
    BY <1>1, RaisedIsWorse
  <2>2. QED
    BY <2>1, SameRun DEF GInv, LevelSound
<1>3. LevelComplete'
  <2> SUFFICES ASSUME NEW m \in Tests, Reported(m)', Alarming(m)
               PROVE  Severity(out'.level) >= Severity(LevelOf[m[1]])
    BY SameRun DEF LevelComplete, Severity
  <2>1. LevelOf[m[1]] \in {"WARN", "CRIT"}
    BY DEF Alarming, LevelOf, Tests, PinTests, WholeTests
  <2>2. out'.level \in {"OK", "WARN", "CRIT"}
    BY <1>1, RaisedIsWorse
  <2>3. Severity(out'.level) >= Severity(out.level)
    BY <1>1, RaisedIsWorse
  <2>4. CASE Reported(m)
    <3>1. Severity(out.level) >= Severity(LevelOf[m[1]])
      BY <2>4 DEF GInv, LevelComplete
    <3>2. QED
      BY <3>1, <2>1, <2>2, <2>3, <1>1, SeverityIsRank
  <2>5. CASE ~Reported(m)
    <3>1. /\ LevelOf[k[1]] # "NOTE"
          /\ Severity(LevelOf[m[1]]) <= Severity(LevelOf[k[1]])
      BY <2>5
    <3>2. Severity(out'.level) >= Severity(LevelOf[k[1]])
      BY <3>1, <1>1, RaisedIsWorse
    <3>3. QED
      BY <3>1, <3>2, <2>1, <2>2, SeverityIsRank
  <2>6. QED
    BY <2>4, <2>5
<1>4. QED
  BY <1>2, <1>3 DEF GInv

(* A rule that reports nothing: none of its tests is alarming.             *)
LEMMA SilentStep ==
    ASSUME GInv, Control', Counted', UNCHANGED <<s, lim, out>>,
           \A m \in Tests : Reported(m)' /\ Alarming(m) => Reported(m)
    PROVE  GInv'
<1>1. LevelSound'
  BY SameRun DEF GInv, LevelSound
<1>2. LevelComplete'
  BY SameRun DEF GInv, LevelComplete, Severity
<1>3. QED
  BY <1>1, <1>2 DEF GInv

-----------------------------------------------------------------------------

LEMMA GuardInit == Init => GInv
<1> SUFFICES ASSUME Init PROVE GInv
  OBVIOUS
<1>1. s \in Seq(Readings)
  BY DEF Init
<1>2. Len(s) \in Nat
  BY <1>1
<1>3. 1 \in Pins
  BY GuardAssumption DEF Pins
<1>4. Control
  BY <1>1, <1>2, <1>3 DEF Init, Control, Pcs
<1>5. Counted
  BY DEF Init, Counted
<1>6. LevelSound
  BY DEF Init, LevelSound
<1>7. LevelComplete
  <2> SUFFICES ASSUME NEW k \in Tests, Reported(k) PROVE FALSE
    BY DEF LevelComplete
  <2>1. pc = "start"
    BY DEF Init
  <2>2. QED
    BY <2>1 DEF Reported
<1>8. QED
  BY <1>4, <1>5, <1>6, <1>7 DEF GInv

(* Where the next pin's report goes.                                       *)
LEMMA PinStep ==
    ASSUME pin \in Pins, NEW rule, NextPin(rule)
    PROVE  /\ pin' \in Pins
           /\ \/ pc' = pc /\ pin' = pin + 1
              \/ pc' = rule /\ pin' = 1 /\ pin = NPins
BY GuardAssumption DEF NextPin, Pins

(* The report of a rule counts nothing more.                               *)
LEMMA CountedStays ==
    ASSUME Counted, UNCHANGED <<s, lim, i, hits>>
    PROVE  Counted'
BY SameRun DEF Counted

LEMMA ScanStep == GInv /\ Scan => GInv'
<1> SUFFICES ASSUME GInv, Scan PROVE GInv'
  OBVIOUS
<1> USE DEF GInv
<1>1. i \in 0 .. Len(s) /\ Len(s) \in Nat /\ i < Len(s)
  BY DEF Control, Scan
<1>2. Control'
  BY <1>1 DEF Control, Scan
<1>3. Counted'
  <2>1. hits' = [k \in Tests |-> IF Holds(s[i + 1], k)
                                 THEN hits[k] + 1 ELSE hits[k]]
    BY DEF Scan, Count
  <2>2. hits' \in [Tests -> Nat]
    BY <2>1 DEF Counted
  <2>3. ASSUME NEW k \in Tests
        PROVE  /\ hits'[k] <= i'
               /\ hits'[k] = i' <=> \A j \in 1 .. i' : Holds(s[j], k)
    <3>1. /\ hits[k] \in Nat /\ hits[k] <= i
          /\ hits[k] = i <=> \A j \in 1 .. i : Holds(s[j], k)
      BY DEF Counted
    <3>2. i' = i + 1
      BY DEF Scan
    <3>3. hits'[k] = IF Holds(s[i + 1], k) THEN hits[k] + 1 ELSE hits[k]
      BY <2>1
    <3>4. (\A j \in 1 .. i + 1 : Holds(s[j], k))
            <=> (\A j \in 1 .. i : Holds(s[j], k)) /\ Holds(s[i + 1], k)
      BY <1>1
    <3>5. QED
      BY <1>1, <3>1, <3>2, <3>3, <3>4
  <2>4. UNCHANGED <<s, lim>>
    BY DEF Scan
  <2>5. QED
    BY <2>2, <2>3, <2>4, SameRun DEF Counted
<1>4. \A m \in Tests : Reported(m)' => Reported(m)
  BY DEF Scan, Reported
<1>5. QED
  BY <1>2, <1>3, <1>4, SilentStep DEF Scan

LEMMA PinReports ==
    ASSUME GInv, ReportOpenPin \/ ReportPinCurrent
    PROVE  GInv'
<1> USE DEF GInv
<1>1. /\ pin \in Pins /\ s \in Seq(Readings) /\ i = Len(s) /\ i > 0
      /\ out.level \in {"OK", "WARN", "CRIT"} /\ Counted
  BY DEF Control, ReportOpenPin, ReportPinCurrent
<1>2. UNCHANGED <<s, lim, i, hits>>
  BY DEF ReportOpenPin, ReportPinCurrent
<1>3. Counted'
  BY <1>2, CountedStays
<1>4. pin \in Nat /\ NPins \in Nat /\ \A p \in Pins : p \in 1 .. NPins
  BY <1>1, GuardAssumption DEF Pins
<1>5. \A t \in PinTests : <<t, pin>> \in Tests
  BY <1>1 DEF Tests
<1>6. \A t \in PinTests : Held(t, pin) <=> InEverySample(<<t, pin>>)
  BY <1>1, <1>5, HeldIsPersistence
<1>7. \A m \in Tests : /\ m = <<m[1], m[2]>>
                       /\ m[1] \in PinTests => m[2] \in Pins
                       /\ m[1] \in PinTests \cup WholeTests
  BY DEF Tests, PinTests, WholeTests
<1>8. CASE ReportOpenPin
  <2>1. /\ pin' \in Pins
        /\ \/ pc' = "open-pin" /\ pin' = pin + 1
           \/ pc' = "pin-current" /\ pin' = 1 /\ pin = NPins
    BY <1>1, <1>8, PinStep DEF ReportOpenPin
  <2>2. \A m \in Tests : Reported(m)' =>
            Reported(m) \/ m = <<"open", pin>>
    BY <1>4, <1>7, <1>8, <2>1 DEF Reported, ReportOpenPin, PinTests, WholeTests
  <2>3. CASE Held("open", pin)
    <3>1. out'.level = Raised(out.level, "CRIT")
      BY <1>8, <2>3 DEF ReportOpenPin, Add
    <3>2. Control'
      BY <1>1, <1>2, <1>8, <2>1, <3>1, RaisedIsWorse DEF Control, Pcs, ReportOpenPin
    <3>3. InEverySample(<<"open", pin>>) /\ <<"open", pin>> \in Tests
      BY <1>5, <1>6, <2>3 DEF PinTests
    <3>4. LevelOf[<<"open", pin>>[1]] = "CRIT"
      BY DEF LevelOf
    <3>5. \A m \in Tests : Reported(m)' /\ Alarming(m) =>
              Reported(m) \/ Severity(LevelOf[m[1]]) <= Severity("CRIT")
      BY <2>2, <3>4 DEF Severity
    <3>6. QED
      BY <1>2, <1>3, <3>1, <3>2, <3>3, <3>4, <3>5, ReportStep
  <2>4. CASE ~Held("open", pin)
    <3>1. UNCHANGED out
      BY <1>8, <2>4 DEF ReportOpenPin
    <3>2. Control'
      BY <1>1, <1>2, <1>8, <2>1, <3>1 DEF Control, Pcs, ReportOpenPin
    <3>3. ~Alarming(<<"open", pin>>)
      BY <1>6, <2>4 DEF Alarming, PinTests
    <3>4. QED
      BY <1>2, <1>3, <2>2, <3>1, <3>2, <3>3, SilentStep
  <2>5. QED
    BY <2>3, <2>4
<1>9. CASE ReportPinCurrent
  <2>1. /\ pin' \in Pins
        /\ \/ pc' = "pin-current" /\ pin' = pin + 1
           \/ pc' = "imbalance" /\ pin' = 1 /\ pin = NPins
    BY <1>1, <1>9, PinStep DEF ReportPinCurrent
  <2>2. \A m \in Tests : Reported(m)' =>
            \/ Reported(m)
            \/ m = <<"pin_crit", pin>>
            \/ m = <<"pin_warn", pin>>
    BY <1>4, <1>7, <1>9, <2>1 DEF Reported, ReportPinCurrent, PinTests, WholeTests
  <2>3. ASSUME NEW t \in {"pin_crit", "pin_warn"}, Held(t, pin),
               t = "pin_warn" => ~Held("pin_crit", pin),
               out'.level = Raised(out.level, LevelOf[t])
        PROVE  GInv'
    <3>1. <<t, pin>>[1] = t /\ LevelOf[t] \in {"WARN", "CRIT"}
      BY DEF LevelOf
    <3>2. Control'
      BY <1>1, <1>2, <1>9, <2>1, <2>3, <3>1, RaisedIsWorse
      DEF Control, Pcs, ReportPinCurrent
    <3>3. InEverySample(<<t, pin>>) /\ <<t, pin>> \in Tests
      BY <1>5, <1>6, <2>3 DEF PinTests
    <3>4. \A m \in Tests : Reported(m)' /\ Alarming(m) =>
              \/ Reported(m)
              \/ Severity(LevelOf[m[1]]) <= Severity(LevelOf[t])
      <4>1. t = "pin_warn" => ~Alarming(<<"pin_crit", pin>>)
        BY <1>6, <2>3 DEF Alarming, PinTests
      <4>2. QED
        BY <2>2, <4>1 DEF Severity, LevelOf
    <3>5. QED
      BY <1>2, <1>3, <2>3, <3>1, <3>2, <3>3, <3>4, ReportStep
  <2>4. CASE ~Held("pin_crit", pin) /\ ~Held("pin_warn", pin)
    <3>1. UNCHANGED out
      BY <1>9, <2>4 DEF ReportPinCurrent
    <3>2. Control'
      BY <1>1, <1>2, <1>9, <2>1, <3>1 DEF Control, Pcs, ReportPinCurrent
    <3>3. ~Alarming(<<"pin_crit", pin>>) /\ ~Alarming(<<"pin_warn", pin>>)
      BY <1>6, <2>4 DEF Alarming, PinTests
    <3>4. QED
      BY <1>2, <1>3, <2>2, <3>1, <3>2, <3>3, SilentStep
  <2>5. CASE Held("pin_crit", pin)
    <3>1. out'.level = Raised(out.level, LevelOf["pin_crit"])
      BY <1>9, <2>5 DEF ReportPinCurrent, Add, LevelOf
    <3>2. QED
      BY <2>3, <2>5, <3>1
  <2>6. CASE ~Held("pin_crit", pin) /\ Held("pin_warn", pin)
    <3>1. out'.level = Raised(out.level, LevelOf["pin_warn"])
      BY <1>9, <2>6 DEF ReportPinCurrent, Add, LevelOf
    <3>2. QED
      BY <2>3, <2>6, <3>1
  <2>7. QED
    BY <2>4, <2>5, <2>6
<1>10. QED
  BY <1>8, <1>9

LEMMA WholeReports ==
    ASSUME GInv, ReportImbalance \/ ReportVoltage
    PROVE  GInv'
<1> USE DEF GInv
<1> DEFINE Ratio == {"ratio_crit", "ratio_warn", "ratio_note"}
           Mv == {"mv_crit", "mv_warn"}
<1>1. /\ s \in Seq(Readings) /\ i = Len(s) /\ i > 0
      /\ out.level \in {"OK", "WARN", "CRIT"} /\ Counted
  BY DEF Control, ReportImbalance, ReportVoltage
<1>2. UNCHANGED <<s, lim, i, hits, pin>>
  BY DEF ReportImbalance, ReportVoltage
<1>3. Counted'
  BY <1>2, CountedStays
<1>4. \A t \in WholeTests : <<t, 0>> \in Tests
  BY DEF Tests
<1>5. \A t \in WholeTests : Held(t, 0) <=> InEverySample(<<t, 0>>)
  BY <1>1, <1>4, HeldIsPersistence
<1>6. \A m \in Tests : /\ m = <<m[1], m[2]>>
                       /\ m[1] \in WholeTests => m[2] = 0
                       /\ m[1] \in PinTests \cup WholeTests
  BY DEF Tests, PinTests, WholeTests
<1>7. pc' \in {"voltage", "done"}
  BY DEF ReportImbalance, ReportVoltage
(* One report, common to both rules: t held, the tests before it did not.  *)
<1>8. ASSUME NEW Rule \in {Ratio, Mv},
             \A m \in Tests : Reported(m)' => Reported(m) \/ m[1] \in Rule,
             NEW t \in Rule, Held(t, 0),
             \A u \in Rule : Severity(LevelOf[u]) > Severity(LevelOf[t])
                 => ~Held(u, 0) \/ LevelOf[u] = "NOTE",
             t = "ratio_note" => ~Held("ratio_crit", 0) /\ ~Held("ratio_warn", 0),
             out'.level = Raised(out.level, LevelOf[t])
      PROVE  GInv'
  <2>1. t \in WholeTests /\ Rule \subseteq WholeTests
    BY <1>8 DEF WholeTests
  <2>2. <<t, 0>>[1] = t /\ LevelOf[t] \in {"NOTE", "WARN", "CRIT"}
    BY <1>8 DEF LevelOf
  <2>3. Control'
    BY <1>1, <1>2, <1>7, <1>8, <2>2, RaisedIsWorse DEF Control, Pcs
  <2>4. InEverySample(<<t, 0>>) /\ <<t, 0>> \in Tests
    BY <1>4, <1>5, <1>8, <2>1
  <2>5. ASSUME NEW m \in Tests, Reported(m)', Alarming(m), ~Reported(m)
        PROVE  /\ LevelOf[t] # "NOTE"
               /\ Severity(LevelOf[m[1]]) <= Severity(LevelOf[t])
    <3>1. m[1] \in Rule /\ m = <<m[1], 0>>
      BY <1>6, <1>8, <2>1, <2>5
    <3>2. Held(m[1], 0) /\ LevelOf[m[1]] # "NOTE"
      BY <1>5, <2>1, <2>5, <3>1 DEF Alarming
    <3>3. LevelOf[t] # "NOTE"
      BY <1>8, <3>1, <3>2 DEF LevelOf
    <3>4. ~(Severity(LevelOf[m[1]]) > Severity(LevelOf[t]))
      BY <1>8, <3>1, <3>2
    <3>5. LevelOf[m[1]] \in {"NOTE", "WARN", "CRIT"}
      BY <1>8, <3>1 DEF LevelOf
    <3>6. QED
      BY <2>2, <3>3, <3>4, <3>5, SeverityIsRank
  <2>6. QED
    BY <1>2, <1>3, <1>8, <2>2, <2>3, <2>4, <2>5, ReportStep
<1>9. CASE ReportImbalance
  <2>1. \A m \in Tests : Reported(m)' => Reported(m) \/ m[1] \in Ratio
    BY <1>6, <1>9 DEF Reported, ReportImbalance, PinTests, WholeTests
  <2>2. CASE Held("ratio_crit", 0)
    <3>1. out'.level = Raised(out.level, LevelOf["ratio_crit"])
      BY <1>9, <2>2 DEF ReportImbalance, Add, LevelOf
    <3>2. QED
      BY <1>8, <2>1, <2>2, <3>1 DEF Severity, LevelOf
  <2>3. CASE ~Held("ratio_crit", 0) /\ Held("ratio_warn", 0)
    <3>1. out'.level = Raised(out.level, LevelOf["ratio_warn"])
      BY <1>9, <2>3 DEF ReportImbalance, Add, LevelOf
    <3>2. QED
      BY <1>8, <2>1, <2>3, <3>1 DEF Severity, LevelOf
  <2>4. CASE /\ ~Held("ratio_crit", 0) /\ ~Held("ratio_warn", 0)
             /\ Held("ratio_note", 0)
    <3>1. out'.level = Raised(out.level, LevelOf["ratio_note"])
      BY <1>9, <2>4 DEF ReportImbalance, Add, LevelOf
    <3>2. QED
      BY <1>8, <2>1, <2>4, <3>1 DEF Severity, LevelOf
  <2>5. CASE \A t \in Ratio : ~Held(t, 0)
    <3>1. UNCHANGED out
      BY <1>9, <2>5 DEF ReportImbalance
    <3>2. Control'
      BY <1>1, <1>2, <1>7, <3>1 DEF Control, Pcs
    <3>3. \A m \in Tests : m[1] \in Ratio => ~Alarming(m)
      BY <1>5, <1>6, <2>5 DEF Alarming, WholeTests
    <3>4. QED
      BY <1>2, <1>3, <2>1, <3>1, <3>2, <3>3, SilentStep
  <2>6. QED
    BY <2>2, <2>3, <2>4, <2>5
<1>10. CASE ReportVoltage
  <2>1. \A m \in Tests : Reported(m)' => Reported(m) \/ m[1] \in Mv
    BY <1>6, <1>10 DEF Reported, ReportVoltage, PinTests, WholeTests
  <2>2. CASE Held("mv_crit", 0)
    <3>1. out'.level = Raised(out.level, LevelOf["mv_crit"])
      BY <1>10, <2>2 DEF ReportVoltage, Add, LevelOf
    <3>2. QED
      BY <1>8, <2>1, <2>2, <3>1 DEF Severity, LevelOf
  <2>3. CASE ~Held("mv_crit", 0) /\ Held("mv_warn", 0)
    <3>1. out'.level = Raised(out.level, LevelOf["mv_warn"])
      BY <1>10, <2>3 DEF ReportVoltage, Add, LevelOf
    <3>2. QED
      BY <1>8, <2>1, <2>3, <3>1 DEF Severity, LevelOf
  <2>4. CASE \A t \in Mv : ~Held(t, 0)
    <3>1. UNCHANGED out
      BY <1>10, <2>4 DEF ReportVoltage
    <3>2. Control'
      BY <1>1, <1>2, <1>7, <3>1 DEF Control, Pcs
    <3>3. \A m \in Tests : m[1] \in Mv => ~Alarming(m)
      BY <1>5, <1>6, <2>4 DEF Alarming, WholeTests
    <3>4. QED
      BY <1>2, <1>3, <2>1, <3>1, <3>2, <3>3, SilentStep
  <2>5. QED
    BY <2>2, <2>3, <2>4
<1>11. QED
  BY <1>9, <1>10

LEMMA GuardStep == GInv /\ [Next]_vars => GInv'
<1> SUFFICES ASSUME GInv, [Next]_vars PROVE GInv'
  OBVIOUS
<1>1. CASE Start
  <2>1. UNCHANGED <<s, lim, i, pin, hits, out>> /\ pc = "start"
    BY <1>1 DEF Start
  <2>2. Control'
    BY <1>1 DEF GInv, Control, Start, Pcs
  <2>3. Counted'
    BY <2>1, CountedStays DEF GInv
  <2>4. ASSUME NEW m \in Tests PROVE Alarming(m) => ~Reported(m)'
    <3>1. s = <<>> => ~InEverySample(m)
      BY DEF InEverySample
    <3>2. s # <<>> => pc' = "scan"
      BY <1>1 DEF Start
    <3>3. QED
      BY <3>1, <3>2 DEF Alarming, Reported
  <2>5. QED
    BY <2>1, <2>2, <2>3, <2>4, SilentStep
<1>2. CASE Scan
  BY <1>2, ScanStep
<1>3. CASE Scanned
  <2>1. UNCHANGED <<s, lim, i, pin, hits, out>> /\ pc = "scan" /\ pc' = "open-pin"
    BY <1>3 DEF Scanned
  <2>2. Control' /\ Counted' /\ pin = 1
    BY <1>3, <2>1, CountedStays DEF GInv, Control, Scanned, Pcs
  <2>3. ASSUME NEW m \in Tests PROVE ~Reported(m)'
    <3>1. m[1] = "open" => ~(m[2] < 1)
      BY GuardAssumption DEF Tests, PinTests, WholeTests, Pins
    <3>2. m[1] \in PinTests \cup WholeTests
      BY DEF Tests
    <3>3. QED
      BY <2>1, <2>2, <3>1, <3>2 DEF Reported, PinTests, WholeTests
  <2>4. QED
    BY <2>1, <2>2, <2>3, SilentStep
<1>4. CASE ReportOpenPin \/ ReportPinCurrent
  BY <1>4, PinReports
<1>5. CASE ReportImbalance \/ ReportVoltage
  BY <1>5, WholeReports
<1>6. CASE UNCHANGED vars
  <2>1. UNCHANGED <<s, lim, pc, i, pin, hits, out>>
    BY <1>6 DEF vars
  <2>2. Control' /\ Counted'
    BY <2>1, CountedStays DEF GInv, Control
  <2>3. \A m \in Tests : Reported(m)' => Reported(m)
    BY <2>1 DEF Reported
  <2>4. QED
    BY <2>1, <2>2, <2>3, SilentStep
<1>7. QED
  BY <1>1, <1>2, <1>3, <1>4, <1>5, <1>6 DEF Next, Done

(* guard_eval() answers with the worst level that held in every sample,    *)
(* however many findings there is room for.                                *)
THEOREM VerdictSound == Spec => []VerdictIsWorst
<1>1. GInv => VerdictIsWorst
  BY DEF GInv, LevelSound, LevelComplete, VerdictIsWorst, Alarming, Reported,
         Tests, PinTests, WholeTests
<1>2. QED
  BY <1>1, GuardInit, GuardStep, PTL DEF Spec

-----------------------------------------------------------------------------

(* A sample's lowest and highest readings, and its ratio in percent.       *)
Ratio(x) == (Lowest(x.ma) * 100) \div Highest(x.ma)

LEMMA LowestHighest ==
    ASSUME NEW f \in [Pins -> Nat]
    PROVE  /\ Lowest(f) \in Nat /\ Highest(f) \in Nat
           /\ Lowest(f) <= Highest(f)
           /\ \A p \in Pins : Lowest(f) <= f[p] /\ f[p] <= Highest(f)
<1>1. NPins \in Nat /\ Pins = 1 .. NPins /\ 1 \in Pins
  BY GuardAssumption DEF Pins
<1>2. IsFiniteSet(Range(f))
  BY <1>1, RangeIsFinite
<1>3. Range(f) \in SUBSET Nat /\ \A p \in Pins : f[p] \in Range(f)
  BY DEF Range
<1>4. Range(f) # {}
  BY <1>1, <1>3
<1>5. /\ Min(Range(f)) \in Range(f) /\ Max(Range(f)) \in Range(f)
      /\ \A x \in Range(f) : Min(Range(f)) <= x /\ x <= Max(Range(f))
  BY <1>2, <1>3, <1>4, MinMax
<1>6. QED
  BY <1>3, <1>5 DEF Lowest, Highest

LEMMA TotalType ==
    ASSUME NEW x, x.ma \in [Pins -> Nat]
    PROVE  TotalMa(x) \in Nat
<1>1. IsFiniteSet(Pins)
  BY GuardAssumption, FS_Interval DEF Pins
<1>2. QED
  BY <1>1, SumFunctionType DEF TotalMa

LEMMA Percent ==
    ASSUME NEW a \in Nat, NEW b \in Nat, b > 0, a <= b
    PROVE  (a * 100) \div b \in 0 .. 100
<1> DEFINE q == (a * 100) \div b
<1>1. q \in Int /\ b * q <= a * 100 /\ a * 100 < b * q + b
  OBVIOUS
<1>2. q <= 100
  BY <1>1
<1>3. q >= 0
  BY <1>1
<1>4. QED
  BY <1>1, <1>2, <1>3

LEMMA RatioIsPercent ==
    ASSUME NEW x \in Readings, Comparable(x)
    PROVE  Ratio(x) \in 0 .. 100
<1>1. x.ma \in [Pins -> Nat]
  BY GuardAssumption
<1>2. QED
  BY <1>1, LowestHighest, Percent DEF Comparable, Ratio

-----------------------------------------------------------------------------

(* The extreme readings kept are those of the samples counted: they bound  *)
(* every one of them, and one of them attains each.                        *)
Extremes ==
    pc # "start" /\ s # <<>> =>
        /\ \A p \in Pins :
              /\ \A j \in 1 .. i : s[j].ma[p] <= worst.ma[p]
              /\ worst.ma[p] = 0 \/ \E j \in 1 .. i : s[j].ma[p] = worst.ma[p]
        /\ \A j \in 1 .. i : Comparable(s[j]) => worst.pct <= Ratio(s[j])
        /\ \/ worst.pct = 100
           \/ \E j \in 1 .. i : Comparable(s[j]) /\ Ratio(s[j]) = worst.pct
        /\ \A j \in 1 .. i : worst.mv <= Lowest(s[j].mv)
        /\ IF i = 0
           THEN \E p \in Pins : worst.mv = s[1].mv[p]
           ELSE \E j \in 1 .. i : worst.mv = Lowest(s[j].mv)

NothingKept == worst.ma = [p \in Pins |-> 0] /\ worst.pct = 100

(* What the value of a finding is taken from, and what it rests on.        *)
Quotes(f) ==
    CASE f.rule = "pin-current" -> f.pin \in Pins /\ f.value = worst.ma[f.pin]
      [] f.rule = "imbalance" ->
            /\ f.value = worst.pct
            /\ \A j \in 1 .. Len(s) : Comparable(s[j])
      [] f.rule = "voltage" -> f.value = worst.mv
      [] OTHER -> f.rule = "open-pin"

FindingsRest ==
    /\ out.f # <<>> => pc \notin {"start", "scan"} /\ s # <<>> /\ i = Len(s)
    /\ \A n \in 1 .. Len(out.f) : Quotes(out.f[n])

FInv ==
    /\ TypeOK /\ Extremes /\ FindingsRest
    /\ pc = "start" => NothingKept

-----------------------------------------------------------------------------

LEMMA SampleType ==
    ASSUME s \in Seq(Readings), NEW j \in 1 .. Len(s)
    PROVE  /\ s[j] \in Readings
           /\ s[j].ma \in [Pins -> Nat] /\ s[j].mv \in [Pins -> Nat]
<1>1. s[j] \in Readings
  OBVIOUS
<1>2. QED
  BY <1>1, GuardAssumption

LEMMA FindingsInit == Init => FInv
<1> SUFFICES ASSUME Init PROVE FInv
  OBVIOUS
<1>1. GInv
  BY GuardInit
<1>2. TypeOK
  <2>1. hits \in [Tests -> 0 .. i]
    BY DEF Init
  <2>2. worst \in [ma : [Pins -> Nat], pct : 0 .. 100, mv : Nat]
    BY DEF Init
  <2>3. out.f \in Seq(Findings) /\ Len(out.f) <= MaxFindings
    BY GuardAssumption DEF Init
  <2>4. QED
    BY <1>1, <2>1, <2>2, <2>3 DEF TypeOK, GInv, Control
<1>3. QED
  BY <1>2 DEF FInv, Init, Extremes, FindingsRest, NothingKept

(* A report adds a finding that quotes what was kept, if there is room.    *)
LEMMA FindingAdded ==
    ASSUME FInv, GInv', s # <<>>, i = Len(s), pc \notin {"start", "scan"},
           UNCHANGED <<s, i, hits, worst>>,
           NEW level \in {"NOTE", "WARN", "CRIT"},
           NEW rule \in {"open-pin", "pin-current", "imbalance", "voltage"},
           NEW p \in 0 .. NPins, NEW value \in Nat,
           Quotes([level |-> level, rule |-> rule, pin |-> p, value |-> value]),
           out' = Add(level, rule, p, value) \/ UNCHANGED out,
           pc' \notin {"start", "scan"}
    PROVE  FInv'
<1> DEFINE f == [level |-> level, rule |-> rule, pin |-> p, value |-> value]
<1>1. f \in Findings /\ Quotes(f)
  BY DEF Findings
<1>2. /\ out.f \in Seq(Findings) /\ Len(out.f) <= MaxFindings
      /\ MaxFindings \in Nat
      /\ \A n \in 1 .. Len(out.f) : Quotes(out.f[n])
  BY GuardAssumption DEF FInv, TypeOK, FindingsRest
<1>3. /\ out'.f \in Seq(Findings) /\ Len(out'.f) <= MaxFindings
      /\ \A n \in 1 .. Len(out'.f) : Quotes(out'.f[n])
  <2>1. CASE out'.f = out.f
    BY <1>2, <2>1
  <2>2. CASE out'.f = Append(out.f, f) /\ Len(out.f) # MaxFindings
    <3> HIDE DEF f
    <3>1. /\ Append(out.f, f) \in Seq(Findings)
          /\ Len(Append(out.f, f)) = Len(out.f) + 1
          /\ \A n \in 1 .. Len(out.f) : Append(out.f, f)[n] = out.f[n]
          /\ Append(out.f, f)[Len(out.f) + 1] = f
      BY <1>1, <1>2
    <3>2. Len(out.f) + 1 <= MaxFindings
      BY <1>2, <2>2
    <3>3. QED
      BY <1>1, <1>2, <2>2, <3>1, <3>2
  <2>3. QED
    BY <2>1, <2>2 DEF Add
<1>4. \A g : Quotes(g)' <=> Quotes(g)
  BY DEF Quotes, Comparable
<1>5. Extremes'
  BY DEF FInv, Extremes, Comparable, Ratio
<1>6. FindingsRest'
  BY <1>3, <1>4 DEF FindingsRest
<1>7. TypeOK'
  BY <1>3 DEF FInv, TypeOK, GInv, Control
<1>8. QED
  BY <1>5, <1>6, <1>7 DEF FInv

LEMMA FindingsStart ==
    ASSUME GInv, FInv, GInv', Start
    PROVE  FInv'
<1>1. UNCHANGED <<s, lim, i, pin, hits, out>> /\ i = 0 /\ pc = "start"
  BY DEF Start, GInv, Control
<1>2. FindingsRest'
  BY <1>1 DEF FInv, FindingsRest
<1>3. CASE s = <<>>
  BY <1>1, <1>2, <1>3 DEF Start, FInv, TypeOK, Extremes, GInv, Control
<1>4. CASE s # <<>>
  <2>1. 1 \in 1 .. Len(s) /\ s \in Seq(Readings)
    BY <1>4 DEF GInv, Control
  <2>2. 1 \in Pins /\ s[1].mv[1] \in Nat
    BY <2>1, SampleType, GuardAssumption DEF Pins
  <2>3. worst \in [ma : [Pins -> Nat], pct : 0 .. 100, mv : Nat]
    BY DEF FInv, TypeOK
  <2>4. worst' = [worst EXCEPT !.mv = s[1].mv[1]]
    BY <1>4 DEF Start
  <2>5. TypeOK'
    <3>1. worst' \in [ma : [Pins -> Nat], pct : 0 .. 100, mv : Nat]
      BY <2>2, <2>3, <2>4
    <3>2. (hits \in [Tests -> 0 .. i])' /\ (out.f \in Seq(Findings))'
      BY <1>1 DEF FInv, TypeOK
    <3>3. QED
      BY <1>1, <3>1, <3>2 DEF FInv, TypeOK, GInv, Control
  <2>6. worst.ma = [p \in Pins |-> 0] /\ worst.pct = 100
    BY <1>1 DEF FInv, NothingKept
  <2>7. Extremes'
    BY <1>1, <2>2, <2>3, <2>4, <2>6 DEF Extremes
  <2>8. pc' # "start"
    BY <1>4 DEF Start
  <2>9. QED
    BY <1>2, <2>5, <2>7, <2>8 DEF FInv
<1>5. QED
  BY <1>3, <1>4

(* Keeping the worse of two readings keeps the extremes of the samples     *)
(* counted and of the next one.                                            *)
LEMMA FindingsScan ==
    ASSUME GInv, FInv, GInv', Scan
    PROVE  FInv'
<1> DEFINE x == s[i + 1]
<1>1. /\ UNCHANGED <<s, lim, pc, pin, out>> /\ pc = "scan" /\ i' = i + 1
      /\ worst' = Worsen(worst, x)
      /\ i \in Nat /\ i < Len(s) /\ Len(s) \in Nat /\ s # <<>>
      /\ s \in Seq(Readings)
  BY DEF Scan, GInv, Control
<1>2. /\ x \in Readings
      /\ x.ma \in [Pins -> Nat] /\ x.mv \in [Pins -> Nat]
  BY <1>1, SampleType
<1>3. Lowest(x.mv) \in Nat /\ \A p \in Pins : Lowest(x.mv) <= x.mv[p]
  BY <1>2, LowestHighest
<1>4. Comparable(x) => Ratio(x) \in 0 .. 100
  BY <1>2, RatioIsPercent
<1>5. worst \in [ma : [Pins -> Nat], pct : 0 .. 100, mv : Nat]
  BY DEF FInv, TypeOK
<1>6. \A j \in 1 .. i' : j \in 1 .. i \/ j = i + 1
  BY <1>1
<1> HIDE DEF x
<1>7. ASSUME NEW p \in Pins
      PROVE  worst'.ma[p] = IF worst.ma[p] <= x.ma[p] THEN x.ma[p] ELSE worst.ma[p]
  BY <1>1, <1>2, <1>5, MinMaxOfTwo DEF Worsen
<1>8. worst'.pct = IF Comparable(x) /\ ~(worst.pct <= Ratio(x))
                   THEN Ratio(x) ELSE worst.pct
  <2>1. worst'.pct = IF Comparable(x)
                     THEN Min({worst.pct, Ratio(x)}) ELSE worst.pct
    BY <1>1 DEF Worsen, Ratio
  <2>2. ASSUME Comparable(x)
        PROVE  Min({worst.pct, Ratio(x)}) =
                   IF worst.pct <= Ratio(x) THEN worst.pct ELSE Ratio(x)
    <3>1. worst.pct \in Nat /\ Ratio(x) \in Nat
      BY <1>4, <1>5, <2>2
    <3>2. QED
      BY <3>1, MinMaxOfTwo
  <2>3. QED
    BY <2>1, <2>2
<1>9. worst'.mv = IF worst.mv <= Lowest(x.mv) THEN worst.mv ELSE Lowest(x.mv)
  BY <1>1, <1>3, <1>5, MinMaxOfTwo DEF Worsen
<1>10. TypeOK'
  <2>1. worst' \in [ma : [Pins -> Nat], pct : 0 .. 100, mv : Nat]
    <3>1. worst' = [ma |-> worst'.ma, pct |-> worst'.pct, mv |-> worst'.mv]
      BY <1>1 DEF Worsen
    <3>2. worst'.ma = [p \in Pins |-> worst'.ma[p]]
      BY <1>1 DEF Worsen
    <3>3. worst'.ma \in [Pins -> Nat]
      BY <1>2, <1>5, <1>7, <3>2
    <3>4. worst'.pct \in 0 .. 100 /\ worst'.mv \in Nat
      BY <1>3, <1>4, <1>5, <1>8, <1>9
    <3>5. QED
      BY <3>1, <3>3, <3>4
  <2>2. hits' \in [Tests -> 0 .. i']
    <3>1. hits' \in [Tests -> Nat] /\ \A k \in Tests : hits'[k] <= i'
      BY DEF GInv, Counted
    <3>2. i' \in Nat
      BY <1>1
    <3>3. QED
      BY <3>1, <3>2
  <2>3. QED
    BY <1>1, <2>1, <2>2 DEF FInv, TypeOK, GInv, Control
<1>11. Extremes'
  <2>1. x = s[i + 1] /\ i + 1 \in 1 .. i'
    BY <1>1 DEF x
  <2>2. ASSUME NEW p \in Pins
        PROVE  /\ \A j \in 1 .. i' : s[j].ma[p] <= worst'.ma[p]
               /\ \/ worst'.ma[p] = 0
                  \/ \E j \in 1 .. i' : s[j].ma[p] = worst'.ma[p]
    <3>1. /\ \A j \in 1 .. i : s[j].ma[p] <= worst.ma[p]
          /\ worst.ma[p] = 0 \/ \E j \in 1 .. i : s[j].ma[p] = worst.ma[p]
      BY <1>1 DEF FInv, Extremes
    <3>2. \A j \in 1 .. i' : s[j].ma[p] \in Nat
      BY <1>1, SampleType
    <3>3. worst.ma[p] \in Nat /\ x.ma[p] \in Nat
      BY <1>2, <1>5
    <3>4. QED
      BY <1>1, <1>6, <1>7, <2>1, <3>1, <3>2, <3>3
  <2>3. /\ \A j \in 1 .. i' : Comparable(s[j]) => worst'.pct <= Ratio(s[j])
        /\ \/ worst'.pct = 100
           \/ \E j \in 1 .. i' : Comparable(s[j]) /\ Ratio(s[j]) = worst'.pct
    <3>1. /\ \A j \in 1 .. i : Comparable(s[j]) => worst.pct <= Ratio(s[j])
          /\ \/ worst.pct = 100
             \/ \E j \in 1 .. i : Comparable(s[j]) /\ Ratio(s[j]) = worst.pct
      BY <1>1 DEF FInv, Extremes
    <3>2. ASSUME NEW j \in 1 .. i', Comparable(s[j]) PROVE Ratio(s[j]) \in Nat
      <4>1. s[j] \in Readings
        BY <1>1, SampleType
      <4>2. QED
        BY <3>2, <4>1, RatioIsPercent
    <3>3. QED
      BY <1>1, <1>4, <1>5, <1>6, <1>8, <2>1, <3>1, <3>2
  <2>4. /\ \A j \in 1 .. i' : worst'.mv <= Lowest(s[j].mv)
        /\ \E j \in 1 .. i' : worst'.mv = Lowest(s[j].mv)
    <3>1. /\ \A j \in 1 .. i : worst.mv <= Lowest(s[j].mv)
          /\ IF i = 0
             THEN \E p \in Pins : worst.mv = s[1].mv[p]
             ELSE \E j \in 1 .. i : worst.mv = Lowest(s[j].mv)
      BY <1>1 DEF FInv, Extremes
    <3>2. ASSUME NEW j \in 1 .. i' PROVE Lowest(s[j].mv) \in Nat
      <4>1. s[j].mv \in [Pins -> Nat]
        BY <1>1, SampleType
      <4>2. QED
        BY <4>1, LowestHighest
    <3>3. i = 0 => Lowest(x.mv) <= worst.mv
      BY <1>3, <2>1, <3>1
    <3>4. QED
      BY <1>1, <1>3, <1>5, <1>6, <1>9, <2>1, <3>1, <3>2, <3>3
  <2>5. QED
    BY <1>1, <2>2, <2>3, <2>4 DEF Extremes, Comparable, Ratio
<1>12. FindingsRest'
  BY <1>1 DEF FInv, FindingsRest
<1>13. QED
  BY <1>1, <1>10, <1>11, <1>12 DEF FInv

(* Each rule reports what it kept of the quantity it is about; the ratio   *)
(* only when every sample was comparable.                                  *)
LEMMA FindingsReport ==
    ASSUME GInv, FInv, GInv',
           ReportOpenPin \/ ReportPinCurrent \/ ReportImbalance \/ ReportVoltage
    PROVE  FInv'
<1>1. /\ s # <<>> /\ UNCHANGED <<s, i, hits, worst>>
      /\ pc \notin {"start", "scan"} /\ pc' \notin {"start", "scan"}
      /\ s \in Seq(Readings) /\ i = Len(s) /\ i > 0 /\ Counted
  BY DEF ReportOpenPin, ReportPinCurrent, ReportImbalance, ReportVoltage,
         NextPin, GInv, Control
<1>2. /\ pin \in Pins /\ pin \in 0 .. NPins /\ 0 \in 0 .. NPins
      /\ worst.ma[pin] \in Nat /\ worst.pct \in Nat /\ worst.mv \in Nat
  <2>1. pin \in Pins /\ worst \in [ma : [Pins -> Nat], pct : 0 .. 100, mv : Nat]
    BY DEF FInv, TypeOK
  <2>2. NPins \in Nat /\ (pin \in Pins => pin \in 0 .. NPins) /\ 0 \in 0 .. NPins
    BY GuardAssumption DEF Pins
  <2>3. QED
    BY <2>1, <2>2
<1>3. CASE UNCHANGED out
  BY <1>1, <1>2, <1>3, FindingAdded DEF Quotes
<1>4. CASE ReportOpenPin /\ out' = Add("CRIT", "open-pin", pin, 0)
  BY <1>1, <1>2, <1>4, FindingAdded DEF Quotes
<1>5. CASE /\ ReportPinCurrent
           /\ \E l \in {"WARN", "CRIT"} :
                  out' = Add(l, "pin-current", pin, worst.ma[pin])
  BY <1>1, <1>2, <1>5, FindingAdded DEF Quotes
<1>6. CASE /\ ReportImbalance
           /\ \E t \in {"ratio_crit", "ratio_warn", "ratio_note"} : Held(t, 0)
           /\ \E l \in {"NOTE", "WARN", "CRIT"} :
                  out' = Add(l, "imbalance", 0, worst.pct)
  <2>1. PICK t \in {"ratio_crit", "ratio_warn", "ratio_note"} : Held(t, 0)
    BY <1>6
  <2>2. InEverySample(<<t, 0>>)
    BY <1>1, <2>1, HeldIsPersistence DEF Tests, WholeTests
  <2>3. \A j \in 1 .. Len(s) : Comparable(s[j])
    BY <2>2 DEF InEverySample, Holds, Uneven
  <2>4. PICK l \in {"NOTE", "WARN", "CRIT"} :
            out' = Add(l, "imbalance", 0, worst.pct)
    BY <1>6
  <2>5. Quotes([level |-> l, rule |-> "imbalance", pin |-> 0,
                value |-> worst.pct])
    BY <2>3 DEF Quotes
  <2>6. QED
    BY <1>1, <1>2, <2>4, <2>5, FindingAdded
<1>7. CASE /\ ReportVoltage
           /\ \E l \in {"WARN", "CRIT"} :
                  out' = Add(l, "voltage", 0, worst.mv)
  BY <1>1, <1>2, <1>7, FindingAdded DEF Quotes
<1>8. QED
  BY <1>3, <1>4, <1>5, <1>6, <1>7
  DEF ReportOpenPin, ReportPinCurrent, ReportImbalance, ReportVoltage

LEMMA FindingsStep == GInv /\ FInv /\ [Next]_vars => FInv'
<1> SUFFICES ASSUME GInv, FInv, [Next]_vars PROVE FInv'
  OBVIOUS
<1>1. GInv'
  BY GuardStep
<1>2. CASE Start
  BY <1>1, <1>2, FindingsStart
<1>3. CASE Scan
  BY <1>1, <1>3, FindingsScan
<1>4. CASE Scanned \/ UNCHANGED vars
  <2>1. UNCHANGED <<s, i, hits, worst, out>> /\ (pc # "start" => pc' # "start")
    BY <1>4 DEF Scanned, vars
  <2>2. pc' \in {"start", "scan"} => pc' = pc
    BY <1>4 DEF Scanned, vars
  <2>3. pc = "start" => pc' = "start"
    BY <1>4 DEF Scanned, vars
  <2>4. TypeOK'
    BY <1>1, <2>1 DEF FInv, TypeOK, GInv, Control
  <2>5. Extremes'
    BY <2>1, <2>3 DEF FInv, Extremes, Comparable, Ratio
  <2>6. FindingsRest'
    BY <2>1, <2>2 DEF FInv, FindingsRest, Quotes, Comparable
  <2>7. QED
    BY <2>1, <2>4, <2>5, <2>6 DEF FInv, NothingKept
<1>5. CASE ReportOpenPin \/ ReportPinCurrent \/ ReportImbalance \/ ReportVoltage
  BY <1>1, <1>5, FindingsReport
<1>6. QED
  BY <1>2, <1>3, <1>4, <1>5 DEF Next, Done

-----------------------------------------------------------------------------

LEMMA FindingsInvariant == Spec => [](GInv /\ FInv)
BY GuardInit, GuardStep, FindingsInit, FindingsStep, PTL DEF Spec

(* The types of guard_eval()'s counters, extremes and findings: no counter *)
(* passes the samples counted, the ratio kept is a percentage, and the     *)
(* array of findings never overruns its capacity.                          *)
THEOREM GuardTypeCorrect == Spec => []TypeOK
<1>1. FInv => TypeOK
  BY DEF FInv
<1>2. QED
  BY <1>1, FindingsInvariant, PTL

(* R1 and R3: a pin at its rating in every sample makes the run critical,  *)
(* whatever else was found, and samples below the load gate are never      *)
(* called uneven.                                                          *)
THEOREM RatingRespected == Spec => []RatingIsALimit
<1>1. ASSUME GInv, FInv, VerdictIsWorst PROVE RatingIsALimit
  <2> SUFFICES ASSUME pc = "done", s # <<>> PROVE RatingIsALimit
    BY DEF RatingIsALimit
  <2>1. ASSUME NEW p \in Pins, \A j \in 1 .. Len(s) : s[j].ma[p] >= PinCrit
        PROVE  out.level = "CRIT"
    <3> DEFINE k == <<"pin_crit", p>>
    <3>1. k \in Tests /\ k[1] = "pin_crit" /\ k[2] = p
      BY DEF Tests, PinTests
    <3>2. InEverySample(k)
      BY <2>1, <3>1 DEF InEverySample, Holds, AtLimit
    <3>3. LevelOf[k[1]] = "CRIT"
      BY <3>1 DEF LevelOf
    <3>4. Severity(out.level) >= Severity("CRIT")
      BY <1>1, <3>1, <3>2, <3>3 DEF VerdictIsWorst
    <3>5. out.level \in {"OK", "WARN", "CRIT"}
      BY <1>1 DEF GInv, Control
    <3>6. QED
      BY <3>4, <3>5 DEF Severity
  <2>2. ASSUME \A j \in 1 .. Len(s) : TotalMa(s[j]) < RatioGate,
               NEW n \in 1 .. Len(out.f), out.f[n].rule = "imbalance"
        PROVE  FALSE
    <3>1. Quotes(out.f[n])
      BY <1>1 DEF FInv, FindingsRest
    <3>2. \A j \in 1 .. Len(s) : TotalMa(s[j]) >= RatioGate
      BY <2>2, <3>1 DEF Quotes, Comparable
    <3>3. 1 \in 1 .. Len(s) /\ s \in Seq(Readings)
      BY <1>1 DEF GInv, Control
    <3>4. TotalMa(s[1]) \in Nat /\ RatioGate \in Nat
      BY <3>3, SampleType, TotalType, GuardAssumption
    <3>5. QED
      BY <2>2, <3>2, <3>3, <3>4
  <2>3. QED
    BY <2>1, <2>2 DEF RatingIsALimit
<1>2. QED
  BY <1>1, FindingsInvariant, VerdictSound, PTL

(* What a finding quotes is the extreme of the run: the kept extreme bounds *)
(* every sample and one sample attains it; for the ratio this needs every  *)
(* sample to be comparable, which the rule itself requires.                *)
LEMMA QuotedIsExtreme ==
    ASSUME GInv, FInv, NEW n \in 1 .. Len(out.f)
    PROVE  LET f == out.f[n]
               Of(V) == {V[j] : j \in 1 .. Len(s)}
           IN  /\ f.rule = "pin-current" =>
                      f.value = Max(Of([j \in 1 .. Len(s) |-> s[j].ma[f.pin]]))
               /\ f.rule = "imbalance" =>
                      f.value = Min(Of([j \in 1 .. Len(s) |-> Ratio(s[j])]))
               /\ f.rule = "voltage" =>
                      f.value = Min(Of([j \in 1 .. Len(s) |-> Lowest(s[j].mv)]))
<1> DEFINE f == out.f[n]
<1>1. /\ s \in Seq(Readings) /\ i = Len(s) /\ i \in Nat /\ i > 0
      /\ pc # "start" /\ s # <<>> /\ Quotes(f)
  <2>1. out.f # <<>> /\ Quotes(f)
    BY DEF FInv, FindingsRest
  <2>2. pc \notin {"start", "scan"} /\ s # <<>> /\ i = Len(s)
    BY <2>1 DEF FInv, FindingsRest
  <2>3. s \in Seq(Readings)
    BY DEF GInv, Control
  <2>4. Len(s) \in Nat /\ Len(s) > 0
    BY <2>2, <2>3
  <2>5. QED
    BY <2>1, <2>2, <2>3, <2>4
<1>2. worst \in [ma : [Pins -> Nat], pct : 0 .. 100, mv : Nat]
  BY DEF FInv, TypeOK
<1> HIDE DEF f
<1>3. ASSUME f.rule = "pin-current"
      PROVE  f.value = Max({[j \in 1 .. i |-> s[j].ma[f.pin]][k] : k \in 1 .. i})
  <2> DEFINE p == f.pin
             V == [j \in 1 .. i |-> s[j].ma[p]]
  <2>1. p \in Pins /\ f.value = worst.ma[p]
    BY <1>1, <1>3 DEF Quotes
  <2>2. V \in [1 .. i -> Nat]
    BY <1>1, <2>1, SampleType
  <2>3. /\ \A j \in 1 .. i : V[j] <= worst.ma[p]
        /\ worst.ma[p] = 0 \/ \E j \in 1 .. i : V[j] = worst.ma[p]
    BY <1>1, <2>1 DEF FInv, Extremes
  <2> HIDE DEF V
  <2>4. PICK k \in 1 .. i : V[k] = worst.ma[p]
    <3>1. 1 \in 1 .. i /\ V[1] \in Nat /\ V[1] <= worst.ma[p]
      BY <1>1, <2>2, <2>3
    <3>2. QED
      BY <2>3, <3>1
  <2>5. V[k] = Max({V[j] : j \in 1 .. i})
    BY <1>1, <2>2, <2>3, <2>4, ExtremeOfSeries
  <2>6. QED
    BY <2>1, <2>4, <2>5 DEF V
<1>4. ASSUME f.rule = "imbalance"
      PROVE  f.value = Min({[j \in 1 .. i |-> Ratio(s[j])][k] : k \in 1 .. i})
  <2> DEFINE V == [j \in 1 .. i |-> Ratio(s[j])]
  <2>1. f.value = worst.pct /\ \A j \in 1 .. i : Comparable(s[j])
    BY <1>1, <1>4 DEF Quotes
  <2>2. \A j \in 1 .. i : Ratio(s[j]) \in Nat /\ Ratio(s[j]) <= 100
    <3> SUFFICES ASSUME NEW j \in 1 .. i
                 PROVE  Ratio(s[j]) \in Nat /\ Ratio(s[j]) <= 100
      OBVIOUS
    <3>1. s[j] \in Readings
      BY <1>1, SampleType
    <3>2. Ratio(s[j]) \in 0 .. 100
      BY <2>1, <3>1, RatioIsPercent
    <3>3. \A q \in 0 .. 100 : q \in Nat /\ q <= 100
      OBVIOUS
    <3>4. QED
      BY <3>2, <3>3
  <2>3. /\ \A j \in 1 .. i : worst.pct <= V[j]
        /\ worst.pct = 100 \/ \E j \in 1 .. i : V[j] = worst.pct
    BY <1>1, <2>1 DEF FInv, Extremes
  <2>4. V \in [1 .. i -> Nat]
    BY <2>2
  <2>5. \A j \in 1 .. i : V[j] <= 100
    BY <2>2
  <2> HIDE DEF V
  <2>6. PICK k \in 1 .. i : V[k] = worst.pct
    <3>1. 1 \in 1 .. i
      BY <1>1
    <3>2. V[1] \in Nat /\ V[1] <= 100 /\ worst.pct <= V[1]
      BY <2>3, <2>4, <2>5, <3>1
    <3>3. worst.pct = 100 => V[1] = worst.pct
      BY <3>2
    <3>4. QED
      BY <2>3, <3>1, <3>3
  <2>7. V[k] = Min({V[j] : j \in 1 .. i})
    BY <1>1, <2>3, <2>4, <2>6, ExtremeOfSeries
  <2>8. QED
    BY <2>1, <2>6, <2>7 DEF V
<1>5. ASSUME f.rule = "voltage"
      PROVE  f.value = Min({[j \in 1 .. i |-> Lowest(s[j].mv)][k] : k \in 1 .. i})
  <2> DEFINE V == [j \in 1 .. i |-> Lowest(s[j].mv)]
  <2>1. f.value = worst.mv
    BY <1>1, <1>5 DEF Quotes
  <2>2. ASSUME NEW j \in 1 .. i PROVE V[j] \in Nat
    <3>1. s[j].mv \in [Pins -> Nat]
      BY <1>1, SampleType
    <3>2. QED
      BY <3>1, LowestHighest
  <2>3. /\ \A j \in 1 .. i : worst.mv <= V[j]
        /\ \E j \in 1 .. i : V[j] = worst.mv
    BY <1>1 DEF FInv, Extremes
  <2>4. V \in [1 .. i -> Nat]
    BY <2>2
  <2> HIDE DEF V
  <2>5. PICK k \in 1 .. i : V[k] = worst.mv
    BY <2>3
  <2>6. V[k] = Min({V[j] : j \in 1 .. i})
    BY <1>1, <2>3, <2>4, <2>5, ExtremeOfSeries
  <2>7. QED
    BY <2>1, <2>5, <2>6 DEF V
<1>6. QED
  BY <1>1, <1>3, <1>4, <1>5 DEF f

(* Every finding guard_eval() makes quotes the worst reading of the run it *)
(* is about, although it compares and keeps one sample at a time.          *)
THEOREM WorstQuoted == Spec => []FindingsQuoteTheWorst
<1>1. ASSUME GInv, FInv PROVE FindingsQuoteTheWorst
  <2> SUFFICES ASSUME NEW n \in 1 .. Len(out.f), out.f[n].rule # "open-pin"
               PROVE  FindingsQuoteTheWorst!(n)
    BY DEF FindingsQuoteTheWorst
  <2> DEFINE f == out.f[n]
             Of(V) == {V[j] : j \in 1 .. Len(s)}
             Ma == [j \in 1 .. Len(s) |-> s[j].ma[f.pin]]
             Pct == [j \in 1 .. Len(s) |-> Ratio(s[j])]
             Mv == [j \in 1 .. Len(s) |-> Lowest(s[j].mv)]
  <2>1. /\ f.rule = "pin-current" => f.value = Max(Of(Ma))
        /\ f.rule = "imbalance" => f.value = Min(Of(Pct))
        /\ f.rule = "voltage" => f.value = Min(Of(Mv))
    BY <1>1, QuotedIsExtreme
  <2>2. /\ Of(Ma) = {s[j].ma[f.pin] : j \in 1 .. Len(s)}
        /\ Of(Pct) = {Ratio(s[j]) : j \in 1 .. Len(s)}
        /\ Of(Mv) = {Lowest(s[j].mv) : j \in 1 .. Len(s)}
    OBVIOUS
  <2>3. f.rule \in {"pin-current", "imbalance", "voltage"}
    BY <1>1 DEF FInv, FindingsRest, Quotes
  <2> HIDE DEF f, Of
  <2>4. CASE f.rule = "pin-current"
    BY <2>1, <2>2, <2>4 DEF f
  <2>5. CASE f.rule = "imbalance"
    BY <2>1, <2>2, <2>5 DEF f, Ratio
  <2>6. CASE f.rule = "voltage"
    BY <2>1, <2>2, <2>6 DEF f
  <2>7. QED
    BY <2>3, <2>4, <2>5, <2>6
<1>2. QED
  BY <1>1, FindingsInvariant, PTL
=============================================================================
