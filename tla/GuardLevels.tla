---------------------------- MODULE GuardLevels ----------------------------
(***************************************************************************)
(* The verdicts of astral-guard and how they compare: enum guard_level and *)
(* GUARD_NOTE of guard/astral_guard.h, guard_severity() of                 *)
(* guard/guard_eval.c.  The numeric value of a level is the process exit   *)
(* code and is not its severity.                                           *)
(***************************************************************************)
EXTENDS Integers

Verdicts == {"OK", "WARN", "CRIT", "UNKNOWN"}

ExitCode == [NOTE |-> -1, OK |-> 0, WARN |-> 1, CRIT |-> 2, UNKNOWN |-> 3]

(* UNKNOWN shares its rank with any level the code does not name.          *)
Severity(level) ==
    CASE level = "OK" -> 0
      [] level = "NOTE" -> 1
      [] level = "WARN" -> 2
      [] level = "CRIT" -> 4
      [] OTHER -> 3

(* The verdict so far, raised by one more level: an advisory never becomes *)
(* the verdict.                                                            *)
Raised(verdict, level) ==
    IF level # "NOTE" /\ Severity(level) > Severity(verdict)
    THEN level ELSE verdict
=============================================================================
