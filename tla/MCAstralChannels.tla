-------------------------- MODULE MCAstralChannels --------------------------
(* A two-pin connector. A pin is on the one end of the driver's bounds or  *)
(* the other, or just past one of them. The three copies of the bounds are *)
(* those of the sources.                                                   *)
EXTENDS AstralChannels

(* driver/astral.h                                                         *)
ASTRAL_MV_MIN == 6000

ASTRAL_MV_MAX == 13000

ASTRAL_MA_MAX == 30000

(* Mutant: a bound of the guard's tightened on its own.                    *)
GUARD_MA_MAX_TIGHTER == 25000

(* guard/astral_guard.h                                                    *)
GUARD_MV_MIN == 6000

GUARD_MV_MAX == 13000

GUARD_MA_MAX == 30000

(* Mutant: the end of range() taken for inclusive.                         *)
PLAUSIBLE_MV_SHORT == 6000 .. 13000 - 1

(* src/astral_oracle/decode.py: range() excludes its end.                  *)
PLAUSIBLE_MV == 6000 .. 13001 - 1

PLAUSIBLE_MA == 0 .. 30001 - 1

Within == {[mv |-> MvMin, ma |-> 7], [mv |-> MvMax, ma |-> MaMax]}

Outside == {[mv |-> MvMin - 1, ma |-> 7], [mv |-> MvMax + 1, ma |-> 7],
            [mv |-> MvMin, ma |-> MaMax + 1]}

MCChips == [1 .. PinCount -> Within \cup Outside]
=============================================================================
