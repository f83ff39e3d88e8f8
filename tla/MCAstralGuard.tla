--------------------------- MODULE MCAstralGuard ---------------------------
(* Samples of a two-pin connector, in tenths of an ampere and of a volt:   *)
(* currents on both sides of every limit and exactly on two of them.       *)
EXTENDS AstralGuard

CONSTANTS Currents, LowVoltages

MCReadings ==
    {[ma |-> <<a, b>>, mv |-> <<118, v>>] :
        a \in Currents, b \in Currents, v \in LowVoltages}
=============================================================================
