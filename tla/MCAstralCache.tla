--------------------------- MODULE MCAstralCache ---------------------------
(* Two readers of one chip, for TLC. They are interchangeable, but liveness *)
(* is checked too, so no symmetry is declared.                              *)
EXTENDS AstralCache, TLC

CONSTANTS r1, r2
=============================================================================
