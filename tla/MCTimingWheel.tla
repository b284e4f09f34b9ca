--------------------------- MODULE MCTimingWheel ----------------------------
(* A small timing wheel, for TLC. *)
EXTENDS TimingWheel
=============================================================================
