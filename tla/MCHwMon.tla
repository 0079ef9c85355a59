------------------------------- MODULE MCHwMon -------------------------------
(* TLC instances of HwMon.                                                 *)
EXTENDS HwMon

CONSTANTS r1, r2
=============================================================================
