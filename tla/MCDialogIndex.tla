---------------------------- MODULE MCDialogIndex ----------------------------
(* Instance of DialogIndex for TLC.                                        *)
EXTENDS DialogIndex, TLC

CONSTANTS d1, d2, d3

MCIds == {d1, d2, d3}
MCSymmetry == Permutations(MCIds)
=============================================================================
