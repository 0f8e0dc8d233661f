-------------------------- MODULE MCServerStatus --------------------------
(* Instances of ServerStatus for TLC.                                      *)
EXTENDS ServerStatus, TLC

CONSTANTS p1, p2, portA

MCTwo == {p1, p2}
MCPort == {portA}
=============================================================================
