---------------------------- MODULE MCRoutingSlip ----------------------------
(* Instances of RoutingSlip for TLC.                                       *)
EXTENDS RoutingSlip, TLC

CONSTANTS rs1, rs2

Symmetry == Permutations(Slips)
=============================================================================
