------------------------- MODULE MCGatewaySessions -------------------------
(* Small instances of GatewaySessions for TLC.                             *)
EXTENDS GatewaySessions

CONSTANTS u1, h1

(* All grants belong to one user on one server. *)
OneOwner  == [g \in Grants |-> u1]
OneTarget == [g \in Grants |-> h1]
=============================================================================
