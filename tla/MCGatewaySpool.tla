--------------------------- MODULE MCGatewaySpool ---------------------------
(***************************************************************************)
(* Instances of GatewaySpool for TLC: the owner of each event is a         *)
(* function, which a configuration file cannot give.                       *)
(***************************************************************************)
EXTENDS GatewaySpool

CONSTANT a

\* Three outputs and a lifecycle event of one client.
OneClient == <<a, a, a, a>>
=============================================================================
