------------------------- MODULE MCUpdateActivation -------------------------
(***************************************************************************)
(* Instances of UpdateActivation for TLC: what each command does is a      *)
(* function, which a configuration file cannot give.                       *)
(***************************************************************************)
EXTENDS UpdateActivation

CONSTANTS o, a

\* A check that stages and activates on its own, an activation of the same
\* binary, and a rollback to the original.
KindManaged  == <<"check", "activate", "rollback">>
ImageManaged == <<a, a, o>>
=============================================================================
