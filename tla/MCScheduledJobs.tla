--------------------------- MODULE MCScheduledJobs ---------------------------
(***************************************************************************)
(* A schedule that starts two jobs, with one target each.                  *)
(***************************************************************************)
EXTENDS ScheduledJobs, TLC

MCJobOf == [t \in {1, 2} |-> t]

Symmetry == Permutations(Owners)
==============================================================================
