-------------------------- MODULE MCJobTransactions --------------------------
(***************************************************************************)
(* JobTransactions with a small fleet: job 1 targets both clients and job  *)
(* 2 the first one, so that transactions meet on a job, on a client and on *)
(* a target.                                                               *)
(***************************************************************************)
EXTENDS JobTransactions, TLC

MCTargets == {<<1, 1>>, <<1, 2>>, <<2, 1>>}
MCOneJobTargets == {<<1, 1>>, <<1, 2>>}

Symmetry == Permutations(Workers)
==============================================================================
