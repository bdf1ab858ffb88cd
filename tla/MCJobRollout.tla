----------------------------- MODULE MCJobRollout -----------------------------
(***************************************************************************)
(* One canary and three more targets in batches of two.                    *)
(***************************************************************************)
EXTENDS JobRollout, RolloutPlan

Canaries == {2}

FourTargets == 1 .. 4

BatchesOfTwo == TargetBatches(FourTargets, Canaries, 2)

Last == TotalBatches(BatchesOfTwo) - 1

Policy(failures, review, delay) ==
    [maxFailures |-> failures, pauseAfterCanary |-> review, delayed |-> delay]

SomePolicies == {Policy(0, TRUE, FALSE), Policy(1, FALSE, TRUE)}

ASSUME ValidRollout(FourTargets, Canaries, 2)
==============================================================================
