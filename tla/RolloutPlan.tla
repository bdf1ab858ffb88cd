----------------------------- MODULE RolloutPlan ------------------------------
(***************************************************************************)
(* How the targets of a job are cut into rollout batches when the job is   *)
(* created.  Constant-level.  Client ids are numbers, ordered as the code  *)
(* orders them.                                                            *)
(***************************************************************************)
EXTENDS Naturals, FiniteSets

(***************************************************************************)
(* validate_job_rollout: a rollout has a canary and something after it.    *)
(***************************************************************************)
ValidRollout(targets, canaries, batchSize) ==
    /\ canaries # {} /\ canaries \subseteq targets
    /\ Cardinality(canaries) < Cardinality(targets)
    /\ batchSize \in 1 .. 100

\* The place of t among the targets that are not canaries, sorted by id.
Place(t, targets, canaries) ==
    Cardinality({r \in targets \ canaries : r < t})

(***************************************************************************)
(* prepare_job_rollout: the canaries are batch 0, the other targets follow *)
(* in the order of their ids, batchSize at a time.                         *)
(***************************************************************************)
TargetBatches(targets, canaries, batchSize) ==
    [t \in targets |-> IF t \in canaries THEN 0
                       ELSE Place(t, targets, canaries) \div batchSize + 1]

TotalBatches(batch) ==
    CHOOSE n \in {batch[t] + 1 : t \in DOMAIN batch} :
        \A t \in DOMAIN batch : batch[t] < n
==============================================================================
