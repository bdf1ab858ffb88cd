------------------------------ MODULE JobRollout ------------------------------
(***************************************************************************)
(* A staged rollout of one job: the job_rollouts row, the dispatcher's     *)
(* sweep that moves it from batch to batch and claims the targets of the   *)
(* released batches, and the operators who pause, resume and cancel it.    *)
(*                                                                         *)
(* Every SQL statement reads the snapshot of the moment it starts (READ    *)
(* COMMITTED) and locks rows in their latest version, so the dispatcher's  *)
(* two statements take two steps each: one takes the snapshot, one locks,  *)
(* rechecks the locked row and commits.  Transactions of operators commit  *)
(* in between, and hold the rollout row from SELECT FOR UPDATE to commit.  *)
(*                                                                         *)
(* A target is "queued", "active" (dispatching or running), "completed",   *)
(* or "failed", which stands for every other terminal status: rollouts     *)
(* tell only these apart.                                                  *)
(***************************************************************************)
EXTENDS Integers, FiniteSets

CONSTANTS
    Targets,      \* the job's targets
    Batch,        \* job_rollout_targets.batch_index, from prepare_job_rollout
    LastBatch,    \* total_batches - 1
    Policies,     \* the rollout policies a job may be created with
    MaxRequests,  \* bound on the requests of operators
    MaxCrashes    \* bound on crashes of the API process

ASSUME RolloutAssumption ==
    /\ IsFiniteSet(Targets)
    /\ LastBatch \in Nat
    /\ Batch \in [Targets -> 0 .. LastBatch]
    /\ \A k \in 0 .. LastBatch : \E t \in Targets : Batch[t] = k
    /\ Policies \subseteq
         [maxFailures : Nat, pauseAfterCanary : BOOLEAN, delayed : BOOLEAN]
    /\ MaxRequests \in Nat /\ MaxCrashes \in Nat

VARIABLES
    target,    \* job_targets.status
    policy,    \* the policy columns of job_rollouts
    rollout,   \* its status, current_batch, failure_baseline, and whether
               \* next_batch_at has been reached
    pc,        \* the next statement of the dispatcher, or the one in flight
    seen,      \* the target snapshot of a reconcile statement in flight
    picked,    \* the due targets in the snapshot of a claim in flight
    op,        \* the operator transaction that holds the rollout row
    requests, crashes,
    \* History: the targets ever claimed, the failures an operator has let
    \* pass, and whether one resumed with the canaries' results in.
    started, acked, reviewed

history == <<started, acked, reviewed>>
dispatcher == <<pc, seen, picked>>
bounds == <<requests, crashes>>
vars == <<target, policy, rollout, dispatcher, op, bounds, history>>

Terminal == {t \in Targets : target[t] \in {"completed", "failed"}}
Failed   == {t \in Targets : target[t] = "failed"}
Queued   == {t \in Targets : target[t] = "queued"}

UpTo(S, k) == {t \in S : Batch[t] <= k}

NoRead == [selected |-> FALSE, done |-> {}, failed |-> {}]
NoOp   == [kind |-> "none", failed |-> {}]

(***************************************************************************)
(* The job is created with its rollout running at batch 0.  A target that  *)
(* cannot take the command is created terminal.                            *)
(***************************************************************************)
Init ==
    /\ target \in [Targets -> {"queued", "failed"}]
    /\ Queued # {}
    /\ policy \in Policies
    /\ rollout = [status |-> "running", current |-> 0, baseline |-> 0, due |-> TRUE]
    /\ pc = "reconcile" /\ seen = NoRead /\ picked = {}
    /\ op = NoOp
    /\ requests = 0 /\ crashes = 0
    /\ started = {} /\ acked = {} /\ reviewed = FALSE

-----------------------------------------------------------------------------
(***************************************************************************)
(* The dispatcher's sweep: reconcile the rollout, claim what is due, and   *)
(* again after each wave.                                                  *)
(***************************************************************************)

\* The reconcile statement takes its snapshot.
ReconcileRead ==
    /\ pc = "reconcile"
    /\ seen' = [selected |-> rollout.status = "running",
                done |-> Terminal, failed |-> Failed]
    /\ pc' = "reconciling"
    /\ UNCHANGED <<target, policy, rollout, picked, op, bounds, history>>

\* FOR UPDATE SKIP LOCKED: the row, in its latest version, if it is free.
RowLocked ==
    seen.selected /\ rollout.status = "running" /\ op.kind = "none"

\* Mutant: one finished target settles the batch.
BatchSettled_Any ==
    \E t \in Targets : Batch[t] = rollout.current /\ t \in seen.done

\* Mutant: only the completed targets of the batch count as finished.
BatchSettled_Completed ==
    \A t \in Targets : Batch[t] = rollout.current => t \in seen.done \ seen.failed

(***************************************************************************)
(* terminal_count = current_count.                                         *)
(***************************************************************************)
BatchSettled ==
    \A t \in Targets : Batch[t] = rollout.current => t \in seen.done

\* Mutant: the failures of the current batch alone are counted.
NewFailures_BatchOnly ==
    Cardinality({t \in seen.failed : Batch[t] = rollout.current}) - rollout.baseline

(***************************************************************************)
(* failure_count - failure_baseline.                                       *)
(***************************************************************************)
NewFailures ==
    Cardinality(UpTo(seen.failed, rollout.current)) - rollout.baseline

\* The end of the reconcile transaction.
Reconciled ==
    /\ pc = "reconciling"
    /\ pc' = "claim" /\ seen' = NoRead
    /\ UNCHANGED <<target, policy, picked, op, bounds, history>>

ReconcileNothing ==
    /\ ~(RowLocked /\ BatchSettled)
    /\ UNCHANGED rollout
    /\ Reconciled

\* Mutant: the rollout completes one batch early.
ReconcileComplete_Early ==
    /\ RowLocked /\ BatchSettled
    /\ rollout.current + 1 >= LastBatch
    /\ rollout' = [rollout EXCEPT !.status = "completed"]
    /\ Reconciled

(***************************************************************************)
(* The last batch is settled: the rollout is completed, whatever failed.   *)
(***************************************************************************)
ReconcileComplete ==
    /\ RowLocked /\ BatchSettled
    /\ rollout.current + 1 > LastBatch
    /\ rollout' = [rollout EXCEPT !.status = "completed"]
    /\ Reconciled

\* Mutant: the canary review is forgotten.
MustPause_NoReview == NewFailures > policy.maxFailures

\* pause_reason failure_threshold or canary_review.
MustPause ==
    \/ NewFailures > policy.maxFailures
    \/ rollout.current = 0 /\ policy.pauseAfterCanary

(***************************************************************************)
(* Both pauses move on to the next batch, which the resume releases.       *)
(***************************************************************************)
ReconcilePause ==
    /\ RowLocked /\ BatchSettled
    /\ rollout.current + 1 <= LastBatch
    /\ MustPause
    /\ rollout' = [rollout EXCEPT !.status = "paused",
                                  !.current = @ + 1, !.due = TRUE]
    /\ Reconciled

\* Mutant: the last batch is advanced past as well.
ReconcileAdvance_PastLast ==
    /\ RowLocked /\ BatchSettled
    /\ ~MustPause
    /\ rollout' = [rollout EXCEPT !.current = @ + 1, !.due = ~policy.delayed]
    /\ Reconciled

(***************************************************************************)
(* The next batch is released, after batch_delay_secs.                     *)
(***************************************************************************)
ReconcileAdvance ==
    /\ RowLocked /\ BatchSettled
    /\ rollout.current + 1 <= LastBatch
    /\ ~MustPause
    /\ rollout' = [rollout EXCEPT !.current = @ + 1, !.due = ~policy.delayed]
    /\ Reconciled

\* next_batch_at passes.
Elapse ==
    /\ ~rollout.due
    /\ rollout' = [rollout EXCEPT !.due = TRUE]
    /\ UNCHANGED <<target, policy, dispatcher, op, bounds, history>>

\* Mutant: the gate looks at the batch and not at the rollout's status.
Due_AnyStatus == {t \in Queued : Batch[t] <= rollout.current /\ rollout.due}

(***************************************************************************)
(* The rollout gate of claim_due_job_targets for targets that are queued.  *)
(***************************************************************************)
Due ==
    {t \in Queued : /\ Batch[t] <= rollout.current
                    /\ rollout.status = "running" /\ rollout.due}

\* The claim statement takes its snapshot.
ClaimRead ==
    /\ pc = "claim"
    /\ picked' = Due
    /\ pc' = "claiming"
    /\ UNCHANGED <<target, policy, rollout, seen, op, bounds, history>>

(***************************************************************************)
(* It locks and rechecks target rows, not the rollout: S are the picked    *)
(* targets still queued, except those other transactions hold.             *)
(***************************************************************************)
Claim(S) ==
    /\ pc = "claiming"
    /\ S \subseteq picked \cap Queued
    /\ target' = [t \in Targets |-> IF t \in S THEN "active" ELSE target[t]]
    /\ started' = started \cup S
    /\ picked' = {} /\ pc' = "reconcile"
    /\ UNCHANGED <<policy, rollout, seen, op, bounds, acked, reviewed>>

-----------------------------------------------------------------------------
(***************************************************************************)
(* The targets.                                                            *)
(***************************************************************************)

\* The target's outcome is recorded: a result, a deadline, a lost agent, a
\* skip of an undelivered command.
Finish(t, outcome) ==
    /\ target[t] = "active"
    /\ target' = [target EXCEPT ![t] = outcome]
    /\ UNCHANGED <<policy, rollout, dispatcher, op, bounds, history>>

\* The client of a queued target is suspended or removed.
Skip(t) ==
    /\ target[t] = "queued"
    /\ target' = [target EXCEPT ![t] = "failed"]
    /\ UNCHANGED <<policy, rollout, dispatcher, op, bounds, history>>

-----------------------------------------------------------------------------
(***************************************************************************)
(* The operators.  A terminal rollout refuses both requests.               *)
(***************************************************************************)
RolloutTerminal == rollout.status \in {"completed", "aborted"}

Begin(kind) ==
    /\ op.kind = "none" /\ requests < MaxRequests /\ ~RolloutTerminal
    /\ op' = [kind |-> kind, failed |-> UpTo(Failed, rollout.current)]
    /\ requests' = requests + 1
    /\ UNCHANGED <<target, policy, rollout, dispatcher, crashes, history>>

\* pause_job_rollout locks the row.
PauseBegin == Begin("pause")

PauseCommit ==
    /\ op.kind = "pause"
    /\ op' = NoOp
    /\ rollout' = IF rollout.status = "running"
                  THEN [rollout EXCEPT !.status = "paused"] ELSE rollout
    /\ UNCHANGED <<target, policy, dispatcher, bounds, history>>

\* resume_job_rollout locks the row and counts the failures so far.
ResumeBegin == Begin("resume")

(***************************************************************************)
(* The failures counted become the baseline: they no longer count against  *)
(* the rollout.                                                            *)
(***************************************************************************)
ResumeCommit ==
    /\ op.kind = "resume"
    /\ op' = NoOp
    /\ \/ /\ rollout.status = "paused"
          /\ rollout' = [rollout EXCEPT !.status = "running", !.due = TRUE,
                                        !.baseline = Cardinality(op.failed)]
          /\ acked' = op.failed
          /\ reviewed' = (reviewed \/ UpTo(Targets, 0) \subseteq Terminal)
       \/ rollout.status = "running" /\ UNCHANGED <<rollout, acked, reviewed>>
    /\ UNCHANGED <<target, policy, dispatcher, bounds, started>>

\* Mutant: the queued targets are left as they are.
Cancel_LeaveQueued ==
    /\ op.kind = "none" /\ requests < MaxRequests /\ ~RolloutTerminal
    /\ requests' = requests + 1
    /\ rollout' = [rollout EXCEPT !.status = "aborted"]
    /\ UNCHANGED <<target, policy, dispatcher, op, crashes, history>>

(***************************************************************************)
(* request_job_cancel: queued targets are canceled, the rollout aborted.   *)
(***************************************************************************)
Cancel ==
    /\ op.kind = "none" /\ requests < MaxRequests /\ ~RolloutTerminal
    /\ requests' = requests + 1
    /\ target' = [t \in Targets |-> IF t \in Queued THEN "failed" ELSE target[t]]
    /\ rollout' = [rollout EXCEPT !.status = "aborted"]
    /\ UNCHANGED <<policy, dispatcher, op, crashes, history>>

\* The API process dies: open transactions are rolled back.
Crash ==
    /\ crashes < MaxCrashes
    /\ crashes' = crashes + 1
    /\ pc' = "reconcile" /\ seen' = NoRead /\ picked' = {}
    /\ op' = NoOp
    /\ UNCHANGED <<target, policy, rollout, requests, history>>

-----------------------------------------------------------------------------
Sweep ==
    \/ ReconcileRead \/ ReconcileNothing \/ ReconcileComplete
    \/ ReconcilePause \/ ReconcileAdvance
    \/ ClaimRead \/ \E S \in SUBSET Targets : Claim(S)

Operator == PauseBegin \/ PauseCommit \/ ResumeBegin \/ ResumeCommit \/ Cancel

Next ==
    \/ Sweep \/ Operator
    \/ \E t \in Targets : Skip(t) \/ \E o \in {"completed", "failed"} : Finish(t, o)
    \/ Elapse \/ Crash

Spec == Init /\ [][Next]_vars

(***************************************************************************)
(* The dispatcher sweeps every DISPATCH_INTERVAL_SECS; a due target of a   *)
(* connected client is not passed over for ever; a claimed target ends by  *)
(* its deadline at the latest; a transaction commits or is rolled back.    *)
(***************************************************************************)
Claims(t) == \E S \in SUBSET Targets : t \in S /\ Claim(S)

Fairness ==
    /\ WF_vars(Sweep) /\ WF_vars(Elapse)
    /\ WF_vars(PauseCommit) /\ WF_vars(ResumeCommit)
    /\ \A t \in Targets : /\ SF_vars(Claims(t))
                          /\ WF_vars(\E o \in {"completed", "failed"} : Finish(t, o))

FairSpec == Spec /\ Fairness

-----------------------------------------------------------------------------
\* The types of the rows; the reconciler never leaves the batches that exist.
TypeOK ==
    /\ target \in [Targets -> {"queued", "active", "completed", "failed"}]
    /\ policy \in Policies
    /\ rollout \in [status : {"running", "paused", "completed", "aborted"},
                    current : 0 .. LastBatch, baseline : Nat, due : BOOLEAN]
    /\ pc \in {"reconcile", "reconciling", "claim", "claiming"}
    /\ seen \in [selected : BOOLEAN, done : SUBSET Targets, failed : SUBSET Targets]
    /\ picked \in SUBSET Targets
    /\ op \in [kind : {"none", "pause", "resume"}, failed : SUBSET Targets]
    /\ requests \in 0 .. MaxRequests /\ crashes \in 0 .. MaxCrashes
    /\ started \in SUBSET Targets /\ acked \in SUBSET Targets
    /\ reviewed \in BOOLEAN

(***************************************************************************)
(* No target is dispatched before every target of the earlier batches has  *)
(* ended, although the reconciler judges a batch by a snapshot that is old *)
(* when it locks the row, and the claim by a rollout it does not lock      *)
(* (reconcile_job_rollouts, claim_due_job_targets).                        *)
(***************************************************************************)
BatchesInOrder ==
    \A t \in started, u \in Targets : Batch[u] < Batch[t] => u \in Terminal

(***************************************************************************)
(* When a batch is dispatched, the earlier batches hold no more than       *)
(* max_failures failures that no operator has resumed over: the count and  *)
(* the baseline, taken from different snapshots, agree on which failures   *)
(* are new.                                                                *)
(***************************************************************************)
FailureGate ==
    \A t \in started :
        Cardinality({u \in Failed : Batch[u] < Batch[t]} \ acked)
            <= policy.maxFailures

(***************************************************************************)
(* With pause_after_canary, nothing but canaries is dispatched until an    *)
(* operator has resumed the rollout with every canary's result in; a pause *)
(* and resume before that does not stand in for the review.                *)
(***************************************************************************)
CanaryReviewed ==
    \A t \in started : policy.pauseAfterCanary /\ Batch[t] > 0 => reviewed

(***************************************************************************)
(* A completed rollout has no target left to dispatch or to wait for.      *)
(***************************************************************************)
CompletedMeansDone ==
    rollout.status = "completed" => Terminal = Targets

(***************************************************************************)
(* "cancel is terminal": an aborted rollout stays so and dispatches        *)
(* nothing more, not even through a claim whose snapshot is older.         *)
(***************************************************************************)
AbortIsFinal ==
    [][rollout.status = "aborted" =>
           rollout'.status = "aborted" /\ UNCHANGED started]_vars

(***************************************************************************)
(* A running rollout does not get stuck: it completes, or pauses for an    *)
(* operator.                                                               *)
(***************************************************************************)
RolloutMoves == rollout.status = "running" ~> rollout.status # "running"

(***************************************************************************)
(* A pause takes hold with the next claim: while the rollout is paused, at *)
(* most the targets of a claim statement that took its snapshot before the *)
(* pause are still dispatched (the claim does not lock the rollout), and   *)
(* nothing more is picked.                                                 *)
(***************************************************************************)
PauseHolds ==
    [][rollout.status = "paused" =>
           picked' \subseteq picked /\ started' \subseteq started \cup picked]_vars
==============================================================================
