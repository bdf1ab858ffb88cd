----------------------------- MODULE AbstractJobs ----------------------------
(***************************************************************************)
(* What the job tables promise to a reader of committed rows, whatever     *)
(* transactions run underneath: a job appears with all of its targets,     *)
(* terminal rows never change again, and a job turns terminal in the very  *)
(* step in which its last active target does, with the aggregate of its    *)
(* targets' statuses.                                                      *)
(***************************************************************************)
EXTENDS JobStatus

CONSTANTS
    Jobs,       \* job ids
    Targets     \* pairs <<job, client>>: the rows of job_targets

VARIABLES
    target,     \* [Targets -> TargetStatuses \cup {"absent"}]
    job         \* [Jobs -> JobStatuses \cup {"absent"}]

vars == <<target, job>>

TargetsOf(j) == {t \in Targets : t[1] = j}

\* The statuses of j's targets in the rows tgt.
StatusesOf(tgt, j) == {tgt[t] : t \in TargetsOf(j)}

AllTerminal(tgt, j) == \A t \in TargetsOf(j) : tgt[t] \in TerminalTargetStatuses

Init ==
    /\ target = [t \in Targets |-> "absent"]
    /\ job = [j \in Jobs |-> "absent"]

\* The job row that goes with the target rows: exactly the aggregate once all
\* targets are terminal, a non-terminal status until then.
JobRowMatches(st, tgt, j) ==
    IF AllTerminal(tgt, j)
    THEN st = AggregateJobStatus(StatusesOf(tgt, j))
    ELSE st \in {"queued", "running"}

\* A job is created together with its targets, some of them already skipped.
Create(j) ==
    /\ job[j] = "absent"
    /\ \A t \in Targets : IF t[1] = j THEN target'[t] \in {"queued", "skipped"}
                                      ELSE target'[t] = target[t]
    /\ JobRowMatches(job'[j], target', j)
    /\ \A i \in Jobs \ {j} : job'[i] = job[i]
    /\ target' = [t \in Targets |-> target'[t]]
    /\ job' = [i \in Jobs |-> job'[i]]

\* Where a target may go from an active status: forwards, never back.
Forward(s) ==
    CASE s = "queued"      -> TargetStatuses
      [] s = "dispatching" -> TargetStatuses \ {"queued"}
      [] s = "running"     -> TargetStatuses \ {"queued", "dispatching"}

\* Any set of active targets moves on at once; every job follows its targets.
Advance ==
    /\ \A t \in Targets :
          IF target[t] \in ActiveTargetStatuses
          THEN target'[t] \in Forward(target[t])
          ELSE target'[t] = target[t]
    /\ \A j \in Jobs :
          IF job[j] \in {"queued", "running"}
          THEN /\ JobRowMatches(job'[j], target', j)
               /\ job'[j] = "queued" => job[j] = "queued"
          ELSE job'[j] = job[j]
    /\ target' = [t \in Targets |-> target'[t]]
    /\ job' = [j \in Jobs |-> job'[j]]

Next == Advance \/ \E j \in Jobs : Create(j)

Spec == Init /\ [][Next]_vars
==============================================================================
