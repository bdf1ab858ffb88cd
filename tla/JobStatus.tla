------------------------------ MODULE JobStatus ------------------------------
(***************************************************************************)
(* The status vocabulary of jobs and job targets (crates/common protocol)  *)
(* and the aggregation of target statuses into the parent job status       *)
(* (crates/server-core).  Constant-level; shared by every job module.      *)
(***************************************************************************)

\* JobTargetStatusClass::InProgress: what target_status_is_active accepts.
ActiveTargetStatuses == {"queued", "dispatching", "running"}

\* The statuses a target keeps for ever once it has them.
TerminalTargetStatuses ==
    {"completed", "skipped", "rejected", "failed", "agent_lost",
     "agent_timeout", "control_timeout", "canceled"}

TargetStatuses == ActiveTargetStatuses \cup TerminalTargetStatuses

\* Job statuses that come with completed_at IS NOT NULL.
TerminalJobStatuses ==
    {"completed", "partial_success", "skipped", "rejected", "failed",
     "agent_timeout", "control_timeout", "canceled"}

JobStatuses == {"queued", "running"} \cup TerminalJobStatuses

(***************************************************************************)
(* aggregate_job_status_from_statuses.  The code walks the list of target  *)
(* statuses; only the set S of statuses that occur matters.  There is no   *)
(* job-level agent_lost: a job of lost and skipped targets only is failed. *)
(***************************************************************************)
AggregateJobStatus(S) ==
    IF S = {} THEN "skipped"
    ELSE IF S \cap ActiveTargetStatuses # {} THEN "running"
    ELSE IF S = {"completed"} THEN "completed"
    ELSE IF S = {"skipped"} THEN "skipped"
    ELSE IF "completed" \in S THEN "partial_success"
    ELSE IF "control_timeout" \in S THEN "control_timeout"
    ELSE IF "agent_timeout" \in S THEN "agent_timeout"
    ELSE IF "failed" \in S THEN "failed"
    ELSE IF "canceled" \in S THEN "canceled"
    ELSE IF "rejected" \in S THEN "rejected"
    ELSE "failed"
==============================================================================
