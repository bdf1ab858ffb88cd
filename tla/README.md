# vpsman: a TLA+ model of the job path

vpsman is a private control plane for a fleet of VPSes. Operators create *jobs*;
every job has one *target* per client (VPS). The API stores both in PostgreSQL,
claims due targets, hands their commands to a gateway, which writes them to the
agent of the client over a Noise session; the agent executes them and its outputs
travel back the same way until the API declares the target, and with its last
target the job, finished. This directory models that path: the job tables, the
dispatch to the agent and back, the gateway's forwarder with its disk spool, staged
rollouts, the outbox of finished jobs with the schedules it updates, the fence
that orders suspensions and deletions of a client against its dispatches, and the update
of the agent's own binary. It consists of TLA+ modules, TLC configurations, and proofs checked by TLAPS.

- [Inventory](#inventory)
- [Modules and their correspondence to the code](#modules)
- [Runs, bounds and what they show](#runs)
- [Findings](#findings)
- [Proofs](#proofs)
- [What is not modelled](#not-modelled)
- [Plan](#plan)

How to check everything, in this directory:

    tlc -workers 2 -config MCOneJob.cfg MCJobTransactions      # likewise the other runs
    tlapm JobTransactions_proofs.tla                           # likewise the other seven

`PROJECT.json` lists the runs, the source lines of every definition, the mutants
that show that each property can fail, the hazards, the findings and the theorems.

## Inventory

Paths are below `src/crates/`. "Module" names the module that models the component.

| Component | State | Operations | Module |
|---|---|---|---|
| Job rows (`api/src/repository/jobs/repository_jobs.rs`, `api/.../fleet/repository_ingest.rs`, `migrations/`) | `jobs`, `job_targets`, `job_terminal_events`, metric rows maintained by triggers, row locks | create, claim, result, running, agent_lost, hello sweep, skip, cancel, deadline sweep | `JobTransactions`, `AbstractJobs`, `JobStatus` |
| API dispatcher (`api/src/jobs/job_dispatcher.rs`) | one task per claimed target | prepare, last durable check, gateway call, rechecks, record the answer under the attempt fence | `JobDispatch`; the rechecks in `DispatchFence` |
| Gateway sessions (`gateway/src/main.rs`, `transport/control.rs`, `runtime/state.rs`) | registered session per client, bounded command queue, pending commands by job id, dispatch fences | hello, registration, replacement, enqueue, write, read, close; acquire, prepare, promote, clear a fence | `JobDispatch`, `DispatchFence` |
| Gateway forwarder and spool (`gateway/src/transport/api_client.rs`) | per-client queues, RAM and disk caps, spool files, replay index | admit, post until answered, spool, replay, flush, expire, stop, restart | `GatewaySpool`, `ForwardContract`; a FIFO in `JobDispatch` |
| Agent runtime (`agent/src/runtime/runtime.rs`, `execution/command_ledger.rs`) | active commands with unsent outputs, recent cache, ledger file, process incarnation | start, refuse, replay, produce, finish, resume, reconnect, restart | `JobDispatch` |
| Output ingest (`api/.../routes_ingest.rs`, `repository_job_outputs.rs`) | `job_outputs` | admit by session or durable replay, first writer wins, complete when contiguous, mark running | `JobDispatch` |
| Rollouts (`api/.../repository_job_rollouts.rs`) | `job_rollouts`, the batch of every target | plan, reconcile, pause, resume, cancel, claim by batch | `RolloutPlan`, `JobRollout` |
| Terminal event consumers (`repository_jobs.rs`, `job_dispatcher.rs`) | leases of `job_terminal_events` and `job_terminal_enrichment_work` | claim, run effects, settle, fail, abandon | `TerminalEvents` |
| Schedules (`worker/src/main.rs`, `repository_jobs.rs`) | `schedules` with the summary of the last job | materialize, fail, disable, edit, record an outcome | `ScheduledJobs` |
| Client lifecycle (`api/.../routes_inventory.rs`, `repository_inventory.rs`, gateway control) | `clients.status`, fence, its generations and leases | suspend, unsuspend, delete; hello and telemetry that readmit | `DispatchFence` |
| Agent update (`agent/src/lifecycle/update.rs`, `update_activation.rs`, `repository_ingest.rs`) | active, staged and rollback binary, activation marker, the update consumer and its threads | stage, check, activate, roll back, restart, heartbeat with the hello | `UpdateActivation` |
| Terminal sessions, webhook and alert delivery, artifact deletion, backup and restore | rows or files with leases, retries and generations | | not modelled, see below |
| Telemetry storage, tunnels, process supervision, authentication, frontend, `vpsctl`, deploy | host state, bulk SQL, request-local state | | not modelled, see below |

How they interact. The dispatcher, the ingest handlers, the consumers of the outbox and
the worker share only the database. Dispatcher to gateway is an HTTP call that lasts
until the agent acknowledges the command or a timeout ends it; the gateway remembers the
caller's response sender in the session's pending map. Gateway to agent is one framed
connection per session; a newer session of the client replaces the older one. Gateway to
API is a queue that posts at least once. A target is *bound*, by its first claim, to the
agent process incarnation the client row names at that time; the hello of another process
sweeps what was bound to its predecessor. A lifecycle request owns a fence in the gateway
from before its transaction until after the commit.

What is hard, and the property that answers it (hazards with their source lines are
in `PROJECT.json`):

- Concurrent transactions each decide whether the job is finished: the last two
  targets must not both be overlooked (`JobCompletesWithLastTarget`).
- A cancel request consists of two statements between which a claim may commit
  (`CancelReachesEveryTarget`, `NoClaimOfCanceledTarget`).
- A row chosen in one statement has changed when its lock is granted; terminal rows
  must stay and be announced once (`ImplementsAbstractJobs`, `EventsTellTheOutcome`).
- Row locks are taken in several orders (`NoLockCycle`, which the code violates; the other
  properties hold whichever transaction the deadlock detector ends).
- A command is sent again when its lease ends, while the first copy may be queued, in
  flight, running, finished or forgotten (`RunsAtMostOnce`), and the process may have
  been replaced in between (`OnlyBoundProcessRuns`).
- Connections die with frames in them, posts are repeated, outputs are lost or late, and the
  hello of a new process may complete what its predecessor began
  (`CompletedHasEvidence`, `LateOutputIsIgnored`).
- The database gives up on commands that still run (`ExclusiveRunsAlone`), and
  answers arrive for an attempt that is no longer the current one
  (`RejectedNeverRan`).
- Events of one client travel through RAM, through files and through the replayer at the
  same time, under caps, with a failing disk, a stop, a crash (`ImplementsContract`,
  `CountersExact`, `EveryFileHasOneOwner`, `FilesOutliveTrouble`, `EveryEventSettles`).
- The rollout reconciler and the claim act on snapshots that are old when they lock
  (`BatchesInOrder`, `FailureGate`, `CanaryReviewed`, `PauseHolds`, `AbortIsFinal`,
  `CompletedMeansDone`), and a batch may end in any way (`RolloutMoves`).
- A consumer of the outbox fails, crashes or loses its lease between its effects and the
  settlement, and outcomes reach the schedule in any order and repeatedly
  (`JobEventLast`, `SettledStays`, `SummarySettles`, `NoBlameFromOldDefinitions`,
  `FailureCountedOnce`).
- A dispatch proved eligible before a suspension reaches the gateway after it; the fence
  that should stop it has a lease that may run out, calls that may arrive late, and is
  forgotten when the gateway restarts (`NoDispatchWhileBarred`, `BarredIsFenced`,
  `PersistentIsCommitted`, `SkipSparesMarked`).
- The agent replaces its own binary in several steps, between any two of which it may be
  killed or the host lose power, while threads of timed-out commands go on
  (`ActiveIsWhole`), and a marker it left behind is judged by the API
  after the restart (`ConfirmedIsRunning`).

<a name="modules"></a>
## Modules and their correspondence to the code

### JobStatus
Target and job statuses and `AggregateJobStatus`, the translation of
`aggregate_job_status_from_statuses`. The code walks a list; only the set of the
statuses that occur matters.

### AbstractJobs
What a reader of committed rows may rely on: a job appears with all its targets,
targets only move forwards, terminal rows never change, and the job turns terminal in
the very step in which its last active target does, with their aggregate.

### JobTransactions
The transactions of the API at the granularity of row locks. A worker is a pool
connection running one transaction; `kind`, `phase`, the rows it still wants and its
uncommitted writes (`staged`, `flagged`, `stagedJob`) are its state, and the variables
in `rows` are what other transactions see. Isolation is READ COMMITTED: each statement
sees what was committed before it, and a row that was waited for is evaluated again
(`StillAccepted`).

| Action | Code |
|---|---|
| `CreateJob` | `record_dispatching_job_with_source` (one commit) |
| `BeginResult`, `BeginRunning` | `update_job_target_result_if_dispatch_attempt`, the terminal candidate of output ingest, `mark_job_target_running` |
| `BeginAgentLost`, `SkipUnstarted` | `agent_lost` by an operator's change of the client; its deletion or revocation then skips the queued targets in the same transaction |
| `BeginHelloSweep` | the sweep in `upsert_agent_hello`, with the verdict of a heartbeat (`Written`) |
| `BeginSkip` | skipping of targets by suspension, or by removal of a client without a process |
| `BeginCancel`, `BeginFlagging`, `FlagTarget` | the two statements of `request_job_cancel` |
| `Claim` | `claim_due_job_targets` (`FOR UPDATE OF target, job SKIP LOCKED`) |
| `Expire` | the deadline sweep (`FOR UPDATE SKIP LOCKED` over the join) |
| `LockTarget`, `LockJoinedJob`, `UpdateTargets`, `LockMetric` | row lock, UPDATE, and the AFTER UPDATE trigger `maintain_system_dashboard_target_metrics` |
| `InsertEvent` | the insert of a terminal event, whose foreign key takes FOR KEY SHARE on the job row |
| `BeginFinish`, `FinishJob` | `finish_job` and its callers: lock the job row, decide, update |
| `Commit`, `Abort`, `DeadlockVictim` | COMMIT; ROLLBACK after an error; PostgreSQL's deadlock detector |

Abstractions. Deadlines, leases and attempt numbers are choices (`Due` may select any
claimable target); `JobDispatch` keeps the attempts. Job rows
have three lock strengths: FOR UPDATE (claim, deadline sweep, hello sweep), FOR NO KEY UPDATE
(`finish_job`) and the FOR KEY SHARE of the foreign key of `job_terminal_events`, which only
the first excludes. A claim or deadline sweep that skips a pair because its job row is held
keeps the lock on the target (`kept`). The metric locks of `CreateJob`'s insert trigger are left out: its rows
are invisible until the commit. The advisory locks of the client lifecycle, which
the claim only tries and which skips take, exclude some interleavings that the model
allows; for safety this only adds behaviours. Jobs of type `terminal_open` may be
reopened by the terminal-session reconciler
(`reconcile_postgres_terminal_job_in_tx`); they are excluded here.

### JobDispatch
The path of the targets of **one client** from the claim to the agent and back, with
every repository call atomic (their locking is JobTransactions' subject). A job stands
for its single target.

| Action | Code |
|---|---|
| `Claim`, `LeaseExpires`, `ExpireDeadline` | the SQL of the claim with its exclusivity clauses; time |
| `PrepareFails`, `RecordPrepareFailure` | authority and backup preparation in `dispatch_claimed_target`; the refusal is stored as output 0 |
| `CheckDispatchable` | `claimed_job_target_dispatchable` |
| `GatewayDispatch`, `GiveUp`, `RecordAnswer` | `dispatch_gateway_command`, its delivery errors, the attempt-fenced result |
| `Connect`, `AcceptHello`, `RegisterSession`, `CloseSession` | the session handler, `upsert_agent_hello`, `register_session_after_accepted_hello`, `unregister_session_if_current` |
| `RemoveSession` | `close_agent_session_now`: the entry goes, the session drains until it is closed |
| `WriteCommand`, `ReadFrame` | the session's select loop and `handle_agent_frame` |
| `ReadServerHello`, `ResumeCommand`, `DuplicateActive`, `ReplayRecent`, `ReplayLedger`, `RefuseCommand`, `StartCommand`, `Produce`, `Finish`, `Evict`, `Disconnect`, `Restart` | the agent's connection loop, `handle_command_frame`, `queue_active_command_output`, `finish_active_command`, the recent cache |
| `IngestOutput`, `MarkRunning`, `RefuseOutput`, `LoseOutput` | the output handler, its two transactions, its refusals; expiry in the forwarder |

Abstractions and assumptions:

- An output is represented by the number of the execution that produced it, or by
  `Lossy` (the ledger's `duplicate_job_replay_unavailable`) or `Refusal`. Every command
  makes the outputs 0 .. `Final`.
- A write to the agent succeeds while the agent still holds the connection, and is lost
  otherwise; the agent's own writes may fail after any prefix (`Emit`).
- A hello may carry the heartbeat of an update activation (`Activations`) whose command was
  started; the sweep then completes or fails that target, any other swept target is lost
  (`Verdicts`). Which heartbeat it is, and the digest, are in `UpdateActivation`.
- After a graceful close request (`main.rs:972-1013`) a session goes on reading until the agent or
  the deadline ends it; like a replaced one it writes no more commands.
- Of the outcomes a final output reports, `completed` and `failed` are told apart; the others
  (`agent_timeout`, `canceled`, and `rejected` for a command that refuses its own arguments,
  `routes_jobs.rs:2133`) count as `failed`: no property speaks of them. `RejectedNeverRan` is about the `rejected` that an
  acknowledgement leads to.
- `Admitted` abstracts the session checks of the ingest to the incarnation: the session's
  process must be the client's present one or the one the target is bound to.
- `LeaseExpires` is not tied to the end of the dispatch call. The code chooses the lease
  longer than its own timeouts; leaving that out adds behaviours. The finding
  `rejected_then_run` was also confirmed with the lease required to outlive the call.
- `GiveUp` covers no session within the grace period, ack timeout, a lost HTTP answer and
  a restart of the API.
- Commands the agent executes inline are the special case in which start, outputs and
  finish follow at once. `Evict` also stands for entries truncated by the cache's limits.
- Writing the ledger is assumed to succeed. In the code a failed write ends the connection
  with the command in the recent cache but not in the ledger; if it is evicted there, a
  further copy would execute it again. Ledger retention is assumed longer than any
  redispatch.
- Left out: cancel frames, the nack for a stale runtime configuration snapshot,
  file-transfer resource owners, the synthetic output rows the API writes with
  `agent_lost`, `control_timeout` and the verdict on a heartbeat, the vnStat import. The dispatch epochs and fences
  are in `DispatchFence`, the forwarder's files in `GatewaySpool`.

### ForwardContract and GatewaySpool
`ForwardContract` is what the rest of the system may expect of the gateway's forwarder: an
output is accepted once, reaches the API or is lost, and no output is first delivered
while an earlier one of the same client may still be. `GatewaySpool` is the forwarder:
queues in RAM with one owner task each, spool files, the replayer, the process.
It implements the contract under the mapping from `fate`, the history of every event.
An event is a positive number, in the order of `enqueue_seq`; 0 stands for none.

| Action | Code |
|---|---|
| `Enqueue`, `Send`, `Spill` | `enqueue_event`, `enqueue_queue_item`, `spool_event_for_later_replay`: decide, then try the queue, then the disk |
| `Check`, `Abandon`, `Take`, `Finished` | `run_forward_queue`, `forward_queue_idle_wait`, `retire_forward_queue_if_idle` |
| `Post`, `Deliver`, `AnswerLost`, `GiveUp` | `post_json_retry_until_expired`: success, an answer that is lost, a final refusal or expiry |
| `Retain`, `Defer` | a 409 for a session that is no longer active: the head is persisted and posted as a replay; a stop defers the head to the spool |
| `Refresh`, `Pop`, `Replay`, `Block`, `PassEnds`, `Wake` | `run_gateway_spool_replay`, `replay_pending_spool_once`, the replay index and its wake-ups |
| `StartFlush`, `RequestShutdown`, `ClearQueues`, `Exit` | `shutdown_flush` and the end of `run_gateway_forward_consumers` |
| `Crash`, `Restart` | the process is killed; `initial_gateway_enqueue_seq_for_spool` accounts the files |

Abstractions. Every event has the same size, so byte caps count events. Telemetry has a
coalescing slot of its own and is left out, as are the quarantine of corrupt files, a
panicking consumer, and the class of terminal output that is no final status: it reserves RAM
and spools for want of it like an output, but is dropped at the other limits
(`gateway_event_critical`, `api_client.rs:1573-1581`). The write of a file, its rename and its accounting are one step: a
crash in between leaves a temporary file that the restart ignores. A removal of a delivered file
that fails is modelled (`Remove`, `cleanup`, `dormant`). A try to remove it again is one step, so a
reactivation that arrives during the try (`in_flight_reactivation`, `api_client.rs:810-866`) is one that
arrives right after it.

### RolloutPlan and JobRollout
`RolloutPlan` computes the batches (`prepare_job_rollout`); `JobRollout` runs them. Each
statement of the dispatcher is two steps, its snapshot (`ReconcileRead`, `ClaimRead`) and
what it does with the rows it then locks, because READ COMMITTED lets operators and results
commit in between.

| Action | Code |
|---|---|
| `ReconcileRead`, `ReconcileNothing`, `ReconcileComplete`, `ReconcilePause`, `ReconcileAdvance` | `reconcile_job_rollouts` |
| `ClaimRead`, `Claim` | the rollout gate of `claim_due_job_targets`, which does not lock the rollout row |
| `PauseBegin`, `PauseCommit`, `ResumeBegin`, `ResumeCommit`, `Cancel` | `pause_job_rollout`, `resume_job_rollout`, `request_job_cancel` |
| `Finish`, `Skip`, `Elapse`, `Crash` | results and skips; `batch_delay_secs`; the API process ends |

One rollout; statuses of targets that rollouts do not tell apart are merged; one dispatcher
sweeps at a time (one API process). `RolloutAssumption` gives every batch a target, as
`prepare_job_rollout` does; the reconciler's pause of a batch without any row is therefore
absent. `acked`, `reviewed` and `started` are history.

### TerminalEvents and ScheduledJobs
`TerminalEvents` is the outbox: a row per ended target and job, leased by consumers with a
compare-and-set on the lease id, and an enrichment row per settled target event.
`ScheduledJobs` composes it with a cron schedule: the effects of a job's event write the
schedule's summary and commit by themselves, before the event is settled.

| Action | Code |
|---|---|
| `TargetEnds`/`EndTarget` | the transactions of JobTransactions, as far as events are concerned |
| `Claim`, `Apply`/`RunEffects`, `Complete`, `Fail`, `Abandon` | `process_pending_job_terminal_events`, `record_job_terminal_side_effects`, `mark_job_terminal_event_processed`/`_failed`, the enrichment loop; a crash or an expired lease |
| `Materialize`, `MaterializeFails`, `RecordFailure`, `WorkerCrash`, `Disable` | `process_due_schedule`, `materialize_due_schedule`, `record_schedule_failure` and the three automatic ways to disable |
| `Update`, `SetEnabled`, `Defer`, `Delete` | the operators' requests, each checked against the revision |
| `RecordOutcome` | `record_schedule_job_outcome` with its WHERE clause |

An owner's name stands for its lease id, fresh for every claim. A row that has exhausted its
attempts is not told apart from one that waits. An enabled schedule may be due at any time;
of timestamps only their order is kept (`lately`), and the order in which jobs end stands for that of
`completed_at`, which is the `now()` at the beginning of the ending transaction. Event-triggered schedules and catch-up
policies are left out.

### DispatchFence
One client, its row, operators' requests (suspend, unsuspend, delete), the dispatches of its
claimed targets, the agent's hello and telemetry, and the gateway process with its fence.

| Action | Code |
|---|---|
| `Acquire`, `Prepare`, `Finalize`, `TimesOut` | `ClientDispatchFenceLease` in the API: acquire, prepare, then promote, clear, compensate, retire or disconnect; a call given up |
| `HandleAcquire` ... `HandleDisconnect`, `ArrivesLate` | the handlers in `control.rs`, at once or late |
| `LeaseExpires`, `MarkerExpires`, `Restart`, `SessionEnds` | `normalize_expired_dispatch_fence`; `prune_expired_command_enqueues`; a new gateway epoch; the session goes |
| `Begin`, `RejectDelete`, `Proof`, `Commit`, `Rollback` | `mutate_agent_suspension_target`, `delete_agent_target`: row lock, the proof of ownership inside the transaction, its end |
| `ReadEpoch`, `CheckDispatchable`, `Enqueue`, `EpochRecheck`, `LifecycleRecheck`, `GiveUp` | `dispatch_claimed_target` and `dispatch_gateway_command` |
| `Observe`, `CommitHello`, `RegisterSession`, `DropHello`, `CommitTelemetry`, `RefreshRoute`, `GoOffline` | hello and telemetry, which readmit a client and lift the fence they observed first; the offline sweep |

A lease may run out at any moment, so that renewals, which only postpone it, need no action.
A token is acquired once, so a request has one generation. The agent keeps its process (the
incarnation checks are JobDispatch's). The statuses never, disconnected and stale are merged
with offline: suspension treats them alike. A revoked client is refused by the same check as a
deleted one (`Barred`); revocation itself takes no fence and is left out. Enqueue markers may
expire at any time: the code keeps one for at most three hours (`control.rs:728`) while a
job may stay open for up to seven days, so `SkipSparesMarked` speaks of the markers that are
left; a target that is still dispatching when its marker is gone is skipped by a suspension. The
code's shortest marker, one minute, is not used. A call that arrives late dies with the gateway process it was sent to.
A dead API is a rollback, or a commit whose outcome nobody acts upon. Why the fence is safe although its
lease is not: a dispatch that passes after the lease ran out carries a database proof it
obtained *after* the gateway had noticed, and the row lock held from the commit proof to the
commit orders that proof before or after the whole transaction.

### UpdateActivation
One agent: its directory, its process, its update consumer, and the rows of its update
jobs. A binary is known by its digest; `Torn` is one that was cut short. The file work of a
command is a sequence of steps (`pc`), each ending where the files can be observed by
another thread or by the next process.

| Action | Code |
|---|---|
| `Begin`, `Timeout`, `Cancel`, `Fail` | admission of an exclusive command, or of an unmanaged check in a connected session (`runtime.rs:1064`); the timeout around the blocking thread, which goes on to its next look at the token; errors |
| `Fetch`, `Backup`, `Save` | `stage_update_artifact`, `check_and_stage_update`, `persist_staged_artifact`: the rollback copy is rewritten in place, the artifact written beside and renamed, neither synced |
| `ReadStaged`, `Copy`, `ReadRollback`, `Check`, `Mark`, `Swap`, `Clean` | `activate_staged_update`, `rollback_update`: read and compare, last look at the token, marker, `replace_active_binary`, removal and restart request |
| `Stop`, `PowerLoss`, `Writeback`, `Boot` | the process ends with its threads (killed, or `request_agent_restart`); what was not synced may be cut short; the supervisor or `exec` starts what is in place |
| `ReadMarker`, `SendHello`, `LoseHello`, `CommitHello` | `read_activation_heartbeat` (marker first, digest of the file later), the hello, `upsert_agent_hello` with `mark_old_incarnation_targets_agent_lost_in_tx` |
| `Deliver`, `Deadline` | the final output; the control deadline with its own verdict on a missing heartbeat |

Two copies of different binaries to the rollback file that overlap leave a mix, `Torn`
(`OpenCopy`, `CloseCopy`). A hello goes without a heartbeat also when a marker is there but cannot be
read (`runtime.rs:751-754`); one whose heartbeat contradicts the recorded identity is refused
(`repository_agent_update_lifecycle.rs:51-54`), which is `LoseHello`. `Swap` is one step because the new binary is
written beside, synced and renamed: a crash before the rename leaves a file nobody reads.

Assumptions. A command is handed over in one step to the process the database knows (how it
gets there is `JobDispatch`). A failed and a canceled command both report failure. The names of
a renamed file survive a power loss, its contents only if they were synced. The download, the
manifest and its verification are one step that ends with the right digest or with `Fail`. A
check always finds something to activate; one that only stages is a `stage`. The rows of the
update lifecycle (`record_agent_update_heartbeat_in_tx`) are left out: no property reads them.

<a name="runs"></a>
## Runs, bounds and what they show

| Run | Instance | Checks | Size |
|---|---|---|---|
| `one_job` | all nine kinds of transaction, one job on two clients, an update activation, two concurrent transactions, symmetric in the workers | `TypeOK`, `JobCompletesWithLastTarget`, `CancelReachesEveryTarget`, `ClaimedTargetHasRunningJob`, `NoClaimOfCanceledTarget`, `EventsTellTheOutcome`, `ImplementsAbstractJobs` | 1.0 million states, 100 s |
| `dispatch` | one job, an update activation, 2 attempts, 2 processes, 2 sessions, 2 outputs, queue of 1, both preparation failures | `TypeOK`, `RunsAtMostOnce`, `CompletedHasEvidence`, `OnlyBoundProcessRuns`, `LateOutputIsIgnored` | 3.0 million, 90 s |
| `exclusive` | an exclusive and an ordinary job, 1 attempt each, 2 sessions | `ExclusiveRunsAlone` | 2.5 million, 80 s |
| `spool` | three outputs and a lifecycle event of one client, queue of 1, RAM and disk for 2, 2 slots, 1 disk fault, 1 restart; fairness | `TypeOK`, `CountersExact`, `EveryFileHasOneOwner`, `FilesOutliveTrouble`, `ImplementsContract`, `EveryEventSettles` | 1.5 million, 130 s |
| `rollout` | a canary and three targets in batches of two, a policy with review and one with a delay and a tolerated failure, 2 requests, 1 crash; fairness | `TypeOK`, `BatchesInOrder`, `FailureGate`, `CanaryReviewed`, `CompletedMeansDone`, `AbortIsFinal`, `PauseHolds`, `RolloutMoves` | 160 000, 60 s |
| `schedules` | two jobs of a schedule, two consumers (symmetric), 1 tolerated failure, counter up to 1, 1 edit | `TypeOK`, `JobEventLast`, `SummarySettles`, `SettledStays`, `NoBlameFromOldDefinitions` | 2.5 million, 100 s |
| `fence` | a pair of requests (suspend twice; suspend with unsuspend; with delete; unsuspend with delete), one dispatch, hello or telemetry, 2 gateway processes, 1 call given up | `TypeOK`, `NoDispatchWhileBarred`, `BarredIsFenced`, `PersistentIsCommitted`, `SkipSparesMarked` | 9.6 million, 180 s |
| `update` | a check the agent starts on its own, an activation (both with restart) and a rollback with a digest, 1 end of the process or of the host, 1 hello on its way | `ActiveIsWhole`, `ConfirmedIsRunning` | 6.5 million, 130 s |
| `lock_cycle` | two jobs sharing a client, two transactions: claim and result | violates `NoLockCycle` | |
| `rejected_then_run` | two jobs, 2 attempts, queue of 2, one session | violates `RejectedNeverRan` | |
| `spool_shutdown` | as `spool`, without disk faults | violates `GracefulStopKeepsEvents` | |
| `schedule_replay` | two jobs, one consumer, no edits | violates `FailureCountedOnce` | |

Why the bounds are enough for the questions asked.

- Two workers meet on every pair of transactions, and every hazard listed for the job rows is
  one of a pair; the theorems below remove the bound for every safety property and for the number of jobs. Two
  targets are the least in which "the last target" can be mistaken.
- In `dispatch` two attempts and two processes are the least in which a command can be
  repeated, and in which the second copy can meet a successor; two outputs are the least in
  which a sequence can have a gap; the queue bound of one is reached with two attempts. In `exclusive` two jobs are the least that
  can exclude each other. The theorems cover any number of jobs, attempts, processes and sessions.
- In `spool` three outputs reach every place at once: one in an owner's hand, one in the
  queue, one on disk; every cap is reached; the lifecycle event competes for slots without
  ever spooling. Clients share only the caps, so one client shows the order. The theorems cover any number
  of clients, events, disk faults and restarts, and all caps.
- In `rollout` two batches follow the canary, so that the failure count accumulates over a
  reviewed and an unreviewed batch; two requests are a pause and a resume, or a resume and a
  cancel. The theorems cover every plan and number of requests.
- In `schedules` two jobs are the least of which one is newer; the theorems cover the rest.
- In `fence` a pair of requests is what two operators do at the same time. Larger instances
  were explored by simulation only: all four requests at once with two jobs, both contacts
  and two lost calls (about 100 million states), without a violation. The theorems cover any
  number of requests, dispatches, lost calls and gateway processes.
- In `update` the three commands meet in every pair, since each may run on after its timeout,
  and one end of the process is the least after which a marker is left behind. Two ends with two
  hellos on their way were explored with two commands; the theorems cover any number of each.

`MaxAttempts`, `MaxProcess`, `MaxSession`, `MaxFaults`, `MaxRestarts`, `MaxRequests`, `MaxCrashes`,
`MaxRevision`, `MaxEpoch`, `MaxTimeouts`, `MaxStops` and `MaxHellos` bound counters the code does not bound; `MaxCount` is
the largest INTEGER, at which the code saturates. Deadlock is checked in `one_job`
and `fence`; in the others the system may stop when everything is terminal and the bounds are
used up.

Fairness.

- The transactions of `JobTransactions` get none: that each of them ends would only say that
  PostgreSQL grants locks in turn and breaks every circle, whatever order the code uses.
  What the code is responsible for, the order, is `NoLockCycle`.
- `spool`: every task of the runtime that can run runs; a post ends when the event's time to live
  is over; a stopped gateway is started again; an owner whose queue was closed leaves. Crashes,
  stops, lost answers and new events are not fair.
- `rollout`: the dispatcher sweeps at an interval, delays pass, a transaction ends, a claimed
  target ends by its deadline at the latest; strong fairness of the claim of each due target, which
  another transaction's lock may keep out of one claim, not of all. Operators are not fair.

Each property of a passing run has a mutant in `PROJECT.json`, a definition named
`X_Something` next to the definition `X` it replaces, under which TLC finds it violated.

## Findings

1. **`rejected_then_run`**. Pending commands are kept by job id and an acknowledgement names
   no attempt. The refusal of attempt 1 answers attempt 2, which the agent executes; the job
   is `rejected` for good although its command ran (`docs/job-status-model.md:32`).
   With preparation failures there is a shorter way to the same state: attempt 1 was
   delivered but its answer lost, and attempt 2 is refused because the actor lost its
   authority.
2. **`spool_shutdown`**. A graceful stop clears the table of queues; the comment there says
   that each owner then consumes what was accepted (`api_client.rs:2819`). An owner that
   comes back for its next item finds its queue unregistered and leaves
   (`api_client.rs:3004-3016`): events still in the channel are neither sent nor spooled nor
   counted. `docs/job-status-model.md:176-177` promises that they are deferred to the spool.
   The counterexample needs a single event: accepted and queued in RAM, not yet read by its
   owner when the stop is requested. Events queued behind one that is being posted are lost alike.
3. **`schedule_replay`**. `record_schedule_job_outcome` recognizes a repetition only while the
   schedule still names that job. If a newer job is materialized between the write and the
   settlement of the event, the repeated effect counts the failure again, moves the summary
   back, and may disable the schedule (`docs/job-status-model.md:193-195`).
4. **`lock_cycle`**. `.github/release-notes/v0.4.6.md:26-27` calls the lock ordering consistent
   across dispatch, expiry, reconnect, revoke and terminal paths. A claim locks target and job rows FOR
   UPDATE and then, through the trigger, metric rows; a terminal path locks a target, a metric
   row, and then the job row, first FOR KEY SHARE for its event. The run: the result of target
   (1,1) has the metric row of client 1 and needs job 1; the claim of (1,2) and (2,1) has both
   job rows and needs the metric row of client 1. PostgreSQL rolls one of them back and the
   callers try again; no row is left wrong, since the properties of `one_job` hold with
   `DeadlockVictim` among the steps, but the claimed order is not there.

These are safety properties; each counterexample is a finite sequence of steps the code takes.

Remarks that no run states as a property:

- The API does not order two hellos of a client: `upsert_agent_hello` takes each as the newest
  (`repository_ingest.rs:621`). If the hello of a dead process commits after its
  successor's, targets of the living process become `agent_lost`, which
  `docs/job-status-model.md:34` reserves for positive evidence. There is a second way to it:
  between the commit of a new process's hello and the registration of its session, a claim
  is bound to the new process while the gateway still has the old session
  (`control.rs:711`), and the mismatch is reported as the loss of the new process. Both
  behaviours are in `JobDispatch`.
- Staging renews the rollback binary with `fs::copy`, which truncates it and rewrites it in
  place (`update.rs:444`), unlike the staged and the active binary. If the agent is killed, or
  the copy fails, in between, the file stays cut short; activation does not make it anew
  because it exists, and a rollback without the optional digest installs it and reports
  success. This is why `ActiveIsWhole` supposes `Pinned`.
- A suspension spares targets whose command the gateway has given to a session as long as it has the
  marker of the enqueue, which is dropped after at most three hours (`control.rs:728`, `1253`). A
  target whose acknowledgement was lost and whose agent stays offline that long is still dispatching
  and is then skipped, although its command may have run.
- `docs/host-management.md:17` calls a pause immediate. A claim that took its snapshot before the pause
  still dispatches what it picked (`PauseHolds` says exactly this much).
- The summary of a schedule compares completion times with the time at which the previous
  outcome was *processed*, so an outcome recorded in the order of completion may be ignored;
  `SummarySettles` holds nevertheless, since the job the summary names is never ignored.
- A dispatch whose proof predates a suspension may be enqueued after an unsuspension or a hello
  has lifted the fence, although the suspension skipped its target; the command then runs and
  its result is refused. `docs/operator-access-scopes.md:137-139` says that skipped jobs are
  not resurrected.
- `claimed_job_target_dispatchable` of one job skips all undelivered targets of a suspended client, also
  those the suspension itself had spared because the gateway had enqueued them.
- The thread of an activation that timed out may swap its binary in after a later rollback
  reported success; the binary is whole (`ActiveIsWhole`) but not the one the operator
  asked for last.
- Only `AgentUpdateActivate` is judged by the heartbeat. A check that activates and restarts,
  and whose final output is lost with the process, becomes `agent_lost` although its binary runs.

## Proofs

Theorems hold for all values of the constants that satisfy the named assumptions.

### JobTransactions_proofs

| Theorem | Statement |
|---|---|
| `Inductive` | `Spec => []IndInv` |
| `TypeCorrect` | `Spec => []TypeOK` |
| `CompletionCorrect` | `Spec => []JobCompletesWithLastTarget` |
| `PromotionCorrect` | `Spec => []ClaimedTargetHasRunningJob` |
| `EventsCorrect` | `Spec => []EventsTellTheOutcome` |
| `Refinement` | `Spec => ImplementsAbstractJobs` |
| `CancelInductive` | `Spec => []CancelInv` |
| `CancelComplete` | `Spec => []CancelReachesEveryTarget` |
| `CanceledStaysUnclaimed` | `Spec => []NoClaimOfCanceledTarget` |

`ConstantsAssumption` says that ids are ordered like numbers, that targets are pairs of a
job and a client, that every job has a target (a job request without one is refused; the schedule worker's
jobs without targets are inserted already skipped and never change),
that results are terminal statuses, that activations are jobs, and that `NoWorker` is not a worker.

The argument. "The job is finished exactly with its last target" is not inductive: a step
of one transaction must know what the uncommitted writes of the others may become.
`IndInv` adds

- `WritesOK`: which statuses a transaction may write in which phase;
- `StagedOK`: an uncommitted write is covered by the row lock of its transaction, so two
  transactions never have writes to the same row, and the committed row is still the active one
  it was based on;
- `StagedJobOK`: a staged job status belongs to a locked, unfinished job;
- `VerdictOK`: once a transaction has decided about a job, its verdict agrees with the target
  rows it will leave behind. This is where the job lock matters: a second transaction
  that ends another target of the job has to take the job row too and decides only
  after the first one's commit;
- `PresenceOK`: targets exist exactly when their job does.

There is one lemma per action (`BeginInv` ... `CommitInv`); only `Commit` and `CreateJob`
change committed rows, so `Commit` is where `VerdictOK` turns into
`JobCompletesWithLastTarget`. `EventsCorrect` needs in addition that a committed terminal row
never changes, and `Refinement` shows that `CreateJob` maps to `Create`, `Commit` to `Advance`, and
every other step to a stutter.

The cancel request needs more, since it holds no lock that covers both of its statements.
`CancelInv` adds `FlaggedOK` (it sets `cancel_requested_at` only under the row lock and on rows
that are dispatching or running, so no claim holds such a row) and `CancelsOK`, which says for
each phase which targets of its job a cancel may have left: a target that leaves `queued`
behind the first statement is one the snapshot of the second finds. At the commit none is
left, and `staged` and `flagged` turn into what `CancelReachesEveryTarget` says.

### JobDispatch_proofs

For every set of jobs that satisfies `DispatchAssumption` (job ids are positive numbers), any
number of attempts, processes and sessions, any queue capacity and any number of outputs:
`DispatchInductive` (`Spec => []IndInv`) and from it `DispatchTypeCorrect`, `StartedAtMostOnce`
(`RunsAtMostOnce`), `BoundProcessOnly` (`OnlyBoundProcessRuns`), `ExclusiveAlone`
(`ExclusiveRunsAlone`), `CompletedIsEvident` (`CompletedHasEvidence`) and the action property
`TerminalOutputIsKept` (`LateOutputIsIgnored`).

What the rows say depends on what is still in flight, so `IndInv` speaks of every frame:

- `WrittenOK`: a command on a connection is bound to the process of that connection's session,
  like one in a session's queue; the agent that reads it is therefore the bound process;
- `StartedOK`: a command that was started is active, in the ledger, or of a process that is
  gone. With `WrittenOK` this is why a further copy is never executed: in the living process
  it meets the active command or the ledger, and a copy for a dead process is never read;
- `ActiveOK`: an active or cached command is the job's only execution, and a finished one is in
  the ledger before its last output leaves. The recent cache may be evicted at any time;
- `FramesOK`: an output in flight is of the only execution, or the ledger's lossy final
  one; `RowsOK` says the same of the stored rows. So a contiguous sequence is one execution's;
- `HeartbeatsOK`: a hello names only an activation that was executed, by its sender or an earlier
  process; the sweep that judges it takes only targets bound to another process, so an
  earlier one;
- `SessionsOK`: only a registered session has a queue, and the agent's connection carries the
  incarnation of its process.

### DispatchFence_proofs

For every finite set of requests and any number of dispatches, late calls, lease expiries and
gateway processes: `FenceInductive` (`Spec => []IndInv`) and from it `FenceTypeCorrect`,
`PersistentOnlyCommitted` (`PersistentIsCommitted`), `BarredStaysFenced` (`BarredIsFenced`),
`BarredIsNeverDispatched` (`NoDispatchWhileBarred`) and the action property
`SuspensionSparesMarked` (`SkipSparesMarked`). `FenceAssumption` says that the
requests are finitely many, which bounds the generations; `AbsenceAssumption` says that the values
for "no fence" and "no fallback" are not fences.

"A barred client is fenced" is far from inductive: the fence that stands may belong to another
request, which may compensate, clear or be retired later. `IndInv` adds

- `LockOK`, `CallsOK`: whose transaction holds the client row, and which calls of a request may
  still arrive in view of how its transaction ended;
- `FreshOK`, `StableOK`: the agent and the dispatches know a request only by a fence it has
  prepared and that is no longer in preparation;
- `HeldOK`: from the proof inside the transaction to the readmission, a fence stands that nobody passes
  on the strength of what he learnt before (`Firm`), and whatever may still remove it
  brings back one like it (`Held`): its owner is retired, or barred the client, or has a
  retired fallback;
- `LaterEpochOK`: no dispatch that was found eligible before the commit knows the epoch of a
  gateway process started after the proof, so the restart that forgets the fence also refuses it;
- `ProtectedOK`: the list of marked commands that came with the fence is complete until the commit;
- `EpochsOK`, `GenerationsOK`: nobody knows of a process, or of a generation of it, before it is
  there, and each acquisition has its own generation. So no call of an earlier process retires
  generations of the running one (`TypeOK`).

### GatewaySpool_proofs

For any number of clients and events, all capacities, and any number of disk faults and restarts
(`SpoolAssumption`): `SpoolInductive` (`Spec => []IndInv`) and from it `SpoolTypeCorrect`,
`CountersAreExact` (`CountersExact`), `FilesHaveOneOwner` (`EveryFileHasOneOwner`), the action
property `SpoolFilesOutliveTrouble` (`FilesOutliveTrouble`), and the refinement
`ForwarderImplementsContract` (`Spec => ImplementsContract`).

The parts of `IndInv`:

- `TasksOK`: the shape of the owners', the replayer's and the admissions' states in each phase of the process;
- `SoleOK`: an event is in one place at a time; `FilesOK`: which places stand for a file;
  `CoveredOK`: while the gateway runs, every file is somewhere. The last two with `SoleOK` make the sum
  in `EveryFileHasOneOwner` one;
- `FatesOK`: what the history says of the events in these places; a pending event is in one of
  them, so none is forgotten while the process lives;
- `OrderOK`: the outputs of a client are in the order hand, queue, replayer, index, arrivals,
  admission, and one is admitted at a time. A stop gives this up, since heads deferred by it are
  published behind later ones; the restart, which reads the files in their order, restores it;
- `HeadFirst`: what is being posted is the oldest unsettled output of its client. It follows
  from `OrderOK` when a post begins, and survives a stop;
- `CountsOK`: the counters never fall below what is held, and are exact until a stop.

The proofs restate these per client, per event and per pair of outputs, so that each action has to
show only what it touches. There is one lemma per action; those that add to a queue share
`GrowsFacts`, those that let an event go share `LetGoOK`, the steps of the replayer
`ReplayStepOK`, the ends of the process `DownStep`. For the refinement, `Enqueue`
maps to `Accept`, or to a stutter for an event that is no output; `Deliver` and `AnswerLost` map to
`Deliver`, where `HeadFirst` is the order the contract asks for; every other settlement, one event or all that
die with the process, maps to `Lose`.

### JobRollout_proofs

For every set of targets, every assignment to batches and every policy that satisfies
`RolloutAssumption` (finitely many targets; no empty batch), and any number of requests and
crashes: `RolloutInvariant` (`Spec => []Inv`) and from it `RolloutTypeCorrect`,
`RolloutBatchesInOrder`, `RolloutFailureGate`, `RolloutCanaryReviewed`, `RolloutCompletedMeansDone`,
and the action properties `RolloutAbortIsFinal` and `RolloutPauseHolds`.

None of these is inductive because the reconciler, the claim and the operator all act on
something they read earlier. `Inv` says in which sense each reading is still true:

- `LowerDone`: all batches before the current one have ended, which never becomes false;
- `SeenOK`: the reconciler's snapshot shows only targets that have ended, with the outcome
  they still have, and shows all of the earlier batches;
- `AckedOK`: the baseline is the number of failures an operator has let pass, and a resume
  under way has counted at least the failures of the earlier batches;
- `ReleasedOK`: targets that are dispatched, or picked by a claim, belong to batches that
  were released: new failures before them within the limit, the canary reviewed;
- `EndOK`: what completed and aborted mean.

The key lemma is `SettledBatch`: an old snapshot that shows the whole batch ended shows all of
its failures, so the decision taken on it is as good as one on the present rows.

### RolloutPlan_proofs

What `prepare_job_rollout` makes of every request that `validate_job_rollout` lets pass, for every finite
set of targets: `EveryBatchHasATarget` (batches are numbered from 0 to the last without a gap, none
is empty, and batch 0 is the canaries; this is what `RolloutAssumption` supposes of a plan),
`BatchesKeepToTheSize` (no later batch exceeds `batch_size`) and `BatchesFollowTheIds` (no target is planned
before one with a smaller id). The key is `PlacesAreDense`: the places of the targets in the
order of their ids leave no number out. The least target whose place is at least q has place q, or the
greatest target below it would be a smaller one. Least and greatest elements come from the
well-foundedness of the natural numbers (`LeastOf`, `GreatestOf`).

### ScheduledJobs_proofs

For every set of jobs, targets and consumers that satisfies `EventsAssumption` and
`ScheduleAssumption`: `SchedulesInvariant`, `SchedulesTypeCorrect` (the failure counter stays an
INTEGER), `UsesOutbox` (`Spec => EventsSpec`: the composition uses the outbox only as
`TerminalEvents` allows), `OutboxJobEventLast`, `OutboxSettledStays`, `SummaryIsTrue`
(`SummarySettles`) and `NoOldBlame` (`NoBlameFromOldDefinitions`).

`OutboxInv` is the invariant of the outbox: a lease id stands only in a leased row
(`LeaseHeld`), what is settled has run (`SettledRan`), events exist exactly for what has ended
(`EventsInserted`), enrichments follow settled target events (`EnrichmentFollows`), and whoever
has a job's event in hand found its targets settled (`JobAfterTargets`). The last one is why a lost
lease does no harm: the fact a consumer relied on when it claimed cannot become false. For the schedule,
`Reported` and `SummaryTrue` say that once the effects of a job's event have run, a summary
that names the job shows its outcome: a repetition of another job may replace the summary as a
whole, never mix it.

### UpdateActivation_proofs

For every set of update commands that satisfies `UpdateAssumption` and any number of process
ends, power losses and hellos: `BinaryAlwaysWhole` (`Spec => []ActiveIsWhole`) and
`ConfirmationIsTruthful` (`Spec => []ConfirmedIsRunning`). `ActiveIsWhole` supposes that every
rollback names a digest (`Pinned`); without one it is false, as remarked under Findings.

Neither is inductive. `IInv` adds, besides the types,

- `BytesVerified`: what a thread holds between its read and its swap has the digest it was
  asked for, whatever has happened to the files since;
- `RunningIsKnown`: a running target is bound to the process the database knows, and to the
  living process once a hello of that was accepted: the commit of that hello swept the rest;
- `WorkHasMet`, `UnmetIsUntouched`: file work begins only after such a hello, so before it the
  process still runs what is in place;
- `NamedHasBegun`: markers and hellos name only commands that have begun;
- `HelloIsHonest`: from these, a hello that names a target still running for another process
  was sent before its sender could touch the binary, also when the marker and the digest were
  read at different times. This is why the overlap of heartbeat, swap and unmanaged
  checks does no harm.

### What is only model-checked

Liveness under fairness, which is beyond the prover: `EveryEventSettles` and `RolloutMoves`. Every invariant, action property and refinement of the
passing runs is stated by a theorem above. The properties of the four violation runs are refuted.

<a name="not-modelled"></a>
## What is not modelled

- Telemetry collection, storage and retention, dashboards, alert policies: bulk SQL over time
  series with little control state. Tunnels, port forwarding, process supervision, backup
  archives: system calls of the host. Frontend, `vpsctl` and the deployment scripts: clients
  without protocol state of their own. Authentication and privilege checks: local to a request.
- Terminal sessions (and the reopening of `terminal_open` jobs they cause), webhook and alert delivery, artifact deletion, restore, enrollment, key
  rotation: protocols of their own that later modules may cover.
- Of the parts that are modelled, what is left out is named with each module above: cancel
  delivery to the agent, telemetry's slot in the forwarder, corrupt spool files, event-triggered schedules, the
  time at which a schedule is due.

The modules cover the control of the job path. In lines that is a small part of the repository: much of its
code is tests, the user interface, SQL over telemetry and the handling of the host.

## Plan

Done: the job tables, the cancel request included; the dispatch to the agent and back; the
forwarder and its contract; rollouts; outbox and schedules; the dispatch fence; update activation
and rollback; and for each of them the proofs of all its safety properties.

Next, in this order:

1. Cancel delivery in `JobDispatch` (a cancel that overtakes its command).
2. Webhook delivery; artifact deletion; terminal sessions; the restore rollback.
