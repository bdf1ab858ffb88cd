--------------------------- MODULE JobTransactions ---------------------------
(***************************************************************************)
(* The PostgreSQL transactions of the API that change jobs and job_targets *)
(* (crates/api/src/repository/jobs/repository_jobs.rs and                  *)
(* fleet/repository_ingest.rs), at the granularity of row locks.           *)
(*                                                                         *)
(* Many tasks of the API run these transactions concurrently: ingest       *)
(* handlers, the dispatcher, the deadline reconciler, operator requests.   *)
(* Every one of them locks target rows, updates them (an AFTER UPDATE      *)
(* trigger then locks the client's row of system_dashboard_target_metrics),*)
(* locks the job rows, decides under that lock whether the job is finished,*)
(* and commits.  READ COMMITTED: each statement sees rows committed before *)
(* it plus the transaction's own writes; a row that had to be waited for   *)
(* is evaluated again once the lock is granted.                            *)
(*                                                                         *)
(* Three kinds of rows are locked, the job rows in three strengths: FOR    *)
(* UPDATE, FOR NO KEY UPDATE, and the FOR KEY SHARE that the foreign key   *)
(* of job_terminal_events takes, which only FOR UPDATE conflicts with.     *)
(***************************************************************************)
EXTENDS JobStatus, Integers, FiniteSets

CONSTANTS
    Jobs,           \* job ids, ordered like the uuids in ORDER BY job_id
    Clients,        \* client ids, ordered like the text in ORDER BY client_id
    Targets,        \* the rows of job_targets: pairs <<job, client>>
    Workers,        \* concurrent database transactions (pool connections)
    NoWorker,       \* owner of an unlocked row
    ResultStatuses, \* final statuses a target result may report
    ActivationJobs, \* jobs whose operation is AgentUpdateActivate ...
    RestartJobs,    \* ... and those of them with restart_agent
    Kinds           \* the transactions under study (TransactionKinds or fewer)

ASSUME ConstantsAssumption ==
    /\ Jobs \subseteq Nat
    /\ Clients \subseteq Nat
    /\ Targets \subseteq Jobs \X Clients
    /\ \A j \in Jobs : \E t \in Targets : t[1] = j
    /\ NoWorker \notin Workers
    /\ ResultStatuses \subseteq TerminalTargetStatuses
    /\ RestartJobs \subseteq ActivationJobs
    /\ ActivationJobs \subseteq Jobs

VARIABLES
    target,          \* committed job_targets.status, or "absent"
    cancelRequested, \* targets with cancel_requested_at IS NOT NULL
    job,             \* committed jobs.status, or "absent"
    targetEvent,     \* status in the target's row of job_terminal_events
    jobEvent,        \* status in the job's row of job_terminal_events
    canceledJobs,    \* history: jobs whose cancel request has committed
    targetLock,      \* row-lock owners: job_targets ...
    metricLock,      \* ... system_dashboard_target_metrics, one per client ...
    jobLock,         \* ... and jobs
    keyShare,        \* transactions with a KEY SHARE lock on a job row
    kind,            \* the transaction a worker runs, or "idle"
    phase,           \* how far it is
    to,              \* the status it writes to its targets
    cancels,         \* the job it cancels, as a set of at most one
    leaving,         \* the client whose queued targets it has yet to skip
    wantTarget,      \* rows still to lock in the current statement(s)
    wantMetric,
    wantJob,
    staged,          \* its uncommitted target statuses, or "none"
    flagged,         \* its uncommitted cancel_requested_at flags
    stagedJob        \* its uncommitted job statuses, or "none"

rows == <<target, cancelRequested, job, targetEvent, jobEvent, canceledJobs>>
locks == <<targetLock, metricLock, jobLock, keyShare>>
wants == <<wantTarget, wantMetric, wantJob>>
writes == <<staged, flagged, stagedJob>>
tx == <<kind, phase, to, cancels, leaving>>
vars == <<rows, locks, tx, wants, writes>>

------------------------------------------------------------------------------
(* Rows *)

TargetsOf(j) == {t \in Targets : t[1] = j}
TargetsAt(c) == {t \in Targets : t[2] = c}
JobsOf(T) == {t[1] : t \in T}
ClientsOf(T) == {t[2] : t \in T}

\* completed_at IS NOT NULL
Finished(j) == job[j] \in TerminalJobStatuses

\* The job_targets rows as transaction w sees them.
Seen(w) == [t \in Targets |-> IF staged[w][t] = "none" THEN target[t]
                                                       ELSE staged[w][t]]

StatusesOf(tgt, j) == {tgt[t] : t \in TargetsOf(j)}
AllTerminal(tgt, j) == \A t \in TargetsOf(j) : tgt[t] \in TerminalTargetStatuses

NothingStaged == [t \in Targets |-> "none"]
NoJobStaged == [j \in Jobs |-> "none"]
StagedTargets(w) == {t \in Targets : staged[w][t] # "none"}
StagedTerminal(w) == {t \in Targets : staged[w][t] \in TerminalTargetStatuses}

\* A row lock is granted when nobody else holds the row.
TargetRowFree(w, t) == targetLock[t] \in {NoWorker, w}

\* Mutant: the job row is read without FOR NO KEY UPDATE.
JobRowFree_Unlocked(w, j) == TRUE
JobRowFree(w, j) == jobLock[j] \in {NoWorker, w}

\* FOR UPDATE also waits for the KEY SHARE locks of others ...
JobRowUnshared(w, j) == keyShare[j] \subseteq {w}

\* ... which in turn only wait for FOR UPDATE, the lock of these transactions.
LocksJobForUpdate(w) == kind[w] \in {"hello", "claim", "expire"}

\* ORDER BY job_id, client_id; each lock statement takes the least row first.
LeastTarget(T) == {t \in T : \A u \in T : t[1] < u[1] \/ (t[1] = u[1] /\ t[2] <= u[2])}
Least(S) == {x \in S : \A y \in S : x <= y}

Init ==
    /\ target = [t \in Targets |-> "absent"]
    /\ cancelRequested = {}
    /\ job = [j \in Jobs |-> "absent"]
    /\ targetEvent = [t \in Targets |-> "none"]
    /\ jobEvent = [j \in Jobs |-> "none"]
    /\ canceledJobs = {}
    /\ targetLock = [t \in Targets |-> NoWorker]
    /\ metricLock = [c \in Clients |-> NoWorker]
    /\ jobLock = [j \in Jobs |-> NoWorker]
    /\ keyShare = [j \in Jobs |-> {}]
    /\ kind = [w \in Workers |-> "idle"]
    /\ phase = [w \in Workers |-> "idle"]
    /\ to = [w \in Workers |-> "none"]
    /\ cancels = [w \in Workers |-> {}]
    /\ leaving = [w \in Workers |-> {}]
    /\ wantTarget = [w \in Workers |-> {}]
    /\ wantMetric = [w \in Workers |-> {}]
    /\ wantJob = [w \in Workers |-> {}]
    /\ staged = [w \in Workers |-> NothingStaged]
    /\ flagged = [w \in Workers |-> {}]
    /\ stagedJob = [w \in Workers |-> NoJobStaged]

------------------------------------------------------------------------------
(* Creating a job *)

\* record_dispatching_job_with_source: the job and all of its targets appear in
\* one commit; targets that cannot run (never connected, ...) are inserted
\* already skipped with their events, and the job is finished at once when no
\* target is left.
CreateJob(j, skipped) ==
    LET inserted == [t \in Targets |->
                        IF t[1] # j THEN target[t]
                        ELSE IF t \in skipped THEN "skipped" ELSE "queued"]
        done == AllTerminal(inserted, j)
    IN  /\ job[j] = "absent"
        /\ skipped \subseteq TargetsOf(j)
        /\ target' = inserted
        /\ targetEvent' = [t \in Targets |->
                              IF t \in skipped THEN "skipped" ELSE targetEvent[t]]
        /\ job' = [job EXCEPT ![j] =
                      IF done THEN AggregateJobStatus(StatusesOf(inserted, j))
                              ELSE "queued"]
        /\ jobEvent' = [jobEvent EXCEPT ![j] =
                           IF done THEN AggregateJobStatus(StatusesOf(inserted, j))
                                   ELSE "none"]
        /\ UNCHANGED <<cancelRequested, canceledJobs, locks, tx, wants, writes>>

------------------------------------------------------------------------------
(* Beginning a transaction *)

\* Mutant: results are written without the test completed_at IS NULL.
Accepts_Completed(k) ==
    IF k = "result" THEN TargetStatuses ELSE {"queued", "dispatching", "running"}

\* The target statuses the WHERE clauses of a transaction accept.
Accepts(k) ==
    CASE k \in {"result", "running"} -> ActiveTargetStatuses
      [] k \in {"lost", "hello"}     -> {"dispatching", "running"}
      [] k = "skip"                  -> {"queued", "dispatching"}
      [] k \in {"skip_unstarted", "cancel"} -> {"queued"}

\* w begins a transaction that locks the target rows T, waiting where it must,
\* and writes status to those it then still accepts.
Begin(w, k, T, status) ==
    /\ kind[w] = "idle"
    /\ k \in Kinds
    /\ kind' = [kind EXCEPT ![w] = k]
    /\ phase' = [phase EXCEPT ![w] = "targets"]
    /\ to' = [to EXCEPT ![w] = status]
    /\ wantTarget' = [wantTarget EXCEPT ![w] = T]
    /\ UNCHANGED <<rows, locks, wantMetric, wantJob, writes>>

\* The rows of T a transaction of kind k finds in its snapshot.
Found(k, T) == {t \in T : target[t] \in Accepts(k)}

\* update_job_target_result_if_dispatch_attempt, and in the same shape
\* terminalize_job_target_from_output_in_tx, record_job_target_cancel_result
\* with applied, and terminalize_invalid_job_operation_target.  Each names one
\* target that has been claimed before; by now it may have any later status.
BeginResult(w, t, status) ==
    /\ target[t] \notin {"absent", "queued"}
    /\ Begin(w, "result", {t}, status)
    /\ UNCHANGED <<cancels, leaving>>

\* mark_job_target_running_if_dispatch_attempt.
BeginRunning(w, t) ==
    /\ target[t] \notin {"absent", "queued"}
    /\ Begin(w, "running", {t}, "running")
    /\ UNCHANGED <<cancels, leaving>>

\* mark_active_targets_agent_lost_for_client_in_tx, called when an operator
\* replaces a client's key, or removes the client (deletes it or revokes its
\* key), when the same transaction then skips the targets not yet started.
BeginAgentLost(w, c, removed) ==
    /\ Begin(w, "lost", Found("lost", TargetsAt(c)), "agent_lost")
    /\ leaving' = [leaving EXCEPT ![w] = IF removed THEN {c} ELSE {}]
    /\ UNCHANGED cancels

\* mark_old_incarnation_targets_agent_lost_in_tx, run by the hello of a new
\* process incarnation.  It joins jobs and says FOR UPDATE without OF, so it
\* locks each target's job row together with the target row.
BeginHelloSweep(w, c) ==
    /\ Begin(w, "hello", Found("hello", TargetsAt(c)), "agent_lost")
    /\ UNCHANGED <<cancels, leaving>>

\* skip_undelivered_targets_for_client_in_tx.  Suspension (kind "skip") also
\* skips claimed targets, except the protected ones, whose command the gateway
\* has already enqueued to the agent; the removal of a client that has no
\* process incarnation (kind "skip_unstarted") only skips the queued ones.
BeginSkip(w, c, k, protected) ==
    /\ k \in {"skip", "skip_unstarted"}
    /\ protected \subseteq {t \in TargetsAt(c) : k = "skip" /\ target[t] = "dispatching"}
    /\ Begin(w, k, Found(k, TargetsAt(c)) \ protected, "skipped")
    /\ UNCHANGED <<cancels, leaving>>

\* request_job_cancel, first statement: the queued targets of the job.
BeginCancel(w, j) ==
    /\ job[j] # "absent"
    /\ Begin(w, "cancel", Found("cancel", TargetsOf(j)), "canceled")
    /\ cancels' = [cancels EXCEPT ![w] = {j}]
    /\ UNCHANGED leaving

\* A statement with FOR UPDATE ... SKIP LOCKED over target and job rows takes
\* the rows T that nobody else holds, without waiting, and the transaction
\* stages the statuses new for them; the metric rows of their clients come next.
\* It locks a target before its job: where only the job row is held it skips the
\* pair but keeps the lock on the target until it ends.
Grab(w, k, T, kept, new) ==
    /\ kind[w] = "idle"
    /\ k \in Kinds
    /\ T \cup kept # {}
    /\ \A t \in T \cup kept : targetLock[t] = NoWorker
    /\ \A t \in T : jobLock[t[1]] = NoWorker /\ keyShare[t[1]] = {}
    /\ \A t \in kept : jobLock[t[1]] # NoWorker \/ keyShare[t[1]] # {}
    /\ kind' = [kind EXCEPT ![w] = k]
    /\ phase' = [phase EXCEPT ![w] = "metrics"]
    /\ targetLock' = [t \in Targets |-> IF t \in T \cup kept THEN w ELSE targetLock[t]]
    /\ jobLock' = [j \in Jobs |-> IF j \in JobsOf(T) THEN w ELSE jobLock[j]]
    /\ staged' = [staged EXCEPT ![w] = [t \in Targets |->
                     IF t \in T THEN new[t] ELSE "none"]]
    /\ wantMetric' = [wantMetric EXCEPT ![w] = ClientsOf(T)]
    /\ UNCHANGED <<rows, metricLock, keyShare, to, cancels, leaving, wantTarget,
                   wantJob, flagged>>

\* Mutant: a claim forgets to promote the job.
PromotedJobs_None(T) == {}

PromotedJobs(T) == {j \in JobsOf(T) : job[j] = "queued"}

\* Mutant: a target is claimed again although its cancel was requested.
Due_Canceled(t) ==
    /\ target[t] \in {"queued", "dispatching"}
    /\ job[t[1]] \in {"queued", "running"}

Due(t) ==
    /\ target[t] \in {"queued", "dispatching"}
    /\ t \notin cancelRequested
    /\ job[t[1]] \in {"queued", "running"}

\* claim_due_job_targets: due targets go to dispatching (a dispatching target
\* whose lease ran out is claimed again) and their queued jobs to running.
Claim(w, T, kept) ==
    /\ \A t \in T \cup kept : Due(t)
    /\ stagedJob' = [stagedJob EXCEPT ![w] = [j \in Jobs |->
                        IF j \in PromotedJobs(T) THEN "running" ELSE "none"]]
    /\ Grab(w, "claim", T, kept, [t \in T |-> "dispatching"])

\* expire_control_timeout_targets: active targets whose deadline has passed.
\* The restart of an update activation that never came back counts as lost.
\* The metric rows are locked by a statement of its own before the updates.
Expire(w, T, kept) ==
    /\ \A t \in T \cup kept : target[t] \in {"dispatching", "running"}
    /\ Grab(w, "expire", T, kept, [t \in T |->
               IF t[1] \in RestartJobs THEN "agent_lost" ELSE "control_timeout"])
    /\ UNCHANGED stagedJob

------------------------------------------------------------------------------
(* The steps of a transaction *)

\* Mutant: the row is not evaluated again after the wait for its lock.
StillAccepted_Stale(w, t) == TRUE

StillAccepted(w, t) == target[t] \in Accepts(kind[w])

\* What w writes to t.  A hello may carry the heartbeat of one update activation:
\* the target of that job is completed when the running artifact has the staged
\* hash, failed when it has another; every other target is lost.
Written(w, t) ==
    IF /\ kind[w] = "hello" /\ t[1] \in ActivationJobs
       /\ \A u \in Targets : staged[w][u] \notin {"completed", "failed"}
    THEN {"agent_lost", "completed", "failed"}
    ELSE {to[w]}

\* The next target row is granted to w and its WHERE clause is evaluated on the
\* row's committed version.
LockTarget(w, t) ==
    /\ phase[w] = "targets"
    /\ wantJob[w] = {}
    /\ t \in LeastTarget(wantTarget[w])
    /\ TargetRowFree(w, t)
    /\ targetLock' = [targetLock EXCEPT ![t] = w]
    /\ wantTarget' = [wantTarget EXCEPT ![w] = @ \ {t}]
    /\ \E status \in IF StillAccepted(w, t) THEN Written(w, t) ELSE {"none"} :
          staged' = [staged EXCEPT ![w][t] = status]
    /\ wantJob' = [wantJob EXCEPT ![w] = IF kind[w] = "hello" THEN {t[1]} ELSE {}]
    /\ UNCHANGED <<rows, metricLock, jobLock, keyShare, tx, wantMetric, flagged, stagedJob>>

\* The hello sweep's SELECT locks the job row after each target row.
LockJoinedJob(w, j) ==
    /\ phase[w] = "targets"
    /\ j \in wantJob[w]
    /\ JobRowFree(w, j) /\ JobRowUnshared(w, j)
    /\ jobLock' = [jobLock EXCEPT ![j] = w]
    /\ wantJob' = [wantJob EXCEPT ![w] = {}]
    /\ UNCHANGED <<rows, targetLock, metricLock, keyShare, tx, wantTarget, wantMetric, writes>>

\* The UPDATE of the staged targets fires the trigger
\* maintain_system_dashboard_target_metrics, which updates the metrics of every
\* client whose counts change.
UpdateTargets(w) ==
    /\ phase[w] = "targets"
    /\ wantTarget[w] = {} /\ wantJob[w] = {}
    /\ phase' = [phase EXCEPT ![w] = "metrics"]
    /\ wantMetric' = [wantMetric EXCEPT ![w] =
                         ClientsOf({t \in StagedTargets(w) : staged[w][t] # target[t]})]
    /\ UNCHANGED <<rows, locks, kind, to, cancels, leaving, wantTarget, wantJob, writes>>

LockMetric(w, c) ==
    /\ phase[w] \in {"metrics", "flagging"}
    /\ c \in Least(wantMetric[w])
    /\ metricLock[c] \in {NoWorker, w}
    /\ metricLock' = [metricLock EXCEPT ![c] = w]
    /\ wantMetric' = [wantMetric EXCEPT ![w] = @ \ {c}]
    /\ UNCHANGED <<rows, targetLock, jobLock, keyShare, tx, wantTarget, wantJob, writes>>

\* Mutant: the second UPDATE forgets the targets in flight to the gateway.
ToFlag_RunningOnly(w) == {t \in Targets : t[1] \in cancels[w] /\ target[t] = "running"}

ToFlag(w) ==
    {t \in Targets : t[1] \in cancels[w] /\ target[t] \in {"dispatching", "running"}}

\* request_job_cancel, second UPDATE: it finds the active targets in a snapshot
\* of its own, in no particular order, ...
BeginFlagging(w) ==
    /\ phase[w] = "metrics" /\ wantMetric[w] = {}
    /\ kind[w] = "cancel"
    /\ phase' = [phase EXCEPT ![w] = "flagging"]
    /\ wantTarget' = [wantTarget EXCEPT ![w] = ToFlag(w)]
    /\ UNCHANGED <<rows, locks, kind, to, cancels, leaving, wantMetric, wantJob, writes>>

\* ... and sets cancel_requested_at on those still active when it gets the lock.
FlagTarget(w, t) ==
    /\ phase[w] = "flagging"
    /\ t \in wantTarget[w]
    /\ TargetRowFree(w, t)
    /\ targetLock' = [targetLock EXCEPT ![t] = w]
    /\ wantTarget' = [wantTarget EXCEPT ![w] = @ \ {t}]
    /\ flagged' = [flagged EXCEPT ![w] =
                      IF target[t] \in {"dispatching", "running"} THEN @ \cup {t} ELSE @]
    /\ wantMetric' = [wantMetric EXCEPT ![w] =
                         IF wantTarget[w] = {t}
                         THEN ClientsOf(flagged'[w] \ cancelRequested) ELSE @]
    /\ UNCHANGED <<rows, metricLock, jobLock, keyShare, tx, wantJob, staged, stagedJob>>

\* The jobs a transaction turns to after its target updates: those it changed a
\* target of, and a canceled job in any case; for mark running the job only if
\* it is still queued; a claim has promoted its jobs in the same statement.
JobsToFinish(w) ==
    IF kind[w] = "claim" THEN {}
    ELSE IF kind[w] = "running"
         THEN {j \in JobsOf(StagedTargets(w)) : job[j] = "queued"}
         ELSE JobsOf(StagedTargets(w)) \cup cancels[w]

\* The target updates of w and what their triggers do are done.
TargetsUpdated(w) ==
    /\ phase[w] = IF kind[w] = "cancel" THEN "flagging" ELSE "metrics"
    /\ wantMetric[w] = {} /\ wantTarget[w] = {}

\* The jobs of targets ended by w whose terminal event it has not inserted yet.
Unannounced(w) == {j \in JobsOf(StagedTerminal(w)) : w \notin keyShare[j]}

\* enqueue_target_terminal_event_in_tx: the foreign key of the inserted event
\* locks the job row FOR KEY SHARE.
InsertEvent(w, j) ==
    /\ TargetsUpdated(w)
    /\ j \in Least(Unannounced(w))
    /\ \A v \in Workers \ {w} : jobLock[j] = v => ~LocksJobForUpdate(v)
    /\ keyShare' = [keyShare EXCEPT ![j] = @ \cup {w}]
    /\ UNCHANGED <<rows, targetLock, metricLock, jobLock, tx, wants, writes>>

\* delete_agent and the revocation of a key: after the lost targets come the
\* queued ones, in a statement with a snapshot of its own.
SkipUnstarted(w) ==
    /\ TargetsUpdated(w) /\ Unannounced(w) = {}
    /\ leaving[w] # {}
    /\ kind' = [kind EXCEPT ![w] = "skip_unstarted"]
    /\ phase' = [phase EXCEPT ![w] = "targets"]
    /\ to' = [to EXCEPT ![w] = "skipped"]
    /\ wantTarget' = [wantTarget EXCEPT ![w] =
                         {t \in Found("skip_unstarted", Targets) : t[2] \in leaving[w]}]
    /\ leaving' = [leaving EXCEPT ![w] = {}]
    /\ UNCHANGED <<rows, locks, cancels, wantMetric, wantJob, writes>>

BeginFinish(w) ==
    /\ TargetsUpdated(w) /\ Unannounced(w) = {}
    /\ leaving[w] = {}
    /\ phase' = [phase EXCEPT ![w] = "finish"]
    /\ wantJob' = [wantJob EXCEPT ![w] = JobsToFinish(w)]
    /\ UNCHANGED <<rows, locks, kind, to, cancels, leaving, wantTarget, wantMetric, writes>>

\* finish_job_in_tx_if_all_targets_terminal_and_enqueue_event: with the job row
\* locked, an unfinished job none of whose targets is active any more gets the
\* aggregate status.  Mark running promotes the queued job instead.
FinishJob(w, j) ==
    /\ phase[w] = "finish"
    /\ j \in Least(wantJob[w])
    /\ JobRowFree(w, j)
    /\ jobLock' = [jobLock EXCEPT ![j] = w]
    /\ wantJob' = [wantJob EXCEPT ![w] = @ \ {j}]
    /\ stagedJob' = [stagedJob EXCEPT ![w][j] =
          IF kind[w] = "running"
          THEN IF job[j] = "queued" THEN "running" ELSE "none"
          ELSE IF ~Finished(j) /\ AllTerminal(Seen(w), j)
               THEN AggregateJobStatus(StatusesOf(Seen(w), j))
               ELSE "none"]
    /\ UNCHANGED <<rows, targetLock, metricLock, keyShare, tx, wantTarget, wantMetric,
                   staged, flagged>>

\* The worker is idle again and all of its locks are free.
Release(w) ==
    /\ targetLock' = [t \in Targets |-> IF targetLock[t] = w THEN NoWorker ELSE targetLock[t]]
    /\ metricLock' = [c \in Clients |-> IF metricLock[c] = w THEN NoWorker ELSE metricLock[c]]
    /\ jobLock' = [j \in Jobs |-> IF jobLock[j] = w THEN NoWorker ELSE jobLock[j]]
    /\ keyShare' = [j \in Jobs |-> keyShare[j] \ {w}]
    /\ kind' = [kind EXCEPT ![w] = "idle"]
    /\ phase' = [phase EXCEPT ![w] = "idle"]
    /\ to' = [to EXCEPT ![w] = "none"]
    /\ cancels' = [cancels EXCEPT ![w] = {}]
    /\ leaving' = [leaving EXCEPT ![w] = {}]
    /\ wantTarget' = [wantTarget EXCEPT ![w] = {}]
    /\ wantMetric' = [wantMetric EXCEPT ![w] = {}]
    /\ wantJob' = [wantJob EXCEPT ![w] = {}]
    /\ staged' = [staged EXCEPT ![w] = NothingStaged]
    /\ flagged' = [flagged EXCEPT ![w] = {}]
    /\ stagedJob' = [stagedJob EXCEPT ![w] = NoJobStaged]

\* Mutant: every update enqueues an event, terminal or not.
EventAfter_Always(old, new, terminal) == IF old = "none" THEN new ELSE old

\* enqueue_target_terminal_event_in_tx and enqueue_job_terminal_event_in_tx
\* insert WHERE NOT EXISTS an event of the same target or job.
EventAfter(old, new, terminal) ==
    IF old = "none" /\ new \in terminal THEN new ELSE old

\* tx.commit(): everything the transaction wrote becomes visible at once.
Commit(w) ==
    /\ phase[w] = "finish"
    /\ wantJob[w] = {}
    /\ target' = Seen(w)
    /\ job' = [j \in Jobs |-> IF stagedJob[w][j] = "none" THEN job[j] ELSE stagedJob[w][j]]
    /\ cancelRequested' = cancelRequested \cup flagged[w]
    /\ targetEvent' = [t \in Targets |->
                          EventAfter(targetEvent[t], staged[w][t], TerminalTargetStatuses)]
    /\ jobEvent' = [j \in Jobs |->
                       EventAfter(jobEvent[j], stagedJob[w][j], TerminalJobStatuses)]
    /\ canceledJobs' = canceledJobs \cup cancels[w]
    /\ Release(w)

\* A transaction is rolled back: an error, a bail!() or a lost connection.
Abort(w) ==
    /\ kind[w] # "idle"
    /\ Release(w)
    /\ UNCHANGED rows

------------------------------------------------------------------------------
(* Waiting *)

\* w cannot go on because v holds the row it needs next.
WaitsFor(w, v) ==
    /\ w # v
    /\ \/ /\ phase[w] = "targets" /\ wantJob[w] = {}
          /\ \E t \in LeastTarget(wantTarget[w]) : targetLock[t] = v
       \/ /\ phase[w] = "targets"
          /\ \E j \in wantJob[w] : jobLock[j] = v \/ v \in keyShare[j]
       \/ phase[w] = "flagging" /\ \E t \in wantTarget[w] : targetLock[t] = v
       \/ /\ phase[w] \in {"metrics", "flagging"} /\ wantTarget[w] = {}
          /\ \E c \in Least(wantMetric[w]) : metricLock[c] = v
       \/ /\ TargetsUpdated(w) /\ LocksJobForUpdate(v)
          /\ \E j \in Least(Unannounced(w)) : jobLock[j] = v
       \/ phase[w] = "finish" /\ \E j \in Least(wantJob[w]) : jobLock[j] = v

\* S is a set of transactions that wait for one another in a circle.
WaitCycle(S) ==
    /\ S # {}
    /\ \A w \in S : \E v \in S : WaitsFor(w, v)
    /\ \A v \in S : \E w \in S : WaitsFor(w, v)

\* PostgreSQL's deadlock detector rolls back a member of the circle.
DeadlockVictim(w) ==
    /\ \E S \in SUBSET Workers : w \in S /\ WaitCycle(S)
    /\ Release(w)
    /\ UNCHANGED rows

------------------------------------------------------------------------------
(* Specification *)

BeginTransaction(w) ==
    \/ \E t \in Targets : \/ \E status \in ResultStatuses : BeginResult(w, t, status)
                          \/ BeginRunning(w, t)
    \/ \E c \in Clients :
          \/ \E removed \in BOOLEAN : BeginAgentLost(w, c, removed)
          \/ BeginHelloSweep(w, c)
          \/ \E k \in {"skip", "skip_unstarted"}, protected \in SUBSET TargetsAt(c) :
                BeginSkip(w, c, k, protected)
    \/ \E j \in Jobs : BeginCancel(w, j)
    \/ \E T, kept \in SUBSET Targets : Claim(w, T, kept) \/ Expire(w, T, kept)

\* What a running transaction does next, when no row it needs is held.
Step(w) ==
    \/ \E t \in Targets : LockTarget(w, t) \/ FlagTarget(w, t)
    \/ \E c \in Clients : LockMetric(w, c)
    \/ \E j \in Jobs : LockJoinedJob(w, j) \/ InsertEvent(w, j) \/ FinishJob(w, j)
    \/ UpdateTargets(w)
    \/ BeginFlagging(w)
    \/ SkipUnstarted(w)
    \/ BeginFinish(w)
    \/ Commit(w)

Next ==
    \/ \E j \in Jobs : \E skipped \in SUBSET TargetsOf(j) : CreateJob(j, skipped)
    \/ \E w \in Workers : \/ BeginTransaction(w)
                          \/ Step(w)
                          \/ Abort(w)
                          \/ DeadlockVictim(w)

Spec == Init /\ [][Next]_vars

------------------------------------------------------------------------------
(* Properties *)

TransactionKinds == {"result", "running", "lost", "hello", "skip",
                     "skip_unstarted", "cancel", "claim", "expire"}

\* Type invariant of the committed rows, the locks and the transactions.
TypeOK ==
    /\ target \in [Targets -> TargetStatuses \cup {"absent"}]
    /\ cancelRequested \in SUBSET Targets
    /\ job \in [Jobs -> JobStatuses \cup {"absent"}]
    /\ targetEvent \in [Targets -> TerminalTargetStatuses \cup {"none"}]
    /\ jobEvent \in [Jobs -> TerminalJobStatuses \cup {"none"}]
    /\ canceledJobs \in SUBSET Jobs
    /\ targetLock \in [Targets -> Workers \cup {NoWorker}]
    /\ metricLock \in [Clients -> Workers \cup {NoWorker}]
    /\ jobLock \in [Jobs -> Workers \cup {NoWorker}]
    /\ keyShare \in [Jobs -> SUBSET Workers]
    /\ kind \in [Workers -> TransactionKinds \cup {"idle"}]
    /\ phase \in [Workers -> {"idle", "targets", "metrics", "flagging", "finish"}]
    /\ to \in [Workers -> TargetStatuses \cup {"none"}]
    /\ cancels \in [Workers -> SUBSET Jobs]
    /\ leaving \in [Workers -> SUBSET Clients]
    /\ wantTarget \in [Workers -> SUBSET Targets]
    /\ wantMetric \in [Workers -> SUBSET Clients]
    /\ wantJob \in [Workers -> SUBSET Jobs]
    /\ staged \in [Workers -> [Targets -> TargetStatuses \cup {"none"}]]
    /\ flagged \in [Workers -> SUBSET Targets]
    /\ stagedJob \in [Workers -> [Jobs -> JobStatuses \cup {"none"}]]

\* A job is terminal in the committed rows exactly when all of its targets are,
\* and then its status is the aggregate of theirs: two transactions that each
\* finish one of the last two targets of a job can neither both miss that the
\* job is done, leaving it running for ever, nor finish it too early or with
\* the wrong status (finish_job_in_tx_if_all_targets_terminal_and_enqueue_event).
JobCompletesWithLastTarget ==
    \A j \in Jobs : job[j] # "absent" =>
        /\ Finished(j) <=> AllTerminal(target, j)
        /\ Finished(j) => job[j] = AggregateJobStatus(StatusesOf(target, j))

\* Exactly the terminal targets and jobs have a terminal event, and it carries
\* the status the row ended with: the outbox of job_terminal_events never
\* misses an outcome and never announces one that was overtaken.
EventsTellTheOutcome ==
    /\ \A t \in Targets : targetEvent[t] =
          IF target[t] \in TerminalTargetStatuses THEN target[t] ELSE "none"
    /\ \A j \in Jobs : jobEvent[j] =
          IF Finished(j) THEN job[j] ELSE "none"

\* Once request_job_cancel has committed, every target of the job is terminal
\* or carries cancel_requested_at, however claims and results interleaved with
\* its two statements: no target slips between them.
CancelReachesEveryTarget ==
    \A j \in canceledJobs : \A t \in TargetsOf(j) :
        target[t] \in TerminalTargetStatuses \/ t \in cancelRequested

\* A dispatching or running target is never represented by a still queued
\* parent job (claim_due_job_targets promotes the job in its own statement).
ClaimedTargetHasRunningJob ==
    \A t \in Targets : target[t] \in {"dispatching", "running"} => job[t[1]] = "running"

\* A target is never being claimed while its cancel request is already visible:
\* claim_due_job_targets cannot dispatch again what an operator has canceled.
NoClaimOfCanceledTarget ==
    \A w \in Workers, t \in Targets :
        kind[w] = "claim" /\ staged[w][t] # "none" => t \notin cancelRequested

------------------------------------------------------------------------------
(* Why they hold: the parts of the inductive invariant *)

\* Transactions that only move targets and jobs between active statuses.
Progressing(w) == kind[w] \in {"claim", "running"}

\* What a transaction writes when a row is granted to it.
WritesOK ==
    \A w \in Workers :
        /\ phase[w] = "targets" =>
              /\ kind[w] \in TransactionKinds \ {"claim", "expire"}
              /\ kind[w] = "running" => to[w] = "running"
              /\ kind[w] # "running" => to[w] \in TerminalTargetStatuses
        /\ kind[w] \in {"idle", "claim"} => wantJob[w] = {}
        /\ kind[w] = "idle" => phase[w] = "idle"
        /\ leaving[w] # {} => kind[w] = "lost"

\* An uncommitted target update is protected by the row lock, so the committed
\* row is still the active one it was based on.
StagedOK ==
    \A w \in Workers, t \in Targets : staged[w][t] # "none" =>
        /\ kind[w] # "idle"
        /\ targetLock[t] = w
        /\ target[t] \in ActiveTargetStatuses
        /\ kind[w] = "claim" =>
              /\ staged[w][t] = "dispatching"
              /\ target[t] \in {"queued", "dispatching"}
              /\ jobLock[t[1]] = w
              /\ job[t[1]] = "running" \/ stagedJob[w][t[1]] = "running"
        /\ kind[w] = "running" => staged[w][t] = "running"
        /\ ~Progressing(w) => staged[w][t] \in TerminalTargetStatuses

\* An uncommitted job update is protected by the job's row lock; a completion
\* is the aggregate of the rows as its transaction sees them.
StagedJobOK ==
    \A w \in Workers, j \in Jobs : stagedJob[w][j] # "none" =>
        /\ kind[w] # "idle"
        /\ jobLock[j] = w
        /\ job[j] \in {"queued", "running"}
        /\ Progressing(w) => stagedJob[w][j] = "running"
        /\ ~Progressing(w) =>
              /\ phase[w] = "finish"
              /\ AllTerminal(Seen(w), j)
              /\ stagedJob[w][j] = AggregateJobStatus(StatusesOf(Seen(w), j))

\* A transaction that has dealt with a job it changed a target of holds the job
\* row, and has staged the completion (or the promotion) that is due.
VerdictOK ==
    \A w \in Workers, t \in Targets :
        (phase[w] = "finish" /\ staged[w][t] # "none" /\ t[1] \notin wantJob[w]) =>
            /\ ~Progressing(w) =>
                  /\ jobLock[t[1]] = w
                  /\ AllTerminal(Seen(w), t[1]) => stagedJob[w][t[1]] # "none"
            /\ kind[w] = "running" =>
                  job[t[1]] = "running" \/ stagedJob[w][t[1]] = "running"

\* A job and its targets are inserted together.
PresenceOK == \A t \in Targets : target[t] = "absent" <=> job[t[1]] = "absent"

IndInv ==
    /\ TypeOK
    /\ WritesOK
    /\ StagedOK
    /\ StagedJobOK
    /\ VerdictOK
    /\ PresenceOK
    /\ JobCompletesWithLastTarget
    /\ ClaimedTargetHasRunningJob

\* A cancel request turns to rows that have left "queued", and sets
\* cancel_requested_at only under the row lock, on rows dispatching or running.
FlaggedOK ==
    \A w \in Workers :
        /\ phase[w] = "flagging" =>
              /\ kind[w] = "cancel"
              /\ \A t \in wantTarget[w] : target[t] \notin {"absent", "queued"}
        /\ \A t \in flagged[w] : /\ kind[w] = "cancel"
                                 /\ targetLock[t] = w
                                 /\ target[t] \in {"dispatching", "running"}

\* The cancel request of w has dealt with t: it ended before, or w ends or flags it.
ReachedBy(w, t) ==
    \/ target[t] \in TerminalTargetStatuses
    \/ staged[w][t] # "none"
    \/ t \in flagged[w]

\* Which targets of its job a cancel request may have left to deal with, phase
\* by phase: a target that leaves "queued" behind its first statement is one the
\* snapshot of its second statement finds.
CancelsOK ==
    \A w \in Workers : cancels[w] # {} =>
        /\ kind[w] = "cancel"
        /\ \A j \in cancels[w] : job[j] # "absent"
        /\ \A t \in Targets : t[1] \in cancels[w] =>
              /\ phase[w] = "targets" /\ target[t] = "queued"
                    => t \in wantTarget[w] \/ staged[w][t] # "none"
              /\ phase[w] = "metrics" /\ target[t] = "queued" => staged[w][t] # "none"
              /\ phase[w] = "flagging" => t \in wantTarget[w] \/ ReachedBy(w, t)
              /\ phase[w] = "finish" => ReachedBy(w, t)

\* What the two cancel properties need beside IndInv.
CancelInv ==
    /\ FlaggedOK
    /\ CancelsOK
    /\ \A j \in canceledJobs : job[j] # "absent"
    /\ CancelReachesEveryTarget
    /\ NoClaimOfCanceledTarget

\* The committed rows behave as AbstractJobs promises.
Abstract == INSTANCE AbstractJobs
ImplementsAbstractJobs == Abstract!Spec

\* No circle of transactions that wait for one another's row locks: the
\* transactions of the API lock rows in an order that all of them keep.
NoLockCycle == \A S \in SUBSET Workers : ~WaitCycle(S)
==============================================================================
