----------------------------- MODULE ScheduledJobs -----------------------------
(***************************************************************************)
(* A cron schedule and the jobs it starts.  The worker materializes jobs   *)
(* from a due schedule, operators edit it, and the event of a finished job *)
(* (TerminalEvents) writes the job's outcome into the schedule's summary:  *)
(* the last job, the failure count and, past max_failures, enabled.  That  *)
(* write commits by itself, before the event is settled, so a failure or a *)
(* crash in between writes it again later.                                 *)
(*                                                                         *)
(* An enabled schedule may be due at any time.  Timestamps are compared in *)
(* one place only, so their order is kept and not their values.            *)
(***************************************************************************)
EXTENDS TerminalEvents, FiniteSets

CONSTANTS
    NoJob,
    MaxFailures,   \* schedules.max_failures; negative: unlimited
    CatchUpLimit,  \* jobs materialized at once
    MaxCount,      \* the largest INTEGER, where counters saturate
    MaxRevision    \* bound on edits

ASSUME ScheduleAssumption ==
    /\ NoJob \notin Jobs
    /\ MaxFailures \in Int /\ CatchUpLimit \in Nat \ {0}
    /\ MaxCount \in Nat \ {0} /\ MaxRevision \in Nat

VARIABLES
    status,    \* jobs.status
    schedule,  \* the row of schedules; lastDone is last_job_completed_at IS
               \* NOT NULL
    lately,    \* jobs with completed_at >= last_job_completed_at
    failing,   \* the revision under which a materialization has just failed,
               \* before the worker records it
    \* History: how often a job's failure was counted, and the revision of
    \* the last new definition.
    counted, defined

scheduleVars == <<schedule, lately, failing, counted, defined>>
vars == <<eventVars, status, scheduleVars>>

NoRevision == -1
Outcomes == {"completed", "failed", "neutral"}

\* Init is a schedule just created.
Init ==
    /\ EventsInit
    /\ status = [j \in Jobs |-> "absent"]
    /\ schedule = [enabled |-> TRUE, deleted |-> FALSE, revision |-> 0, failures |-> 0,
                   lastJob |-> NoJob, lastStatus |-> "absent", lastDone |-> FALSE]
    /\ lately = {} /\ failing = NoRevision
    /\ counted = [j \in Jobs |-> 0] /\ defined = 0

-----------------------------------------------------------------------------
(***************************************************************************)
(* The worker.                                                             *)
(***************************************************************************)
Live == schedule.enabled /\ ~schedule.deleted

(***************************************************************************)
(* process_due_schedule: one transaction creates the jobs S, the last of   *)
(* which the summary names, and advances next_run_at.  A job with no       *)
(* target to dispatch to is created finished, without terminal events.     *)
(***************************************************************************)
Materialize(S, last, skipped) ==
    /\ Live
    /\ S # {} /\ Cardinality(S) <= CatchUpLimit /\ \A j \in S : status[j] = "absent"
    /\ status' = [j \in Jobs |-> IF j \in skipped THEN "skipped"
                                 ELSE IF j \in S THEN "queued" ELSE status[j]]
    /\ schedule' = [schedule EXCEPT !.lastJob = last, !.lastStatus = status'[last],
                                    !.lastDone = last \in skipped]
    /\ lately' = IF last \in skipped THEN skipped ELSE {}
    /\ UNCHANGED <<eventVars, failing, counted, defined>>

\* The transaction is rolled back.
MaterializeFails ==
    /\ Live /\ failing = NoRevision
    /\ failing' = schedule.revision
    /\ UNCHANGED <<eventVars, status, schedule, lately, counted, defined>>

\* The actor lost its authority, or the operation or the cadence is invalid.
Disable ==
    /\ Live
    /\ schedule' = [schedule EXCEPT !.enabled = FALSE]
    /\ UNCHANGED <<eventVars, status, lately, failing, counted, defined>>

\* Mutant: the counter is not saturated.
OneMore_Unbounded(s) ==
    [s EXCEPT !.failures = s.failures + 1,
              !.enabled = s.enabled /\ ~(MaxFailures >= 0 /\ s.failures + 1 > MaxFailures)]

\* One more failure: saturated, and compared with max_failures.
OneMore(s) ==
    [s EXCEPT !.failures = IF s.failures < MaxCount THEN s.failures + 1 ELSE MaxCount,
              !.enabled = s.enabled /\ ~(MaxFailures >= 0 /\ s.failures + 1 > MaxFailures)]

\* Mutant: the failure is recorded whatever the definition is by now.
Recordable_AnyRevision == Live

\* The WHERE clause of record_schedule_failure.
Recordable == Live /\ schedule.revision = failing

RecordFailure ==
    /\ failing # NoRevision
    /\ schedule' = IF Recordable THEN OneMore(schedule) ELSE schedule
    /\ failing' = NoRevision
    /\ UNCHANGED <<eventVars, status, lately, counted, defined>>

\* The worker stops before it records the failure.
WorkerCrash ==
    /\ failing # NoRevision
    /\ failing' = NoRevision
    /\ UNCHANGED <<eventVars, status, schedule, lately, counted, defined>>

-----------------------------------------------------------------------------
(***************************************************************************)
(* Operators.  A request names the revision it has seen and is refused     *)
(* when that is not the current one.                                       *)
(***************************************************************************)
Edit(s, definition) ==
    /\ ~schedule.deleted /\ schedule.revision < MaxRevision
    /\ schedule' = [s EXCEPT !.revision = schedule.revision + 1]
    /\ defined' = IF definition THEN schedule.revision + 1 ELSE defined
    /\ UNCHANGED <<eventVars, status, lately, failing, counted>>

\* A new definition resets the failure count.
Update(b) == Edit([schedule EXCEPT !.enabled = b, !.failures = 0], TRUE)

SetEnabled(b) == Edit([schedule EXCEPT !.enabled = b], FALSE)

\* deferred_until decides only when the schedule is due.
Defer == Edit(schedule, FALSE)

Delete == Edit([schedule EXCEPT !.enabled = FALSE, !.deleted = TRUE], FALSE)

-----------------------------------------------------------------------------
(***************************************************************************)
(* The jobs.                                                               *)
(***************************************************************************)

\* A target of a queued job ends; the last one settles the job's status.
\* The order of these steps stands for that of completed_at, which is now() of the
\* transaction: its beginning, not its commit.
EndTarget(t, outcome) ==
    /\ status[JobOf[t]] = "queued"
    /\ TargetEnds(t)
    /\ IF TargetsOf(JobOf[t]) \subseteq ended'
       THEN /\ status' = [status EXCEPT ![JobOf[t]] = outcome]
            /\ lately' = IF schedule.lastDone THEN lately \cup {JobOf[t]} ELSE {}
       ELSE UNCHANGED <<status, lately>>
    /\ UNCHANGED <<schedule, failing, counted, defined>>

\* Mutant: a summary without a completion time compares as NULL.
Applicable_NullIsOlder(j) ==
    \/ schedule.lastJob = NoJob
    \/ schedule.lastDone /\ j \in lately

(***************************************************************************)
(* The WHERE clause of record_schedule_job_outcome.                        *)
(***************************************************************************)
Applicable(j) ==
    \/ schedule.lastJob = NoJob
    \/ schedule.lastJob = j
    \/ ~schedule.lastDone
    \/ j \in lately

\* last_job_id = $2 AND last_job_status = $3.
Repeated(j) == schedule.lastJob = j /\ schedule.lastStatus = status[j]

(***************************************************************************)
(* The summary names j, completed now.  A failure is counted unless the    *)
(* summary already tells it, a success resets the count.                   *)
(***************************************************************************)
Summary(j) ==
    LET counts == status[j] = "failed" /\ ~Repeated(j)
        s == IF counts THEN OneMore(schedule)
             ELSE IF status[j] = "completed" THEN [schedule EXCEPT !.failures = 0]
             ELSE schedule
    IN  [s EXCEPT !.lastJob = j, !.lastStatus = status[j], !.lastDone = TRUE]

RecordOutcome(j) ==
    /\ schedule' = IF Applicable(j) THEN Summary(j) ELSE schedule
    /\ lately' = IF Applicable(j) THEN {} ELSE lately
    /\ counted' = IF Applicable(j) /\ status[j] = "failed" /\ ~Repeated(j) /\ counted[j] < MaxCount
                  THEN [counted EXCEPT ![j] = @ + 1] ELSE counted
    /\ UNCHANGED <<failing, defined>>

\* The side effects of an event; those of a job's include the schedule.
RunEffects(w) ==
    /\ Apply(w)
    /\ IF work[w].item.kind = "job"
       THEN RecordOutcome(work[w].item.of)
       ELSE UNCHANGED scheduleVars
    /\ UNCHANGED status

Next ==
    \/ \E S \in SUBSET Jobs : \E last \in S : \E skipped \in SUBSET S :
         Materialize(S, last, skipped)
    \/ MaterializeFails \/ RecordFailure \/ WorkerCrash \/ Disable
    \/ \E b \in BOOLEAN : Update(b) \/ SetEnabled(b)
    \/ Defer \/ Delete
    \/ \E t \in Targets, o \in Outcomes : EndTarget(t, o)
    \/ \E w \in Owners : RunEffects(w)
    \/ Housekeeping /\ UNCHANGED <<status, scheduleVars>>

Spec == Init /\ [][Next]_vars

-----------------------------------------------------------------------------
\* The types of the rows; the failure counter (failure_count) never overflows.
TypeOK ==
    /\ EventsTypeOK
    /\ status \in [Jobs -> {"absent", "queued", "skipped"} \cup Outcomes]
    /\ schedule \in [enabled : BOOLEAN, deleted : BOOLEAN, revision : 0 .. MaxRevision,
                     failures : 0 .. MaxCount, lastJob : Jobs \cup {NoJob},
                     lastStatus : {"absent", "queued", "skipped"} \cup Outcomes,
                     lastDone : BOOLEAN]
    /\ lately \subseteq Jobs
    /\ failing \in 0 .. MaxRevision \cup {NoRevision}
    /\ counted \in [Jobs -> 0 .. MaxCount]
    /\ defined \in 0 .. MaxRevision

(***************************************************************************)
(* record_schedule_job_outcome and materialize_due_schedule: the summary   *)
(* ends up telling the truth.  When the job it names is over and its event *)
(* is settled, it shows that job's own final status and a completion time, *)
(* however outcomes were repeated, delayed or overtaken by newer jobs.     *)
(***************************************************************************)
SummarySettles ==
    \A j \in Jobs :
        /\ schedule.lastJob = j
        /\ status[j] = "skipped" \/ row[JobEvent(j)].state = "done"
        => schedule.lastStatus = status[j] /\ schedule.lastDone

(***************************************************************************)
(* record_schedule_failure: a new definition starts with a clean count.  A *)
(* materialization that failed under an earlier definition is not held     *)
(* against it, though the failure is recorded in a later transaction.      *)
(***************************************************************************)
NoBlameFromOldDefinitions ==
    [][failing # NoRevision /\ failing < defined /\ failing' = NoRevision
         => schedule'.failures = schedule.failures /\ schedule'.enabled = schedule.enabled]_vars

(***************************************************************************)
(* docs/job-status-model.md: "Later refresh/replay paths may repair        *)
(* deterministic domain state ... without double-incrementing schedule     *)
(* failure counters": a job's failure is counted at most once.             *)
(***************************************************************************)
FailureCountedOnce == \A j \in Jobs : counted[j] <= 1
==============================================================================
