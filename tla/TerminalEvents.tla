---------------------------- MODULE TerminalEvents ----------------------------
(***************************************************************************)
(* The outbox of finished targets and jobs.  The transaction that ends a   *)
(* target inserts its event, the one that ends the last target of a job    *)
(* also the job's.  Consumers of any API process lease one row at a time,  *)
(* run its side effects and then settle the row, with a compare-and-set on *)
(* the lease; a settled target event leaves an enrichment row behind,      *)
(* which is leased, run and deleted in the same manner, and the event of   *)
(* the job waits for all of them.                                          *)
(*                                                                         *)
(* A consumer crashes, is overtaken when its lease runs out, or fails in   *)
(* the middle of its effects: they run at least once.                      *)
(***************************************************************************)
EXTENDS Integers

CONSTANTS
    Jobs,
    Targets,   \* the job_targets rows
    JobOf,     \* the job of a target
    Owners,    \* claims under way at a time, in all API processes; the name
               \* of one stands for its lease_id, fresh for every claim
    NoOwner

ASSUME EventsAssumption == JobOf \in [Targets -> Jobs] /\ NoOwner \notin Owners

VARIABLES
    ended,    \* the targets in a terminal status
    row,      \* the rows of job_terminal_events and job_terminal_enrichment_work
    work,     \* what each owner is at
    applied   \* history: the items whose side effects have run

eventVars == <<ended, row, work, applied>>

TargetEvent(t) == [kind |-> "target", of |-> t]
Enrichment(t)  == [kind |-> "enrichment", of |-> t]
JobEvent(j)    == [kind |-> "job", of |-> j]

Items ==
    [kind : {"target", "enrichment"}, of : Targets] \cup [kind : {"job"}, of : Jobs]

TargetsOf(j) == {t \in Targets : JobOf[t] = j}

(***************************************************************************)
(* A row is absent, waiting (queued or failed, for an attempt), leased, or *)
(* done (processed, or deleted).  Times are not kept: the next attempt of  *)
(* a waiting row may be due, and the lease of a row may have run out, at   *)
(* any moment.                                                             *)
(***************************************************************************)
States == {"absent", "waiting", "leased", "done"}

Unowned(s) == [state |-> s, owner |-> NoOwner]

Idle == [item |-> [kind |-> "none"], stage |-> "idle"]

EventsInit ==
    /\ ended = {}
    /\ row = [i \in Items |-> Unowned("absent")]
    /\ work = [w \in Owners |-> Idle]
    /\ applied = {}

-----------------------------------------------------------------------------
\* A target ends; with the last one of its job, the job ends.
TargetEnds(t) ==
    /\ t \notin ended
    /\ ended' = ended \cup {t}
    /\ row' = [i \in Items |->
                 IF \/ i = TargetEvent(t)
                    \/ i = JobEvent(JobOf[t]) /\ TargetsOf(JobOf[t]) \subseteq ended'
                 THEN Unowned("waiting") ELSE row[i]]
    /\ UNCHANGED <<work, applied>>

\* Mutant: enrichments under way do not hold the job's event back.
Claimable_Enriching(i) ==
    /\ row[i].state \in {"waiting", "leased"}
    /\ i.kind = "job" =>
         \A t \in TargetsOf(i.of) : row[TargetEvent(t)].state \in {"absent", "done"}

(***************************************************************************)
(* The WHERE clauses of the two claims: due, or leased until a time that   *)
(* has passed; a job's event only when no target event of the job is       *)
(* unprocessed and no enrichment row of it is left.                        *)
(***************************************************************************)
Claimable(i) ==
    /\ row[i].state \in {"waiting", "leased"}
    /\ i.kind = "job" =>
         \A t \in TargetsOf(i.of) : /\ row[TargetEvent(t)].state \in {"absent", "done"}
                                    /\ row[Enrichment(t)].state \in {"absent", "done"}

Claim(w, i) ==
    /\ work[w] = Idle
    /\ Claimable(i)
    /\ row' = [row EXCEPT ![i] = [state |-> "leased", owner |-> w]]
    /\ work' = [work EXCEPT ![w] = [item |-> i, stage |-> "claimed"]]
    /\ UNCHANGED <<ended, applied>>

\* The owner's side effects have run.
Apply(w) ==
    /\ work[w].stage = "claimed"
    /\ work' = [work EXCEPT ![w].stage = "applied"]
    /\ applied' = applied \cup {work[w].item}
    /\ UNCHANGED <<ended, row>>

\* lease_id is still the owner's: nobody has claimed the row since.
Owns(w) == work[w] # Idle /\ row[work[w].item].owner = w

(***************************************************************************)
(* Processed or acknowledged if the lease is still held, dropped if not.   *)
(* The event of a target and its enrichment row change in one transaction. *)
(***************************************************************************)
Complete(w) ==
    /\ work[w].stage = "applied"
    /\ row' = [i \in Items |->
                 IF ~Owns(w) THEN row[i]
                 ELSE IF i = work[w].item THEN Unowned("done")
                 ELSE IF work[w].item.kind = "target" /\ i = Enrichment(work[w].item.of)
                 THEN Unowned("waiting") ELSE row[i]]
    /\ work' = [work EXCEPT ![w] = Idle]
    /\ UNCHANGED <<ended, applied>>

\* Mutant: a retry is scheduled whoever holds the row.
Fail_Unchecked(w) ==
    /\ work[w] # Idle
    /\ row' = [row EXCEPT ![work[w].item] = Unowned("waiting")]
    /\ work' = [work EXCEPT ![w] = Idle]
    /\ UNCHANGED <<ended, applied>>

(***************************************************************************)
(* An effect failed, before or after others ran: a later attempt is due,   *)
(* if the lease is still held.                                             *)
(***************************************************************************)
Fail(w) ==
    /\ work[w] # Idle
    /\ row' = [i \in Items |->
                 IF Owns(w) /\ i = work[w].item THEN Unowned("waiting") ELSE row[i]]
    /\ work' = [work EXCEPT ![w] = Idle]
    /\ UNCHANGED <<ended, applied>>

\* The process stops, or the database cannot be reached to settle the row:
\* the row stays leased, under a lease_id that is lost.
Abandon(w) ==
    /\ work[w] # Idle
    /\ row' = [i \in Items |->
                 IF Owns(w) /\ i = work[w].item THEN [row[i] EXCEPT !.owner = NoOwner]
                 ELSE row[i]]
    /\ work' = [work EXCEPT ![w] = Idle]
    /\ UNCHANGED <<ended, applied>>

\* The steps that leave other components alone.
Housekeeping ==
    \E w \in Owners : \/ \E i \in Items : Claim(w, i)
                      \/ Complete(w) \/ Fail(w) \/ Abandon(w)

EventsNext ==
    \/ \E t \in Targets : TargetEnds(t)
    \/ \E w \in Owners : Apply(w)
    \/ Housekeeping

EventsSpec == EventsInit /\ [][EventsNext]_eventVars

-----------------------------------------------------------------------------
\* The types of the outbox rows and of the work in hand.
EventsTypeOK ==
    /\ ended \subseteq Targets
    /\ row \in [Items -> [state : States, owner : Owners \cup {NoOwner}]]
    /\ work \in [Owners -> {Idle} \cup [item : Items, stage : {"claimed", "applied"}]]
    /\ applied \subseteq Items

(***************************************************************************)
(* process_pending_job_terminal_events: what a finished job sets off runs  *)
(* after everything its targets set off.  Once a side effect of the job's  *)
(* event has run, the event and the enrichment of every target have run    *)
(* and are settled, whatever crashed, failed or was overtaken meanwhile.   *)
(***************************************************************************)
JobEventLast ==
    \A j \in Jobs : JobEvent(j) \in applied =>
        \A t \in TargetsOf(j) : \A i \in {TargetEvent(t), Enrichment(t)} :
            i \in applied /\ row[i].state = "done"

(***************************************************************************)
(* mark_job_terminal_event_failed, complete_..._repository_stage and the   *)
(* acknowledgement compare the lease: a row once settled is never revived, *)
(* by a consumer that was overtaken or by a late failure.                  *)
(***************************************************************************)
SettledStays ==
    [][\A i \in Items : row[i].state = "done" => row'[i].state = "done"]_eventVars
=============================================================================
