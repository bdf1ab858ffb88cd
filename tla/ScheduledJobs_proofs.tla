-------------------------- MODULE ScheduledJobs_proofs --------------------------
(***************************************************************************)
(* Proofs about the outbox and the schedules that its events update, for   *)
(* every number of jobs, targets and concurrent consumers.                 *)
(***************************************************************************)
EXTENDS ScheduledJobs, TLAPS

(***************************************************************************)
(* The inductive invariant of the outbox.                                  *)
(***************************************************************************)

\* A lease id in a row is that of a claim under way.
LeaseHeld == \A i \in Items : row[i].owner # NoOwner => row[i].state = "leased"

\* What is settled has run; so has what an owner is about to settle.
SettledRan ==
    /\ \A i \in Items : row[i].state = "done" => i \in applied
    /\ \A w \in Owners : work[w].stage = "applied" => work[w].item \in applied

\* A target has an event once it has ended, a job once its targets have.
EventsInserted ==
    /\ \A t \in Targets : row[TargetEvent(t)].state # "absent" <=> t \in ended
    /\ \A j \in Jobs : row[JobEvent(j)].state # "absent" => TargetsOf(j) \subseteq ended

\* A target has an enrichment row once its event is settled.
EnrichmentFollows ==
    \A t \in Targets :
        row[Enrichment(t)].state # "absent" <=> row[TargetEvent(t)].state = "done"

TargetsSettled(j) ==
    \A t \in TargetsOf(j) :
        row[TargetEvent(t)].state = "done" /\ row[Enrichment(t)].state = "done"

\* Whoever has a job's event in hand, or had it, found its targets settled.
JobAfterTargets ==
    /\ \A j \in Jobs : JobEvent(j) \in applied => TargetsSettled(j)
    /\ \A w \in Owners, j \in Jobs : work[w].item = JobEvent(j) => TargetsSettled(j)

OutboxInv ==
    /\ EventsTypeOK
    /\ LeaseHeld /\ SettledRan /\ EventsInserted /\ EnrichmentFollows /\ JobAfterTargets

SettledKept == \A i \in Items : row[i].state = "done" => row'[i].state = "done"

-----------------------------------------------------------------------------
LEMMA ItemsTyped ==
    /\ \A t \in Targets : TargetEvent(t) \in Items /\ Enrichment(t) \in Items
    /\ \A j \in Jobs : JobEvent(j) \in Items
    /\ \A i \in Items : i # [kind |-> "none"]
    /\ \A i \in Items : i.kind = "target" => i.of \in Targets /\ i = TargetEvent(i.of)
    /\ \A i \in Items : i.kind = "enrichment" => i.of \in Targets /\ i = Enrichment(i.of)
    /\ \A i \in Items : i.kind = "job" => i.of \in Jobs /\ i = JobEvent(i.of)
    /\ \A i \in Items : i.kind \in {"target", "enrichment", "job"}
  BY DEF Items, TargetEvent, Enrichment, JobEvent

LEMMA ItemsDistinct ==
    /\ \A s, t : TargetEvent(s) = TargetEvent(t) => s = t
    /\ \A s, t : Enrichment(s) = Enrichment(t) => s = t
    /\ \A s, t : JobEvent(s) = JobEvent(t) => s = t
    /\ \A s, t : TargetEvent(s) # Enrichment(t) /\ TargetEvent(s) # JobEvent(t)
                 /\ Enrichment(s) # JobEvent(t)
    /\ \A s : TargetEvent(s).kind = "target" /\ TargetEvent(s).of = s
    /\ \A s : Enrichment(s).kind = "enrichment" /\ Enrichment(s).of = s
    /\ \A s : JobEvent(s).kind = "job" /\ JobEvent(s).of = s
  BY DEF TargetEvent, Enrichment, JobEvent

\* An owner that is not idle holds an item.
LEMMA HoldsItem ==
  ASSUME EventsTypeOK, NEW w \in Owners, work[w] # Idle
  PROVE  /\ work[w].item \in Items
         /\ work[w].stage \in {"claimed", "applied"}
  BY DEF EventsTypeOK

LEMMA StageMeansHolding ==
  ASSUME EventsTypeOK, NEW w \in Owners, work[w].stage \in {"claimed", "applied"}
  PROVE  work[w] # Idle
  BY DEF Idle

LEMMA OutboxInit == EventsInit => OutboxInv
  <1> SUFFICES ASSUME EventsInit PROVE OutboxInv
    OBVIOUS
  <1>1. EventsTypeOK
    BY DEF EventsInit, EventsTypeOK, Unowned, States
  <1>2. LeaseHeld /\ SettledRan
    BY EventsAssumption DEF EventsInit, LeaseHeld, SettledRan, Unowned, Idle
  <1>3. EventsInserted /\ EnrichmentFollows
    BY ItemsTyped DEF EventsInit, EventsInserted, EnrichmentFollows, Unowned
  <1>4. JobAfterTargets
    BY ItemsTyped DEF EventsInit, JobAfterTargets, Idle
  <1> QED
    BY <1>1, <1>2, <1>3, <1>4 DEF OutboxInv

\* What is settled stays so: the facts about settled targets survive.
LEMMA SettledTargetsStay ==
  ASSUME SettledKept, NEW j \in Jobs, TargetsSettled(j)
  PROVE  TargetsSettled(j)'
  <1> SUFFICES ASSUME NEW t \in TargetsOf(j)
               PROVE  row'[TargetEvent(t)].state = "done" /\ row'[Enrichment(t)].state = "done"
    BY DEF TargetsSettled, TargetsOf
  <1>1. t \in Targets
    BY DEF TargetsOf
  <1>2. row[TargetEvent(t)].state = "done" /\ row[Enrichment(t)].state = "done"
    BY DEF TargetsSettled
  <1>3. TargetEvent(t) \in Items /\ Enrichment(t) \in Items
    BY <1>1, ItemsTyped
  <1> QED
    BY <1>2, <1>3 DEF SettledKept

LEMMA TargetEndsKeeps ==
  ASSUME OutboxInv, NEW t \in Targets, TargetEnds(t)
  PROVE  OutboxInv' /\ SettledKept
  <1> USE DEF OutboxInv
  <1> DEFINE j == JobOf[t]
  <1>0. j \in Jobs /\ t \in TargetsOf(j)
    BY EventsAssumption DEF TargetsOf
  <1>1. row[TargetEvent(t)].state = "absent" /\ row[JobEvent(j)].state = "absent"
    BY <1>0 DEF TargetEnds, EventsInserted
  <1>2. \A i \in Items : \/ row'[i] = row[i]
                         \/ row[i].state = "absent" /\ row'[i] = Unowned("waiting")
    BY <1>1 DEF TargetEnds
  <1>3. EventsTypeOK'
    BY <1>2 DEF TargetEnds, EventsTypeOK, Unowned, States
  <1>4. SettledKept
    BY <1>2 DEF SettledKept
  <1>5. LeaseHeld'
    BY <1>2, EventsAssumption DEF LeaseHeld, Unowned
  <1>6. SettledRan'
    BY <1>2 DEF SettledRan, Unowned, TargetEnds
  <1>7. EventsInserted'
    <2>1. ASSUME NEW u \in Targets
          PROVE  row'[TargetEvent(u)].state # "absent" <=> u \in ended'
      <3>1. u = t => row'[TargetEvent(u)] = Unowned("waiting") /\ u \in ended'
        BY ItemsTyped DEF TargetEnds
      <3>2. u # t => row'[TargetEvent(u)] = row[TargetEvent(u)] /\ (u \in ended' <=> u \in ended)
        BY ItemsTyped, ItemsDistinct DEF TargetEnds
      <3> QED
        BY <3>1, <3>2 DEF EventsInserted, Unowned
    <2>2. ASSUME NEW k \in Jobs, row'[JobEvent(k)].state # "absent"
          PROVE  TargetsOf(k) \subseteq ended'
      <3>1. CASE k = j /\ TargetsOf(j) \subseteq ended'
        BY <3>1
      <3>2. CASE ~(k = j /\ TargetsOf(j) \subseteq ended')
        <4>1. row'[JobEvent(k)] = row[JobEvent(k)]
          BY <3>2, ItemsTyped, ItemsDistinct DEF TargetEnds
        <4> QED
          BY <4>1, <2>2 DEF EventsInserted, TargetEnds
      <3> QED
        BY <3>1, <3>2
    <2> QED
      BY <2>1, <2>2 DEF EventsInserted
  <1>8. EnrichmentFollows'
    <2> SUFFICES ASSUME NEW u \in Targets
                 PROVE  row'[Enrichment(u)].state # "absent" <=> row'[TargetEvent(u)].state = "done"
      BY DEF EnrichmentFollows
    <2>1. row'[Enrichment(u)] = row[Enrichment(u)]
      BY ItemsTyped, ItemsDistinct DEF TargetEnds
    <2>2. row'[TargetEvent(u)].state = "done" <=> row[TargetEvent(u)].state = "done"
      BY <1>2, ItemsTyped DEF Unowned
    <2> QED
      BY <2>1, <2>2 DEF EnrichmentFollows
  <1>9. JobAfterTargets'
    <2>1. UNCHANGED <<work, applied>>
      BY DEF TargetEnds
    <2> QED
      BY <2>1, <1>4, SettledTargetsStay DEF JobAfterTargets
  <1> QED
    BY <1>3, <1>4, <1>5, <1>6, <1>7, <1>8, <1>9

\* A claim of a job's event finds its targets settled.
LEMMA ClaimFindsSettled ==
  ASSUME OutboxInv, NEW j \in Jobs, Claimable(JobEvent(j))
  PROVE  TargetsSettled(j)
  <1> SUFFICES ASSUME NEW t \in TargetsOf(j)
               PROVE  row[TargetEvent(t)].state = "done" /\ row[Enrichment(t)].state = "done"
    BY DEF TargetsSettled
  <1>1. t \in Targets
    BY DEF TargetsOf
  <1>2. row[JobEvent(j)].state # "absent"
    BY DEF Claimable
  <1>3. row[TargetEvent(t)].state # "absent"
    BY <1>1, <1>2 DEF OutboxInv, EventsInserted
  <1>4. /\ row[TargetEvent(t)].state \in {"absent", "done"}
        /\ row[Enrichment(t)].state \in {"absent", "done"}
    BY ItemsDistinct DEF Claimable
  <1> QED
    BY <1>1, <1>3, <1>4 DEF OutboxInv, EnrichmentFollows

LEMMA ClaimKeeps ==
  ASSUME OutboxInv, NEW w \in Owners, NEW i \in Items, Claim(w, i)
  PROVE  OutboxInv' /\ SettledKept
  <1> USE DEF OutboxInv
  <1>1. row[i].state \in {"waiting", "leased"}
    BY DEF Claim, Claimable
  <1>2. /\ row' = [row EXCEPT ![i] = [state |-> "leased", owner |-> w]]
        /\ work' = [work EXCEPT ![w] = [item |-> i, stage |-> "claimed"]]
        /\ UNCHANGED <<ended, applied>>
    BY DEF Claim
  <1>3. \A k \in Items : \/ row'[k] = row[k]
                         \/ /\ row[k].state \in {"waiting", "leased"}
                            /\ row'[k] = [state |-> "leased", owner |-> w]
    BY <1>1, <1>2 DEF EventsTypeOK
  <1>4. EventsTypeOK'
    BY <1>2 DEF EventsTypeOK, States
  <1>5. SettledKept
    BY <1>3 DEF SettledKept
  <1>6. LeaseHeld'
    BY <1>3 DEF LeaseHeld
  <1>7. SettledRan'
    BY <1>2, <1>3 DEF SettledRan, EventsTypeOK
  <1>8. EventsInserted' /\ EnrichmentFollows'
    BY <1>2, <1>3, ItemsTyped DEF EventsInserted, EnrichmentFollows
  <1>9. JobAfterTargets'
    <2>1. ASSUME NEW k \in Jobs, JobEvent(k) \in applied' PROVE TargetsSettled(k)'
      BY <2>1, <1>2, <1>5, SettledTargetsStay DEF JobAfterTargets
    <2>2. ASSUME NEW v \in Owners, NEW k \in Jobs, work'[v].item = JobEvent(k)
          PROVE  TargetsSettled(k)'
      <3>1. CASE v # w
        <4>1. work'[v] = work[v]
          BY <1>2, <3>1 DEF EventsTypeOK
        <4> QED
          BY <4>1, <2>2, <1>5, SettledTargetsStay DEF JobAfterTargets
      <3>2. CASE v = w
        <4>1. i = JobEvent(k)
          BY <1>2, <2>2, <3>2 DEF EventsTypeOK
        <4>2. TargetsSettled(k)
          BY <4>1, ClaimFindsSettled DEF Claim
        <4> QED
          BY <4>2, <1>5, SettledTargetsStay
      <3> QED
        BY <3>1, <3>2
    <2> QED
      BY <2>1, <2>2 DEF JobAfterTargets
  <1> QED
    BY <1>4, <1>5, <1>6, <1>7, <1>8, <1>9

LEMMA ApplyKeeps ==
  ASSUME OutboxInv, NEW w \in Owners, Apply(w)
  PROVE  OutboxInv' /\ SettledKept
  <1> USE DEF OutboxInv
  <1>1. work[w] # Idle /\ work[w].item \in Items
    BY HoldsItem, StageMeansHolding DEF Apply
  <1>2. /\ work' = [work EXCEPT ![w].stage = "applied"]
        /\ applied' = applied \cup {work[w].item}
        /\ UNCHANGED <<ended, row>>
    BY DEF Apply
  <1>3. \A v \in Owners : work'[v].item = work[v].item
    BY <1>2 DEF EventsTypeOK, Idle
  <1>4. EventsTypeOK'
    <2>1. work[w] \in [item : Items, stage : {"claimed", "applied"}]
      BY <1>1 DEF EventsTypeOK
    <2>2. work'[w] \in [item : Items, stage : {"claimed", "applied"}]
      BY <1>2, <2>1 DEF EventsTypeOK
    <2> QED
      BY <1>1, <1>2, <2>2 DEF EventsTypeOK
  <1>5. SettledKept /\ LeaseHeld' /\ EventsInserted' /\ EnrichmentFollows'
    BY <1>2 DEF SettledKept, LeaseHeld, EventsInserted, EnrichmentFollows
  <1>6. SettledRan'
    BY <1>1, <1>2, <1>3 DEF SettledRan, EventsTypeOK
  <1>7. JobAfterTargets'
    <2>1. ASSUME NEW j \in Jobs, JobEvent(j) \in applied' PROVE TargetsSettled(j)
      BY <2>1, <1>2 DEF JobAfterTargets
    <2>2. ASSUME NEW v \in Owners, NEW j \in Jobs, work'[v].item = JobEvent(j)
          PROVE  TargetsSettled(j)
      BY <2>2, <1>3 DEF JobAfterTargets
    <2> QED
      BY <2>1, <2>2, <1>5, SettledTargetsStay DEF JobAfterTargets
  <1> QED
    BY <1>4, <1>5, <1>6, <1>7

\* What an owner leaves behind when it puts its item down: nothing in hand.
LEMMA PutDown ==
  ASSUME OutboxInv, NEW w \in Owners, work' = [work EXCEPT ![w] = Idle],
         UNCHANGED applied, SettledKept
  PROVE  /\ work' \in [Owners -> {Idle} \cup [item : Items, stage : {"claimed", "applied"}]]
         /\ \A v \in Owners : work'[v].stage = "applied" => work'[v].item \in applied'
         /\ JobAfterTargets'
  <1> USE DEF OutboxInv
  <1>1. \A v \in Owners : work'[v] = IF v = w THEN Idle ELSE work[v]
    BY DEF EventsTypeOK
  <1>2. work' \in [Owners -> {Idle} \cup [item : Items, stage : {"claimed", "applied"}]]
    BY DEF EventsTypeOK
  <1>3. \A v \in Owners : work'[v].stage = "applied" => work'[v].item \in applied'
    BY <1>1 DEF SettledRan, Idle
  <1>4. ASSUME NEW j \in Jobs, JobEvent(j) \in applied' PROVE TargetsSettled(j)'
    BY <1>4, SettledTargetsStay DEF JobAfterTargets
  <1>5. ASSUME NEW v \in Owners, NEW j \in Jobs, work'[v].item = JobEvent(j)
        PROVE  TargetsSettled(j)'
    <2>1. work'[v].item = work[v].item
      BY <1>1, <1>5, ItemsTyped DEF Idle
    <2> QED
      BY <2>1, <1>5, SettledTargetsStay DEF JobAfterTargets
  <1> QED
    BY <1>2, <1>3, <1>4, <1>5 DEF JobAfterTargets

LEMMA CompleteKeeps ==
  ASSUME OutboxInv, NEW w \in Owners, Complete(w)
  PROVE  OutboxInv' /\ SettledKept
  <1> USE DEF OutboxInv
  <1> DEFINE i == work[w].item
  <1>1. work[w] # Idle /\ i \in Items /\ i \in applied
    BY HoldsItem, StageMeansHolding DEF Complete, SettledRan
  <1>2. work' = [work EXCEPT ![w] = Idle] /\ UNCHANGED <<ended, applied>>
    BY DEF Complete
  <1>3. CASE ~Owns(w)
    <2>1. \A k \in Items : row'[k] = row[k]
      BY <1>3 DEF Complete
    <2>2. SettledKept
      BY <2>1 DEF SettledKept
    <2>3. row' \in [Items -> [state : States, owner : Owners \cup {NoOwner}]]
      BY <1>3 DEF Complete, EventsTypeOK
    <2>4. EventsInserted' /\ EnrichmentFollows' /\ LeaseHeld'
      BY <1>2, <2>1, ItemsTyped DEF EventsInserted, EnrichmentFollows, LeaseHeld
    <2> QED
      BY <1>2, <2>1, <2>2, <2>3, <2>4, PutDown DEF EventsTypeOK, SettledRan
  <1>4. CASE Owns(w)
    <2>1. row[i].state = "leased"
      BY <1>1, <1>4, EventsAssumption DEF Owns, LeaseHeld
    <2>2. row'[i] = Unowned("done")
      BY <1>1, <1>4 DEF Complete
    <2>3. ASSUME i.kind # "target"
          PROVE  \A k \in Items : k # i => row'[k] = row[k]
      BY <1>4, <2>3 DEF Complete
    <2>4. ASSUME i.kind = "target"
          PROVE  /\ i.of \in Targets /\ i = TargetEvent(i.of)
                 /\ row[Enrichment(i.of)].state = "absent"
                 /\ row'[Enrichment(i.of)] = Unowned("waiting")
                 /\ \A k \in Items : k # i /\ k # Enrichment(i.of) => row'[k] = row[k]
      <3>1. i.of \in Targets /\ i = TargetEvent(i.of)
        BY <1>1, <2>4, ItemsTyped
      <3>2. row[Enrichment(i.of)].state = "absent"
        BY <3>1, <2>1 DEF EnrichmentFollows
      <3>3. Enrichment(i.of) # i
        BY <3>1, ItemsDistinct
      <3> QED
        BY <1>4, <2>4, <3>1, <3>2, <3>3, ItemsTyped DEF Complete
    <2>5. \A k \in Items : \/ row'[k] = row[k]
                           \/ k = i /\ row'[k] = Unowned("done")
                           \/ /\ i.kind = "target" /\ k = Enrichment(i.of)
                              /\ row'[k] = Unowned("waiting") /\ row[k].state = "absent"
      BY <2>2, <2>3, <2>4
    <2>6. SettledKept
      BY <2>5 DEF SettledKept, Unowned
    <2>7. row' \in [Items -> [state : States, owner : Owners \cup {NoOwner}]]
      BY <1>4 DEF Complete, EventsTypeOK, Unowned, States
    <2>8. LeaseHeld'
      BY <2>5 DEF LeaseHeld, Unowned
    <2>9. \A k \in Items : row'[k].state = "done" => k \in applied'
      BY <1>1, <1>2, <2>5 DEF SettledRan, Unowned
    <2>10. EventsInserted'
      <3>1. ASSUME NEW t \in Targets
            PROVE  row'[TargetEvent(t)].state # "absent" <=> row[TargetEvent(t)].state # "absent"
        BY <2>1, <2>5, ItemsTyped, ItemsDistinct DEF Unowned
      <3>2. ASSUME NEW j \in Jobs
            PROVE  row'[JobEvent(j)].state # "absent" <=> row[JobEvent(j)].state # "absent"
        BY <2>1, <2>5, ItemsTyped, ItemsDistinct DEF Unowned
      <3> QED
        BY <1>2, <3>1, <3>2 DEF EventsInserted
    <2>11. EnrichmentFollows'
      <3> SUFFICES ASSUME NEW t \in Targets
                   PROVE  row'[Enrichment(t)].state # "absent" <=> row'[TargetEvent(t)].state = "done"
        BY DEF EnrichmentFollows
      <3>1. CASE i = TargetEvent(t)
        <4>1. i.kind = "target" /\ i.of = t
          BY <3>1, ItemsDistinct
        <4> QED
          BY <2>2, <2>4, <3>1, <4>1 DEF Unowned
      <3>2. CASE i # TargetEvent(t)
        <4>1. row'[TargetEvent(t)] = row[TargetEvent(t)]
          BY <2>5, <3>2, ItemsTyped, ItemsDistinct
        <4>2. row'[Enrichment(t)].state # "absent" <=> row[Enrichment(t)].state # "absent"
          <5>1. CASE i = Enrichment(t)
            BY <2>1, <2>2, <5>1 DEF Unowned
          <5>2. CASE i # Enrichment(t)
            <6>1. ~(i.kind = "target" /\ Enrichment(t) = Enrichment(i.of))
              BY <1>1, <3>2, ItemsTyped, ItemsDistinct
            <6>2. row'[Enrichment(t)] = row[Enrichment(t)]
              BY <5>2, <6>1, <2>5, ItemsTyped
            <6> QED
              BY <6>2
          <5> QED
            BY <5>1, <5>2
        <4> QED
          BY <4>1, <4>2 DEF EnrichmentFollows
      <3> QED
        BY <3>1, <3>2
    <2> QED
      BY <1>2, <2>6, <2>7, <2>8, <2>9, <2>10, <2>11, PutDown DEF EventsTypeOK, SettledRan
  <1> QED
    BY <1>3, <1>4

\* A failed or abandoned item keeps waiting, or keeps its lease.
LEMMA GiveUpKeeps ==
  ASSUME OutboxInv, NEW w \in Owners, Fail(w) \/ Abandon(w)
  PROVE  OutboxInv' /\ SettledKept
  <1> USE DEF OutboxInv
  <1> DEFINE i == work[w].item
  <1>1. work[w] # Idle /\ i \in Items
    BY HoldsItem DEF Fail, Abandon
  <1>2. work' = [work EXCEPT ![w] = Idle] /\ UNCHANGED <<ended, applied>>
    BY DEF Fail, Abandon
  <1>3. Owns(w) => row[i].state = "leased"
    BY <1>1, EventsAssumption DEF Owns, LeaseHeld
  <1>4. \A k \in Items : \/ row'[k] = row[k]
                         \/ /\ row[k].state = "leased"
                            /\ row'[k].state \in {"waiting", "leased"}
                            /\ row'[k].owner = NoOwner
    BY <1>3 DEF Fail, Abandon, Unowned, EventsTypeOK
  <1>5. row' \in [Items -> [state : States, owner : Owners \cup {NoOwner}]]
    BY DEF Fail, Abandon, EventsTypeOK, Unowned, States
  <1>6. SettledKept
    BY <1>4 DEF SettledKept
  <1>7. LeaseHeld'
    BY <1>4 DEF LeaseHeld
  <1>8. \A k \in Items : row'[k].state = "done" => k \in applied'
    BY <1>2, <1>4 DEF SettledRan
  <1>9. EventsInserted' /\ EnrichmentFollows'
    BY <1>2, <1>4, ItemsTyped DEF EventsInserted, EnrichmentFollows
  <1> QED
    BY <1>2, <1>5, <1>6, <1>7, <1>8, <1>9, PutDown DEF EventsTypeOK, SettledRan

\* Every step of the outbox keeps its invariant and what is settled.
LEMMA OutboxStep ==
  ASSUME OutboxInv, [EventsNext]_eventVars
  PROVE  OutboxInv' /\ SettledKept
  <1>1. CASE UNCHANGED eventVars
    BY <1>1 DEF eventVars, OutboxInv, EventsTypeOK, LeaseHeld, SettledRan, EventsInserted,
                EnrichmentFollows, JobAfterTargets, TargetsSettled, SettledKept
  <1>2. CASE EventsNext
    BY <1>2, TargetEndsKeeps, ApplyKeeps, ClaimKeeps, CompleteKeeps, GiveUpKeeps
       DEF EventsNext, Housekeeping
  <1> QED
    BY <1>1, <1>2

-----------------------------------------------------------------------------
(***************************************************************************)
(* The schedule.                                                           *)
(***************************************************************************)

\* A job's event exists, is in hand or has run only when the job is over.
Reported ==
    \A j \in Jobs :
        \/ JobEvent(j) \in applied
        \/ row[JobEvent(j)].state # "absent"
        \/ \E w \in Owners : work[w].item = JobEvent(j)
        => status[j] \in Outcomes

\* The summary names a job whose outcome was written: it shows that outcome.
SummaryTrue ==
    \A j \in Jobs :
        schedule.lastJob = j /\ (status[j] = "skipped" \/ JobEvent(j) \in applied)
            => schedule.lastStatus = status[j] /\ schedule.lastDone

Inv ==
    /\ TypeOK /\ OutboxInv
    /\ Reported /\ SummaryTrue
    /\ defined <= schedule.revision

LEMMA InitInv == Init => Inv
  <1> SUFFICES ASSUME Init PROVE Inv
    OBVIOUS
  <1>1. OutboxInv
    BY OutboxInit DEF Init
  <1>2. TypeOK
    BY <1>1, ScheduleAssumption DEF Init, TypeOK, OutboxInv, NoRevision
  <1>3. Reported
    BY ItemsTyped DEF Init, EventsInit, Reported, Unowned, Idle
  <1>4. SummaryTrue
    BY ScheduleAssumption DEF Init, SummaryTrue
  <1>5. defined <= schedule.revision
    BY DEF Init
  <1> QED
    BY <1>1, <1>2, <1>3, <1>4, <1>5 DEF Inv

\* The record of a schedule, with the fields the actions change.
ScheduleType ==
    [enabled : BOOLEAN, deleted : BOOLEAN, revision : 0 .. MaxRevision,
     failures : 0 .. MaxCount, lastJob : Jobs \cup {NoJob},
     lastStatus : {"absent", "queued", "skipped"} \cup Outcomes, lastDone : BOOLEAN]

LEMMA OneMoreTyped ==
  ASSUME NEW s \in ScheduleType
  PROVE  /\ OneMore(s) \in ScheduleType
         /\ OneMore(s).lastJob = s.lastJob /\ OneMore(s).lastStatus = s.lastStatus
         /\ OneMore(s).lastDone = s.lastDone /\ OneMore(s).revision = s.revision
  <1> DEFINE f == IF s.failures < MaxCount THEN s.failures + 1 ELSE MaxCount
             e == s.enabled /\ ~(MaxFailures >= 0 /\ s.failures + 1 > MaxFailures)
  <1>1. f \in 0 .. MaxCount
    BY ScheduleAssumption DEF ScheduleType
  <1>2. e \in BOOLEAN
    OBVIOUS
  <1>3. OneMore(s) = [s EXCEPT !.failures = f, !.enabled = e]
    BY DEF OneMore
  <1> HIDE DEF f, e
  <1> QED
    BY <1>1, <1>2, <1>3 DEF ScheduleType

LEMMA SummaryTyped ==
  ASSUME TypeOK, NEW j \in Jobs
  PROVE  /\ Summary(j) \in ScheduleType
         /\ Summary(j).lastJob = j /\ Summary(j).lastStatus = status[j]
         /\ Summary(j).lastDone = TRUE /\ Summary(j).revision = schedule.revision
  <1>1. schedule \in ScheduleType /\ status[j] \in {"absent", "queued", "skipped"} \cup Outcomes
    BY DEF TypeOK, ScheduleType
  <1> DEFINE s == IF status[j] = "failed" /\ ~Repeated(j) THEN OneMore(schedule)
                  ELSE IF status[j] = "completed" THEN [schedule EXCEPT !.failures = 0]
                  ELSE schedule
  <1>2. [schedule EXCEPT !.failures = 0] \in ScheduleType
    BY <1>1, ScheduleAssumption DEF ScheduleType
  <1>3. s \in ScheduleType /\ s.revision = schedule.revision
    BY <1>1, <1>2, OneMoreTyped DEF ScheduleType
  <1>4. Summary(j) = [s EXCEPT !.lastJob = j, !.lastStatus = status[j], !.lastDone = TRUE]
    BY DEF Summary
  <1> HIDE DEF s
  <1> QED
    BY <1>1, <1>3, <1>4 DEF ScheduleType

\* A step that leaves the outbox and the jobs alone, and the summary too.
LEMMA SummaryUntouched ==
  ASSUME Inv, UNCHANGED <<eventVars, status>>, schedule' \in ScheduleType,
         schedule'.lastJob = schedule.lastJob, schedule'.lastStatus = schedule.lastStatus,
         schedule'.lastDone = schedule.lastDone
  PROVE  OutboxInv' /\ Reported' /\ SummaryTrue'
  <1>1. OutboxInv'
    BY OutboxStep DEF Inv
  <1>2. Reported'
    BY DEF Inv, Reported, eventVars
  <1>3. SummaryTrue'
    BY DEF Inv, SummaryTrue, eventVars
  <1> QED
    BY <1>1, <1>2, <1>3

LEMMA WorkerKeeps ==
  ASSUME Inv, MaterializeFails \/ Disable \/ RecordFailure \/ WorkerCrash
  PROVE  Inv'
  <1> USE DEF Inv
  <1>1. schedule \in ScheduleType
    BY DEF TypeOK, ScheduleType
  <1>2. [schedule EXCEPT !.enabled = FALSE] \in ScheduleType
    BY <1>1 DEF ScheduleType
  <1>3. /\ schedule' \in ScheduleType
        /\ schedule'.lastJob = schedule.lastJob /\ schedule'.lastStatus = schedule.lastStatus
        /\ schedule'.lastDone = schedule.lastDone /\ schedule'.revision = schedule.revision
    <2>1. CASE Disable
      BY <1>1, <1>2, <2>1 DEF Disable, ScheduleType
    <2>2. CASE MaterializeFails \/ WorkerCrash
      BY <1>1, <2>2 DEF MaterializeFails, WorkerCrash
    <2>3. CASE RecordFailure
      BY <1>1, <2>3, OneMoreTyped DEF RecordFailure
    <2> QED
      BY <2>1, <2>2, <2>3
  <1>4. UNCHANGED <<eventVars, status, lately, counted, defined>>
    BY DEF MaterializeFails, Disable, RecordFailure, WorkerCrash
  <1>5. failing' \in 0 .. MaxRevision \cup {NoRevision}
    BY DEF MaterializeFails, Disable, RecordFailure, WorkerCrash, TypeOK
  <1>6. OutboxInv' /\ Reported' /\ SummaryTrue'
    BY <1>3, <1>4, SummaryUntouched
  <1>7. TypeOK'
    BY <1>3, <1>4, <1>5, <1>6 DEF TypeOK, ScheduleType, OutboxInv
  <1> QED
    BY <1>3, <1>4, <1>6, <1>7

LEMMA OperatorKeeps ==
  ASSUME Inv, (\E b \in BOOLEAN : Update(b) \/ SetEnabled(b)) \/ Defer \/ Delete
  PROVE  Inv'
  <1> USE DEF Inv
  <1>1. schedule \in ScheduleType
    BY DEF TypeOK, ScheduleType
  <1> DEFINE Same(s) == /\ s \in ScheduleType
                        /\ s.lastJob = schedule.lastJob /\ s.lastStatus = schedule.lastStatus
                        /\ s.lastDone = schedule.lastDone
  <1>0. 0 \in 0 .. MaxCount
    BY ScheduleAssumption
  <1>2. \E s, d : Edit(s, d) /\ Same(s)
    <2>1. ASSUME NEW b \in BOOLEAN, Update(b)
          PROVE  \E s, d : Edit(s, d) /\ Same(s)
      <3> DEFINE r == [schedule EXCEPT !.enabled = b, !.failures = 0]
      <3>1. Same(r)
        BY <1>0, <1>1 DEF ScheduleType
      <3>2. Edit(r, TRUE)
        BY <2>1 DEF Update
      <3> HIDE DEF r, Same
      <3> QED
        BY <3>1, <3>2
    <2>2. ASSUME NEW b \in BOOLEAN, SetEnabled(b)
          PROVE  \E s, d : Edit(s, d) /\ Same(s)
      <3> DEFINE r == [schedule EXCEPT !.enabled = b]
      <3>1. Same(r)
        BY <1>1 DEF ScheduleType
      <3>2. Edit(r, FALSE)
        BY <2>2 DEF SetEnabled
      <3> HIDE DEF r, Same
      <3> QED
        BY <3>1, <3>2
    <2>3. CASE Defer
      BY <1>1, <2>3 DEF Defer
    <2>4. CASE Delete
      <3> DEFINE r == [schedule EXCEPT !.enabled = FALSE, !.deleted = TRUE]
      <3>1. Same(r)
        BY <1>1 DEF ScheduleType
      <3>2. Edit(r, FALSE)
        BY <2>4 DEF Delete
      <3> HIDE DEF r, Same
      <3> QED
        BY <3>1, <3>2
    <2> QED
      BY <2>1, <2>2, <2>3, <2>4
  <1>9. PICK s, d : Edit(s, d) /\ Same(s)
    BY <1>2
  <1>3. schedule.revision + 1 \in 0 .. MaxRevision
    BY <1>1, <1>9, ScheduleAssumption DEF Edit, ScheduleType
  <1>4. /\ schedule' \in ScheduleType
        /\ schedule'.lastJob = schedule.lastJob /\ schedule'.lastStatus = schedule.lastStatus
        /\ schedule'.lastDone = schedule.lastDone
        /\ schedule'.revision = schedule.revision + 1
    BY <1>3, <1>9 DEF Edit, ScheduleType
  <1>5. UNCHANGED <<eventVars, status, lately, failing, counted>>
    BY <1>9 DEF Edit
  <1>6. defined' \in 0 .. MaxRevision /\ defined' <= schedule'.revision
    BY <1>1, <1>3, <1>4, <1>9 DEF Edit, TypeOK, ScheduleType
  <1>7. OutboxInv' /\ Reported' /\ SummaryTrue'
    BY <1>4, <1>5, SummaryUntouched
  <1>8. TypeOK'
    BY <1>4, <1>5, <1>6, <1>7 DEF TypeOK, ScheduleType, OutboxInv
  <1> QED
    BY <1>6, <1>7, <1>8

LEMMA MaterializeKeeps ==
  ASSUME Inv, NEW S \in SUBSET Jobs, NEW last \in S, NEW skipped \in SUBSET S,
         Materialize(S, last, skipped)
  PROVE  Inv'
  <1> USE DEF Inv
  <1>1. \A j \in S : status[j] = "absent"
    BY DEF Materialize
  <1>2. \A j \in Jobs : status'[j] = IF j \in skipped THEN "skipped"
                                     ELSE IF j \in S THEN "queued" ELSE status[j]
    BY DEF Materialize
  <1>3. status' \in [Jobs -> {"absent", "queued", "skipped"} \cup Outcomes]
    BY DEF Materialize, TypeOK
  <1>4. /\ schedule' = [schedule EXCEPT !.lastJob = last, !.lastStatus = status'[last],
                                        !.lastDone = last \in skipped]
        /\ lately' = IF last \in skipped THEN skipped ELSE {}
        /\ UNCHANGED <<eventVars, failing, counted, defined>>
    BY DEF Materialize
  <1>5. status'[last] \in {"absent", "queued", "skipped"} \cup Outcomes
    BY <1>3
  <1>6. (last \in skipped) \in BOOLEAN
    OBVIOUS
  <1>7. /\ schedule' \in ScheduleType
        /\ schedule'.lastJob = last /\ schedule'.lastStatus = status'[last]
        /\ schedule'.lastDone = (last \in skipped) /\ schedule'.revision = schedule.revision
    <2>1. schedule \in ScheduleType
      BY DEF TypeOK, ScheduleType
    <2> QED
      BY <1>4, <1>5, <1>6, <2>1 DEF ScheduleType
  <1>8. OutboxInv'
    BY <1>4, OutboxStep
  <1>9. TypeOK'
    BY <1>3, <1>4, <1>7, <1>8 DEF TypeOK, ScheduleType, OutboxInv
  <1>10. Reported'
    <2>1. ASSUME NEW j \in Jobs, status[j] \in Outcomes PROVE status'[j] = status[j]
      BY <1>1, <1>2, <2>1 DEF Outcomes
    <2> QED
      BY <1>4, <2>1 DEF Reported, eventVars
  <1>11. SummaryTrue'
    <2> SUFFICES ASSUME NEW j \in Jobs, schedule'.lastJob = j,
                        status'[j] = "skipped" \/ JobEvent(j) \in applied'
                 PROVE  schedule'.lastStatus = status'[j] /\ schedule'.lastDone
      BY DEF SummaryTrue
    <2>1. j = last
      BY <1>7
    <2>2. JobEvent(j) \notin applied
      BY <1>1, <2>1 DEF Reported, Outcomes
    <2>3. last \in skipped
      BY <1>1, <1>2, <1>4, <2>1, <2>2 DEF eventVars
    <2> QED
      BY <1>7, <2>1, <2>3
  <1> QED
    BY <1>4, <1>7, <1>8, <1>9, <1>10, <1>11

LEMMA EndTargetKeeps ==
  ASSUME Inv, NEW t \in Targets, NEW o \in Outcomes, EndTarget(t, o)
  PROVE  Inv'
  <1> USE DEF Inv
  <1> DEFINE j == JobOf[t]
             over == TargetsOf(j) \subseteq ended'
  <1>1. j \in Jobs /\ status[j] = "queued" /\ TargetEnds(t)
    BY EventsAssumption DEF EndTarget
  <1>2. UNCHANGED <<schedule, failing, counted, defined, work, applied>>
    BY DEF EndTarget, TargetEnds
  <1>3. \A k \in Jobs : status'[k] = IF over /\ k = j THEN o ELSE status[k]
    BY DEF EndTarget, TypeOK
  <1>4. status' \in [Jobs -> {"absent", "queued", "skipped"} \cup Outcomes] /\ lately' \subseteq Jobs
    BY <1>1 DEF EndTarget, TypeOK
  <1>5. OutboxInv'
    BY <1>1, TargetEndsKeeps
  <1>6. TypeOK'
    BY <1>2, <1>4, <1>5 DEF TypeOK, OutboxInv
  <1>7. Reported'
    <2> SUFFICES ASSUME NEW k \in Jobs,
                        \/ JobEvent(k) \in applied'
                        \/ row'[JobEvent(k)].state # "absent"
                        \/ \E w \in Owners : work'[w].item = JobEvent(k)
                 PROVE  status'[k] \in Outcomes
      BY DEF Reported
    <2>1. CASE over /\ k = j
      BY <1>3, <2>1
    <2>2. CASE ~(over /\ k = j)
      <3>1. row'[JobEvent(k)] = row[JobEvent(k)]
        BY <1>1, <2>2, ItemsTyped, ItemsDistinct DEF TargetEnds
      <3>2. status[k] \in Outcomes
        BY <1>2, <3>1 DEF Reported
      <3> QED
        BY <1>3, <2>2, <3>2
    <2> QED
      BY <2>1, <2>2
  <1>8. SummaryTrue'
    <2> SUFFICES ASSUME NEW k \in Jobs, schedule.lastJob = k,
                        status'[k] = "skipped" \/ JobEvent(k) \in applied
                 PROVE  schedule.lastStatus = status'[k] /\ schedule.lastDone
      BY <1>2 DEF SummaryTrue
    <2>1. JobEvent(j) \notin applied
      BY <1>1 DEF Reported, Outcomes
    <2>2. ~(over /\ k = j)
      BY <1>3, <2>1 DEF Outcomes
    <2> QED
      BY <1>3, <2>2 DEF SummaryTrue
  <1> QED
    BY <1>2, <1>5, <1>6, <1>7, <1>8

LEMMA RunEffectsKeeps ==
  ASSUME Inv, NEW w \in Owners, RunEffects(w)
  PROVE  Inv'
  <1> USE DEF Inv
  <1> DEFINE i == work[w].item
  <1>1. i \in Items /\ OutboxInv'
    BY HoldsItem, StageMeansHolding, ApplyKeeps DEF RunEffects, Apply, OutboxInv
  <1>2. /\ UNCHANGED <<ended, row, status>>
        /\ applied' = applied \cup {i}
        /\ \A v \in Owners : work'[v].item = work[v].item
    BY DEF RunEffects, Apply, OutboxInv, EventsTypeOK, Idle
  <1>3. Reported'
    BY <1>2 DEF Reported
  <1>4. CASE i.kind # "job"
    <2>1. UNCHANGED scheduleVars
      BY <1>4 DEF RunEffects
    <2>2. \A j \in Jobs : JobEvent(j) \in applied' => JobEvent(j) \in applied
      BY <1>2, <1>4, ItemsDistinct
    <2>3. SummaryTrue'
      BY <1>2, <2>1, <2>2 DEF SummaryTrue, scheduleVars
    <2>4. TypeOK'
      BY <1>1, <1>2, <2>1 DEF TypeOK, scheduleVars, OutboxInv
    <2> QED
      BY <1>1, <1>3, <2>1, <2>3, <2>4 DEF scheduleVars
  <1>5. CASE i.kind = "job"
    <2> DEFINE k == i.of
    <2>1. k \in Jobs /\ i = JobEvent(k) /\ RecordOutcome(k)
      BY <1>1, <1>5, ItemsTyped DEF RunEffects
    <2>2. UNCHANGED <<failing, defined>> /\ lately' \subseteq Jobs
      BY <2>1 DEF RecordOutcome, TypeOK
    <2>3. counted' \in [Jobs -> 0 .. MaxCount]
      <3>1. counted \in [Jobs -> 0 .. MaxCount] /\ counted[k] \in 0 .. MaxCount
        BY <2>1 DEF TypeOK
      <3>2. \/ counted' = counted
            \/ counted[k] < MaxCount /\ counted' = [counted EXCEPT ![k] = counted[k] + 1]
        BY <2>1 DEF RecordOutcome
      <3> QED
        BY <2>1, <3>1, <3>2, ScheduleAssumption
    <2>4. \/ ~Applicable(k) /\ schedule' = schedule
          \/ schedule' = Summary(k)
      BY <2>1 DEF RecordOutcome
    <2>5. schedule' \in ScheduleType /\ schedule'.revision = schedule.revision
      <3>1. schedule \in ScheduleType
        BY DEF TypeOK, ScheduleType
      <3>2. Summary(k) \in ScheduleType /\ Summary(k).revision = schedule.revision
        BY <2>1, SummaryTyped
      <3> QED
        BY <2>4, <3>1, <3>2
    <2>6. TypeOK'
      BY <1>1, <1>2, <2>2, <2>3, <2>5 DEF TypeOK, ScheduleType, OutboxInv
    <2>7. SummaryTrue'
      <3> SUFFICES ASSUME NEW j \in Jobs, schedule'.lastJob = j,
                          status[j] = "skipped" \/ JobEvent(j) \in applied'
                   PROVE  schedule'.lastStatus = status[j] /\ schedule'.lastDone
        BY <1>2 DEF SummaryTrue
      <3>1. CASE schedule' = Summary(k)
        BY <2>1, <3>1, SummaryTyped
      <3>2. CASE ~Applicable(k) /\ schedule' = schedule
        <4>1. j # k
          BY <3>2 DEF Applicable
        <4>2. status[j] = "skipped" \/ JobEvent(j) \in applied
          BY <1>2, <2>1, <4>1, ItemsDistinct
        <4> QED
          BY <3>2, <4>2 DEF SummaryTrue
      <3> QED
        BY <2>4, <3>1, <3>2
    <2> QED
      BY <1>1, <1>3, <2>2, <2>5, <2>6, <2>7
  <1> QED
    BY <1>4, <1>5

LEMMA HousekeepingKeeps ==
  ASSUME Inv, Housekeeping, UNCHANGED <<status, scheduleVars>>
  PROVE  Inv'
  <1> USE DEF Inv
  <1>1. OutboxInv' /\ SettledKept
    BY OutboxStep DEF EventsNext
  <1>2. applied' = applied
    BY DEF Housekeeping, Claim, Complete, Fail, Abandon
  <1>3. Reported'
    <2> SUFFICES ASSUME NEW j \in Jobs,
                        \/ JobEvent(j) \in applied
                        \/ row'[JobEvent(j)].state # "absent"
                        \/ \E w \in Owners : work'[w].item = JobEvent(j)
                 PROVE  \/ JobEvent(j) \in applied
                        \/ row[JobEvent(j)].state # "absent"
                        \/ \E w \in Owners : work[w].item = JobEvent(j)
      BY <1>2 DEF Reported
    <2> USE DEF OutboxInv
    <2> DEFINE Known == \/ JobEvent(j) \in applied
                        \/ row[JobEvent(j)].state # "absent"
                        \/ \E w \in Owners : work[w].item = JobEvent(j)
    <2>1. ASSUME NEW w \in Owners, NEW i \in Items, Claim(w, i) PROVE Known
      <3>1. row[i].state # "absent"
        BY <2>1 DEF Claim, Claimable
      <3>2. /\ \A k \in Items : k # i => row'[k] = row[k]
            /\ \A v \in Owners : work'[v].item = i \/ work'[v] = work[v]
        BY <2>1 DEF Claim, OutboxInv, EventsTypeOK
      <3> QED
        BY <3>1, <3>2, ItemsTyped
    <2>2. ASSUME NEW w \in Owners, Complete(w) \/ Fail(w) \/ Abandon(w) PROVE Known
      <3>1. \A v \in Owners : work'[v] = Idle \/ work'[v] = work[v]
        BY <2>2 DEF Complete, Fail, Abandon, OutboxInv, EventsTypeOK
      <3>2. \A v \in Owners : work'[v].item = JobEvent(j) => work[v].item = JobEvent(j)
        BY <3>1, ItemsTyped DEF Idle
      <3>3. work[w].item # JobEvent(j) => row'[JobEvent(j)] = row[JobEvent(j)]
        BY <2>2, ItemsTyped, ItemsDistinct DEF Complete, Fail, Abandon
      <3> QED
        BY <3>2, <3>3
    <2> QED
      BY <2>1, <2>2 DEF Housekeeping
  <1>4. SummaryTrue'
    BY <1>2 DEF SummaryTrue, scheduleVars
  <1>5. TypeOK'
    BY <1>1 DEF TypeOK, OutboxInv, scheduleVars
  <1> QED
    BY <1>1, <1>3, <1>4, <1>5 DEF scheduleVars

LEMMA NextInv == Inv /\ [Next]_vars => Inv'
  <1> SUFFICES ASSUME Inv, [Next]_vars PROVE Inv'
    OBVIOUS
  <1>1. CASE UNCHANGED vars
    <2>1. UNCHANGED <<eventVars, status>> /\ UNCHANGED scheduleVars
      BY <1>1 DEF vars
    <2>2. OutboxInv'
      BY <2>1, OutboxStep DEF Inv
    <2> QED
      BY <2>1, <2>2 DEF Inv, TypeOK, OutboxInv, Reported, SummaryTrue, scheduleVars, eventVars
  <1>2. CASE Next
    BY <1>2, MaterializeKeeps, WorkerKeeps, OperatorKeeps, EndTargetKeeps, RunEffectsKeeps,
       HousekeepingKeeps DEF Next
  <1> QED
    BY <1>1, <1>2

-----------------------------------------------------------------------------
(***************************************************************************)
(* The inductive invariant holds in every reachable state.                 *)
(***************************************************************************)
THEOREM SchedulesInvariant == Spec => []Inv
  BY InitInv, NextInv, PTL DEF Spec

(***************************************************************************)
(* TypeOK: the rows of the outbox, the work in hand and the schedule stay  *)
(* well typed, the failure counter below its limit.                        *)
(***************************************************************************)
THEOREM SchedulesTypeCorrect == Spec => []TypeOK
  <1>1. Inv => TypeOK
    BY DEF Inv
  <1> QED
    BY <1>1, SchedulesInvariant, PTL

(***************************************************************************)
(* A step of the schedule, the worker, an operator or a job is a step of   *)
(* the outbox or leaves it alone.                                          *)
(***************************************************************************)
LEMMA NextIsOutboxStep == [Next]_vars => [EventsNext]_eventVars
  <1> SUFFICES ASSUME [Next]_vars PROVE [EventsNext]_eventVars
    OBVIOUS
  <1>1. CASE UNCHANGED vars
    BY <1>1 DEF vars
  <1>2. CASE Next
    BY <1>2 DEF Next, Materialize, MaterializeFails, RecordFailure, WorkerCrash, Disable,
                Update, SetEnabled, Defer, Delete, Edit, EndTarget, RunEffects, EventsNext
  <1> QED
    BY <1>1, <1>2

(***************************************************************************)
(* The composed system uses the outbox as TerminalEvents specifies it.     *)
(***************************************************************************)
THEOREM UsesOutbox == Spec => EventsSpec
  <1>1. Init => EventsInit
    BY DEF Init
  <1> QED
    BY <1>1, NextIsOutboxStep, PTL DEF Spec, EventsSpec

(***************************************************************************)
(* The effects of a job's terminal event run after the events and the      *)
(* enrichments of all its targets are settled, for any number of targets,  *)
(* consumers, crashes and lost leases.                                     *)
(***************************************************************************)
THEOREM OutboxJobEventLast == Spec => []JobEventLast
  <1>1. Inv => JobEventLast
    <2> SUFFICES ASSUME Inv, NEW j \in Jobs, JobEvent(j) \in applied, NEW t \in TargetsOf(j),
                        NEW i \in {TargetEvent(t), Enrichment(t)}
                 PROVE  i \in applied /\ row[i].state = "done"
      BY DEF JobEventLast
    <2>1. row[i].state = "done"
      BY DEF Inv, OutboxInv, JobAfterTargets, TargetsSettled
    <2>2. i \in Items
      BY ItemsTyped DEF TargetsOf
    <2> QED
      BY <2>1, <2>2 DEF Inv, OutboxInv, SettledRan
  <1> QED
    BY <1>1, SchedulesInvariant, PTL

(***************************************************************************)
(* A settled row of the outbox is never revived.                           *)
(***************************************************************************)
THEOREM OutboxSettledStays == Spec => SettledStays
  <1>1. Inv /\ [Next]_vars => [SettledKept]_eventVars
    BY NextIsOutboxStep, OutboxStep DEF Inv
  <1>2. [SettledKept]_eventVars
          => [\A i \in Items : row[i].state = "done" => row'[i].state = "done"]_eventVars
    BY DEF SettledKept
  <1> QED
    BY <1>1, <1>2, SchedulesInvariant, PTL DEF Spec, SettledStays

(***************************************************************************)
(* The summary of a schedule shows the final status of the job it names    *)
(* once that job's event is settled.                                       *)
(***************************************************************************)
THEOREM SummaryIsTrue == Spec => []SummarySettles
  <1>1. Inv => SummarySettles
    <2> SUFFICES ASSUME Inv, NEW j \in Jobs, schedule.lastJob = j,
                        status[j] = "skipped" \/ row[JobEvent(j)].state = "done"
                 PROVE  schedule.lastStatus = status[j] /\ schedule.lastDone
      BY DEF SummarySettles
    <2>1. status[j] = "skipped" \/ JobEvent(j) \in applied
      BY ItemsTyped DEF Inv, OutboxInv, SettledRan
    <2> QED
      BY <2>1 DEF Inv, SummaryTrue
  <1> QED
    BY <1>1, SchedulesInvariant, PTL

(***************************************************************************)
(* A materialization that failed under an old definition of the schedule   *)
(* neither counts against the new one nor disables it.                     *)
(***************************************************************************)
THEOREM NoOldBlame == Spec => NoBlameFromOldDefinitions
  <1> DEFINE A == failing # NoRevision /\ failing < defined /\ failing' = NoRevision
                    => /\ schedule'.failures = schedule.failures
                       /\ schedule'.enabled = schedule.enabled
  <1>1. Inv /\ [Next]_vars => [A]_vars
    <2> SUFFICES ASSUME Inv, Next, failing # NoRevision, failing < defined,
                        failing' = NoRevision
                 PROVE  schedule' = schedule
      OBVIOUS
    <2>1. ~Recordable
      BY DEF Inv, TypeOK, Recordable, NoRevision
    <2>2. CASE RecordFailure
      BY <2>1, <2>2 DEF RecordFailure
    <2>3. CASE WorkerCrash
      BY <2>3 DEF WorkerCrash
    <2>4. CASE ~RecordFailure /\ ~WorkerCrash
      BY <2>4 DEF Next, Materialize, MaterializeFails, Disable, Update, SetEnabled, Defer,
                  Delete, Edit, EndTarget, RunEffects, RecordOutcome, scheduleVars
    <2> QED
      BY <2>2, <2>3, <2>4
  <1> QED
    BY <1>1, SchedulesInvariant, PTL DEF Spec, NoBlameFromOldDefinitions
================================================================================
