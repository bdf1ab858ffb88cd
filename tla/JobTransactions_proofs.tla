------------------------ MODULE JobTransactions_proofs -----------------------
(***************************************************************************)
(* Proofs about JobTransactions, for every set of jobs, clients, targets   *)
(* and workers: the invariants that make job completion correct, and that  *)
(* the transactions implement AbstractJobs.                                *)
(***************************************************************************)
EXTENDS JobTransactions, TLAPS

\* Facts about the status vocabulary that every proof below uses.
LEMMA StatusFacts ==
  /\ ActiveTargetStatuses \cap TerminalTargetStatuses = {}
  /\ "none" \notin TargetStatuses
  /\ "absent" \notin TargetStatuses
  /\ "none" \notin JobStatuses
  /\ "absent" \notin JobStatuses
  /\ "queued" \notin TerminalJobStatuses
  /\ "running" \notin TerminalJobStatuses
  BY DEF ActiveTargetStatuses, TerminalTargetStatuses, TargetStatuses,
         TerminalJobStatuses, JobStatuses

\* A target row names a job and a client.
LEMMA TargetJob == \A t \in Targets : t[1] \in Jobs /\ t[2] \in Clients
  BY ConstantsAssumption

\* Nobody is not a worker.
LEMMA NobodyIsNoWorker == NoWorker \notin Workers
  BY ConstantsAssumption

\* The aggregate of terminal target statuses is a terminal job status.
LEMMA AggregateTerminal ==
  ASSUME NEW S, S \subseteq TerminalTargetStatuses
  PROVE  AggregateJobStatus(S) \in TerminalJobStatuses
  BY DEF AggregateJobStatus, TerminalJobStatuses, TerminalTargetStatuses, ActiveTargetStatuses

\* Whether a job is done, and as what, depends on the rows of its targets only.
LEMMA SameStatuses ==
  ASSUME NEW f, NEW g, NEW j, \A t \in TargetsOf(j) : f[t] = g[t]
  PROVE  /\ StatusesOf(f, j) = StatusesOf(g, j)
         /\ AllTerminal(f, j) <=> AllTerminal(g, j)
  BY DEF StatusesOf, AllTerminal

LEMMA AllTerminalStatuses ==
  ASSUME NEW f, NEW j, AllTerminal(f, j)
  PROVE  AggregateJobStatus(StatusesOf(f, j)) \in TerminalJobStatuses
  <1>1. StatusesOf(f, j) \subseteq TerminalTargetStatuses
    BY DEF StatusesOf, AllTerminal
  <1> QED BY <1>1, AggregateTerminal

\* Steps that leave the committed rows alone keep what is said of them alone.
LEMMA RowsFrame ==
  ASSUME PresenceOK, JobCompletesWithLastTarget, ClaimedTargetHasRunningJob,
         UNCHANGED rows
  PROVE  PresenceOK' /\ JobCompletesWithLastTarget' /\ ClaimedTargetHasRunningJob'
  BY DEF PresenceOK, JobCompletesWithLastTarget, ClaimedTargetHasRunningJob, rows,
         Finished, AllTerminal, StatusesOf

\* A transaction sees the same rows as before when neither the committed rows
\* nor its own updates change.
LEMMA SeenFrame ==
  ASSUME UNCHANGED target, NEW v, staged'[v] = staged[v], NEW j
  PROVE  /\ AllTerminal(Seen(v), j)' <=> AllTerminal(Seen(v), j)
         /\ StatusesOf(Seen(v), j)' = StatusesOf(Seen(v), j)
  BY DEF Seen, AllTerminal, StatusesOf

\* The initial state.
LEMMA InitInv == Init => IndInv
  BY ConstantsAssumption
  DEF Init, IndInv, TypeOK, WritesOK, StagedOK, StagedJobOK, VerdictOK, PresenceOK,
      JobCompletesWithLastTarget, ClaimedTargetHasRunningJob, NothingStaged, NoJobStaged,
      TransactionKinds

\* Beginning a transaction that locks rows one by one.
LEMMA BeginInv ==
  ASSUME IndInv, NEW w \in Workers, NEW k \in TransactionKinds \ {"claim", "expire"},
         NEW T \in SUBSET Targets, NEW status \in TargetStatuses,
         k = "running" => status = "running",
         k # "running" => status \in TerminalTargetStatuses,
         Begin(w, k, T, status), cancels' \in [Workers -> SUBSET Jobs],
         leaving' \in [Workers -> SUBSET Clients], leaving'[w] # {} => k = "lost",
         \A v \in Workers \ {w} : leaving'[v] = leaving[v]
  PROVE  IndInv'
  <1>1. UNCHANGED rows
    BY DEF Begin
  <1>2. PresenceOK' /\ JobCompletesWithLastTarget' /\ ClaimedTargetHasRunningJob'
    BY <1>1, RowsFrame DEF IndInv
  <1>3. TypeOK'
    BY DEF IndInv, TypeOK, Begin, rows, locks, writes
  <1>4. WritesOK'
    BY DEF IndInv, TypeOK, WritesOK, Begin, TransactionKinds
  <1>5. StagedOK'
    BY DEF IndInv, TypeOK, StagedOK, Begin, rows, locks, writes, Progressing
  <1>s. \A v \in Workers, j \in Jobs :
            /\ AllTerminal(Seen(v), j)' <=> AllTerminal(Seen(v), j)
            /\ StatusesOf(Seen(v), j)' = StatusesOf(Seen(v), j)
    BY SeenFrame DEF Begin, rows, writes
  <1>6. StagedJobOK'
    BY <1>s DEF IndInv, TypeOK, StagedJobOK, Begin, rows, locks, writes, Progressing
  <1>7. VerdictOK'
    BY <1>s, TargetJob
    DEF IndInv, TypeOK, VerdictOK, Begin, rows, locks, writes, Progressing
  <1> QED BY <1>2, <1>3, <1>4, <1>5, <1>6, <1>7 DEF IndInv

\* The UPDATE of the locked targets.
LEMMA UpdateTargetsInv ==
  ASSUME IndInv, NEW w \in Workers, UpdateTargets(w)
  PROVE  IndInv'
  <1>1. UNCHANGED rows
    BY DEF UpdateTargets
  <1>2. PresenceOK' /\ JobCompletesWithLastTarget' /\ ClaimedTargetHasRunningJob'
    BY <1>1, RowsFrame DEF IndInv
  <1>3. TypeOK'
    BY TargetJob DEF IndInv, TypeOK, rows, locks, tx, wants, writes, UpdateTargets, ClientsOf, StagedTargets
  <1>4. WritesOK'
    BY DEF IndInv, TypeOK, WritesOK, tx, wants, UpdateTargets
  <1>5. StagedOK'
    BY TargetJob, NobodyIsNoWorker DEF IndInv, TypeOK, StagedOK, rows, locks, tx, writes, Progressing, UpdateTargets
  <1>s. \A v \in Workers, i \in Jobs : 
            /\ AllTerminal(Seen(v), i)' <=> AllTerminal(Seen(v), i)
            /\ StatusesOf(Seen(v), i)' = StatusesOf(Seen(v), i)
    BY SeenFrame DEF IndInv, TypeOK, rows, writes, UpdateTargets
  <1>6. StagedJobOK'
    BY <1>s, NobodyIsNoWorker DEF IndInv, TypeOK, StagedJobOK, rows, locks, tx, writes, Progressing, UpdateTargets
  <1>7. VerdictOK'
    BY <1>s, TargetJob, NobodyIsNoWorker DEF IndInv, TypeOK, VerdictOK, rows, locks, tx, wants, writes, Progressing, UpdateTargets
  <1> QED BY <1>2, <1>3, <1>4, <1>5, <1>6, <1>7 DEF IndInv

\* The trigger locks a metric row.
LEMMA LockMetricInv ==
  ASSUME IndInv, NEW w \in Workers, NEW c \in Clients, LockMetric(w, c)
  PROVE  IndInv'
  <1>1. UNCHANGED rows
    BY DEF LockMetric
  <1>2. PresenceOK' /\ JobCompletesWithLastTarget' /\ ClaimedTargetHasRunningJob'
    BY <1>1, RowsFrame DEF IndInv
  <1>3. TypeOK'
    BY DEF IndInv, TypeOK, rows, locks, tx, wants, writes, LockMetric
  <1>4. WritesOK'
    BY DEF IndInv, TypeOK, WritesOK, tx, wants, LockMetric
  <1>5. StagedOK'
    BY TargetJob, NobodyIsNoWorker DEF IndInv, TypeOK, StagedOK, rows, locks, tx, writes, Progressing, LockMetric
  <1>s. \A v \in Workers, i \in Jobs : 
            /\ AllTerminal(Seen(v), i)' <=> AllTerminal(Seen(v), i)
            /\ StatusesOf(Seen(v), i)' = StatusesOf(Seen(v), i)
    BY SeenFrame DEF IndInv, TypeOK, rows, writes, LockMetric
  <1>6. StagedJobOK'
    BY <1>s, NobodyIsNoWorker DEF IndInv, TypeOK, StagedJobOK, rows, locks, tx, writes, Progressing, LockMetric
  <1>7. VerdictOK'
    BY <1>s, TargetJob, NobodyIsNoWorker DEF IndInv, TypeOK, VerdictOK, rows, locks, tx, wants, writes, Progressing, LockMetric
  <1> QED BY <1>2, <1>3, <1>4, <1>5, <1>6, <1>7 DEF IndInv

\* The second UPDATE of a cancel request.
LEMMA BeginFlaggingInv ==
  ASSUME IndInv, NEW w \in Workers, BeginFlagging(w)
  PROVE  IndInv'
  <1>1. UNCHANGED rows
    BY DEF BeginFlagging
  <1>2. PresenceOK' /\ JobCompletesWithLastTarget' /\ ClaimedTargetHasRunningJob'
    BY <1>1, RowsFrame DEF IndInv
  <1>3. TypeOK'
    BY DEF IndInv, TypeOK, rows, locks, tx, wants, writes, BeginFlagging, ToFlag
  <1>4. WritesOK'
    BY DEF IndInv, TypeOK, WritesOK, tx, wants, BeginFlagging
  <1>5. StagedOK'
    BY TargetJob, NobodyIsNoWorker DEF IndInv, TypeOK, StagedOK, rows, locks, tx, writes, Progressing, BeginFlagging
  <1>s. \A v \in Workers, i \in Jobs : 
            /\ AllTerminal(Seen(v), i)' <=> AllTerminal(Seen(v), i)
            /\ StatusesOf(Seen(v), i)' = StatusesOf(Seen(v), i)
    BY SeenFrame DEF IndInv, TypeOK, rows, writes, BeginFlagging
  <1>6. StagedJobOK'
    BY <1>s, NobodyIsNoWorker DEF IndInv, TypeOK, StagedJobOK, rows, locks, tx, writes, Progressing, BeginFlagging
  <1>7. VerdictOK'
    BY <1>s, TargetJob, NobodyIsNoWorker DEF IndInv, TypeOK, VerdictOK, rows, locks, tx, wants, writes, Progressing, BeginFlagging
  <1> QED BY <1>2, <1>3, <1>4, <1>5, <1>6, <1>7 DEF IndInv

\* A cancel request flags an active target.
LEMMA FlagTargetInv ==
  ASSUME IndInv, NEW w \in Workers, NEW x \in Targets, FlagTarget(w, x)
  PROVE  IndInv'
  <1>1. UNCHANGED rows
    BY DEF FlagTarget, TargetRowFree
  <1>2. PresenceOK' /\ JobCompletesWithLastTarget' /\ ClaimedTargetHasRunningJob'
    BY <1>1, RowsFrame DEF IndInv
  <1>3. TypeOK'
    BY TargetJob DEF IndInv, TypeOK, rows, locks, tx, wants, writes, FlagTarget, TargetRowFree, ClientsOf
  <1>4. WritesOK'
    BY DEF IndInv, TypeOK, WritesOK, tx, wants, FlagTarget, TargetRowFree
  <1>5. StagedOK'
    BY TargetJob, NobodyIsNoWorker DEF IndInv, TypeOK, StagedOK, rows, locks, tx, writes, Progressing, FlagTarget, TargetRowFree
  <1>s. \A v \in Workers, i \in Jobs : 
            /\ AllTerminal(Seen(v), i)' <=> AllTerminal(Seen(v), i)
            /\ StatusesOf(Seen(v), i)' = StatusesOf(Seen(v), i)
    BY SeenFrame DEF IndInv, TypeOK, rows, writes, FlagTarget, TargetRowFree
  <1>6. StagedJobOK'
    BY <1>s, NobodyIsNoWorker DEF IndInv, TypeOK, StagedJobOK, rows, locks, tx, writes, Progressing, FlagTarget, TargetRowFree
  <1>7. VerdictOK'
    BY <1>s, TargetJob, NobodyIsNoWorker DEF IndInv, TypeOK, VerdictOK, rows, locks, tx, wants, writes, Progressing, FlagTarget, TargetRowFree
  <1> QED BY <1>2, <1>3, <1>4, <1>5, <1>6, <1>7 DEF IndInv

\* The hello sweep locks a job row next to a target row.
LEMMA LockJoinedJobInv ==
  ASSUME IndInv, NEW w \in Workers, NEW j \in Jobs, LockJoinedJob(w, j)
  PROVE  IndInv'
  <1>1. UNCHANGED rows
    BY DEF LockJoinedJob, JobRowFree
  <1>2. PresenceOK' /\ JobCompletesWithLastTarget' /\ ClaimedTargetHasRunningJob'
    BY <1>1, RowsFrame DEF IndInv
  <1>3. TypeOK'
    BY DEF IndInv, TypeOK, rows, locks, tx, wants, writes, LockJoinedJob, JobRowFree
  <1>4. WritesOK'
    BY DEF IndInv, TypeOK, WritesOK, tx, wants, LockJoinedJob, JobRowFree
  <1>5. StagedOK'
    BY TargetJob, NobodyIsNoWorker DEF IndInv, TypeOK, StagedOK, rows, locks, tx, writes, Progressing, LockJoinedJob, JobRowFree
  <1>s. \A v \in Workers, i \in Jobs : 
            /\ AllTerminal(Seen(v), i)' <=> AllTerminal(Seen(v), i)
            /\ StatusesOf(Seen(v), i)' = StatusesOf(Seen(v), i)
    BY SeenFrame DEF IndInv, TypeOK, rows, writes, LockJoinedJob, JobRowFree
  <1>6. StagedJobOK'
    BY <1>s, NobodyIsNoWorker DEF IndInv, TypeOK, StagedJobOK, rows, locks, tx, writes, Progressing, LockJoinedJob, JobRowFree
  <1>7. VerdictOK'
    BY <1>s, TargetJob, NobodyIsNoWorker DEF IndInv, TypeOK, VerdictOK, rows, locks, tx, wants, writes, Progressing, LockJoinedJob, JobRowFree
  <1> QED BY <1>2, <1>3, <1>4, <1>5, <1>6, <1>7 DEF IndInv

\* A terminal event is inserted under a KEY SHARE lock of its job row.
LEMMA InsertEventInv ==
  ASSUME IndInv, NEW w \in Workers, NEW j \in Jobs, InsertEvent(w, j)
  PROVE  IndInv'
  <1>1. UNCHANGED rows
    BY DEF InsertEvent
  <1>2. PresenceOK' /\ JobCompletesWithLastTarget' /\ ClaimedTargetHasRunningJob'
    BY <1>1, RowsFrame DEF IndInv
  <1>k. UNCHANGED <<targetLock, metricLock, jobLock, tx, wants, writes>>
    BY DEF IndInv, WritesOK, InsertEvent, TargetsUpdated
  <1>3. TypeOK'
    BY DEF IndInv, TypeOK, rows, locks, tx, wants, writes, InsertEvent
  <1>4. WritesOK'
    BY <1>k DEF IndInv, TypeOK, WritesOK, tx, wants, InsertEvent
  <1>5. StagedOK'
    BY <1>k, TargetJob, NobodyIsNoWorker DEF IndInv, TypeOK, StagedOK, rows, locks, tx, writes, Progressing, InsertEvent
  <1>s. \A v \in Workers, i \in Jobs :
            /\ AllTerminal(Seen(v), i)' <=> AllTerminal(Seen(v), i)
            /\ StatusesOf(Seen(v), i)' = StatusesOf(Seen(v), i)
    BY SeenFrame DEF IndInv, TypeOK, rows, writes, InsertEvent
  <1>6. StagedJobOK'
    BY <1>k, <1>s, NobodyIsNoWorker DEF IndInv, TypeOK, StagedJobOK, rows, locks, tx, writes, Progressing, InsertEvent
  <1>7. VerdictOK'
    BY <1>k, <1>s, TargetJob, NobodyIsNoWorker DEF IndInv, TypeOK, VerdictOK, rows, locks, tx, wants, writes, Progressing, InsertEvent
  <1> QED BY <1>2, <1>3, <1>4, <1>5, <1>6, <1>7 DEF IndInv

\* The removal of a client turns to its queued targets.
LEMMA SkipUnstartedInv ==
  ASSUME IndInv, NEW w \in Workers, SkipUnstarted(w)
  PROVE  IndInv'
  <1>1. UNCHANGED rows
    BY DEF SkipUnstarted
  <1>2. PresenceOK' /\ JobCompletesWithLastTarget' /\ ClaimedTargetHasRunningJob'
    BY <1>1, RowsFrame DEF IndInv
  <1>k. kind[w] = "lost" /\ phase[w] # "finish"
    BY DEF IndInv, WritesOK, SkipUnstarted, TargetsUpdated
  <1>3. TypeOK'
    BY DEF IndInv, TypeOK, rows, locks, tx, wants, writes, SkipUnstarted, Found, TransactionKinds, TargetStatuses, TerminalTargetStatuses
  <1>4. WritesOK'
    BY <1>k DEF IndInv, TypeOK, WritesOK, tx, wants, SkipUnstarted, Found, TransactionKinds, TargetStatuses, TerminalTargetStatuses
  <1>5. StagedOK'
    BY <1>k, TargetJob, NobodyIsNoWorker DEF IndInv, TypeOK, StagedOK, rows, locks, tx, writes, Progressing, SkipUnstarted
  <1>s. \A v \in Workers, i \in Jobs :
            /\ AllTerminal(Seen(v), i)' <=> AllTerminal(Seen(v), i)
            /\ StatusesOf(Seen(v), i)' = StatusesOf(Seen(v), i)
    BY SeenFrame DEF IndInv, TypeOK, rows, writes, SkipUnstarted
  <1>6. StagedJobOK'
    BY <1>k, <1>s, NobodyIsNoWorker DEF IndInv, TypeOK, StagedJobOK, rows, locks, tx, writes, Progressing, SkipUnstarted
  <1>7. VerdictOK'
    BY <1>k, <1>s, TargetJob, NobodyIsNoWorker DEF IndInv, TypeOK, VerdictOK, rows, locks, tx, wants, writes, Progressing, SkipUnstarted
  <1> QED BY <1>2, <1>3, <1>4, <1>5, <1>6, <1>7 DEF IndInv

\* A target row is granted and evaluated.
LEMMA LockTargetInv ==
  ASSUME IndInv, NEW w \in Workers, NEW x \in Targets, LockTarget(w, x)
  PROVE  IndInv'
  <1>1. UNCHANGED rows
    BY DEF LockTarget
  <1>2. PresenceOK' /\ JobCompletesWithLastTarget' /\ ClaimedTargetHasRunningJob'
    BY <1>1, RowsFrame DEF IndInv
  <1>p. PICK status \in TargetStatuses \cup {"none"} :
           /\ staged' = [staged EXCEPT ![w][x] = status]
           /\ status # "none" =>
                 /\ target[x] \in ActiveTargetStatuses
                 /\ kind[w] = "running" => status = "running"
                 /\ kind[w] # "running" => status \in TerminalTargetStatuses
    <2>1. PICK status \in IF StillAccepted(w, x) THEN Written(w, x) ELSE {"none"} :
             staged' = [staged EXCEPT ![w][x] = status]
      BY DEF LockTarget
    <2>2. CASE StillAccepted(w, x)
      <3>1. target[x] \in ActiveTargetStatuses /\ status \in Written(w, x)
        BY <2>1, <2>2 DEF StillAccepted, Accepts, ActiveTargetStatuses, LockTarget, IndInv,
                          WritesOK, TransactionKinds
      <3>2. /\ kind[w] = "running" => status = "running"
            /\ kind[w] # "running" => status \in TerminalTargetStatuses
        BY <3>1 DEF Written, TerminalTargetStatuses, LockTarget, IndInv, WritesOK
      <3> QED BY <2>1, <3>1, <3>2 DEF TargetStatuses, ActiveTargetStatuses
    <2>3. CASE ~StillAccepted(w, x)
      BY <2>1, <2>3
    <2> QED BY <2>2, <2>3
  <1>k. kind[w] \notin {"claim", "expire", "idle"}
    BY DEF LockTarget, IndInv, WritesOK, TransactionKinds
  <1>3. TypeOK'
    BY <1>p, TargetJob DEF IndInv, TypeOK, rows, tx, LockTarget
  <1>4. WritesOK'
    BY <1>k DEF IndInv, TypeOK, WritesOK, tx, LockTarget
  <1>5. StagedOK'
    BY <1>p, <1>k, TargetJob, NobodyIsNoWorker
    DEF IndInv, TypeOK, StagedOK, rows, tx, Progressing, LockTarget, TargetRowFree
  <1>s. \A v \in Workers, i \in Jobs : v # w =>
            /\ AllTerminal(Seen(v), i)' <=> AllTerminal(Seen(v), i)
            /\ StatusesOf(Seen(v), i)' = StatusesOf(Seen(v), i)
    BY <1>p, SeenFrame DEF IndInv, TypeOK, rows, LockTarget
  <1>6. StagedJobOK'
    BY <1>s, NobodyIsNoWorker DEF IndInv, TypeOK, StagedJobOK, rows, tx, Progressing, LockTarget
  <1>7. VerdictOK'
    BY <1>p, <1>s, TargetJob, NobodyIsNoWorker
    DEF IndInv, TypeOK, VerdictOK, rows, tx, Progressing, LockTarget
  <1> QED BY <1>2, <1>3, <1>4, <1>5, <1>6, <1>7 DEF IndInv

\* A job with an active target is neither absent nor finished.
LEMMA ActiveTargetOpenJob ==
  ASSUME IndInv, NEW t \in Targets, target[t] \in ActiveTargetStatuses
  PROVE  job[t[1]] \in {"queued", "running"}
  <1>1. t[1] \in Jobs /\ job[t[1]] # "absent"
    BY TargetJob, StatusFacts DEF IndInv, PresenceOK, TargetStatuses
  <1>2. ~AllTerminal(target, t[1])
    BY StatusFacts DEF AllTerminal, TargetsOf
  <1>3. ~Finished(t[1])
    BY <1>1, <1>2 DEF IndInv, JobCompletesWithLastTarget
  <1> QED BY <1>1, <1>3 DEF IndInv, TypeOK, Finished, JobStatuses

\* A transaction turns to the jobs of the targets it changed.
LEMMA BeginFinishInv ==
  ASSUME IndInv, NEW w \in Workers, BeginFinish(w)
  PROVE  IndInv'
  <1>1. UNCHANGED rows
    BY DEF BeginFinish
  <1>2. PresenceOK' /\ JobCompletesWithLastTarget' /\ ClaimedTargetHasRunningJob'
    BY <1>1, RowsFrame DEF IndInv
  <1>3. TypeOK'
    BY TargetJob DEF IndInv, TypeOK, rows, locks, tx, wants, writes, BeginFinish,
       JobsToFinish, JobsOf, StagedTargets
  <1>4. WritesOK'
    BY DEF IndInv, TypeOK, WritesOK, tx, wants, BeginFinish, TargetsUpdated, JobsToFinish
  <1>5. StagedOK'
    BY DEF IndInv, TypeOK, StagedOK, rows, locks, tx, writes, Progressing, BeginFinish
  <1>s. \A v \in Workers, i \in Jobs : 
            /\ AllTerminal(Seen(v), i)' <=> AllTerminal(Seen(v), i)
            /\ StatusesOf(Seen(v), i)' = StatusesOf(Seen(v), i)
    BY SeenFrame DEF IndInv, TypeOK, rows, writes, BeginFinish
  <1>6. StagedJobOK'
    BY <1>s DEF IndInv, TypeOK, StagedJobOK, rows, locks, tx, writes, Progressing, BeginFinish,
                TargetsUpdated
  <1>7. VerdictOK'
    <2> SUFFICES ASSUME NEW v \in Workers, NEW t \in Targets, phase'[v] = "finish",
                        staged'[v][t] # "none", t[1] \notin wantJob'[v]
                 PROVE  /\ ~Progressing(v)' =>
                             /\ jobLock'[t[1]] = v
                             /\ AllTerminal(Seen(v), t[1])' => stagedJob'[v][t[1]] # "none"
                        /\ kind'[v] = "running" =>
                             job'[t[1]] = "running" \/ stagedJob'[v][t[1]] = "running"
      BY DEF VerdictOK, Progressing
    <2>1. CASE v # w
      BY <2>1, <1>s, TargetJob DEF IndInv, TypeOK, VerdictOK, rows, locks, tx, wants, writes,
                                   Progressing, BeginFinish
    <2>2. CASE v = w
      <3>1. wantJob'[w] = JobsToFinish(w) /\ t \in StagedTargets(w)
        BY <2>2 DEF BeginFinish, IndInv, TypeOK, writes, StagedTargets
      <3>2. Progressing(w)
        BY <2>2, <3>1 DEF JobsToFinish, JobsOf, Progressing
      <3>3. kind[w] = "running" => job[t[1]] # "queued"
        BY <2>2, <3>1 DEF JobsToFinish, JobsOf
      <3>4. job[t[1]] \in {"queued", "running"}
        BY <2>2, <3>1, ActiveTargetOpenJob DEF IndInv, StagedOK, StagedTargets
      <3> QED BY <2>2, <3>2, <3>3, <3>4 DEF BeginFinish, Progressing, rows
    <2> QED BY <2>1, <2>2
  <1> QED BY <1>2, <1>3, <1>4, <1>5, <1>6, <1>7 DEF IndInv

\* A job row is locked and its job judged.
LEMMA FinishJobInv ==
  ASSUME IndInv, NEW w \in Workers, NEW j \in Jobs, FinishJob(w, j)
  PROVE  IndInv'
  <1>1. UNCHANGED rows
    BY DEF FinishJob
  <1>2. PresenceOK' /\ JobCompletesWithLastTarget' /\ ClaimedTargetHasRunningJob'
    BY <1>1, RowsFrame DEF IndInv
  <1>s. \A v \in Workers, i \in Jobs : 
            /\ AllTerminal(Seen(v), i)' <=> AllTerminal(Seen(v), i)
            /\ StatusesOf(Seen(v), i)' = StatusesOf(Seen(v), i)
    BY SeenFrame DEF IndInv, TypeOK, rows, writes, FinishJob
  <1>a. AllTerminal(Seen(w), j) =>
            AggregateJobStatus(StatusesOf(Seen(w), j)) \in TerminalJobStatuses
    BY AllTerminalStatuses
  <1>b. ~Finished(j) /\ AllTerminal(Seen(w), j) => job[j] \in {"queued", "running"}
    <2> SUFFICES ASSUME ~Finished(j), AllTerminal(Seen(w), j)
                 PROVE  job[j] \in {"queued", "running"}
      OBVIOUS
    <2>1. PICK t \in Targets : t[1] = j
      BY ConstantsAssumption
    <2>2. Seen(w)[t] \in TerminalTargetStatuses
      BY <2>1 DEF AllTerminal, TargetsOf
    <2>3. target[t] # "absent"
      BY <2>2, StatusFacts DEF Seen, IndInv, StagedOK, TargetStatuses
    <2> QED BY <2>1, <2>3 DEF IndInv, PresenceOK, TypeOK, Finished, JobStatuses
  <1>c. kind[w] # "claim"
    BY DEF IndInv, WritesOK, FinishJob, Least
  <1>3. TypeOK'
    BY <1>a DEF IndInv, TypeOK, rows, locks, tx, wants, writes, FinishJob, JobStatuses
  <1>4. WritesOK'
    BY DEF IndInv, TypeOK, WritesOK, tx, wants, FinishJob
  <1>5. StagedOK'
    BY <1>c, TargetJob, NobodyIsNoWorker
    DEF IndInv, TypeOK, StagedOK, rows, locks, tx, writes, Progressing, FinishJob, JobRowFree
  <1>6. StagedJobOK'
    <2> SUFFICES ASSUME NEW v \in Workers, NEW i \in Jobs, stagedJob'[v][i] # "none"
                 PROVE  /\ kind'[v] # "idle"
                        /\ jobLock'[i] = v
                        /\ job'[i] \in {"queued", "running"}
                        /\ Progressing(v)' => stagedJob'[v][i] = "running"
                        /\ ~Progressing(v)' =>
                              /\ phase'[v] = "finish"
                              /\ AllTerminal(Seen(v), i)'
                              /\ stagedJob'[v][i]
                                    = AggregateJobStatus(StatusesOf(Seen(v), i)')
      BY DEF StagedJobOK
    <2>1. CASE v # w \/ i # j
      BY <2>1, <1>s, NobodyIsNoWorker
      DEF IndInv, TypeOK, StagedJobOK, rows, locks, tx, writes, Progressing, FinishJob, JobRowFree
    <2>2. CASE v = w /\ i = j
      <3>1. stagedJob'[w][j] = IF kind[w] = "running"
                               THEN IF job[j] = "queued" THEN "running" ELSE "none"
                               ELSE IF ~Finished(j) /\ AllTerminal(Seen(w), j)
                                    THEN AggregateJobStatus(StatusesOf(Seen(w), j))
                                    ELSE "none"
        BY DEF FinishJob, IndInv, TypeOK
      <3>2. /\ jobLock'[j] = w /\ kind' = kind /\ job' = job /\ phase' = phase
            /\ phase[w] = "finish" /\ kind[w] # "idle"
        BY DEF FinishJob, IndInv, TypeOK, WritesOK, tx, rows
      <3> QED BY <2>2, <3>1, <3>2, <1>b, <1>c, <1>s DEF Progressing
    <2> QED BY <2>1, <2>2
  <1>7. VerdictOK'
    <2> SUFFICES ASSUME NEW v \in Workers, NEW t \in Targets, phase'[v] = "finish",
                        staged'[v][t] # "none", t[1] \notin wantJob'[v]
                 PROVE  /\ ~Progressing(v)' =>
                             /\ jobLock'[t[1]] = v
                             /\ AllTerminal(Seen(v), t[1])' => stagedJob'[v][t[1]] # "none"
                        /\ kind'[v] = "running" =>
                             job'[t[1]] = "running" \/ stagedJob'[v][t[1]] = "running"
      BY DEF VerdictOK, Progressing
    <2>1. CASE v # w \/ t[1] # j
      BY <2>1, <1>s, TargetJob, NobodyIsNoWorker
      DEF IndInv, TypeOK, VerdictOK, rows, locks, tx, wants, writes, Progressing, FinishJob,
          JobRowFree
    <2>2. CASE v = w /\ t[1] = j
      <3>1. job[j] \in {"queued", "running"} /\ ~Finished(j)
        BY <2>2, ActiveTargetOpenJob, StatusFacts DEF IndInv, StagedOK, FinishJob, Finished
      <3>2. stagedJob'[w][j] = IF kind[w] = "running"
                               THEN IF job[j] = "queued" THEN "running" ELSE "none"
                               ELSE IF AllTerminal(Seen(w), j)
                                    THEN AggregateJobStatus(StatusesOf(Seen(w), j))
                                    ELSE "none"
        BY <3>1 DEF FinishJob, IndInv, TypeOK
      <3>3. jobLock'[j] = w /\ kind' = kind /\ job' = job
        BY DEF FinishJob, IndInv, TypeOK, tx, rows
      <3> QED BY <2>2, <3>1, <3>2, <3>3, <1>a, <1>s, StatusFacts DEF JobStatuses, Progressing
    <2> QED BY <2>1, <2>2
  <1> QED BY <1>2, <1>3, <1>4, <1>5, <1>6, <1>7 DEF IndInv

\* A claim takes due targets and their jobs.
LEMMA ClaimInv ==
  ASSUME IndInv, NEW w \in Workers, NEW T \in SUBSET Targets, NEW kept \in SUBSET Targets,
         Claim(w, T, kept)
  PROVE  IndInv'
  <1>1. UNCHANGED rows
    BY DEF Claim, Grab
  <1>2. PresenceOK' /\ JobCompletesWithLastTarget' /\ ClaimedTargetHasRunningJob'
    BY <1>1, RowsFrame DEF IndInv
  <1>s. \A v \in Workers, i \in Jobs : v # w =>
            /\ AllTerminal(Seen(v), i)' <=> AllTerminal(Seen(v), i)
            /\ StatusesOf(Seen(v), i)' = StatusesOf(Seen(v), i)
    BY SeenFrame DEF IndInv, TypeOK, rows, writes, Claim, Grab
  <1>i. kind[w] = "idle"
    BY DEF Claim, Grab
  <1>3. TypeOK'
    BY TargetJob DEF IndInv, TypeOK, rows, locks, tx, wants, writes, Claim, Grab, Due, PromotedJobs, JobsOf,
       ClientsOf, TargetStatuses, TerminalTargetStatuses, ActiveTargetStatuses, JobStatuses,
       TransactionKinds
  <1>4. WritesOK'
    BY DEF IndInv, TypeOK, WritesOK, Claim, Grab
  <1>5. StagedOK'
    BY <1>i, TargetJob, NobodyIsNoWorker
    DEF IndInv, TypeOK, StagedOK, rows, writes, Progressing, Claim, Grab, Due, PromotedJobs, JobsOf,
        ActiveTargetStatuses, TerminalTargetStatuses
  <1>6. StagedJobOK'
    BY <1>i, <1>s, TargetJob, NobodyIsNoWorker
    DEF IndInv, TypeOK, StagedJobOK, rows, writes, Progressing, Claim, Grab, Due, PromotedJobs, JobsOf
  <1>7. VerdictOK'
    BY <1>s, TargetJob, NobodyIsNoWorker
    DEF IndInv, TypeOK, VerdictOK, rows, locks, tx, wants, writes, Progressing, Claim, Grab, JobsOf
  <1> QED BY <1>2, <1>3, <1>4, <1>5, <1>6, <1>7 DEF IndInv

\* The deadline reconciler takes expired targets and their jobs.
LEMMA ExpireInv ==
  ASSUME IndInv, NEW w \in Workers, NEW T \in SUBSET Targets, NEW kept \in SUBSET Targets,
         Expire(w, T, kept)
  PROVE  IndInv'
  <1>1. UNCHANGED rows
    BY DEF Expire, Grab
  <1>2. PresenceOK' /\ JobCompletesWithLastTarget' /\ ClaimedTargetHasRunningJob'
    BY <1>1, RowsFrame DEF IndInv
  <1>s. \A v \in Workers, i \in Jobs : v # w =>
            /\ AllTerminal(Seen(v), i)' <=> AllTerminal(Seen(v), i)
            /\ StatusesOf(Seen(v), i)' = StatusesOf(Seen(v), i)
    BY SeenFrame DEF IndInv, TypeOK, rows, writes, Expire, Grab
  <1>i. kind[w] = "idle"
    BY DEF Expire, Grab
  <1>3. TypeOK'
    BY TargetJob DEF IndInv, TypeOK, rows, locks, tx, wants, writes, Expire, Grab, JobsOf,
       ClientsOf, TargetStatuses, TerminalTargetStatuses, ActiveTargetStatuses, JobStatuses,
       TransactionKinds
  <1>4. WritesOK'
    BY DEF IndInv, TypeOK, WritesOK, Expire, Grab
  <1>5. StagedOK'
    BY <1>i, TargetJob, NobodyIsNoWorker
    DEF IndInv, TypeOK, StagedOK, rows, writes, Progressing, Expire, Grab, JobsOf,
        ActiveTargetStatuses, TerminalTargetStatuses
  <1>6. StagedJobOK'
    BY <1>i, <1>s, TargetJob, NobodyIsNoWorker
    DEF IndInv, TypeOK, StagedJobOK, rows, writes, Progressing, Expire, Grab, JobsOf
  <1>7. VerdictOK'
    BY <1>s, TargetJob, NobodyIsNoWorker
    DEF IndInv, TypeOK, VerdictOK, rows, locks, tx, wants, writes, Progressing, Expire, Grab, JobsOf
  <1> QED BY <1>2, <1>3, <1>4, <1>5, <1>6, <1>7 DEF IndInv

\* A rollback: the locks of one worker are freed and its writes forgotten.
LEMMA RollbackInv ==
  ASSUME IndInv, NEW w \in Workers, Release(w), UNCHANGED rows
  PROVE  IndInv'
  <1>2. PresenceOK' /\ JobCompletesWithLastTarget' /\ ClaimedTargetHasRunningJob'
    BY RowsFrame DEF IndInv
  <1>3. TypeOK'
    BY DEF IndInv, TypeOK, rows, Release, NothingStaged, NoJobStaged
  <1>4. WritesOK'
    BY DEF IndInv, TypeOK, WritesOK, Release
  <1>5. StagedOK'
    BY TargetJob DEF IndInv, TypeOK, StagedOK, rows, Progressing, Release, NothingStaged
  <1>s. \A v \in Workers, i \in Jobs : v # w =>
            /\ AllTerminal(Seen(v), i)' <=> AllTerminal(Seen(v), i)
            /\ StatusesOf(Seen(v), i)' = StatusesOf(Seen(v), i)
    BY SeenFrame DEF IndInv, TypeOK, rows, Release
  <1>6. StagedJobOK'
    BY <1>s DEF IndInv, TypeOK, StagedJobOK, rows, Progressing, Release, NoJobStaged
  <1>7. VerdictOK'
    BY <1>s, TargetJob DEF IndInv, TypeOK, VerdictOK, rows, Progressing, Release
  <1> QED BY <1>2, <1>3, <1>4, <1>5, <1>6, <1>7 DEF IndInv

\* What transaction w commits for a job it has changed a target of: all targets
\* of the job are terminal in its view exactly when it completes the job.
LEMMA CommitVerdict ==
  ASSUME IndInv, NEW w \in Workers, Commit(w), NEW j \in Jobs
  PROVE  /\ job'[j] = IF stagedJob[w][j] = "none" THEN job[j] ELSE stagedJob[w][j]
         /\ target' = Seen(w)
         /\ job[j] # "absent" =>
              /\ job'[j] \in TerminalJobStatuses <=> AllTerminal(Seen(w), j)
              /\ job'[j] \in TerminalJobStatuses =>
                    job'[j] = AggregateJobStatus(StatusesOf(Seen(w), j))
  <1>1. job'[j] = IF stagedJob[w][j] = "none" THEN job[j] ELSE stagedJob[w][j]
    BY DEF Commit
  <1>2. target' = Seen(w)
    BY DEF Commit
  <1>3. ASSUME job[j] # "absent"
        PROVE  /\ job'[j] \in TerminalJobStatuses <=> AllTerminal(Seen(w), j)
               /\ job'[j] \in TerminalJobStatuses =>
                     job'[j] = AggregateJobStatus(StatusesOf(Seen(w), j))
    <2>1. CASE \E t \in TargetsOf(j) : staged[w][t] # "none"
      <3>1. PICK t \in TargetsOf(j) : staged[w][t] # "none"
        BY <2>1
      <3>2. t \in Targets /\ t[1] = j /\ target[t] \in ActiveTargetStatuses
        BY <3>1 DEF TargetsOf, IndInv, StagedOK
      <3>3. job[j] \in {"queued", "running"} /\ job[j] \notin TerminalJobStatuses
        BY <3>2, ActiveTargetOpenJob, StatusFacts
      <3>4. CASE Progressing(w)
        <4>1. Seen(w)[t] \in ActiveTargetStatuses
          BY <3>1, <3>2, <3>4 DEF Seen, IndInv, StagedOK, Progressing, ActiveTargetStatuses
        <4>2. ~AllTerminal(Seen(w), j)
          BY <3>1, <4>1, StatusFacts DEF AllTerminal
        <4>3. job'[j] \in {"queued", "running"}
          BY <1>1, <3>3, <3>4 DEF IndInv, StagedJobOK
        <4> QED BY <4>2, <4>3, StatusFacts
      <3>5. CASE ~Progressing(w)
        <4>1. AllTerminal(Seen(w), j) <=> stagedJob[w][j] # "none"
          BY <3>1, <3>2, <3>5 DEF Commit, IndInv, VerdictOK, StagedJobOK
        <4>2. stagedJob[w][j] # "none" =>
                 stagedJob[w][j] = AggregateJobStatus(StatusesOf(Seen(w), j))
          BY <3>5 DEF IndInv, StagedJobOK
        <4>3. AllTerminal(Seen(w), j) =>
                 AggregateJobStatus(StatusesOf(Seen(w), j)) \in TerminalJobStatuses
          BY AllTerminalStatuses
        <4> QED BY <1>1, <3>3, <4>1, <4>2, <4>3
      <3> QED BY <3>4, <3>5
    <2>2. CASE \A t \in TargetsOf(j) : staged[w][t] = "none"
      <3>1. /\ StatusesOf(Seen(w), j) = StatusesOf(target, j)
            /\ AllTerminal(Seen(w), j) <=> AllTerminal(target, j)
        <4>1. \A t \in TargetsOf(j) : Seen(w)[t] = target[t]
          BY <2>2 DEF Seen, TargetsOf
        <4> QED BY <4>1, SameStatuses
      <3>2. /\ job[j] \in TerminalJobStatuses <=> AllTerminal(target, j)
            /\ job[j] \in TerminalJobStatuses =>
                  job[j] = AggregateJobStatus(StatusesOf(target, j))
        BY <1>3 DEF IndInv, JobCompletesWithLastTarget, Finished
      <3>3. CASE stagedJob[w][j] = "none"
        BY <1>1, <3>1, <3>2, <3>3
      <3>4. CASE stagedJob[w][j] # "none"
        <4>1. job[j] \in {"queued", "running"} /\ ~AllTerminal(target, j)
          BY <3>2, <3>4, StatusFacts DEF IndInv, StagedJobOK
        <4>2. Progressing(w) /\ stagedJob[w][j] = "running"
          BY <3>1, <3>4, <4>1 DEF IndInv, StagedJobOK
        <4> QED BY <1>1, <3>1, <4>1, <4>2, StatusFacts
      <3> QED BY <3>3, <3>4
    <2> QED BY <2>1, <2>2
  <1> QED BY <1>1, <1>2, <1>3

\* What a commit of w leaves alone: rows locked by another worker, and the view
\* another worker has of a job whose row it has locked.
LEMMA CommitOthers ==
  ASSUME IndInv, NEW w \in Workers, Commit(w), NEW v \in Workers, v # w
  PROVE  /\ \A t \in Targets : targetLock[t] = v => target'[t] = target[t]
         /\ \A j \in Jobs : jobLock[j] = v => job'[j] = job[j]
         /\ kind'[v] = kind[v] /\ phase'[v] = phase[v] /\ wantJob'[v] = wantJob[v]
         /\ staged'[v] = staged[v] /\ stagedJob'[v] = stagedJob[v]
         /\ \A t \in Targets : targetLock[t] = v => targetLock'[t] = v
         /\ \A j \in Jobs : jobLock[j] = v => jobLock'[j] = v
         /\ \A j \in Jobs : jobLock[j] = v =>
               \/ \A t \in TargetsOf(j) : Seen(v)'[t] = Seen(v)[t]
               \/ ~AllTerminal(Seen(v), j) /\ ~AllTerminal(Seen(v), j)'
  <1>1. \A t \in Targets : targetLock[t] = v => target'[t] = target[t]
    BY DEF Commit, Seen, IndInv, StagedOK
  <1>2. \A j \in Jobs : jobLock[j] = v => job'[j] = job[j]
    BY DEF Commit, IndInv, StagedJobOK
  <1>3. /\ kind'[v] = kind[v] /\ phase'[v] = phase[v] /\ wantJob'[v] = wantJob[v]
        /\ staged'[v] = staged[v] /\ stagedJob'[v] = stagedJob[v]
        /\ \A t \in Targets : targetLock[t] = v => targetLock'[t] = v
        /\ \A j \in Jobs : jobLock[j] = v => jobLock'[j] = v
    BY DEF Commit, Release, IndInv, TypeOK
  <1>4. ASSUME NEW j \in Jobs, jobLock[j] = v
        PROVE  \/ \A t \in TargetsOf(j) : Seen(v)'[t] = Seen(v)[t]
               \/ ~AllTerminal(Seen(v), j) /\ ~AllTerminal(Seen(v), j)'
    <2>1. CASE \A t \in TargetsOf(j) : staged[w][t] = "none"
      BY <2>1, <1>3 DEF Commit, Seen, TargetsOf
    <2>2. CASE \E t \in TargetsOf(j) : staged[w][t] # "none"
      <3>1. PICK t \in TargetsOf(j) : staged[w][t] # "none"
        BY <2>2
      <3>2. t \in Targets /\ t[1] = j
        BY <3>1 DEF TargetsOf
      <3>3. Progressing(w)
        BY <1>4, <3>1, <3>2 DEF Commit, IndInv, VerdictOK
      <3>4. staged[w][t] \in ActiveTargetStatuses /\ target[t] \in ActiveTargetStatuses
        BY <3>1, <3>2, <3>3 DEF IndInv, StagedOK, Progressing, ActiveTargetStatuses
      <3>5. staged[v][t] = "none"
        BY <3>1, <3>2 DEF IndInv, StagedOK
      <3>6. Seen(v)[t] = target[t] /\ Seen(v)'[t] = staged[w][t]
        BY <1>3, <3>1, <3>2, <3>5 DEF Seen, Commit
      <3> QED BY <3>1, <3>4, <3>6, StatusFacts DEF AllTerminal
    <2> QED BY <2>1, <2>2
  <1> QED BY <1>1, <1>2, <1>3, <1>4

\* A commit keeps the invariant.
LEMMA CommitInv ==
  ASSUME IndInv, NEW w \in Workers, Commit(w)
  PROVE  IndInv'
  <1>w. /\ staged'[w] = NothingStaged /\ stagedJob'[w] = NoJobStaged
        /\ kind'[w] = "idle" /\ phase'[w] = "idle" /\ wantJob'[w] = {}
    BY DEF Commit, Release, IndInv, TypeOK
  <1>j. \A j \in Jobs :
          /\ job'[j] = IF stagedJob[w][j] = "none" THEN job[j] ELSE stagedJob[w][j]
          /\ stagedJob[w][j] # "none" => job[j] \in {"queued", "running"}
    BY DEF Commit, IndInv, StagedJobOK
  <1>3. TypeOK'
    <2>1. /\ target' \in [Targets -> TargetStatuses \cup {"absent"}]
          /\ job' \in [Jobs -> JobStatuses \cup {"absent"}]
          /\ cancelRequested' \in SUBSET Targets /\ canceledJobs' \in SUBSET Jobs
      BY DEF Commit, Seen, IndInv, TypeOK
    <2>2. /\ targetEvent' \in [Targets -> TerminalTargetStatuses \cup {"none"}]
          /\ jobEvent' \in [Jobs -> TerminalJobStatuses \cup {"none"}]
      BY DEF Commit, EventAfter, IndInv, TypeOK
    <2>3. /\ targetLock' \in [Targets -> Workers \cup {NoWorker}]
          /\ metricLock' \in [Clients -> Workers \cup {NoWorker}]
          /\ jobLock' \in [Jobs -> Workers \cup {NoWorker}]
      BY DEF Commit, Release, IndInv, TypeOK
    <2> QED BY <2>1, <2>2, <2>3
            DEF Commit, Release, IndInv, TypeOK, NothingStaged, NoJobStaged
  <1>4. WritesOK'
    BY <1>w, CommitOthers DEF IndInv, TypeOK, WritesOK, Commit, Release
  <1>5. StagedOK'
    BY <1>w, CommitOthers, TargetJob DEF IndInv, StagedOK, Progressing, NothingStaged
  <1>6. StagedJobOK'
    <2> SUFFICES ASSUME NEW v \in Workers, NEW i \in Jobs, stagedJob'[v][i] # "none"
                 PROVE  /\ kind'[v] # "idle"
                        /\ jobLock'[i] = v
                        /\ job'[i] \in {"queued", "running"}
                        /\ Progressing(v)' => stagedJob'[v][i] = "running"
                        /\ ~Progressing(v)' =>
                              /\ phase'[v] = "finish"
                              /\ AllTerminal(Seen(v), i)'
                              /\ stagedJob'[v][i]
                                    = AggregateJobStatus(StatusesOf(Seen(v), i)')
      BY DEF StagedJobOK
    <2>1. v # w /\ stagedJob[v][i] # "none" /\ jobLock[i] = v
      BY <1>w, CommitOthers DEF NoJobStaged, IndInv, StagedJobOK
    <2>2. ASSUME ~Progressing(v)
          PROVE  /\ AllTerminal(Seen(v), i)' <=> AllTerminal(Seen(v), i)
                 /\ StatusesOf(Seen(v), i)' = StatusesOf(Seen(v), i)
      <3>1. AllTerminal(Seen(v), i)
        BY <2>1, <2>2 DEF IndInv, StagedJobOK
      <3>2. \A t \in TargetsOf(i) : Seen(v)'[t] = Seen(v)[t]
        BY <2>1, <3>1, CommitOthers
      <3> QED BY <3>2 DEF AllTerminal, StatusesOf
    <2> QED BY <2>1, <2>2, CommitOthers DEF IndInv, StagedJobOK, Progressing
  <1>7. VerdictOK'
    <2> SUFFICES ASSUME NEW v \in Workers, NEW t \in Targets, phase'[v] = "finish",
                        staged'[v][t] # "none", t[1] \notin wantJob'[v]
                 PROVE  /\ ~Progressing(v)' =>
                             /\ jobLock'[t[1]] = v
                             /\ AllTerminal(Seen(v), t[1])' => stagedJob'[v][t[1]] # "none"
                        /\ kind'[v] = "running" =>
                             job'[t[1]] = "running" \/ stagedJob'[v][t[1]] = "running"
      BY DEF VerdictOK, Progressing
    <2>1. /\ v # w /\ phase[v] = "finish" /\ staged[v][t] # "none" /\ t[1] \notin wantJob[v]
          /\ t[1] \in Jobs /\ kind'[v] = kind[v] /\ stagedJob'[v] = stagedJob[v]
      BY <1>w, CommitOthers, TargetJob
    <2>2. ASSUME ~Progressing(v)
          PROVE  /\ jobLock'[t[1]] = v
                 /\ AllTerminal(Seen(v), t[1])' => stagedJob'[v][t[1]] # "none"
      <3>1. jobLock[t[1]] = v
        BY <2>1, <2>2 DEF IndInv, VerdictOK
      <3>2. AllTerminal(Seen(v), t[1])' => AllTerminal(Seen(v), t[1])
        BY <2>1, <3>1, CommitOthers DEF AllTerminal
      <3> QED BY <2>1, <2>2, <3>1, <3>2, CommitOthers DEF IndInv, VerdictOK
    <2>3. ASSUME kind[v] = "running", job[t[1]] = "running"
          PROVE  job'[t[1]] = "running"
      <3>1. target[t] \in ActiveTargetStatuses /\ staged[w][t] = "none"
        BY <2>1 DEF IndInv, StagedOK
      <3>2. ~AllTerminal(Seen(w), t[1])
        BY <2>1, <3>1, StatusFacts DEF Seen, AllTerminal, TargetsOf
      <3> QED BY <1>j, <2>1, <2>3, <3>2 DEF IndInv, StagedJobOK
    <2> QED BY <2>1, <2>2, <2>3 DEF IndInv, VerdictOK, Progressing
  <1>8. PresenceOK'
    <2>1. \A t \in Targets : target'[t] = "absent" <=> target[t] = "absent"
      BY StatusFacts DEF Commit, Seen, IndInv, StagedOK, TypeOK, TargetStatuses
    <2>2. \A j \in Jobs : job'[j] = "absent" <=> job[j] = "absent"
      <3> SUFFICES ASSUME NEW j \in Jobs
                   PROVE  job'[j] = "absent" <=> job[j] = "absent"
        OBVIOUS
      <3>1. stagedJob[w][j] \in JobStatuses \cup {"none"}
        BY DEF IndInv, TypeOK
      <3> QED BY <1>j, <3>1, StatusFacts
    <2> QED BY <2>1, <2>2, TargetJob DEF IndInv, PresenceOK
  <1>9. JobCompletesWithLastTarget'
    <2> SUFFICES ASSUME NEW j \in Jobs, job'[j] # "absent"
                 PROVE  /\ Finished(j)' <=> AllTerminal(target', j)
                        /\ Finished(j)' => job'[j] = AggregateJobStatus(StatusesOf(target', j))
      BY DEF JobCompletesWithLastTarget, AllTerminal, StatusesOf
    <2>1. job[j] # "absent"
      BY <1>j, StatusFacts DEF IndInv, TypeOK
    <2> QED BY <2>1, CommitVerdict DEF Finished
  <1>10. ClaimedTargetHasRunningJob'
    <2> SUFFICES ASSUME NEW t \in Targets, target'[t] \in {"dispatching", "running"}
                 PROVE  job'[t[1]] = "running"
      BY DEF ClaimedTargetHasRunningJob
    <2>0. t[1] \in Jobs /\ Seen(w)[t] \in {"dispatching", "running"}
      BY TargetJob DEF Commit
    <2>1. job'[t[1]] \notin TerminalJobStatuses
      <3>1. ~AllTerminal(Seen(w), t[1])
        BY <2>0 DEF AllTerminal, TargetsOf, TerminalTargetStatuses
      <3>2. job[t[1]] # "absent"
        BY <2>0, StatusFacts DEF Seen, IndInv, PresenceOK, StagedOK, TargetStatuses
      <3> QED BY <2>0, <3>1, <3>2, CommitVerdict
    <2>2. CASE staged[w][t] = "none"
      <3>1. job[t[1]] = "running"
        BY <2>0, <2>2 DEF Seen, IndInv, ClaimedTargetHasRunningJob
      <3> QED BY <1>j, <2>0, <2>1, <3>1, AllTerminalStatuses DEF IndInv, StagedJobOK
    <2>3. CASE staged[w][t] # "none"
      <3>1. Progressing(w)
        BY <2>0, <2>3 DEF Seen, IndInv, StagedOK, TerminalTargetStatuses
      <3>2. job[t[1]] = "running" \/ stagedJob[w][t[1]] = "running"
        BY <2>3, <3>1 DEF IndInv, StagedOK, VerdictOK, Commit, Progressing
      <3> QED BY <1>j, <2>0, <3>1, <3>2 DEF IndInv, StagedJobOK
    <2> QED BY <2>2, <2>3
  <1> QED BY <1>3, <1>4, <1>5, <1>6, <1>7, <1>8, <1>9, <1>10 DEF IndInv

\* A new job: no transaction has touched it, and the other jobs are unchanged.
LEMMA CreateJobInv ==
  ASSUME IndInv, NEW j \in Jobs, NEW skipped \in SUBSET TargetsOf(j), CreateJob(j, skipped)
  PROVE  IndInv'
  <1> DEFINE inserted == [t \in Targets |->
                            IF t[1] # j THEN target[t]
                            ELSE IF t \in skipped THEN "skipped" ELSE "queued"]
             done == AllTerminal(inserted, j)
             result == AggregateJobStatus(StatusesOf(inserted, j))
  <1>1. /\ job[j] = "absent"
        /\ target' = inserted
        /\ job' = [job EXCEPT ![j] = IF done THEN result ELSE "queued"]
        /\ targetEvent' = [t \in Targets |->
                              IF t \in skipped THEN "skipped" ELSE targetEvent[t]]
        /\ jobEvent' = [jobEvent EXCEPT ![j] = IF done THEN result ELSE "none"]
        /\ UNCHANGED <<cancelRequested, canceledJobs, locks, tx, wants, writes>>
    BY DEF CreateJob
  <1>2. done => result \in TerminalJobStatuses
    BY AllTerminalStatuses
  <1>3. TypeOK'
    <2>1. \A t \in Targets : inserted[t] \in TargetStatuses \cup {"absent"}
      BY DEF IndInv, TypeOK, TargetStatuses, ActiveTargetStatuses, TerminalTargetStatuses
    <2>2. target' \in [Targets -> TargetStatuses \cup {"absent"}]
      BY <1>1, <2>1
    <2>3. (IF done THEN result ELSE "queued") \in JobStatuses
      BY <1>2 DEF JobStatuses
    <2>4. (IF done THEN result ELSE "none") \in TerminalJobStatuses \cup {"none"}
      BY <1>2
    <2> HIDE DEF done, result, inserted
    <2>5. /\ job' \in [Jobs -> JobStatuses \cup {"absent"}]
          /\ jobEvent' \in [Jobs -> TerminalJobStatuses \cup {"none"}]
      BY <1>1, <2>3, <2>4 DEF IndInv, TypeOK
    <2>6. targetEvent' \in [Targets -> TerminalTargetStatuses \cup {"none"}]
      BY <1>1 DEF IndInv, TypeOK, TerminalTargetStatuses
    <2> QED BY <1>1, <2>2, <2>5, <2>6 DEF IndInv, TypeOK, locks, tx, wants, writes
  <1>4. \A w \in Workers, t \in Targets : staged[w][t] # "none" => t[1] # j
    BY <1>1, StatusFacts, TargetJob DEF IndInv, StagedOK, PresenceOK, TargetStatuses
  <1>5. \A w \in Workers : stagedJob[w][j] = "none"
    BY <1>1 DEF IndInv, StagedJobOK
  <1>6. /\ \A t \in Targets : t[1] # j => target'[t] = target[t]
        /\ \A i \in Jobs : i # j => job'[i] = job[i]
    BY <1>1 DEF IndInv, TypeOK
  <1>s. \A i \in Jobs, w \in Workers : i # j =>
            /\ AllTerminal(Seen(w), i)' <=> AllTerminal(Seen(w), i)
            /\ StatusesOf(Seen(w), i)' = StatusesOf(Seen(w), i)
    BY <1>1, <1>6 DEF AllTerminal, StatusesOf, Seen, TargetsOf, writes
  <1>r. \A i \in Jobs : i # j =>
            /\ AllTerminal(target, i)' <=> AllTerminal(target, i)
            /\ StatusesOf(target, i)' = StatusesOf(target, i)
    BY <1>6 DEF AllTerminal, StatusesOf, TargetsOf
  <1> HIDE DEF done, result, inserted
  <1>7. WritesOK'
    BY <1>1 DEF IndInv, WritesOK, tx, wants
  <1>8. StagedOK'
    BY <1>1, <1>4, <1>6, TargetJob DEF IndInv, StagedOK, Progressing, tx, locks, writes
  <1>9. StagedJobOK'
    BY <1>1, <1>5, <1>6, <1>s DEF IndInv, StagedJobOK, Progressing, tx, locks, writes
  <1>10. VerdictOK'
    BY <1>1, <1>4, <1>6, <1>s, TargetJob
    DEF IndInv, VerdictOK, Progressing, tx, wants, locks, writes
  <1>11. PresenceOK' /\ ClaimedTargetHasRunningJob'
    <2>1. \A t \in Targets : t[1] = j => target'[t] \in {"queued", "skipped"}
      BY <1>1 DEF inserted
    <2>2. job'[j] \in JobStatuses
      BY <1>1, <1>2 DEF IndInv, TypeOK, JobStatuses
    <2> QED BY <1>6, <2>1, <2>2, TargetJob, StatusFacts
            DEF IndInv, PresenceOK, ClaimedTargetHasRunningJob
  <1>12. JobCompletesWithLastTarget'
    <2> SUFFICES ASSUME NEW i \in Jobs, job'[i] # "absent"
                 PROVE  /\ Finished(i)' <=> AllTerminal(target, i)'
                        /\ Finished(i)' => job'[i] = AggregateJobStatus(StatusesOf(target, i)')
      BY DEF JobCompletesWithLastTarget
    <2>1. CASE i # j
      BY <1>6, <1>r, <2>1 DEF IndInv, JobCompletesWithLastTarget, Finished
    <2>2. CASE i = j
      <3>1. job'[j] = IF done THEN result ELSE "queued"
        BY <1>1 DEF IndInv, TypeOK
      <3>2. (AllTerminal(target, j)' <=> done) /\ AggregateJobStatus(StatusesOf(target, j)') = result
        BY <1>1 DEF done, result, AllTerminal, StatusesOf
      <3> QED BY <1>2, <2>2, <3>1, <3>2, StatusFacts DEF Finished
    <2> QED BY <2>1, <2>2
  <1> QED BY <1>3, <1>7, <1>8, <1>9, <1>10, <1>11, <1>12 DEF IndInv

\* Every way to begin a transaction keeps the invariant.
LEMMA BeginTransactionInv ==
  ASSUME IndInv, NEW w \in Workers, BeginTransaction(w)
  PROVE  IndInv'
  <1>t. /\ ActiveTargetStatuses \subseteq TargetStatuses
        /\ TerminalTargetStatuses \subseteq TargetStatuses
        /\ {"agent_lost", "skipped", "canceled"} \subseteq TerminalTargetStatuses
        /\ "running" \in TargetStatuses
        /\ cancels \in [Workers -> SUBSET Jobs]
        /\ leaving \in [Workers -> SUBSET Clients]
    BY DEF TargetStatuses, TerminalTargetStatuses, ActiveTargetStatuses, IndInv, TypeOK
  <1>l. kind[w] = "idle" => leaving[w] = {}
    BY DEF IndInv, WritesOK
  <1>k. {"result", "running", "lost", "hello", "skip", "skip_unstarted", "cancel"}
            \subseteq TransactionKinds \ {"claim", "expire"}
    BY DEF TransactionKinds
  <1>1. ASSUME NEW t \in Targets, NEW status \in ResultStatuses, BeginResult(w, t, status)
        PROVE  IndInv'
    <2>1. status \in TerminalTargetStatuses
      BY ConstantsAssumption
    <2>2. Begin(w, "result", {t}, status) /\ UNCHANGED <<cancels, leaving>>
      BY <1>1 DEF BeginResult
    <2> QED BY <1>t, <1>k, <1>l, <2>1, <2>2, BeginInv DEF Begin
  <1>2. ASSUME NEW t \in Targets, BeginRunning(w, t)
        PROVE  IndInv'
    <2>1. Begin(w, "running", {t}, "running") /\ UNCHANGED <<cancels, leaving>>
      BY <1>2 DEF BeginRunning
    <2> QED BY <1>t, <1>k, <1>l, <2>1, BeginInv DEF Begin
  <1>3. ASSUME NEW c \in Clients, NEW removed \in BOOLEAN, BeginAgentLost(w, c, removed)
        PROVE  IndInv'
    <2>1. /\ Begin(w, "lost", Found("lost", TargetsAt(c)), "agent_lost") /\ UNCHANGED cancels
          /\ leaving' = [leaving EXCEPT ![w] = IF removed THEN {c} ELSE {}]
      BY <1>3 DEF BeginAgentLost
    <2>2. Found("lost", TargetsAt(c)) \in SUBSET Targets
      BY DEF Found, TargetsAt
    <2>3. /\ leaving' \in [Workers -> SUBSET Clients]
          /\ \A v \in Workers \ {w} : leaving'[v] = leaving[v]
      BY <1>t, <2>1
    <2> QED BY <1>t, <1>k, <2>1, <2>2, <2>3, BeginInv DEF Begin
  <1>4. ASSUME NEW c \in Clients, BeginHelloSweep(w, c)
        PROVE  IndInv'
    <2>1. Begin(w, "hello", Found("hello", TargetsAt(c)), "agent_lost") /\ UNCHANGED <<cancels, leaving>>
      BY <1>4 DEF BeginHelloSweep
    <2>2. Found("hello", TargetsAt(c)) \in SUBSET Targets
      BY DEF Found, TargetsAt
    <2> QED BY <1>t, <1>k, <1>l, <2>1, <2>2, BeginInv DEF Begin
  <1>5. ASSUME NEW c \in Clients, NEW k \in {"skip", "skip_unstarted"},
               NEW protected \in SUBSET TargetsAt(c), BeginSkip(w, c, k, protected)
        PROVE  IndInv'
    <2>1. Begin(w, k, Found(k, TargetsAt(c)) \ protected, "skipped") /\ UNCHANGED <<cancels, leaving>>
      BY <1>5 DEF BeginSkip
    <2>2. Found(k, TargetsAt(c)) \ protected \in SUBSET Targets
      BY DEF Found, TargetsAt
    <2> QED BY <1>t, <1>k, <1>l, <2>1, <2>2, BeginInv DEF Begin
  <1>6. ASSUME NEW j \in Jobs, BeginCancel(w, j)
        PROVE  IndInv'
    <2>1. /\ Begin(w, "cancel", Found("cancel", TargetsOf(j)), "canceled")
          /\ cancels' = [cancels EXCEPT ![w] = {j}] /\ UNCHANGED leaving
      BY <1>6 DEF BeginCancel
    <2>2. Found("cancel", TargetsOf(j)) \in SUBSET Targets
      BY DEF Found, TargetsOf
    <2>3. cancels' \in [Workers -> SUBSET Jobs]
      BY <1>t, <2>1
    <2> QED BY <1>t, <1>k, <1>l, <2>1, <2>2, <2>3, BeginInv DEF Begin
  <1> QED BY <1>1, <1>2, <1>3, <1>4, <1>5, <1>6, ClaimInv, ExpireInv DEF BeginTransaction

\* Stuttering.
LEMMA StutterInv ==
  ASSUME IndInv, UNCHANGED vars
  PROVE  IndInv'
  <1>1. PresenceOK' /\ JobCompletesWithLastTarget' /\ ClaimedTargetHasRunningJob'
    BY RowsFrame DEF IndInv, vars
  <1>2. TypeOK' /\ WritesOK'
    BY DEF IndInv, TypeOK, WritesOK, vars, rows, locks, tx, wants, writes
  <1>3. StagedOK'
    BY DEF IndInv, StagedOK, Progressing, vars, rows, locks, tx, wants, writes
  <1>s. \A v \in Workers, i \in Jobs :
            /\ AllTerminal(Seen(v), i)' <=> AllTerminal(Seen(v), i)
            /\ StatusesOf(Seen(v), i)' = StatusesOf(Seen(v), i)
    BY SeenFrame DEF vars, rows, writes
  <1>4. StagedJobOK'
    BY <1>s DEF IndInv, StagedJobOK, Progressing, vars, rows, locks, tx, wants, writes
  <1>5. VerdictOK'
    BY <1>s, TargetJob DEF IndInv, VerdictOK, Progressing, vars, rows, locks, tx, wants, writes
  <1> QED BY <1>1, <1>2, <1>3, <1>4, <1>5 DEF IndInv

\* Every step keeps the invariant.
LEMMA NextInv == IndInv /\ [Next]_vars => IndInv'
  <1> SUFFICES ASSUME IndInv, [Next]_vars
               PROVE  IndInv'
    OBVIOUS
  <1>1. ASSUME NEW w \in Workers, Step(w)
        PROVE  IndInv'
    BY <1>1, LockTargetInv, FlagTargetInv, LockMetricInv, LockJoinedJobInv, FinishJobInv,
       InsertEventInv, UpdateTargetsInv, BeginFlaggingInv, SkipUnstartedInv, BeginFinishInv,
       CommitInv DEF Step
  <1>2. ASSUME NEW w \in Workers, Abort(w) \/ DeadlockVictim(w)
        PROVE  IndInv'
    BY <1>2, RollbackInv DEF Abort, DeadlockVictim
  <1> QED BY <1>1, <1>2, BeginTransactionInv, CreateJobInv, StutterInv DEF Next

\* The inductive invariant holds in every reachable state.
THEOREM Inductive == Spec => []IndInv
  BY InitInv, NextInv, PTL DEF Spec

\* Type correctness of the job tables and the transactions over them.
THEOREM TypeCorrect == Spec => []TypeOK
  <1>1. IndInv => TypeOK
    BY DEF IndInv
  <1> QED BY <1>1, Inductive, PTL

\* A job is terminal exactly when all its targets are, with their aggregate,
\* whatever transactions interleave
\* (finish_job_in_tx_if_all_targets_terminal_and_enqueue_event).
THEOREM CompletionCorrect == Spec => []JobCompletesWithLastTarget
  <1>1. IndInv => JobCompletesWithLastTarget
    BY DEF IndInv
  <1> QED BY <1>1, Inductive, PTL

\* A dispatched target's job has been promoted to running
\* (claim_due_job_targets, mark_job_target_running_if_dispatch_attempt).
THEOREM PromotionCorrect == Spec => []ClaimedTargetHasRunningJob
  <1>1. IndInv => ClaimedTargetHasRunningJob
    BY DEF IndInv
  <1> QED BY <1>1, Inductive, PTL

------------------------------------------------------------------------------
(* Only the creation of a job and a commit change what others can read. *)

LEMMA VisibleSteps ==
  ASSUME [Next]_vars
  PROVE  \/ UNCHANGED rows
         \/ \E j \in Jobs : \E skipped \in SUBSET TargetsOf(j) : CreateJob(j, skipped)
         \/ \E w \in Workers : Commit(w)
  <1>1. ASSUME NEW w \in Workers, BeginTransaction(w)
        PROVE  UNCHANGED rows
    BY <1>1 DEF BeginTransaction, BeginResult, BeginRunning, BeginAgentLost, BeginHelloSweep,
                BeginSkip, BeginCancel, Begin, Claim, Expire, Grab
  <1>2. ASSUME NEW w \in Workers, Step(w)
        PROVE  UNCHANGED rows \/ Commit(w)
    BY <1>2 DEF Step, LockTarget, FlagTarget, LockMetric, LockJoinedJob, FinishJob,
                InsertEvent, UpdateTargets, BeginFlagging, SkipUnstarted, BeginFinish
  <1>3. ASSUME NEW w \in Workers, Abort(w) \/ DeadlockVictim(w)
        PROVE  UNCHANGED rows
    BY <1>3 DEF Abort, DeadlockVictim
  <1>4. ASSUME UNCHANGED vars
        PROVE  UNCHANGED rows
    BY <1>4 DEF vars
  <1> QED BY <1>1, <1>2, <1>3, <1>4 DEF Next

\* The two outboxes agree with the rows after every step.
LEMMA EventsStep ==
  ASSUME IndInv, EventsTellTheOutcome, [Next]_vars
  PROVE  EventsTellTheOutcome'
  <1>1. CASE UNCHANGED rows
    BY <1>1 DEF EventsTellTheOutcome, rows, Finished
  <1>2. ASSUME NEW w \in Workers, Commit(w)
        PROVE  EventsTellTheOutcome'
    <2>1. ASSUME NEW t \in Targets
          PROVE  targetEvent'[t] = IF target'[t] \in TerminalTargetStatuses THEN target'[t]
                                                                           ELSE "none"
      <3>1. /\ target'[t] = IF staged[w][t] = "none" THEN target[t] ELSE staged[w][t]
            /\ targetEvent'[t] = EventAfter(targetEvent[t], staged[w][t], TerminalTargetStatuses)
        BY <1>2 DEF Commit, Seen
      <3>2. staged[w][t] # "none" => targetEvent[t] = "none"
        BY StatusFacts DEF IndInv, StagedOK, EventsTellTheOutcome
      <3> QED BY <3>1, <3>2, StatusFacts DEF EventAfter, EventsTellTheOutcome, TargetStatuses
    <2>2. ASSUME NEW j \in Jobs
          PROVE  jobEvent'[j] = IF Finished(j)' THEN job'[j] ELSE "none"
      <3>1. /\ job'[j] = IF stagedJob[w][j] = "none" THEN job[j] ELSE stagedJob[w][j]
            /\ jobEvent'[j] = EventAfter(jobEvent[j], stagedJob[w][j], TerminalJobStatuses)
        BY <1>2 DEF Commit
      <3>2. stagedJob[w][j] # "none" => jobEvent[j] = "none"
        BY StatusFacts DEF IndInv, StagedJobOK, EventsTellTheOutcome, Finished
      <3> QED BY <3>1, <3>2, StatusFacts DEF EventAfter, EventsTellTheOutcome, JobStatuses, Finished
    <2> QED BY <2>1, <2>2 DEF EventsTellTheOutcome
  <1>3. ASSUME NEW j \in Jobs, NEW skipped \in SUBSET TargetsOf(j), CreateJob(j, skipped)
        PROVE  EventsTellTheOutcome'
    <2> DEFINE inserted == [t \in Targets |->
                              IF t[1] # j THEN target[t]
                              ELSE IF t \in skipped THEN "skipped" ELSE "queued"]
               done == AllTerminal(inserted, j)
               result == AggregateJobStatus(StatusesOf(inserted, j))
    <2>1. /\ job[j] = "absent"
          /\ target' = inserted
          /\ job' = [job EXCEPT ![j] = IF done THEN result ELSE "queued"]
          /\ targetEvent' = [t \in Targets |->
                                IF t \in skipped THEN "skipped" ELSE targetEvent[t]]
          /\ jobEvent' = [jobEvent EXCEPT ![j] = IF done THEN result ELSE "none"]
      BY <1>3 DEF CreateJob
    <2>2. done => result \in TerminalJobStatuses
      BY AllTerminalStatuses
    <2>3. ASSUME NEW t \in Targets
          PROVE  targetEvent'[t] = IF target'[t] \in TerminalTargetStatuses THEN target'[t]
                                                                           ELSE "none"
      <3>1. CASE t[1] # j
        BY <2>1, <3>1 DEF TargetsOf, EventsTellTheOutcome
      <3>2. CASE t[1] = j
        <4>1. target[t] = "absent" /\ targetEvent[t] = "none"
          BY <2>1, <3>2, StatusFacts DEF IndInv, PresenceOK, EventsTellTheOutcome, TargetStatuses
        <4> QED BY <2>1, <3>2, <4>1 DEF TerminalTargetStatuses
      <3> QED BY <3>1, <3>2
    <2> HIDE DEF inserted, done, result
    <2>4. \A i \in Jobs : jobEvent'[i] = IF Finished(i)' THEN job'[i] ELSE "none"
      BY <2>1, <2>2, StatusFacts DEF IndInv, TypeOK, EventsTellTheOutcome, Finished
    <2> QED BY <2>3, <2>4 DEF EventsTellTheOutcome
  <1> QED BY <1>1, <1>2, <1>3, VisibleSteps

\* Exactly the terminal targets and jobs have a terminal event, with the status
\* they ended with (enqueue_target_terminal_event_in_tx and
\* enqueue_job_terminal_event_in_tx inside the transactions of the job tables).
THEOREM EventsCorrect == Spec => []EventsTellTheOutcome
  <1>1. Init => EventsTellTheOutcome
    BY DEF Init, EventsTellTheOutcome, Finished, TerminalTargetStatuses, TerminalJobStatuses
  <1>2. IndInv /\ EventsTellTheOutcome /\ [Next]_vars => EventsTellTheOutcome'
    BY EventsStep
  <1> QED BY <1>1, <1>2, Inductive, PTL DEF Spec

------------------------------------------------------------------------------
(* Refinement: the committed rows behave as AbstractJobs promises. *)

\* Both modules use the vocabulary of JobStatus ...
LEMMA SameVocabulary ==
  /\ Abstract!ActiveTargetStatuses = ActiveTargetStatuses
  /\ Abstract!TerminalTargetStatuses = TerminalTargetStatuses
  /\ Abstract!TargetStatuses = TargetStatuses
  /\ \A S : Abstract!AggregateJobStatus(S) = AggregateJobStatus(S)
  BY DEF Abstract!ActiveTargetStatuses, ActiveTargetStatuses, Abstract!TerminalTargetStatuses,
         TerminalTargetStatuses, Abstract!TargetStatuses, TargetStatuses,
         Abstract!AggregateJobStatus, AggregateJobStatus

\* ... and read the rows in the same way.
LEMMA SameReading ==
  ASSUME NEW f, NEW j
  PROVE  /\ Abstract!AllTerminal(f, j) <=> AllTerminal(f, j)
         /\ Abstract!StatusesOf(f, j) = StatusesOf(f, j)
  BY SameVocabulary DEF Abstract!TargetsOf, TargetsOf, Abstract!AllTerminal, AllTerminal,
         Abstract!StatusesOf, StatusesOf

\* A commit moves active targets forward, and every job with its targets.
LEMMA CommitAdvances ==
  ASSUME IndInv, NEW w \in Workers, Commit(w)
  PROVE  Abstract!Advance
  <1>1. target' = [t \in Targets |-> target'[t]] /\ job' = [j \in Jobs |-> job'[j]]
    BY DEF Commit, Seen
  <1>2. ASSUME NEW t \in Targets
        PROVE  IF target[t] \in ActiveTargetStatuses
               THEN target'[t] \in Abstract!Forward(target[t])
               ELSE target'[t] = target[t]
    <2>1. target'[t] = IF staged[w][t] = "none" THEN target[t] ELSE staged[w][t]
      BY DEF Commit, Seen
    <2>2. CASE staged[w][t] = "none"
      BY <2>1, <2>2, SameVocabulary DEF Abstract!Forward, ActiveTargetStatuses,
                        TerminalTargetStatuses, TargetStatuses
    <2>3. CASE staged[w][t] # "none"
      <3>1. /\ target[t] \in ActiveTargetStatuses
            /\ kind[w] = "claim" => /\ staged[w][t] = "dispatching"
                                    /\ target[t] \in {"queued", "dispatching"}
            /\ kind[w] = "running" => staged[w][t] = "running"
            /\ ~Progressing(w) => staged[w][t] \in TerminalTargetStatuses
        BY <2>3 DEF IndInv, StagedOK
      <3> QED BY <2>1, <2>3, <3>1, SameVocabulary
              DEF Progressing, Abstract!Forward, ActiveTargetStatuses,
                  TerminalTargetStatuses, TargetStatuses
    <2> QED BY <2>2, <2>3
  <1>3. ASSUME NEW j \in Jobs
        PROVE  IF job[j] \in {"queued", "running"}
               THEN /\ Abstract!JobRowMatches(job'[j], target', j)
                    /\ job'[j] = "queued" => job[j] = "queued"
               ELSE job'[j] = job[j]
    <2>1. /\ job'[j] = IF stagedJob[w][j] = "none" THEN job[j] ELSE stagedJob[w][j]
          /\ stagedJob[w][j] # "none" => job[j] \in {"queued", "running"}
      BY DEF Commit, IndInv, StagedJobOK
    <2>2. CASE job[j] \notin {"queued", "running"}
      BY <2>1, <2>2
    <2>3. CASE job[j] \in {"queued", "running"}
      <3>1. /\ job'[j] \in TerminalJobStatuses <=> AllTerminal(target', j)
            /\ job'[j] \in TerminalJobStatuses =>
                  job'[j] = AggregateJobStatus(StatusesOf(target', j))
        BY <2>3, CommitVerdict
      <3>2. job'[j] \in JobStatuses
        BY <2>1, <2>3 DEF IndInv, TypeOK, JobStatuses
      <3>3. job'[j] = "queued" => stagedJob[w][j] = "none"
        <4>1. CASE Progressing(w)
          BY <2>1, <4>1 DEF IndInv, StagedJobOK
        <4>2. CASE ~Progressing(w)
          BY <2>1, <4>2, AllTerminalStatuses, StatusFacts DEF IndInv, StagedJobOK
        <4> QED BY <4>1, <4>2
      <3>4. Abstract!JobRowMatches(job'[j], target', j)
        BY <3>1, <3>2, SameVocabulary, SameReading DEF Abstract!JobRowMatches, JobStatuses
      <3> QED BY <2>1, <2>3, <3>3, <3>4
    <2> QED BY <2>2, <2>3
  <1> QED BY <1>1, <1>2, <1>3, SameVocabulary DEF Abstract!Advance

\* The insertion of a job is the abstract creation.
LEMMA CreateCreates ==
  ASSUME IndInv, NEW j \in Jobs, NEW skipped \in SUBSET TargetsOf(j), CreateJob(j, skipped)
  PROVE  Abstract!Create(j)
  <1> DEFINE inserted == [t \in Targets |->
                            IF t[1] # j THEN target[t]
                            ELSE IF t \in skipped THEN "skipped" ELSE "queued"]
             done == AllTerminal(inserted, j)
             result == AggregateJobStatus(StatusesOf(inserted, j))
  <1>1. /\ job[j] = "absent"
        /\ target' = inserted
        /\ job' = [job EXCEPT ![j] = IF done THEN result ELSE "queued"]
    BY DEF CreateJob
  <1>2. \A t \in Targets : IF t[1] = j THEN target'[t] \in {"queued", "skipped"}
                                       ELSE target'[t] = target[t]
    BY <1>1
  <1>3. target' = [t \in Targets |-> target'[t]]
    BY <1>1
  <1> HIDE DEF inserted
  <1>4. Abstract!JobRowMatches(job'[j], target', j)
    <2>1. job'[j] = IF done THEN result ELSE "queued"
      BY <1>1 DEF IndInv, TypeOK
    <2> QED BY <1>1, <2>1, SameVocabulary, SameReading DEF Abstract!JobRowMatches
  <1>5. /\ \A i \in Jobs \ {j} : job'[i] = job[i]
        /\ job' = [i \in Jobs |-> job'[i]]
    BY <1>1 DEF IndInv, TypeOK
  <1> QED BY <1>1, <1>2, <1>3, <1>4, <1>5 DEF Abstract!Create

\* The transactions implement AbstractJobs: whatever locks are waited for, and
\* whoever is rolled back, the committed rows only move as promised there
\* (all writers of jobs and job_targets in repository_jobs.rs).
THEOREM Refinement == Spec => ImplementsAbstractJobs
  <1>1. Init => Abstract!Init
    BY DEF Init, Abstract!Init
  <1>2. IndInv /\ [Next]_vars => [Abstract!Next]_(Abstract!vars)
    <2> SUFFICES ASSUME IndInv, [Next]_vars
                 PROVE  [Abstract!Next]_(Abstract!vars)
      OBVIOUS
    <2>1. CASE UNCHANGED rows
      BY <2>1 DEF rows, Abstract!vars
    <2>2. ASSUME NEW w \in Workers, Commit(w)
          PROVE  Abstract!Next
      BY <2>2, CommitAdvances DEF Abstract!Next
    <2>3. ASSUME NEW j \in Jobs, NEW skipped \in SUBSET TargetsOf(j), CreateJob(j, skipped)
          PROVE  Abstract!Next
      BY <2>3, CreateCreates DEF Abstract!Next
    <2> QED BY <2>1, <2>2, <2>3, VisibleSteps
  <1> QED BY <1>1, <1>2, Inductive, PTL DEF Spec, ImplementsAbstractJobs, Abstract!Spec

------------------------------------------------------------------------------
(* Cancel requests.  CancelInv is kept by every step in which IndInv holds.   *)

\* No cancel request has been made yet.
LEMMA InitCancel == Init => CancelInv
  BY DEF Init, CancelInv, FlaggedOK, CancelsOK, CancelReachesEveryTarget,
         NoClaimOfCanceledTarget

\* While no row is committed, what is said of the committed rows alone stands.
LEMMA CancelRowsFrame ==
  ASSUME CancelInv, UNCHANGED rows
  PROVE  (\A j \in canceledJobs : job[j] # "absent")' /\ CancelReachesEveryTarget'
  BY DEF CancelInv, CancelReachesEveryTarget, rows

\* Beginning a transaction other than a cancel request.
LEMMA BeginCancelFrame ==
  ASSUME IndInv, CancelInv, NEW w \in Workers, NEW k, NEW T, NEW status,
         k # "claim", Begin(w, k, T, status), UNCHANGED cancels
  PROVE  CancelInv'
  <1>1. (\A j \in canceledJobs : job[j] # "absent")' /\ CancelReachesEveryTarget'
    BY CancelRowsFrame DEF Begin
  <1>2. cancels[w] = {} /\ flagged[w] = {}
    <2>1. cancels[w] = {}
      BY DEF CancelInv, CancelsOK, Begin
    <2>2. flagged[w] = {}
      BY DEF CancelInv, FlaggedOK, Begin
    <2> QED BY <2>1, <2>2
  <1>3. FlaggedOK'
    BY <1>2 DEF CancelInv, FlaggedOK, Begin, rows, locks, writes, IndInv, TypeOK
  <1>4. CancelsOK'
    BY <1>2 DEF CancelInv, CancelsOK, ReachedBy, Begin, rows, locks, writes, IndInv, TypeOK
  <1>5. NoClaimOfCanceledTarget'
    BY DEF CancelInv, NoClaimOfCanceledTarget, Begin, rows, writes, IndInv, TypeOK
  <1> QED BY <1>1, <1>3, <1>4, <1>5 DEF CancelInv

\* The first statement of a cancel request finds every queued target of its job.
LEMMA BeginCancelKeeps ==
  ASSUME IndInv, CancelInv, NEW w \in Workers, NEW j \in Jobs, BeginCancel(w, j)
  PROVE  CancelInv'
  <1>b. Begin(w, "cancel", Found("cancel", TargetsOf(j)), "canceled")
    BY DEF BeginCancel
  <1>1. (\A i \in canceledJobs : job[i] # "absent")' /\ CancelReachesEveryTarget'
    BY <1>b, CancelRowsFrame DEF Begin
  <1>2. flagged[w] = {}
    BY <1>b DEF CancelInv, FlaggedOK, Begin, IndInv, TypeOK
  <1>3. FlaggedOK'
    BY <1>b, <1>2 DEF CancelInv, FlaggedOK, Begin, rows, locks, writes, IndInv, TypeOK
  <1>4. CancelsOK'
    <2> SUFFICES ASSUME NEW v \in Workers, cancels'[v] # {}
                 PROVE  /\ kind'[v] = "cancel"
                        /\ \A i \in cancels'[v] : job'[i] # "absent"
                        /\ \A t \in Targets : t[1] \in cancels'[v] =>
                              /\ phase'[v] = "targets" /\ target'[t] = "queued"
                                    => t \in wantTarget'[v] \/ staged'[v][t] # "none"
                              /\ phase'[v] = "metrics" /\ target'[t] = "queued"
                                    => staged'[v][t] # "none"
                              /\ phase'[v] = "flagging"
                                    => t \in wantTarget'[v] \/ ReachedBy(v, t)'
                              /\ phase'[v] = "finish" => ReachedBy(v, t)'
      BY DEF CancelsOK
    <2>1. CASE v # w
      BY <2>1, <1>b DEF BeginCancel, Begin, CancelInv, CancelsOK, ReachedBy, rows, locks,
                        writes, IndInv, TypeOK
    <2>2. CASE v = w
      <3>1. /\ kind'[w] = "cancel" /\ phase'[w] = "targets" /\ cancels'[w] = {j}
            /\ wantTarget'[w] = Found("cancel", TargetsOf(j))
            /\ job' = job /\ target' = target /\ job[j] # "absent"
        BY <1>b DEF BeginCancel, Begin, rows, IndInv, TypeOK
      <3> QED BY <2>2, <3>1 DEF Found, TargetsOf, Accepts
    <2> QED BY <2>1, <2>2
  <1>5. NoClaimOfCanceledTarget'
    BY <1>b DEF CancelInv, NoClaimOfCanceledTarget, Begin, rows, writes, IndInv, TypeOK
  <1> QED BY <1>1, <1>3, <1>4, <1>5 DEF CancelInv

\* Claims and expiries take only free rows, and a claim none that is flagged.
LEMMA GrabKeepsCancel ==
  ASSUME IndInv, CancelInv, NEW w \in Workers, NEW k, NEW T \in SUBSET Targets,
         NEW kept \in SUBSET Targets, NEW new, Grab(w, k, T, kept, new), k = "claim" => \A t \in T : t \notin cancelRequested
  PROVE  CancelInv'
  <1>1. (\A j \in canceledJobs : job[j] # "absent")' /\ CancelReachesEveryTarget'
    BY CancelRowsFrame DEF Grab
  <1>2. cancels[w] = {} /\ flagged[w] = {}
    <2>1. cancels[w] = {}
      BY DEF CancelInv, CancelsOK, Grab
    <2>2. flagged[w] = {}
      BY DEF CancelInv, FlaggedOK, Grab
    <2> QED BY <2>1, <2>2
  <1>3. FlaggedOK'
    BY <1>2, NobodyIsNoWorker DEF CancelInv, FlaggedOK, Grab, rows, IndInv, TypeOK
  <1>4. CancelsOK'
    BY <1>2 DEF CancelInv, CancelsOK, ReachedBy, Grab, rows, IndInv, TypeOK
  <1>5. NoClaimOfCanceledTarget'
    BY DEF CancelInv, NoClaimOfCanceledTarget, Grab, rows, IndInv, TypeOK
  <1> QED BY <1>1, <1>3, <1>4, <1>5 DEF CancelInv

\* The first statement stages every target that is still queued when it is granted.
LEMMA LockTargetCancel ==
  ASSUME IndInv, CancelInv, NEW w \in Workers, NEW x \in Targets, LockTarget(w, x)
  PROVE  CancelInv'
  <1>1. (\A j \in canceledJobs : job[j] # "absent")' /\ CancelReachesEveryTarget'
    BY CancelRowsFrame DEF LockTarget
  <1>w. /\ kind[w] # "claim"
        /\ kind[w] = "cancel" => to[w] # "none" /\ Written(w, x) = {to[w]}
        /\ kind[w] = "cancel" /\ target[x] = "queued" => StillAccepted(w, x)
    BY StatusFacts DEF LockTarget, IndInv, WritesOK, StillAccepted, Accepts, TargetStatuses, Written
  <1>p. PICK status \in IF StillAccepted(w, x) THEN Written(w, x) ELSE {"none"} :
           staged' = [staged EXCEPT ![w][x] = status]
    BY DEF LockTarget
  <1>3. FlaggedOK'
    BY NobodyIsNoWorker DEF CancelInv, FlaggedOK, LockTarget, TargetRowFree, rows, tx, IndInv, TypeOK
  <1>4. CancelsOK'
    <2> SUFFICES ASSUME NEW v \in Workers, cancels[v] # {}
                 PROVE  \A t \in Targets : t[1] \in cancels[v] =>
                              /\ phase[v] = "targets" /\ target[t] = "queued"
                                    => t \in wantTarget'[v] \/ staged'[v][t] # "none"
                              /\ phase[v] = "metrics" /\ target[t] = "queued"
                                    => staged'[v][t] # "none"
                              /\ phase[v] = "flagging"
                                    => t \in wantTarget'[v] \/ ReachedBy(v, t)'
                              /\ phase[v] = "finish" => ReachedBy(v, t)'
      BY DEF CancelInv, CancelsOK, LockTarget, rows, tx
    <2>1. CASE v # w
      <3>1. staged'[v] = staged[v] /\ wantTarget'[v] = wantTarget[v] /\ flagged' = flagged
        BY <2>1, <1>p DEF LockTarget, IndInv, TypeOK
      <3> QED BY <3>1 DEF LockTarget, CancelInv, CancelsOK, ReachedBy, rows, tx
    <2>2. CASE v = w
      <3>1. kind[w] = "cancel" /\ phase[w] = "targets"
        BY <2>2 DEF CancelInv, CancelsOK, LockTarget
      <3>2. \A t \in Targets \ {x} : /\ staged'[w][t] = staged[w][t]
                                     /\ t \in wantTarget[w] => t \in wantTarget'[w]
        BY DEF LockTarget, IndInv, TypeOK
      <3>3. target[x] = "queued" => staged'[w][x] # "none"
        BY <1>w, <1>p, <3>1 DEF IndInv, TypeOK
      <3> QED BY <2>2, <3>1, <3>2, <3>3 DEF CancelInv, CancelsOK
    <2> QED BY <2>1, <2>2
  <1>5. NoClaimOfCanceledTarget'
    BY <1>w DEF CancelInv, NoClaimOfCanceledTarget, LockTarget, rows, tx, IndInv, TypeOK
  <1> QED BY <1>1, <1>3, <1>4, <1>5 DEF CancelInv

\* Steps that lock metric or job rows write no target.
LEMMA LocksKeepCancel ==
  ASSUME IndInv, CancelInv, NEW w \in Workers,
         \/ \E c \in Clients : LockMetric(w, c)
         \/ \E j \in Jobs : LockJoinedJob(w, j) \/ InsertEvent(w, j) \/ FinishJob(w, j)
  PROVE  CancelInv'
  <1>0. UNCHANGED <<rows, targetLock, tx, wantTarget, staged, flagged>>
    BY DEF LockMetric, LockJoinedJob, InsertEvent, FinishJob, wants, writes
  <1>1. (\A j \in canceledJobs : job[j] # "absent")' /\ CancelReachesEveryTarget'
    BY <1>0, CancelRowsFrame
  <1>3. FlaggedOK'
    BY <1>0 DEF CancelInv, FlaggedOK, rows, tx
  <1>4. CancelsOK'
    BY <1>0 DEF CancelInv, CancelsOK, ReachedBy, rows, tx
  <1>5. NoClaimOfCanceledTarget'
    BY <1>0 DEF CancelInv, NoClaimOfCanceledTarget, rows, tx
  <1> QED BY <1>1, <1>3, <1>4, <1>5 DEF CancelInv

\* The first statement ends; every queued target is staged.
LEMMA UpdateTargetsCancel ==
  ASSUME IndInv, CancelInv, NEW w \in Workers, UpdateTargets(w)
  PROVE  CancelInv'
  <1>1. (\A j \in canceledJobs : job[j] # "absent")' /\ CancelReachesEveryTarget'
    BY CancelRowsFrame DEF UpdateTargets
  <1>3. FlaggedOK'
    BY DEF CancelInv, FlaggedOK, UpdateTargets, rows, locks, writes
  <1>4. CancelsOK'
    BY DEF CancelInv, CancelsOK, ReachedBy, UpdateTargets, rows, writes, IndInv, TypeOK
  <1>5. NoClaimOfCanceledTarget'
    BY DEF CancelInv, NoClaimOfCanceledTarget, UpdateTargets, rows, writes
  <1> QED BY <1>1, <1>3, <1>4, <1>5 DEF CancelInv

\* The second statement finds every target that is neither staged nor ended.
LEMMA BeginFlaggingCancel ==
  ASSUME IndInv, CancelInv, NEW w \in Workers, BeginFlagging(w)
  PROVE  CancelInv'
  <1>1. (\A j \in canceledJobs : job[j] # "absent")' /\ CancelReachesEveryTarget'
    BY CancelRowsFrame DEF BeginFlagging
  <1>3. FlaggedOK'
    BY DEF CancelInv, FlaggedOK, BeginFlagging, ToFlag, rows, locks, writes, IndInv, TypeOK
  <1>f. \A t \in Targets : t[1] \in cancels[w] => t \in ToFlag(w) \/ ReachedBy(w, t)
    <2> SUFFICES ASSUME NEW t \in Targets, t[1] \in cancels[w]
                 PROVE  t \in ToFlag(w) \/ ReachedBy(w, t)
      OBVIOUS
    <2>1. job[t[1]] # "absent" /\ (target[t] = "queued" => staged[w][t] # "none")
      BY DEF CancelInv, CancelsOK, BeginFlagging
    <2>2. target[t] \in ActiveTargetStatuses \cup TerminalTargetStatuses
      BY <2>1 DEF IndInv, PresenceOK, TypeOK, TargetStatuses
    <2> QED BY <2>1, <2>2 DEF ToFlag, ReachedBy, ActiveTargetStatuses
  <1>4. CancelsOK'
    <2> SUFFICES ASSUME NEW v \in Workers, cancels[v] # {}
                 PROVE  \A t \in Targets : t[1] \in cancels[v] =>
                              /\ phase'[v] = "targets" /\ target[t] = "queued"
                                    => t \in wantTarget'[v] \/ staged[v][t] # "none"
                              /\ phase'[v] = "metrics" /\ target[t] = "queued"
                                    => staged[v][t] # "none"
                              /\ phase'[v] = "flagging"
                                    => t \in wantTarget'[v] \/ ReachedBy(v, t)
                              /\ phase'[v] = "finish" => ReachedBy(v, t)
      BY DEF CancelInv, CancelsOK, BeginFlagging, rows, writes, ReachedBy
    <2>1. CASE v # w
      BY <2>1 DEF BeginFlagging, CancelInv, CancelsOK, IndInv, TypeOK
    <2>2. CASE v = w
      BY <2>2, <1>f DEF BeginFlagging, IndInv, TypeOK
    <2> QED BY <2>1, <2>2
  <1>5. NoClaimOfCanceledTarget'
    BY DEF CancelInv, NoClaimOfCanceledTarget, BeginFlagging, rows, writes
  <1> QED BY <1>1, <1>3, <1>4, <1>5 DEF CancelInv

\* A target granted to the second statement is flagged, or has ended meanwhile.
LEMMA FlagTargetCancel ==
  ASSUME IndInv, CancelInv, NEW w \in Workers, NEW x \in Targets, FlagTarget(w, x)
  PROVE  CancelInv'
  <1>1. (\A j \in canceledJobs : job[j] # "absent")' /\ CancelReachesEveryTarget'
    BY CancelRowsFrame DEF FlagTarget
  <1>k. kind[w] = "cancel" /\ target[x] \in {"dispatching", "running"} \cup TerminalTargetStatuses
    BY DEF FlagTarget, CancelInv, FlaggedOK, IndInv, TypeOK, TargetStatuses,
           ActiveTargetStatuses
  <1>3. FlaggedOK'
    BY <1>k, NobodyIsNoWorker
    DEF CancelInv, FlaggedOK, FlagTarget, TargetRowFree, rows, tx, IndInv, TypeOK
  <1>4. CancelsOK'
    <2> SUFFICES ASSUME NEW v \in Workers, cancels[v] # {}
                 PROVE  \A t \in Targets : t[1] \in cancels[v] =>
                              /\ phase[v] = "targets" /\ target[t] = "queued"
                                    => t \in wantTarget'[v] \/ staged[v][t] # "none"
                              /\ phase[v] = "metrics" /\ target[t] = "queued"
                                    => staged[v][t] # "none"
                              /\ phase[v] = "flagging"
                                    => t \in wantTarget'[v] \/ ReachedBy(v, t)'
                              /\ phase[v] = "finish" => ReachedBy(v, t)'
      BY DEF CancelInv, CancelsOK, FlagTarget, rows, tx
    <2>1. CASE v # w
      BY <2>1 DEF FlagTarget, CancelInv, CancelsOK, ReachedBy, rows, IndInv, TypeOK
    <2>2. CASE v = w
      BY <2>2, <1>k DEF FlagTarget, CancelInv, CancelsOK, ReachedBy, rows, IndInv, TypeOK
    <2> QED BY <2>1, <2>2
  <1>5. NoClaimOfCanceledTarget'
    BY DEF CancelInv, NoClaimOfCanceledTarget, FlagTarget, rows, tx
  <1> QED BY <1>1, <1>3, <1>4, <1>5 DEF CancelInv

\* The removal of a client is no cancel request.
LEMMA SkipUnstartedCancel ==
  ASSUME IndInv, CancelInv, NEW w \in Workers, SkipUnstarted(w)
  PROVE  CancelInv'
  <1>1. (\A j \in canceledJobs : job[j] # "absent")' /\ CancelReachesEveryTarget'
    BY CancelRowsFrame DEF SkipUnstarted
  <1>2. kind[w] = "lost" /\ cancels[w] = {} /\ flagged[w] = {}
    <2>1. kind[w] = "lost"
      BY DEF SkipUnstarted, IndInv, WritesOK
    <2>2. cancels[w] = {}
      BY <2>1 DEF CancelInv, CancelsOK
    <2>3. flagged[w] = {}
      BY <2>1 DEF CancelInv, FlaggedOK
    <2> QED BY <2>1, <2>2, <2>3
  <1>3. FlaggedOK'
    BY <1>2 DEF CancelInv, FlaggedOK, SkipUnstarted, rows, locks, writes, IndInv, TypeOK
  <1>4. CancelsOK'
    BY <1>2 DEF CancelInv, CancelsOK, ReachedBy, SkipUnstarted, rows, writes, IndInv, TypeOK
  <1>5. NoClaimOfCanceledTarget'
    BY DEF CancelInv, NoClaimOfCanceledTarget, SkipUnstarted, rows, writes, IndInv, TypeOK
  <1> QED BY <1>1, <1>3, <1>4, <1>5 DEF CancelInv

\* The statements are done.
LEMMA BeginFinishCancel ==
  ASSUME IndInv, CancelInv, NEW w \in Workers, BeginFinish(w)
  PROVE  CancelInv'
  <1>1. (\A j \in canceledJobs : job[j] # "absent")' /\ CancelReachesEveryTarget'
    BY CancelRowsFrame DEF BeginFinish
  <1>3. FlaggedOK'
    BY DEF CancelInv, FlaggedOK, BeginFinish, rows, locks, writes, IndInv, TypeOK
  <1>4. CancelsOK'
    BY DEF CancelInv, CancelsOK, ReachedBy, BeginFinish, TargetsUpdated, rows, writes,
           IndInv, TypeOK
  <1>5. NoClaimOfCanceledTarget'
    BY DEF CancelInv, NoClaimOfCanceledTarget, BeginFinish, rows, writes
  <1> QED BY <1>1, <1>3, <1>4, <1>5 DEF CancelInv

\* A rollback forgets what its transaction had reached.
LEMMA RollbackCancel ==
  ASSUME IndInv, CancelInv, NEW w \in Workers, Release(w), UNCHANGED rows
  PROVE  CancelInv'
  <1>1. (\A j \in canceledJobs : job[j] # "absent")' /\ CancelReachesEveryTarget'
    BY CancelRowsFrame
  <1>3. FlaggedOK'
    BY DEF CancelInv, FlaggedOK, Release, rows, IndInv, TypeOK
  <1>4. CancelsOK'
    BY DEF CancelInv, CancelsOK, ReachedBy, Release, rows, IndInv, TypeOK
  <1>5. NoClaimOfCanceledTarget'
    BY DEF CancelInv, NoClaimOfCanceledTarget, Release, rows, IndInv, TypeOK
  <1> QED BY <1>1, <1>3, <1>4, <1>5 DEF CancelInv

\* A commit ends no target that has ended, returns none to the queue, and leaves
\* the rows alone that other transactions have locked.
LEMMA CommitMoves ==
  ASSUME IndInv, NEW w \in Workers, Commit(w), NEW t \in Targets
  PROVE  /\ target[t] \in TerminalTargetStatuses => target'[t] = target[t]
         /\ target'[t] = "queued" => target[t] = "queued"
         /\ target'[t] = "absent" => target[t] = "absent"
         /\ targetLock[t] # w => target'[t] = target[t]
  <1>1. target'[t] = IF staged[w][t] = "none" THEN target[t] ELSE staged[w][t]
    BY DEF Commit, Seen
  <1>2. staged[w][t] # "none" =>
           /\ targetLock[t] = w /\ target[t] \in ActiveTargetStatuses
           /\ staged[w][t] \in {"dispatching", "running"} \cup TerminalTargetStatuses
    BY DEF IndInv, StagedOK, Progressing
  <1> QED BY <1>1, <1>2, StatusFacts DEF ActiveTargetStatuses, TerminalTargetStatuses

\* A job that exists goes on existing.
LEMMA CommitKeepsJob ==
  ASSUME IndInv, NEW w \in Workers, Commit(w), NEW j \in Jobs, job[j] # "absent"
  PROVE  job'[j] # "absent"
  BY StatusFacts DEF Commit, IndInv, TypeOK

\* A commit: what a cancel request has reached is ended or flagged for all.
LEMMA CommitCancel ==
  ASSUME IndInv, CancelInv, NEW w \in Workers, Commit(w)
  PROVE  CancelInv'
  <1>r. Release(w) /\ phase[w] = "finish" /\ kind[w] # "idle"
    BY DEF Commit, IndInv, WritesOK
  <1>1. \A j \in canceledJobs' : job'[j] # "absent"
    BY CommitKeepsJob DEF Commit, CancelInv, CancelsOK, IndInv, TypeOK
  <1>2. CancelReachesEveryTarget'
    <2> SUFFICES ASSUME NEW j \in canceledJobs', NEW t \in TargetsOf(j)
                 PROVE  target'[t] \in TerminalTargetStatuses \/ t \in cancelRequested'
      BY DEF CancelReachesEveryTarget
    <2>0. t \in Targets /\ t[1] = j
      BY DEF TargetsOf
    <2>1. CASE j \in canceledJobs
      BY <2>0, <2>1, CommitMoves DEF CancelInv, CancelReachesEveryTarget, Commit
    <2>2. CASE j \in cancels[w]
      <3>1. ReachedBy(w, t) /\ kind[w] = "cancel"
        BY <2>0, <2>2, <1>r DEF CancelInv, CancelsOK
      <3>2. CASE target[t] \in TerminalTargetStatuses
        BY <2>0, <3>2, CommitMoves
      <3>3. CASE staged[w][t] # "none"
        BY <2>0, <3>1, <3>3 DEF IndInv, StagedOK, Progressing, Commit, Seen
      <3>4. CASE t \in flagged[w]
        BY <3>4 DEF Commit
      <3> QED BY <3>1, <3>2, <3>3, <3>4 DEF ReachedBy
    <2> QED BY <2>1, <2>2 DEF Commit
  <1>3. FlaggedOK'
    <2> SUFFICES ASSUME NEW v \in Workers
                 PROVE  /\ phase'[v] = "flagging" =>
                             /\ kind'[v] = "cancel"
                             /\ \A t \in wantTarget'[v] : target'[t] \notin {"absent", "queued"}
                        /\ \A t \in flagged'[v] : /\ kind'[v] = "cancel"
                                                  /\ targetLock'[t] = v
                                                  /\ target'[t] \in {"dispatching", "running"}
      BY DEF FlaggedOK
    <2>1. CASE v = w
      BY <2>1, <1>r DEF Release, IndInv, TypeOK
    <2>2. CASE v # w
      <3>1. /\ phase'[v] = phase[v] /\ kind'[v] = kind[v] /\ flagged'[v] = flagged[v]
            /\ wantTarget'[v] = wantTarget[v] /\ wantTarget[v] \subseteq Targets
            /\ flagged[v] \subseteq Targets
        BY <2>2, <1>r DEF Release, IndInv, TypeOK
      <3>2. \A t \in flagged[v] : targetLock[t] = v /\ targetLock'[t] = v
        BY <2>2, <3>1, <1>r DEF Release, CancelInv, FlaggedOK
      <3> QED BY <2>2, <3>1, <3>2, CommitMoves DEF CancelInv, FlaggedOK
    <2> QED BY <2>1, <2>2
  <1>4. CancelsOK'
    <2> SUFFICES ASSUME NEW v \in Workers, cancels'[v] # {}
                 PROVE  /\ kind'[v] = "cancel"
                        /\ \A i \in cancels'[v] : job'[i] # "absent"
                        /\ \A t \in Targets : t[1] \in cancels'[v] =>
                              /\ phase'[v] = "targets" /\ target'[t] = "queued"
                                    => t \in wantTarget'[v] \/ staged'[v][t] # "none"
                              /\ phase'[v] = "metrics" /\ target'[t] = "queued"
                                    => staged'[v][t] # "none"
                              /\ phase'[v] = "flagging"
                                    => t \in wantTarget'[v] \/ ReachedBy(v, t)'
                              /\ phase'[v] = "finish" => ReachedBy(v, t)'
      BY DEF CancelsOK
    <2>1. v # w
      BY <1>r DEF Release, IndInv, TypeOK
    <2>2. /\ phase'[v] = phase[v] /\ kind'[v] = kind[v] /\ flagged'[v] = flagged[v]
          /\ wantTarget'[v] = wantTarget[v] /\ cancels'[v] = cancels[v]
          /\ staged'[v] = staged[v] /\ cancels[v] \subseteq Jobs
      BY <2>1, <1>r DEF Release, IndInv, TypeOK
    <2>3. \A t \in Targets : ReachedBy(v, t) => ReachedBy(v, t)'
      BY <2>2, CommitMoves DEF ReachedBy
    <2>4. \A t \in Targets : target'[t] = "queued" => target[t] = "queued"
      BY CommitMoves
    <2>5. \A i \in cancels[v] : job'[i] # "absent"
      BY <2>2, CommitKeepsJob DEF CancelInv, CancelsOK
    <2> QED BY <2>2, <2>3, <2>4, <2>5 DEF CancelInv, CancelsOK
  <1>5. NoClaimOfCanceledTarget'
    <2> SUFFICES ASSUME NEW v \in Workers, NEW t \in Targets, kind'[v] = "claim",
                        staged'[v][t] # "none", t \in cancelRequested'
                 PROVE  FALSE
      BY DEF NoClaimOfCanceledTarget
    <2>1. v # w /\ kind[v] = "claim" /\ staged[v][t] # "none"
      BY <1>r DEF Release, IndInv, TypeOK
    <2>2. t \in flagged[w]
      BY <2>1 DEF CancelInv, NoClaimOfCanceledTarget, Commit
    <2> QED BY <2>1, <2>2 DEF CancelInv, FlaggedOK, IndInv, StagedOK
  <1> QED BY <1>1, <1>2, <1>3, <1>4, <1>5 DEF CancelInv

\* A new job has no history.
LEMMA CreateJobCancel ==
  ASSUME IndInv, CancelInv, NEW j \in Jobs, NEW skipped \in SUBSET TargetsOf(j),
         CreateJob(j, skipped)
  PROVE  CancelInv'
  <1>0. /\ job[j] = "absent"
        /\ UNCHANGED <<cancelRequested, canceledJobs, locks, tx, wants, writes>>
        /\ \A t \in Targets : t[1] # j => target'[t] = target[t]
        /\ \A t \in Targets : t[1] = j => target[t] = "absent"
        /\ \A i \in Jobs : job[i] # "absent" => job'[i] = job[i]
    BY DEF CreateJob, IndInv, PresenceOK, TypeOK
  <1>1. \A i \in canceledJobs' : job'[i] # "absent"
    BY <1>0 DEF CancelInv, IndInv, TypeOK
  <1>2. CancelReachesEveryTarget'
    BY <1>0 DEF CancelInv, CancelReachesEveryTarget, TargetsOf
  <1>3. FlaggedOK'
    <2> SUFFICES ASSUME NEW v \in Workers
                 PROVE  /\ phase[v] = "flagging" =>
                             /\ kind[v] = "cancel"
                             /\ \A t \in wantTarget[v] : target'[t] \notin {"absent", "queued"}
                        /\ \A t \in flagged[v] : /\ kind[v] = "cancel"
                                                 /\ targetLock[t] = v
                                                 /\ target'[t] \in {"dispatching", "running"}
      BY <1>0 DEF FlaggedOK, locks, tx, wants, writes
    <2>1. wantTarget[v] \subseteq Targets /\ flagged[v] \subseteq Targets
      BY DEF IndInv, TypeOK
    <2> QED BY <1>0, <2>1 DEF CancelInv, FlaggedOK
  <1>4. CancelsOK'
    <2>1. \A v \in Workers : cancels[v] \subseteq Jobs
      BY DEF IndInv, TypeOK
    <2>2. \A v \in Workers : \A i \in cancels[v] : job[i] # "absent" /\ i # j
      BY <1>0 DEF CancelInv, CancelsOK
    <2>3. \A v \in Workers, t \in Targets : t[1] \in cancels[v] =>
              /\ target'[t] = target[t]
              /\ ReachedBy(v, t)' <=> ReachedBy(v, t)
      BY <1>0, <2>2 DEF ReachedBy, writes
    <2>4. \A v \in Workers : \A i \in cancels[v] : job'[i] # "absent"
      BY <1>0, <2>1, <2>2
    <2> QED BY <1>0, <2>3, <2>4 DEF CancelInv, CancelsOK, tx, wants, writes
  <1>5. NoClaimOfCanceledTarget'
    BY <1>0 DEF CancelInv, NoClaimOfCanceledTarget, tx, writes
  <1> QED BY <1>1, <1>2, <1>3, <1>4, <1>5 DEF CancelInv

\* Stuttering.
LEMMA StutterCancel ==
  ASSUME CancelInv, UNCHANGED vars
  PROVE  CancelInv'
  BY DEF CancelInv, FlaggedOK, CancelsOK, ReachedBy, CancelReachesEveryTarget,
         NoClaimOfCanceledTarget, vars, rows, locks, tx, wants, writes

\* Whatever transaction begins.
LEMMA BeginTransactionCancel ==
  ASSUME IndInv, CancelInv, NEW w \in Workers, BeginTransaction(w)
  PROVE  CancelInv'
  <1>1. ASSUME NEW k, NEW T, NEW status, k # "claim", Begin(w, k, T, status), UNCHANGED cancels
        PROVE  CancelInv'
    BY <1>1, BeginCancelFrame
  <1>2. ASSUME NEW T \in SUBSET Targets, NEW kept \in SUBSET Targets, Claim(w, T, kept)
        PROVE  CancelInv'
    <2>1. Grab(w, "claim", T, kept, [t \in T |-> "dispatching"])
      BY <1>2 DEF Claim
    <2>2. \A t \in T : t \notin cancelRequested
      BY <1>2 DEF Claim, Due
    <2> QED BY <2>1, <2>2, GrabKeepsCancel
  <1>3. ASSUME NEW T \in SUBSET Targets, NEW kept \in SUBSET Targets, Expire(w, T, kept)
        PROVE  CancelInv'
    BY <1>3, GrabKeepsCancel DEF Expire
  <1>4. ASSUME NEW t \in Targets,
               BeginRunning(w, t) \/ \E status \in ResultStatuses : BeginResult(w, t, status)
        PROVE  CancelInv'
    BY <1>1, <1>4 DEF BeginRunning, BeginResult
  <1>5. ASSUME NEW c \in Clients,
               BeginHelloSweep(w, c) \/ \E removed \in BOOLEAN : BeginAgentLost(w, c, removed)
        PROVE  CancelInv'
    BY <1>1, <1>5 DEF BeginAgentLost, BeginHelloSweep
  <1>6. ASSUME NEW c \in Clients, NEW k \in {"skip", "skip_unstarted"},
               NEW protected \in SUBSET TargetsAt(c), BeginSkip(w, c, k, protected)
        PROVE  CancelInv'
    BY <1>1, <1>6 DEF BeginSkip
  <1> QED BY <1>2, <1>3, <1>4, <1>5, <1>6, BeginCancelKeeps DEF BeginTransaction

\* Every step keeps it.
LEMMA NextCancel == IndInv /\ CancelInv /\ [Next]_vars => CancelInv'
  <1> SUFFICES ASSUME IndInv, CancelInv, [Next]_vars
               PROVE  CancelInv'
    OBVIOUS
  <1>1. ASSUME NEW w \in Workers, Step(w)
        PROVE  CancelInv'
    BY <1>1, LockTargetCancel, FlagTargetCancel, LocksKeepCancel, UpdateTargetsCancel,
       BeginFlaggingCancel, SkipUnstartedCancel, BeginFinishCancel, CommitCancel DEF Step
  <1>2. ASSUME NEW w \in Workers, Abort(w) \/ DeadlockVictim(w)
        PROVE  CancelInv'
    BY <1>2, RollbackCancel DEF Abort, DeadlockVictim
  <1> QED BY <1>1, <1>2, BeginTransactionCancel, CreateJobCancel, StutterCancel DEF Next

\* The invariant of the cancel requests holds in every reachable state
\* (request_job_cancel beside every other writer of job_targets).
THEOREM CancelInductive == Spec => []CancelInv
  BY InitCancel, NextCancel, Inductive, PTL DEF Spec

\* Once request_job_cancel has committed, every target of the job is terminal or
\* carries cancel_requested_at, for any number of jobs, targets and concurrent
\* transactions.
THEOREM CancelComplete == Spec => []CancelReachesEveryTarget
  <1>1. CancelInv => CancelReachesEveryTarget
    BY DEF CancelInv
  <1> QED BY <1>1, CancelInductive, PTL

\* claim_due_job_targets never claims a target whose cancel request is visible, also
\* not one whose request commits while the claim is still open.
THEOREM CanceledStaysUnclaimed == Spec => []NoClaimOfCanceledTarget
  <1>1. CancelInv => NoClaimOfCanceledTarget
    BY DEF CancelInv
  <1> QED BY <1>1, CancelInductive, PTL
==============================================================================
