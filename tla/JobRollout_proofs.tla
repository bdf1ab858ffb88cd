-------------------------- MODULE JobRollout_proofs ---------------------------
(***************************************************************************)
(* Proofs about JobRollout, for every set of targets, every assignment to  *)
(* batches and every policy: batches in order, the failure gate, the       *)
(* canary review, what a completed rollout means and that an aborted one   *)
(* is final.                                                               *)
(***************************************************************************)
EXTENDS JobRollout, FiniteSetTheorems, TLAPS

(***************************************************************************)
(* The inductive invariant.  What the dispatcher and the operator read is  *)
(* old when they use it; each part says in what sense it is still true.    *)
(***************************************************************************)

\* Every batch before the current one has ended.
LowerDone == \A t \in Targets : Batch[t] < rollout.current => t \in Terminal

\* The reconciler's snapshot: targets end once and for all, and the batches
\* before the current one had ended when it was taken.
SeenOK ==
    /\ seen.done \subseteq Terminal
    /\ seen.failed = seen.done \cap Failed
    /\ seen.selected => pc = "reconciling"
    /\ seen.selected =>
         \A t \in Targets : Batch[t] < rollout.current => t \in seen.done

\* The failures an operator has let pass, or is about to.
AckedOK ==
    /\ acked \subseteq UpTo(Failed, rollout.current)
    /\ rollout.baseline = Cardinality(acked)
    /\ op.kind # "none" =>
         /\ op.failed \subseteq UpTo(Failed, rollout.current)
         /\ {t \in Failed : Batch[t] < rollout.current} \subseteq op.failed

\* The new failures before batch k.
Unacked(k) == {u \in Failed : Batch[u] < k} \ acked

\* Batch k may be dispatched.
Released(k) ==
    /\ Cardinality(Unacked(k)) <= policy.maxFailures
    /\ policy.pauseAfterCanary /\ k > 0 => reviewed

\* Only released batches are dispatched, picked, or open to be picked.
ReleasedOK ==
    /\ \A t \in started \cup picked :
          Batch[t] <= rollout.current /\ Released(Batch[t])
    /\ rollout.status = "running" =>
          \A k \in 0 .. rollout.current : Released(k)

\* What the two terminal statuses mean.
EndOK ==
    /\ CompletedMeansDone
    /\ rollout.status = "aborted" => Queued = {}

Inv == TypeOK /\ LowerDone /\ SeenOK /\ AckedOK /\ ReleasedOK /\ EndOK

-----------------------------------------------------------------------------
\* Sets of targets are finite.
LEMMA FiniteTargets ==
  ASSUME NEW S \in SUBSET Targets
  PROVE  IsFiniteSet(S) /\ Cardinality(S) \in Nat
  BY RolloutAssumption, FS_Subset, FS_CardinalityType

\* The types of the record fields, as the provers want them.
LEMMA Fields ==
  ASSUME TypeOK
  PROVE  /\ rollout.current \in Nat /\ rollout.current <= LastBatch
         /\ LastBatch \in Nat
         /\ policy.maxFailures \in Nat
         /\ \A t \in Targets : Batch[t] \in Nat /\ Batch[t] <= LastBatch
         /\ Failed \subseteq Terminal /\ Terminal \subseteq Targets
         /\ Queued \subseteq Targets /\ Queued \cap Terminal = {}
  BY RolloutAssumption DEF TypeOK, Failed, Terminal, Queued

LEMMA InitInv == Init => Inv
  <1> SUFFICES ASSUME Init PROVE Inv OBVIOUS
  <1>1. TypeOK
    <2>1. 0 \in 0 .. LastBatch /\ 0 \in 0 .. MaxRequests /\ 0 \in 0 .. MaxCrashes
      BY RolloutAssumption
    <2>2. target \in [Targets -> {"queued", "active", "completed", "failed"}]
      BY DEF Init
    <2>3. rollout \in [status : {"running", "paused", "completed", "aborted"},
                       current : 0 .. LastBatch, baseline : Nat, due : BOOLEAN]
      BY <2>1 DEF Init
    <2> QED BY <2>1, <2>2, <2>3 DEF Init, TypeOK, NoRead, NoOp
  <1>2. Cardinality({}) = 0 BY FS_EmptySet
  <1>3. LowerDone BY <1>1, Fields DEF LowerDone, Init
  <1>4. SeenOK BY DEF SeenOK, Init, NoRead
  <1>5. AckedOK BY <1>2 DEF AckedOK, Init, NoOp
  <1>6. Released(0)
    <2>1. Unacked(0) = {} BY <1>1, Fields DEF Unacked, Failed
    <2> QED BY <2>1, <1>1, <1>2, Fields DEF Released
  <1>7. ReleasedOK BY <1>6 DEF ReleasedOK, Init
  <1>8. EndOK BY DEF EndOK, CompletedMeansDone, Init
  <1> QED BY <1>1, <1>3, <1>4, <1>5, <1>7, <1>8 DEF Inv

\* Type correctness is inductive, given that no count is taken of an
\* infinite set.
LEMMA TypeStep == TypeOK /\ [Next]_vars => TypeOK'
  <1> SUFFICES ASSUME TypeOK, [Next]_vars PROVE TypeOK' OBVIOUS
  <1> USE RolloutAssumption DEF TypeOK
  <1>1. CASE ReconcileRead BY <1>1 DEF ReconcileRead, Terminal, Failed, bounds, history
  <1>2. CASE ReconcileNothing
    BY <1>2 DEF ReconcileNothing, Reconciled, NoRead, bounds, history
  <1>3. CASE ReconcileComplete
    BY <1>3 DEF ReconcileComplete, Reconciled, NoRead, bounds, history
  <1>4. CASE ReconcilePause
    <2>1. rollout.current + 1 \in 0 .. LastBatch BY <1>4 DEF ReconcilePause
    <2>2. rollout' = [status |-> "paused", current |-> rollout.current + 1,
                      baseline |-> rollout.baseline, due |-> TRUE]
      BY <1>4 DEF ReconcilePause
    <2> QED BY <1>4, <2>1, <2>2 DEF ReconcilePause, Reconciled, NoRead, bounds, history
  <1>5. CASE ReconcileAdvance
    <2>1. rollout.current + 1 \in 0 .. LastBatch BY <1>5 DEF ReconcileAdvance
    <2>2. rollout' = [status |-> rollout.status, current |-> rollout.current + 1,
                      baseline |-> rollout.baseline, due |-> ~policy.delayed]
      BY <1>5 DEF ReconcileAdvance
    <2>3. (~policy.delayed) \in BOOLEAN OBVIOUS
    <2> QED
      BY <1>5, <2>1, <2>2, <2>3 DEF ReconcileAdvance, Reconciled, NoRead, bounds, history
  <1>6. CASE ClaimRead BY <1>6 DEF ClaimRead, Due, Queued, bounds, history
  <1>7. CASE \E S \in SUBSET Targets : Claim(S)
    BY <1>7 DEF Claim, bounds
  <1>8. CASE PauseBegin \/ ResumeBegin
    BY <1>8 DEF PauseBegin, ResumeBegin, Begin, UpTo, Failed, dispatcher, history
  <1>9. CASE PauseCommit
    BY <1>9 DEF PauseCommit, NoOp, dispatcher, bounds, history
  <1>10. CASE ResumeCommit
    <2>1. op.failed \in SUBSET Targets OBVIOUS
    <2>2. Cardinality(op.failed) \in Nat BY <2>1, FiniteTargets
    <2> QED BY <1>10, <2>1, <2>2 DEF ResumeCommit, NoOp, dispatcher, bounds
  <1>11. CASE Cancel BY <1>11 DEF Cancel, dispatcher, history
  <1>12. CASE \E t \in Targets : Skip(t) \/ \E o \in {"completed", "failed"} : Finish(t, o)
    BY <1>12 DEF Skip, Finish, dispatcher, bounds, history
  <1>13. CASE Elapse BY <1>13 DEF Elapse, dispatcher, bounds, history
  <1>14. CASE Crash BY <1>14 DEF Crash, NoRead, NoOp, history
  <1>15. CASE UNCHANGED vars BY <1>15 DEF vars, dispatcher, bounds, history
  <1> QED
    BY <1>1, <1>2, <1>3, <1>4, <1>5, <1>6, <1>7, <1>8, <1>9, <1>10, <1>11, <1>12,
       <1>13, <1>14, <1>15 DEF Next, Sweep, Operator

-----------------------------------------------------------------------------
\* A target that has ended stays as it is, and no target is queued again.
TargetsAdvance ==
    /\ \A t \in Terminal : target'[t] = target[t]
    /\ Queued' \subseteq Queued

LEMMA TerminalGrows ==
  ASSUME TypeOK, TypeOK', TargetsAdvance
  PROVE  /\ Terminal \subseteq Terminal' /\ Failed \subseteq Failed'
         /\ Terminal \cap Failed' = Failed
  BY DEF TypeOK, TargetsAdvance, Terminal, Failed

\* What is released stays released while the failures below are settled.
LEMMA ReleasedStays ==
  ASSUME TypeOK, TypeOK', LowerDone, TargetsAdvance,
         UNCHANGED <<policy, acked, reviewed>>,
         NEW k \in Nat, k <= rollout.current, Released(k)
  PROVE  Released(k)'
  <1>1. \A u \in Targets : Batch[u] < k => u \in Terminal
    BY Fields DEF LowerDone
  <1>2. Unacked(k)' = Unacked(k)
    BY <1>1, TerminalGrows, Fields DEF Unacked, Failed
  <1> QED BY <1>2 DEF Released

(***************************************************************************)
(* Most steps leave the batch, the baseline and the history alone, forget  *)
(* snapshots rather than take them, and release nothing.                   *)
(***************************************************************************)
LEMMA Frame ==
  ASSUME Inv, TypeOK', EndOK', TargetsAdvance,
         UNCHANGED <<policy, acked, reviewed>>,
         rollout'.current = rollout.current, rollout'.baseline = rollout.baseline,
         rollout'.status = "running" => rollout.status = "running",
         started' \cup picked' \subseteq started \cup picked,
         seen' = NoRead \/ (seen' = seen /\ (seen.selected => pc' = pc)),
         op' \in {op, NoOp}
  PROVE  Inv'
  <1> USE DEF Inv
  <1>1. LowerDone' BY TerminalGrows DEF LowerDone
  <1>2. SeenOK' BY TerminalGrows DEF SeenOK, NoRead
  <1>3. AckedOK'
    <2>1. UpTo(Failed, rollout.current) \subseteq UpTo(Failed, rollout.current)'
      BY TerminalGrows DEF UpTo
    <2>2. {t \in Failed : Batch[t] < rollout.current}'
             \subseteq {t \in Failed : Batch[t] < rollout.current}
      BY TerminalGrows, Fields DEF LowerDone, Failed
    <2> QED BY <2>1, <2>2 DEF AckedOK, NoOp
  <1>4. ReleasedOK'
    <2>1. ASSUME NEW t \in (started \cup picked)'
          PROVE  (Batch[t] <= rollout.current /\ Released(Batch[t]))'
      <3>1. t \in started \cup picked /\ t \in Targets BY DEF TypeOK
      <3> QED BY <3>1, ReleasedStays, Fields DEF ReleasedOK
    <2>2. ASSUME rollout'.status = "running", NEW k \in 0 .. rollout'.current
          PROVE  Released(k)'
      <3>1. k \in Nat /\ k <= rollout.current BY <2>2, Fields
      <3>2. Released(k) BY <2>2 DEF ReleasedOK
      <3> QED BY <3>1, <3>2, ReleasedStays
    <2> QED BY <2>1, <2>2 DEF ReleasedOK
  <1> QED BY <1>1, <1>2, <1>3, <1>4

-----------------------------------------------------------------------------
\* Taking the snapshots.
LEMMA ReconcileReadInv == Inv /\ TypeOK' /\ ReconcileRead => Inv'
  <1> SUFFICES ASSUME Inv, TypeOK', ReconcileRead PROVE Inv' OBVIOUS
  <1> USE DEF Inv, ReconcileRead, bounds, history
  <1>1. /\ Terminal' = Terminal /\ Failed' = Failed /\ Queued' = Queued
        /\ UpTo(Failed, rollout.current)' = UpTo(Failed, rollout.current)
    BY DEF Terminal, Failed, Queued, UpTo
  <1>2. \A k : Released(k)' = Released(k) BY <1>1 DEF Released, Unacked
  <1>3. LowerDone' BY <1>1 DEF LowerDone
  <1>4. SeenOK' BY <1>1, Fields DEF SeenOK, LowerDone
  <1>5. AckedOK' BY <1>1 DEF AckedOK
  <1>6. ReleasedOK' BY <1>2 DEF ReleasedOK
  <1>7. EndOK' BY <1>1 DEF EndOK, CompletedMeansDone
  <1> QED BY <1>3, <1>4, <1>5, <1>6, <1>7

LEMMA ClaimReadInv == Inv /\ TypeOK' /\ ClaimRead => Inv'
  <1> SUFFICES ASSUME Inv, TypeOK', ClaimRead PROVE Inv' OBVIOUS
  <1> USE DEF Inv, ClaimRead, bounds, history
  <1>1. /\ Terminal' = Terminal /\ Failed' = Failed /\ Queued' = Queued
        /\ UpTo(Failed, rollout.current)' = UpTo(Failed, rollout.current)
    BY DEF Terminal, Failed, Queued, UpTo
  <1>2. \A k : Released(k)' = Released(k) BY <1>1 DEF Released, Unacked
  <1>3. LowerDone' BY <1>1 DEF LowerDone
  <1>4. SeenOK' BY <1>1 DEF SeenOK
  <1>5. AckedOK' BY <1>1 DEF AckedOK
  <1>6. ReleasedOK'
    <2>1. ASSUME NEW t \in Due PROVE Batch[t] <= rollout.current /\ Released(Batch[t])
      <3>1. Batch[t] \in 0 .. rollout.current /\ rollout.status = "running"
        BY Fields DEF Due
      <3> QED BY <3>1 DEF ReleasedOK
    <2> QED BY <1>2, <2>1 DEF ReleasedOK
  <1>7. EndOK' BY <1>1 DEF EndOK, CompletedMeansDone
  <1> QED BY <1>3, <1>4, <1>5, <1>6, <1>7

LEMMA BeginInv ==
  ASSUME Inv, TypeOK', NEW kind \in {"pause", "resume"}, Begin(kind)
  PROVE  Inv'
  <1> USE DEF Inv, Begin, dispatcher, history
  <1>1. /\ Terminal' = Terminal /\ Failed' = Failed /\ Queued' = Queued
        /\ UpTo(Failed, rollout.current)' = UpTo(Failed, rollout.current)
    BY DEF Terminal, Failed, Queued, UpTo
  <1>2. \A k : Released(k)' = Released(k) BY <1>1 DEF Released, Unacked
  <1>3. LowerDone' BY <1>1 DEF LowerDone
  <1>4. SeenOK' BY <1>1 DEF SeenOK
  <1>5. AckedOK'
    <2>1. {t \in Failed : Batch[t] < rollout.current} \subseteq UpTo(Failed, rollout.current)
      BY Fields DEF UpTo
    <2> QED BY <1>1, <2>1 DEF AckedOK
  <1>6. ReleasedOK' BY <1>2 DEF ReleasedOK
  <1>7. EndOK' BY <1>1 DEF EndOK, CompletedMeansDone
  <1> QED BY <1>3, <1>4, <1>5, <1>6, <1>7

(***************************************************************************)
(* The reconciler moves to the next batch.  Its snapshot is old, but it    *)
(* shows every target up to the current batch ended, so it shows all of    *)
(* their failures.                                                         *)
(***************************************************************************)
LEMMA SettledBatch ==
  ASSUME Inv, RowLocked, BatchSettled
  PROVE  /\ \A t \in Targets : Batch[t] < rollout.current + 1 => t \in Terminal
         /\ UpTo(seen.failed, rollout.current) = UpTo(Failed, rollout.current)
  <1>1. \A t \in Targets : Batch[t] <= rollout.current => t \in seen.done
    BY Fields DEF Inv, SeenOK, RowLocked, BatchSettled
  <1> QED BY <1>1, Fields DEF Inv, SeenOK, UpTo, Failed

LEMMA MoveOn ==
  ASSUME Inv, TypeOK', RowLocked, BatchSettled, Reconciled,
         rollout'.current = rollout.current + 1, rollout'.baseline = rollout.baseline,
         rollout'.status \in {"running", "paused"},
         rollout'.status = "running" => Released(rollout.current + 1)
  PROVE  Inv'
  <1> USE DEF Inv, Reconciled, bounds, history
  <1>1. /\ Terminal' = Terminal /\ Failed' = Failed /\ Queued' = Queued
    BY DEF Terminal, Failed, Queued
  <1>2. \A k : Released(k)' = Released(k) BY <1>1 DEF Released, Unacked
  <1>3. LowerDone' BY <1>1, SettledBatch DEF LowerDone
  <1>4. SeenOK' BY DEF SeenOK, NoRead
  <1>5. AckedOK'
    <2>1. UpTo(Failed, rollout.current) \subseteq UpTo(Failed, rollout.current)'
      BY <1>1, Fields DEF UpTo, Failed
    <2> QED BY <2>1 DEF AckedOK, RowLocked
  <1>6. ReleasedOK'
    <2>1. ASSUME NEW t \in started \cup picked
          PROVE  (Batch[t] <= rollout.current /\ Released(Batch[t]))'
      <3>1. t \in Targets BY DEF TypeOK
      <3> QED BY <1>2, <3>1, Fields DEF ReleasedOK
    <2>2. ASSUME rollout'.status = "running", NEW k \in 0 .. rollout'.current
          PROVE  Released(k)
      <3>1. k \in 0 .. rollout.current \/ k = rollout.current + 1 BY Fields
      <3> QED BY <3>1, <2>2 DEF ReleasedOK, RowLocked
    <2> QED BY <1>2, <2>1, <2>2 DEF ReleasedOK
  <1>7. EndOK' BY DEF EndOK, CompletedMeansDone
  <1> QED BY <1>3, <1>4, <1>5, <1>6, <1>7

LEMMA ReconcilePauseInv == Inv /\ TypeOK' /\ ReconcilePause => Inv'
  <1> SUFFICES ASSUME Inv, TypeOK', ReconcilePause PROVE Inv' OBVIOUS
  <1>1. /\ rollout'.current = rollout.current + 1 /\ rollout'.status = "paused"
        /\ rollout'.baseline = rollout.baseline
    BY DEF ReconcilePause, Inv, TypeOK
  <1> QED BY <1>1, MoveOn DEF ReconcilePause

LEMMA ReconcileAdvanceInv == Inv /\ TypeOK' /\ ReconcileAdvance => Inv'
  <1> SUFFICES ASSUME Inv, TypeOK', ReconcileAdvance PROVE Inv' OBVIOUS
  <1>1. /\ rollout'.current = rollout.current + 1 /\ rollout'.status = "running"
        /\ rollout'.baseline = rollout.baseline
    BY DEF ReconcileAdvance, Inv, TypeOK, RowLocked
  <1>2. Released(rollout.current + 1)
    <2> DEFINE F == UpTo(Failed, rollout.current)
    <2>1. F \in SUBSET Targets /\ acked \in SUBSET Targets /\ acked \subseteq F
      BY DEF Inv, TypeOK, AckedOK, UpTo, Failed
    <2>2. Unacked(rollout.current + 1) = F \ acked
      BY Fields DEF Inv, Unacked, UpTo, Failed
    <2>3. /\ Cardinality(F \ acked) = Cardinality(F) - Cardinality(F \cap acked)
          /\ Cardinality(F) \in Nat
      BY <2>1, FiniteTargets, FS_Difference
    <2>4. F \cap acked = acked BY <2>1
    <2>5. NewFailures = Cardinality(F) - Cardinality(acked)
      BY SettledBatch DEF ReconcileAdvance, NewFailures, Inv, AckedOK
    <2>6. /\ ~(NewFailures > policy.maxFailures)
          /\ ~(rollout.current = 0 /\ policy.pauseAfterCanary)
      BY DEF ReconcileAdvance, MustPause
    <2>7. Cardinality(acked) \in Nat BY <2>1, FiniteTargets
    <2>8. Cardinality(Unacked(rollout.current + 1)) <= policy.maxFailures
      <3> HIDE DEF F
      <3>1. policy.maxFailures \in Nat BY Fields DEF Inv
      <3>2. Cardinality(F \cap acked) = Cardinality(acked) BY <2>4
      <3>3. Cardinality(F \ acked) = NewFailures BY <2>3, <2>5, <3>2
      <3>4. NewFailures \in Int BY <2>3, <2>5, <2>7
      <3> QED BY <2>2, <2>6, <3>1, <3>3, <3>4
    <2>9. policy.pauseAfterCanary => reviewed
      <3>1. Released(rollout.current)
        BY Fields DEF Inv, ReleasedOK, ReconcileAdvance, RowLocked
      <3> QED BY <2>6, <3>1, Fields DEF Released, Inv
    <2> QED BY <2>8, <2>9 DEF Released
  <1> QED BY <1>1, <1>2, MoveOn DEF ReconcileAdvance

(***************************************************************************)
(* A resume lets the failures it counted pass: none of those below the     *)
(* current batch is new any more, and the canaries are among what ended.   *)
(***************************************************************************)
LEMMA ResumeCommitInv == Inv /\ TypeOK' /\ ResumeCommit => Inv'
  <1> SUFFICES ASSUME Inv, TypeOK', ResumeCommit PROVE Inv' OBVIOUS
  <1> USE DEF Inv, ResumeCommit, dispatcher, bounds
  <1>1. /\ Terminal' = Terminal /\ Failed' = Failed /\ Queued' = Queued
        /\ TargetsAdvance
    BY DEF Terminal, Failed, Queued, TargetsAdvance
  <1>2. CASE rollout.status = "running" /\ UNCHANGED <<rollout, acked, reviewed>>
    <2>1. EndOK' BY <1>1, <1>2 DEF EndOK, CompletedMeansDone
    <2> QED BY <1>1, <1>2, <2>1, Frame
  <1>3. CASE rollout.status = "paused"
    <2>1. /\ rollout'.status = "running" /\ rollout'.current = rollout.current
          /\ rollout'.baseline = Cardinality(op.failed)
          /\ acked' = op.failed
          /\ reviewed' = (reviewed \/ UpTo(Targets, 0) \subseteq Terminal)
      BY <1>3 DEF TypeOK
    <2>2. /\ op.failed \subseteq UpTo(Failed, rollout.current)
          /\ {t \in Failed : Batch[t] < rollout.current} \subseteq op.failed
      BY DEF AckedOK
    <2>3. ASSUME NEW k \in Nat, k <= rollout.current PROVE Released(k)'
      <3>1. Unacked(k)' = {}
        BY <1>1, <2>1, <2>2, <2>3, Fields DEF Unacked, Failed
      <3>2. k > 0 => UpTo(Targets, 0) \subseteq Terminal
        BY <2>3, Fields DEF LowerDone, UpTo
      <3>3. Cardinality({}) = 0 BY FS_EmptySet
      <3>4. k > 0 => reviewed' BY <2>1, <3>2
      <3>5. Cardinality(Unacked(k))' <= policy'.maxFailures
        <4>1. policy' = policy /\ policy.maxFailures \in Nat BY Fields
        <4>2. Cardinality(Unacked(k))' = 0 BY <3>1, <3>3
        <4> HIDE DEF ResumeCommit
        <4> QED BY <4>1, <4>2
      <3> QED BY <3>4, <3>5 DEF Released
    <2>4. LowerDone' BY <1>1, <2>1 DEF LowerDone
    <2>5. SeenOK'
      <3>1. seen' = seen /\ pc' = pc OBVIOUS
      <3> HIDE DEF ResumeCommit, dispatcher, bounds
      <3> QED BY <1>1, <2>1, <3>1 DEF SeenOK
    <2>6. AckedOK' BY <1>1, <2>1, <2>2 DEF AckedOK, NoOp, UpTo
    <2>7. ReleasedOK'
      <3>1. \A t \in started \cup picked : Batch[t] \in Nat /\ Batch[t] <= rollout.current
        BY Fields DEF ReleasedOK, TypeOK
      <3>2. \A k \in 0 .. rollout.current : k \in Nat /\ k <= rollout.current
        BY Fields
      <3> QED BY <2>1, <2>3, <3>1, <3>2 DEF ReleasedOK
    <2>8. EndOK' BY <2>1 DEF EndOK, CompletedMeansDone
    <2> QED BY <2>4, <2>5, <2>6, <2>7, <2>8
  <1> QED BY <1>2, <1>3

\* The last batch has ended, so every target has.
LEMMA ReconcileCompleteInv == Inv /\ TypeOK' /\ ReconcileComplete => Inv'
  <1> SUFFICES ASSUME Inv, TypeOK', ReconcileComplete PROVE Inv' OBVIOUS
  <1> USE DEF Inv, ReconcileComplete, Reconciled, bounds, history
  <1>1. /\ rollout'.status = "completed" /\ rollout'.current = rollout.current
        /\ rollout'.baseline = rollout.baseline
    BY DEF TypeOK
  <1>2. Terminal' = Terminal /\ TargetsAdvance
    BY DEF Terminal, Queued, TargetsAdvance
  <1>3. \A t \in Targets : Batch[t] < rollout.current + 1 BY Fields
  <1>4. EndOK'
    BY <1>1, <1>2, <1>3, SettledBatch, Fields DEF EndOK, CompletedMeansDone
  <1> QED BY <1>1, <1>2, <1>4, Frame

\* A cancel leaves nothing queued.
LEMMA CancelInv == Inv /\ TypeOK' /\ Cancel => Inv'
  <1> SUFFICES ASSUME Inv, TypeOK', Cancel PROVE Inv' OBVIOUS
  <1> USE DEF Inv, Cancel, dispatcher, history
  <1>1. /\ rollout'.status = "aborted" /\ rollout'.current = rollout.current
        /\ rollout'.baseline = rollout.baseline
    BY DEF TypeOK
  <1>2. Queued' = {} BY DEF Queued
  <1>3. TargetsAdvance BY <1>2, Fields DEF TargetsAdvance, Terminal
  <1>4. EndOK' BY <1>1, <1>2 DEF EndOK, CompletedMeansDone
  <1> QED BY <1>1, <1>3, <1>4, Frame

\* The other steps of the dispatcher, the targets, the clock and the process.
LEMMA ClaimInv ==
  ASSUME Inv, TypeOK', NEW S \in SUBSET Targets, Claim(S)
  PROVE  Inv'
  <1> USE DEF Inv, Claim, bounds
  <1>1. TargetsAdvance
    BY Fields DEF TargetsAdvance, Terminal, Queued, TypeOK
  <1>2. EndOK'
    <2>1. Queued' \subseteq Queued /\ Terminal \subseteq Terminal'
      BY <1>1, TerminalGrows DEF TargetsAdvance
    <2>2. Terminal' \subseteq Targets BY DEF Terminal
    <2> QED BY <2>1, <2>2 DEF EndOK, CompletedMeansDone
  <1>3. seen.selected => pc' = pc BY DEF SeenOK
  <1> QED BY <1>1, <1>2, <1>3, Frame

LEMMA TargetEnds ==
  ASSUME Inv, TypeOK', NEW t \in Targets,
         Skip(t) \/ \E o \in {"completed", "failed"} : Finish(t, o)
  PROVE  Inv'
  <1> USE DEF Inv, Skip, Finish, dispatcher, bounds, history
  <1>1. TargetsAdvance
    BY Fields DEF TargetsAdvance, Terminal, Queued, TypeOK
  <1>2. EndOK'
    <2>1. Queued' \subseteq Queued /\ Terminal \subseteq Terminal'
      BY <1>1, TerminalGrows DEF TargetsAdvance
    <2>2. Terminal' \subseteq Targets BY DEF Terminal
    <2> QED BY <2>1, <2>2 DEF EndOK, CompletedMeansDone
  <1> QED BY <1>1, <1>2, Frame

\* Steps that leave the targets and the history alone.
LEMMA QuietInv ==
  ASSUME Inv, TypeOK', ReconcileNothing \/ PauseCommit \/ Elapse \/ Crash \/ UNCHANGED vars
  PROVE  Inv'
  <1> USE DEF Inv, ReconcileNothing, Reconciled, PauseCommit, Elapse, Crash, vars,
              dispatcher, bounds, history
  <1>1. /\ rollout'.current = rollout.current /\ rollout'.baseline = rollout.baseline
        /\ rollout'.status \in {rollout.status, "paused"}
    BY DEF TypeOK
  <1>2. /\ Terminal' = Terminal /\ Queued' = Queued /\ TargetsAdvance
    BY DEF Terminal, Queued, TargetsAdvance
  <1>3. EndOK' BY <1>1, <1>2 DEF EndOK, CompletedMeansDone
  <1>4. started' \cup picked' \subseteq started \cup picked OBVIOUS
  <1>5. seen' = NoRead \/ (seen' = seen /\ pc' = pc) OBVIOUS
  <1> QED BY <1>1, <1>2, <1>3, <1>4, <1>5, Frame

-----------------------------------------------------------------------------
LEMMA NextInv == Inv /\ [Next]_vars => Inv'
  <1> SUFFICES ASSUME Inv, [Next]_vars PROVE Inv' OBVIOUS
  <1>1. TypeOK' BY TypeStep DEF Inv
  <1>2. CASE Sweep
    BY <1>1, <1>2, ReconcileReadInv, QuietInv, ReconcileCompleteInv, ReconcilePauseInv,
       ReconcileAdvanceInv, ClaimReadInv, ClaimInv DEF Sweep
  <1>3. CASE Operator
    BY <1>1, <1>3, BeginInv, QuietInv, ResumeCommitInv, CancelInv
    DEF Operator, PauseBegin, ResumeBegin
  <1>4. CASE \E t \in Targets : Skip(t) \/ \E o \in {"completed", "failed"} : Finish(t, o)
    BY <1>1, <1>4, TargetEnds
  <1>5. CASE Elapse \/ Crash \/ UNCHANGED vars BY <1>1, <1>5, QuietInv
  <1> QED BY <1>2, <1>3, <1>4, <1>5 DEF Next

(***************************************************************************)
(* The invariant holds of every behaviour of a rollout.                    *)
(***************************************************************************)
THEOREM RolloutInvariant == Spec => []Inv
  BY InitInv, NextInv, PTL DEF Spec

(***************************************************************************)
(* Every variable keeps its type: in particular current_batch never leaves *)
(* the batches prepare_job_rollout made.                                   *)
(***************************************************************************)
THEOREM RolloutTypeCorrect == Spec => []TypeOK
  <1>1. Inv => TypeOK BY DEF Inv
  <1> QED BY <1>1, RolloutInvariant, PTL

(***************************************************************************)
(* reconcile_job_rollouts and claim_due_job_targets together dispatch the  *)
(* batches in order.                                                       *)
(***************************************************************************)
THEOREM RolloutBatchesInOrder == Spec => []BatchesInOrder
  <1>1. Inv => BatchesInOrder
    <2> SUFFICES ASSUME Inv, NEW t \in started, NEW u \in Targets, Batch[u] < Batch[t]
                 PROVE  u \in Terminal
      BY DEF BatchesInOrder
    <2>1. t \in Targets /\ Batch[t] <= rollout.current
      BY DEF Inv, TypeOK, ReleasedOK
    <2> QED BY <2>1, Fields DEF Inv, LowerDone
  <1> QED BY <1>1, RolloutInvariant, PTL

(***************************************************************************)
(* No batch is dispatched over more new failures than max_failures.        *)
(***************************************************************************)
THEOREM RolloutFailureGate == Spec => []FailureGate
  <1>1. Inv => FailureGate
    BY DEF Inv, ReleasedOK, Released, Unacked, FailureGate
  <1> QED BY <1>1, RolloutInvariant, PTL

(***************************************************************************)
(* With pause_after_canary, nothing is dispatched past the canaries before *)
(* their results are reviewed.                                             *)
(***************************************************************************)
THEOREM RolloutCanaryReviewed == Spec => []CanaryReviewed
  <1>1. Inv => CanaryReviewed
    BY DEF Inv, ReleasedOK, Released, CanaryReviewed
  <1> QED BY <1>1, RolloutInvariant, PTL

(***************************************************************************)
(* A completed rollout has ended for every target.                         *)
(***************************************************************************)
THEOREM RolloutCompletedMeansDone == Spec => []CompletedMeansDone
  <1>1. Inv => CompletedMeansDone BY DEF Inv, EndOK
  <1> QED BY <1>1, RolloutInvariant, PTL

(***************************************************************************)
(* request_job_cancel is final, whatever claim or reconcile is in flight.  *)
(***************************************************************************)
THEOREM RolloutAbortIsFinal == Spec => AbortIsFinal
  <1>1. Inv /\ [Next]_vars =>
          [rollout.status = "aborted" =>
             rollout'.status = "aborted" /\ UNCHANGED started]_vars
    <2> SUFFICES ASSUME Inv, [Next]_vars, rollout.status = "aborted"
                 PROVE  rollout'.status = "aborted" /\ UNCHANGED started
      OBVIOUS
    <2> USE DEF Inv, TypeOK, EndOK
    <2>1. CASE Sweep
      <3>1. CASE \E S \in SUBSET Targets : Claim(S)
        BY <3>1 DEF Claim
      <3> QED
        BY <2>1, <3>1 DEF Sweep, ReconcileRead, ReconcileNothing, ReconcileComplete,
           ReconcilePause, ReconcileAdvance, Reconciled, RowLocked, ClaimRead, history
    <2>2. CASE Operator
      BY <2>2 DEF Operator, PauseBegin, ResumeBegin, Begin, PauseCommit, ResumeCommit,
         Cancel, RolloutTerminal, history
    <2>3. CASE \E t \in Targets : Skip(t) \/ \E o \in {"completed", "failed"} : Finish(t, o)
      BY <2>3 DEF Skip, Finish, history
    <2>4. CASE Elapse \/ Crash \/ UNCHANGED vars
      BY <2>4 DEF Elapse, Crash, vars, history
    <2> QED BY <2>1, <2>2, <2>3, <2>4 DEF Next
  <1> QED BY <1>1, RolloutInvariant, PTL DEF Spec, AbortIsFinal

(***************************************************************************)
(* pause_job_rollout takes hold with the next claim statement.             *)
(***************************************************************************)
THEOREM RolloutPauseHolds == Spec => PauseHolds
  <1>1. [Next]_vars =>
          [rollout.status = "paused" =>
             picked' \subseteq picked /\ started' \subseteq started \cup picked]_vars
    <2> SUFFICES ASSUME [Next]_vars, rollout.status = "paused"
                 PROVE  picked' \subseteq picked /\ started' \subseteq started \cup picked
      OBVIOUS
    <2>1. CASE Sweep
      <3>1. CASE \E S \in SUBSET Targets : Claim(S)
        BY <3>1 DEF Claim
      <3>2. CASE ClaimRead
        BY <3>2 DEF ClaimRead, Due, history
      <3> QED
        BY <2>1, <3>1, <3>2 DEF Sweep, ReconcileRead, ReconcileNothing, ReconcileComplete,
           ReconcilePause, ReconcileAdvance, Reconciled, RowLocked, history
    <2>2. CASE Operator
      BY <2>2 DEF Operator, PauseBegin, ResumeBegin, Begin, PauseCommit, ResumeCommit,
         Cancel, history, dispatcher
    <2>3. CASE \E t \in Targets : Skip(t) \/ \E o \in {"completed", "failed"} : Finish(t, o)
      BY <2>3 DEF Skip, Finish, history, dispatcher
    <2>4. CASE Elapse \/ Crash \/ UNCHANGED vars
      BY <2>4 DEF Elapse, Crash, vars, history, dispatcher
    <2> QED BY <2>1, <2>2, <2>3, <2>4 DEF Next
  <1> QED BY <1>1, PTL DEF Spec, PauseHolds
==============================================================================
