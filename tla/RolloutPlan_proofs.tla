-------------------------- MODULE RolloutPlan_proofs --------------------------
(***************************************************************************)
(* What prepare_job_rollout promises, for every set of targets, choice of  *)
(* canaries and batch size: the plans it makes satisfy RolloutAssumption,  *)
(* on which the proofs about JobRollout rest, keep to the batch size and   *)
(* follow the order of the client ids.                                     *)
(***************************************************************************)
EXTENDS RolloutPlan, FiniteSetTheorems, WellFoundedInduction, TLAPS

(***************************************************************************)
(* Least and greatest elements, from the well-foundedness of Nat.          *)
(***************************************************************************)
LessThan == {ss \in Nat \X Nat : ss[1] < ss[2]}

\* No sequence of numbers descends for ever.
LEMMA LessThanWellFounded == IsWellFoundedOn(LessThan, Nat)
  BY NatLessThanWellFounded, Zenon DEF OpToRel, LessThan

\* Every set of numbers has a least one.
LEMMA LeastOf ==
  ASSUME NEW S \in SUBSET Nat, S # {}
  PROVE  \E n \in S : \A m \in S : n <= m
<1>1. PICK n \in S : \A m \in S : ~ (<<m, n>> \in LessThan)
  BY LessThanWellFounded, WFMin
<1>2. \A m \in S : ~ (m < n)
  BY <1>1 DEF LessThan
<1> QED
  BY <1>2

\* A bounded one has a greatest.
LEMMA GreatestOf ==
  ASSUME NEW S \in SUBSET Nat, S # {}, NEW bound \in Nat, \A m \in S : m <= bound
  PROVE  \E n \in S : \A m \in S : m <= n
<1> DEFINE Above == {n \in Nat : \A m \in S : m <= n}
<1>1. Above \in SUBSET Nat /\ Above # {}
  OBVIOUS
<1>2. PICK n \in Above : \A a \in Above : n <= a
  BY <1>1, LeastOf
<1>3. n \in S
  <2>1. SUFFICES ASSUME n \notin S PROVE FALSE
    OBVIOUS
  <2>2. \A m \in S : m < n
    BY <2>1
  <2>3. n - 1 \in Nat
    <3>1. PICK m \in S : TRUE
      OBVIOUS
    <3>2. m \in Nat /\ n \in Nat /\ m < n
      BY <2>2, <3>1
    <3> QED
      BY <3>2
  <2>4. n - 1 \in Above
    BY <2>2, <2>3
  <2> QED
    BY <1>2, <2>4
<1> QED
  BY <1>3

(***************************************************************************)
(* Division by the batch size.                                             *)
(***************************************************************************)
\* The quotient, from below and from above.
LEMMA Division ==
  ASSUME NEW n \in Nat, NEW d \in Nat \ {0}
  PROVE  /\ n \div d \in Nat
         /\ d * (n \div d) <= n /\ n < d * (n \div d) + d
         /\ n \div d <= n
  OBVIOUS

\* Division keeps the order.
LEMMA DivisionGrows ==
  ASSUME NEW n \in Nat, NEW m \in Nat, NEW d \in Nat \ {0}, n <= m
  PROVE  n \div d <= m \div d
  OBVIOUS

\* The first place of a batch is a multiple of the size.
LEMMA DivisionOfMultiple ==
  ASSUME NEW k \in Nat, NEW d \in Nat \ {0}
  PROVE  d * k \in Nat /\ (d * k) \div d = k
  OBVIOUS

(***************************************************************************)
(* A request that validate_job_rollout lets pass, and the places of its    *)
(* targets behind the canaries.                                            *)
(***************************************************************************)
Rest(targets, canaries) == targets \ canaries
Below(t, targets, canaries) == {r \in targets \ canaries : r < t}

\* Places are numbers up to the number of targets behind the canaries.
LEMMA RestFacts ==
  ASSUME NEW targets \in SUBSET Nat, IsFiniteSet(targets), NEW canaries, NEW t \in Nat
  PROVE  /\ Rest(targets, canaries) \in SUBSET Nat /\ IsFiniteSet(Rest(targets, canaries))
         /\ IsFiniteSet(Below(t, targets, canaries))
         /\ Place(t, targets, canaries) = Cardinality(Below(t, targets, canaries))
         /\ Place(t, targets, canaries) \in Nat
         /\ Cardinality(Rest(targets, canaries)) \in Nat
         /\ Place(t, targets, canaries) <= Cardinality(Rest(targets, canaries))
<1>1. Rest(targets, canaries) \in SUBSET targets
  BY DEF Rest
<1>2. IsFiniteSet(Rest(targets, canaries))
  BY <1>1, FS_Subset
<1>3. Below(t, targets, canaries) \in SUBSET Rest(targets, canaries)
  BY DEF Below, Rest
<1>4. /\ IsFiniteSet(Below(t, targets, canaries))
      /\ Cardinality(Below(t, targets, canaries)) <= Cardinality(Rest(targets, canaries))
  BY <1>2, <1>3, FS_Subset
<1>5. Place(t, targets, canaries) = Cardinality(Below(t, targets, canaries))
  BY DEF Place, Below
<1> QED
  BY <1>1, <1>2, <1>4, <1>5, FS_CardinalityType

\* Places follow the order of the ids.
LEMMA PlaceIsMonotone ==
  ASSUME NEW targets \in SUBSET Nat, IsFiniteSet(targets), NEW canaries,
         NEW s \in Rest(targets, canaries), NEW t \in Rest(targets, canaries), s < t
  PROVE  Place(s, targets, canaries) < Place(t, targets, canaries)
<1> DEFINE B(r) == Below(r, targets, canaries)
<1>1. s \in Nat /\ t \in Nat
  BY DEF Rest
<1>2. B(s) \in SUBSET B(t) /\ s \in B(t) /\ s \notin B(s)
  <2>1. \A r \in targets : r < s => r < t
    BY <1>1
  <2>2. B(s) \in SUBSET B(t)
    BY <2>1 DEF Below
  <2> QED
    BY <1>1, <2>2 DEF Below, Rest
<1>3. IsFiniteSet(B(s)) /\ IsFiniteSet(B(t))
  BY <1>1, RestFacts
<1>4. Cardinality(B(s)) <= Cardinality(B(t)) /\ Cardinality(B(s)) # Cardinality(B(t))
  BY <1>2, <1>3, FS_Subset
<1> QED
  BY <1>1, <1>4, RestFacts

\* No place is left out.
LEMMA PlacesAreDense ==
  ASSUME NEW targets \in SUBSET Nat, IsFiniteSet(targets), NEW canaries,
         NEW t \in Rest(targets, canaries), NEW q \in 0 .. Place(t, targets, canaries)
  PROVE  \E s \in Rest(targets, canaries) : Place(s, targets, canaries) = q
<1> DEFINE R == Rest(targets, canaries)
           P(r) == Place(r, targets, canaries)
           B(r) == Below(r, targets, canaries)
           S == {r \in R : q <= P(r)}
<1>1. R \in SUBSET Nat /\ \A r \in R : r \in Nat /\ P(r) \in Nat /\ IsFiniteSet(B(r))
                                       /\ P(r) = Cardinality(B(r))
  BY RestFacts DEF Rest
<1>2. S \in SUBSET Nat /\ t \in S
  BY <1>1
<1>3. PICK s \in S : \A r \in S : s <= r
  BY <1>2, LeastOf
<1>4. CASE P(s) = q
  BY <1>3, <1>4
<1>5. CASE P(s) # q
  <2>1. P(s) \in Nat /\ P(s) > q /\ q \in Nat /\ s \in Nat /\ s \in R
    BY <1>1, <1>3, <1>5
  <2>2. B(s) # {}
    BY <1>1, <2>1, FS_EmptySet
  <2>3. B(s) \in SUBSET Nat /\ \A r \in B(s) : r <= s
    BY <1>1, <2>1 DEF Below, Rest
  <2>4. PICK r \in B(s) : \A x \in B(s) : x <= r
    BY <2>1, <2>2, <2>3, GreatestOf
  <2>5. r \in R /\ r \in Nat /\ r < s
    BY <2>3, <2>4 DEF Below, Rest
  <2>6. P(r) < q
    BY <1>1, <1>3, <2>1, <2>5
  <2>7. B(s) = B(r) \cup {r} /\ r \notin B(r)
    BY <1>1, <2>1, <2>4, <2>5 DEF Below, Rest
  <2>8. P(s) = P(r) + 1
    BY <1>1, <2>1, <2>5, <2>7, FS_AddElement
  <2> QED
    BY <1>1, <2>1, <2>5, <2>6, <2>8
<1> QED
  BY <1>4, <1>5

(***************************************************************************)
(* The batches.                                                            *)
(***************************************************************************)
\* TargetBatches, unfolded for one target, and a bound on its batch.
LEMMA BatchFacts ==
  ASSUME NEW targets \in SUBSET Nat, IsFiniteSet(targets), NEW canaries, NEW size,
         ValidRollout(targets, canaries, size), NEW t \in targets
  PROVE  LET batch == TargetBatches(targets, canaries, size)
         IN  /\ size \in Nat \ {0} /\ t \in Nat
             /\ batch[t] \in Nat
             /\ t \in canaries => batch[t] = 0
             /\ t \notin canaries =>
                  /\ t \in Rest(targets, canaries)
                  /\ batch[t] = (Place(t, targets, canaries) \div size) + 1
                  /\ Place(t, targets, canaries) \in Nat
             /\ Cardinality(Rest(targets, canaries)) \in Nat
             /\ batch[t] <= Cardinality(Rest(targets, canaries)) + 1
<1> DEFINE P == Place(t, targets, canaries)
<1>1. size \in Nat \ {0} /\ t \in Nat
  BY DEF ValidRollout
<1>2. P \in Nat /\ Cardinality(Rest(targets, canaries)) \in Nat
      /\ P <= Cardinality(Rest(targets, canaries))
  BY <1>1, RestFacts
<1>3. P \div size \in Nat /\ P \div size <= P
  BY <1>1, <1>2, Division
<1>4. TargetBatches(targets, canaries, size)[t]
        = IF t \in canaries THEN 0 ELSE (P \div size) + 1
  BY DEF TargetBatches
<1> HIDE DEF P
<1>5. /\ TargetBatches(targets, canaries, size)[t] \in Nat
      /\ TargetBatches(targets, canaries, size)[t] <= Cardinality(Rest(targets, canaries)) + 1
  BY <1>2, <1>3, <1>4
<1> QED
  BY <1>1, <1>2, <1>4, <1>5 DEF P, Rest

\* TotalBatches is one more than the greatest batch index.
LEMMA TotalIsReached ==
  ASSUME NEW targets \in SUBSET Nat, IsFiniteSet(targets), NEW canaries, NEW size,
         ValidRollout(targets, canaries, size)
  PROVE  LET batch == TargetBatches(targets, canaries, size)
         IN  \E t \in targets : /\ TotalBatches(batch) = batch[t] + 1
                                /\ \A s \in targets : batch[s] <= batch[t]
<1> DEFINE batch == TargetBatches(targets, canaries, size)
           Ends == {batch[t] + 1 : t \in targets}
           bound == Cardinality(Rest(targets, canaries)) + 2
<1>1. DOMAIN batch = targets
  BY DEF TargetBatches
<1>2. \A t \in targets : batch[t] \in Nat /\ batch[t] + 1 <= bound /\ bound \in Nat
  BY BatchFacts
<1>3. targets # {}
  BY DEF ValidRollout
<1> HIDE DEF batch, bound
<1>4. Ends \in SUBSET Nat /\ Ends # {} /\ bound \in Nat /\ \A n \in Ends : n <= bound
  <2>1. PICK t \in targets : TRUE
    BY <1>3
  <2>2. batch[t] + 1 \in Ends
    BY <2>1
  <2>3. ASSUME NEW n \in Ends
        PROVE  n \in Nat /\ n <= bound
    <3>1. PICK r \in targets : n = batch[r] + 1
      OBVIOUS
    <3> HIDE DEF Ends
    <3> QED
      BY <1>2, <3>1
  <2> QED
    BY <1>2, <2>1, <2>2, <2>3
<1>5. PICK n \in Ends : \A m \in Ends : m <= n
  BY <1>4, GreatestOf
<1>6. \A t \in targets : batch[t] < n
  <2>1. \A t \in targets : batch[t] + 1 \in Ends
    OBVIOUS
  <2>2. n \in Nat
    BY <1>4
  <2> HIDE DEF Ends
  <2> QED
    BY <1>2, <1>5, <2>1, <2>2
<1>7. /\ TotalBatches(batch) \in Ends
      /\ \A t \in targets : batch[t] < TotalBatches(batch)
  BY <1>1, <1>6 DEF TotalBatches
<1>8. PICK t \in targets : TotalBatches(batch) = batch[t] + 1
  BY <1>7
<1> QED
  BY <1>2, <1>7, <1>8 DEF batch

-----------------------------------------------------------------------------
\* The plan of prepare_job_rollout numbers its batches from 0 without a gap: it is one
\* that RolloutAssumption of JobRollout allows, and the canaries are its first batch.
THEOREM EveryBatchHasATarget ==
  ASSUME NEW targets \in SUBSET Nat, IsFiniteSet(targets), NEW canaries, NEW size,
         ValidRollout(targets, canaries, size)
  PROVE  LET batch == TargetBatches(targets, canaries, size)
             last == TotalBatches(batch) - 1
         IN  /\ last \in Nat \ {0}
             /\ batch \in [targets -> 0 .. last]
             /\ \A k \in 0 .. last : \E t \in targets : batch[t] = k
             /\ {t \in targets : batch[t] = 0} = canaries
<1> DEFINE batch == TargetBatches(targets, canaries, size)
           last == TotalBatches(batch) - 1
           P(r) == Place(r, targets, canaries)
<1>1. PICK top \in targets : /\ TotalBatches(batch) = batch[top] + 1
                             /\ \A s \in targets : batch[s] <= batch[top]
  BY TotalIsReached
<1>2. /\ size \in Nat \ {0}
      /\ \A t \in targets : /\ batch[t] \in Nat
                            /\ t \in canaries => batch[t] = 0
                            /\ t \notin canaries =>
                                 /\ t \in Rest(targets, canaries)
                                 /\ batch[t] = (P(t) \div size) + 1 /\ P(t) \in Nat
  BY <1>1, BatchFacts
<1>3. batch = [t \in targets |-> batch[t]]
  BY DEF TargetBatches
<1>4. canaries # {} /\ canaries \in SUBSET targets /\ Rest(targets, canaries) # {}
  <2>1. canaries # {} /\ canaries \in SUBSET targets
        /\ Cardinality(canaries) < Cardinality(targets)
    BY DEF ValidRollout
  <2>2. Cardinality(targets) \in Nat
    BY FS_CardinalityType
  <2>3. canaries # targets
    BY <2>1, <2>2
  <2> QED
    BY <2>1, <2>3 DEF Rest
<1> HIDE DEF batch, P
<1>5. \A t \in targets : t \notin canaries => batch[t] >= 1
  BY <1>2, Division
<1>6. last = batch[top] /\ last \in Nat
  BY <1>1, <1>2
<1>7. last # 0
  <2>1. PICK r \in Rest(targets, canaries) : TRUE
    BY <1>4
  <2>2. r \in targets /\ batch[r] >= 1
    BY <1>5, <2>1 DEF Rest
  <2> QED
    BY <1>1, <1>2, <1>6, <2>2
<1>8. batch \in [targets -> 0 .. last]
  BY <1>1, <1>2, <1>3, <1>6
<1>9. {t \in targets : batch[t] = 0} = canaries
  <2>1. \A t \in targets : batch[t] = 0 <=> t \in canaries
    BY <1>2, <1>5
  <2> QED
    BY <1>4, <2>1
<1>10. ASSUME NEW k \in 0 .. last
       PROVE  \E t \in targets : batch[t] = k
  <2>1. CASE k = 0
    BY <1>2, <1>4, <2>1
  <2>2. CASE k # 0
    <3> DEFINE q == size * (k - 1)
    <3>1. k \in Nat /\ k - 1 \in Nat /\ k <= last
      BY <1>6, <2>2
    <3>2. q \in Nat /\ q \div size = k - 1
      BY <1>2, <3>1, DivisionOfMultiple
    <3>3. top \notin canaries /\ top \in Rest(targets, canaries) /\ P(top) \in Nat
          /\ (P(top) \div size) + 1 = last
      BY <1>1, <1>2, <1>6, <1>7
    <3>4. P(top) \div size \in Nat /\ size * (P(top) \div size) <= P(top)
      BY <1>2, <3>3, Division
    <3>5. q <= size * (P(top) \div size)
      BY <1>2, <3>1, <3>3, <3>4
    <3>6. q \in 0 .. P(top)
      BY <1>2, <3>2, <3>3, <3>4, <3>5
    <3> HIDE DEF q
    <3>7. PICK s \in Rest(targets, canaries) : P(s) = q
      BY <3>3, <3>6, PlacesAreDense DEF P
    <3>8. s \in targets /\ s \notin canaries
      BY <3>7 DEF Rest
    <3> QED
      BY <1>2, <3>1, <3>2, <3>7, <3>8
  <2> QED
    BY <2>1, <2>2
<1> QED
  BY <1>6, <1>7, <1>8, <1>9, <1>10 DEF batch

\* No batch behind the canaries is larger than batch_size.
THEOREM BatchesKeepToTheSize ==
  ASSUME NEW targets \in SUBSET Nat, IsFiniteSet(targets), NEW canaries, NEW size,
         ValidRollout(targets, canaries, size), NEW k \in Nat \ {0}
  PROVE  Cardinality({t \in targets :
                        TargetBatches(targets, canaries, size)[t] = k}) <= size
<1> DEFINE batch == TargetBatches(targets, canaries, size)
           P(r) == Place(r, targets, canaries)
           S == {t \in targets : batch[t] = k}
           q == size * (k - 1)
           f == [t \in S |-> P(t)]
<1>1. size \in Nat \ {0}
  BY DEF ValidRollout
<1>2. \A t \in S : /\ t \in Nat /\ t \in Rest(targets, canaries)
                   /\ P(t) \in Nat /\ P(t) \div size = k - 1
  <2>1. SUFFICES ASSUME NEW t \in S
                 PROVE  /\ t \in Nat /\ t \in Rest(targets, canaries)
                        /\ P(t) \in Nat /\ P(t) \div size = k - 1
    OBVIOUS
  <2>2. t \in Nat /\ t \in Rest(targets, canaries) /\ P(t) \in Nat
        /\ k = (P(t) \div size) + 1
    BY <2>1, BatchFacts
  <2>3. P(t) \div size \in Nat
    BY <1>1, <2>2, Division
  <2> QED
    BY <2>2, <2>3
<1>3. k - 1 \in Nat /\ q \in Nat
  BY <1>1
<1>4. \A t \in S : q <= P(t) /\ P(t) < q + size
  BY <1>1, <1>2, Division
<1>5. \A s, t \in S : P(s) = P(t) => s = t
  BY <1>2, PlaceIsMonotone
<1> HIDE DEF S, P, q
<1>6. f \in [S -> q .. q + size - 1]
  BY <1>1, <1>2, <1>3, <1>4
<1>7. f \in Injection(S, q .. q + size - 1)
  <2>1. \A s, t \in S : f[s] = f[t] => s = t
    BY <1>5
  <2> QED
    BY <1>6, <2>1 DEF Injection, IsInjective
<1>8. /\ IsFiniteSet(q .. q + size - 1)
      /\ Cardinality(q .. q + size - 1) = size
  BY <1>1, <1>3, FS_Interval
<1>9. Cardinality(S) <= size
  BY <1>7, <1>8, FS_Injection
<1> QED
  BY <1>9 DEF S

\* Behind the canaries the batches follow the order of the client ids: no target is
\* planned before one with a smaller id.
THEOREM BatchesFollowTheIds ==
  ASSUME NEW targets \in SUBSET Nat, IsFiniteSet(targets), NEW canaries, NEW size,
         ValidRollout(targets, canaries, size),
         NEW s \in targets \ canaries, NEW t \in targets \ canaries, s < t
  PROVE  TargetBatches(targets, canaries, size)[s] <= TargetBatches(targets, canaries, size)[t]
<1> DEFINE batch == TargetBatches(targets, canaries, size)
           P(r) == Place(r, targets, canaries)
<1>1. size \in Nat \ {0} /\ P(s) \in Nat /\ P(t) \in Nat
      /\ s \in Rest(targets, canaries) /\ t \in Rest(targets, canaries)
      /\ batch[s] = (P(s) \div size) + 1 /\ batch[t] = (P(t) \div size) + 1
  BY BatchFacts
<1>2. P(s) < P(t)
  BY <1>1, PlaceIsMonotone
<1> HIDE DEF batch, P
<1>3. P(s) \div size <= P(t) \div size
  BY <1>1, <1>2, DivisionGrows
<1>4. P(s) \div size \in Nat /\ P(t) \div size \in Nat
  BY <1>1, Division
<1>5. batch[s] <= batch[t]
  BY <1>1, <1>3, <1>4
<1> QED
  BY <1>5 DEF batch
==============================================================================
