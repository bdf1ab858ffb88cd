------------------------- MODULE DispatchFence_proofs -------------------------
(***************************************************************************)
(* Proofs about DispatchFence, for any number of requests, jobs, gateway   *)
(* restarts and calls that time out: a client that the database has        *)
(* suspended or deleted is fenced, and no dispatch gets past the fence.    *)
(***************************************************************************)
EXTENDS DispatchFence, FiniteSetTheorems, TLAPS

\* The larger of two generations.
LEMMA MaxOfTwo ==
  ASSUME NEW a \in Nat, NEW b \in Nat
  PROVE  /\ Max({a, b}) \in {a, b}
         /\ Max({a, b}) >= a /\ Max({a, b}) >= b
  <1>1. \E x \in {a, b} : \A y \in {a, b} : x >= y
    <2>1. CASE a >= b
      BY <2>1
    <2>2. CASE ~ (a >= b)
      BY <2>2
    <2> QED BY <2>1, <2>2
  <1> QED BY <1>1 DEF Max

\* The names for nobody are not requests, nor is the absence of a fence a fence.
LEMMA Absence ==
  /\ NoOp \notin Ops /\ Lost \notin Ops
  /\ \A f \in FenceTypes : f # NoFence
  /\ \A f \in FallbackTypes : f # NoFallback
  /\ Cardinality(Ops) \in Nat
  BY FenceAssumption, AbsenceAssumption, FS_CardinalityType

\* Where a request may go on.
PCs == {"acquire", "prepare", "retire", "begin", "proof", "commit",
        "promote", "disconnect", "clear", "compensate", "done"}

\* What Goto does to the requests.
LEMMA GotoFacts ==
  ASSUME TypeOK, NEW o \in Ops, NEW pc \in PCs, Goto(o, pc)
  PROVE  /\ op' \in [Ops -> OpTypes]
         /\ op'[o].pc = pc /\ op'[o].epoch = op[o].epoch /\ op'[o].gen = op[o].gen
         /\ pc \in {"begin", "proof", "commit"} => op'[o].protected = op[o].protected
         /\ \A p \in Ops \ {o} : op'[p] = op[p]
  <1>1. PICK known \in SUBSET Jobs :
          /\ op' = [op EXCEPT ![o].pc = pc, ![o].protected = known]
          /\ pc \in {"begin", "proof", "commit"} => known = op[o].protected
    <2>1. op[o].protected \in SUBSET Jobs
      BY DEF TypeOK, OpTypes
    <2>2. CASE pc \in {"begin", "proof", "commit"}
      BY <2>1, <2>2 DEF Goto
    <2>3. CASE pc \notin {"begin", "proof", "commit"}
      BY <2>3 DEF Goto
    <2> QED BY <2>2, <2>3
  <1>2. op \in [Ops -> OpTypes]
    BY DEF TypeOK
  <1>3. op' \in [Ops -> OpTypes]
    BY <1>1, <1>2 DEF OpTypes, PCs
  <1>4. /\ op'[o].pc = pc /\ op'[o].epoch = op[o].epoch /\ op'[o].gen = op[o].gen
        /\ op'[o].protected = known
        /\ \A p \in Ops \ {o} : op'[p] = op[p]
    BY <1>1, <1>2 DEF OpTypes
  <1> QED BY <1>1, <1>3, <1>4

-----------------------------------------------------------------------------
(* Steps that leave the fence alone, or only learn less about it.            *)

\* No request gains a call that would prepare or clear a fence, or a proof, and those
\* the fence depends on keep their places.
OpsKeep ==
  \A p \in Ops :
    /\ OwnedBy(p) \/ IsFallback(p) => op'[p].gen = op[p].gen /\ op'[p].epoch = op[p].epoch
    /\ op[p].pc = "commit" => op'[p].epoch = op[p].epoch
    /\ op'[p].pc = "commit" => op[p].pc = "commit"
    /\ Unprepared(p)' => Unprepared(p)
    /\ Pending(p, {"clear"})' => Pending(p, {"clear"})

\* No contact learns of an owner or gets its change committed.
ContactsKeep ==
  \A c \in Contacts :
    /\ contact'[c].seen \in {contact[c].seen, NoOp, Lost}
    /\ contact'[c].pc = "apply" => contact[c].pc = "apply"

\* No dispatch learns of an owner or proves its eligibility.
DispatchesKeep ==
  \A j \in Jobs :
    /\ dispatch'[j].recheck \in {dispatch[j].recheck, NoOp}
    /\ dispatch'[j].pc = "call" => /\ dispatch[j].pc = "call"
                                   /\ dispatch'[j].epoch = dispatch[j].epoch
                                   /\ dispatch'[j].recheck = dispatch[j].recheck

\* The parts of the invariant that are about the fence.
FenceInv == FreshOK /\ StableOK /\ HeldOK /\ LaterEpochOK /\ PersistentIsCommitted

LEMMA FirmKept ==
  ASSUME TypeOK, ContactsKeep, DispatchesKeep, UNCHANGED epoch, NEW o \in Ops, Firm(o)
  PROVE  Firm(o)'
  BY Absence DEF ContactsKeep, DispatchesKeep, Firm, Contacts

\* Nothing that is known of a fence is lost while others learn nothing.
LEMMA FenceStands ==
  ASSUME IndInv, OpsKeep, ContactsKeep, DispatchesKeep, retired' \in Nat, retired' >= retired,
         UNCHANGED <<client, provenIn, committed, epoch, fence>>
  PROVE  FenceInv'
  <1>f. fence # NoFence => /\ fence.owner \in Ops
                           /\ fence.fallback # NoFallback => fence.fallback.owner \in Ops
    BY DEF IndInv, TypeOK, FenceTypes, FallbackTypes
  <1>g. \A o \in Ops : op[o].gen \in Nat /\ retired \in Nat
    BY Absence DEF IndInv, TypeOK, OpTypes
  <1>r. \A o \in Ops : (OwnedBy(o) \/ IsFallback(o)) /\ Retired(o) => Retired(o)'
    BY <1>g DEF Retired, OpsKeep
  <1>1. FreshOK'
    BY Absence DEF IndInv, FreshOK, InEpoch, OpsKeep, ContactsKeep, DispatchesKeep, OwnedBy, IsFallback
  <1>2. StableOK'
    BY <1>f, Absence DEF IndInv, StableOK, ContactsKeep, DispatchesKeep
  <1>b. Bars' = Bars
    BY DEF Bars
  <1>3. ASSUME NEW o \in Ops \cup {NoOp}, Held(o)
        PROVE  Held(o)'
    <2>1. fence # NoFence /\ Firm(fence.owner) /\ Firm(fence.owner)'
      BY <1>3, <1>f, FirmKept DEF Held, IndInv
    <2>2. CASE Retired(fence.owner)
      BY <2>1, <2>2, <1>f, <1>r DEF Held, OwnedBy
    <2>3. CASE fence.owner \in Bars \/ fence.owner = o
      BY <2>1, <2>3, <1>b DEF Held
    <2>4. CASE /\ ~ Pending(fence.owner, {"clear"})
               /\ fence.fallback # NoFallback
               /\ Firm(fence.fallback.owner)
               /\ Retired(fence.fallback.owner)
      <3>1. Firm(fence.fallback.owner)' /\ Retired(fence.fallback.owner)'
        BY <2>1, <2>4, <1>f, <1>r, FirmKept DEF IndInv, IsFallback
      <3>2. ~ Pending(fence.owner, {"clear"})'
        BY <2>1, <2>4, <1>f DEF OpsKeep
      <3> QED BY <2>1, <2>4, <3>1, <3>2 DEF Held
    <2> QED BY <1>3, <2>2, <2>3, <2>4 DEF Held
  <1>4. HeldOK'
    <2>1. client' \in Barred /\ provenIn' = epoch' => Held(NoOp)'
      BY <1>3 DEF IndInv, HeldOK
    <2>2. ASSUME NEW o \in Ops, Barring(o)', InEpoch(o)'
          PROVE  Held(o)'
      <3>1. Barring(o) /\ InEpoch(o)
        BY <2>2 DEF OpsKeep, Barring, InEpoch
      <3> QED BY <3>1, <1>3 DEF IndInv, HeldOK
    <2> QED BY <2>1, <2>2 DEF HeldOK
  <1>5. LaterEpochOK'
    BY DEF IndInv, LaterEpochOK, OpsKeep, DispatchesKeep, Barring, InEpoch
  <1>6. PersistentIsCommitted'
    BY DEF IndInv, PersistentIsCommitted
  <1> QED BY <1>1, <1>2, <1>4, <1>5, <1>6 DEF FenceInv
-----------------------------------------------------------------------------
(* Calls that the gateway executes, in time or late.                         *)

\* The ranges that the proofs below rely on.
LEMMA FenceTyped ==
  ASSUME IndInv
  PROVE  /\ retired \in 0..latest.gen /\ retired \in Nat
         /\ latest.gen \in Nat /\ latest.gen <= Cardinality(Ops)
         /\ \A o \in Ops : InEpoch(o) => op[o].gen <= latest.gen
         /\ \A o \in Ops : OwnedBy(o) \/ IsFallback(o) => InEpoch(o)
         /\ \A o \in Ops : op[o].gen \in Nat /\ op[o].gen <= Cardinality(Ops)
         /\ fence # NoFence => /\ fence \in FenceTypes
                               /\ fence.owner \in Ops
                               /\ fence.fallback # NoFallback =>
                                    /\ fence.fallback \in FallbackTypes
                                    /\ fence.fallback.owner \in Ops
  BY Absence DEF IndInv, TypeOK, FenceTypes, FallbackTypes, OpTypes, EpochsOK, FreshOK

\* Retiring generations only raises the mark, and not beyond those given out.
LEMMA RetireRaises ==
  ASSUME IndInv, NEW o \in Ops, InEpoch(o), RetireGenerations(o)
  PROVE  /\ retired' \in 0..latest.gen
         /\ retired' >= retired /\ op[o].gen <= retired'
  <1>1. /\ Max({retired, op[o].gen}) \in {retired, op[o].gen}
        /\ Max({retired, op[o].gen}) >= retired /\ Max({retired, op[o].gen}) >= op[o].gen
    BY FenceTyped, MaxOfTwo
  <1> HIDE DEF Max
  <1> QED BY <1>1, FenceTyped, Absence DEF RetireGenerations

LEMMA RetiredKept ==
  ASSUME IndInv, OpsKeep, retired' \in Nat, retired' >= retired, NEW o \in Ops, Retired(o),
         OwnedBy(o) \/ IsFallback(o)
  PROVE  Retired(o)'
  BY FenceTyped DEF OpsKeep, Retired

\* A preparation that is granted puts a fence of a fresh owner in front of the old one.
LEMMA PrepareKeeps ==
  ASSUME IndInv, NEW o \in Ops, HandlePrepare(o), Unprepared(o), ~ Unprepared(o)',
         op'[o].epoch = op[o].epoch, OpsKeep, ContactsKeep, DispatchesKeep, UNCHANGED <<client, provenIn, committed>>
  PROVE  /\ FenceInv'
         /\ fence' \in FenceTypes \cup {NoFence} /\ retired' \in 0..latest.gen
  <1>e. UNCHANGED epoch
    BY DEF HandlePrepare
  <1>1. CASE ~ PrepareGranted(o)
    <2>1. UNCHANGED <<fence, retired>>
      BY <1>1 DEF HandlePrepare
    <2> QED BY <2>1, <1>e, FenceStands, FenceTyped DEF IndInv, TypeOK
  <1>2. CASE PrepareGranted(o)
    <2>1. /\ fence' = [owner |-> o, state |-> "prepared", fallback |-> FallbackFor(o)]
          /\ IF fence = NoFence THEN UNCHANGED retired ELSE RetireGenerations(fence.owner)
      BY <1>2 DEF HandlePrepare
    <2>2. /\ retired' \in 0..latest.gen /\ retired' >= retired
          /\ fence # NoFence => op[fence.owner].gen <= retired'
      BY <2>1, FenceTyped, RetireRaises DEF OwnedBy
    <2>3. /\ fence = NoFence => FallbackFor(o) = NoFallback
          /\ fence # NoFence => FallbackFor(o) = [owner |-> fence.owner,
                                   recheck |-> Supersedes(o) \/ fence.state = "recheck"]
      BY DEF FallbackFor
    <2>b. (Supersedes(o) \/ fence.state = "recheck") \in BOOLEAN
      BY DEF Supersedes
    <2>4. FallbackFor(o) \in FallbackTypes \cup {NoFallback}
      <3>1. CASE fence = NoFence
        BY <2>3, <3>1
      <3>2. CASE fence # NoFence
        <4>1. fence.owner \in Ops
          BY <3>2, FenceTyped
        <4>2. [owner |-> fence.owner, recheck |-> Supersedes(o) \/ fence.state = "recheck"]
                \in FallbackTypes
          BY <2>b, <4>1 DEF FallbackTypes
        <4> QED BY <2>3, <3>2, <4>2
      <3> QED BY <3>1, <3>2
    <2>5. fence' \in FenceTypes /\ fence' # NoFence
      BY <2>1, <2>4, Absence DEF FenceTypes
    <2>6. fence'.owner = o /\ fence'.state = "prepared" /\ fence'.fallback = FallbackFor(o)
      BY <2>1
    <2>7. fence # NoFence => /\ fence'.fallback # NoFallback
                             /\ fence'.fallback.owner = fence.owner
                             /\ fence'.fallback.recheck = (Supersedes(o) \/ fence.state = "recheck")
      <3> SUFFICES ASSUME fence # NoFence
                   PROVE  /\ fence'.fallback # NoFallback
                          /\ fence'.fallback.owner = fence.owner
                          /\ fence'.fallback.recheck = (Supersedes(o) \/ fence.state = "recheck")
        OBVIOUS
      <3>1. fence'.fallback = [owner |-> fence.owner,
                               recheck |-> Supersedes(o) \/ fence.state = "recheck"]
        BY <2>3, <2>6
      <3>2. fence'.fallback \in FallbackTypes
        BY <3>1, <2>b, FenceTyped DEF FallbackTypes
      <3> QED BY <3>1, <3>2, Absence
    <2>8. fence = NoFence => fence'.fallback = NoFallback
      BY <2>3, <2>6
    <2>o. InEpoch(o)
      BY <1>2 DEF PrepareGranted
    <2>9. FreshOK'
      BY <1>e, <2>o, <2>5, <2>6, <2>7, <2>8, Absence
      DEF IndInv, FreshOK, InEpoch, OpsKeep, ContactsKeep, DispatchesKeep, OwnedBy, IsFallback
    <2>10. Firm(o)' /\ StableOK'
      BY <2>6, Absence DEF IndInv, FreshOK, InEpoch, ContactsKeep, DispatchesKeep, Firm, StableOK
    <2>11. ASSUME NEW p \in Ops \cup {NoOp}, Held(p)
           PROVE  Held(p)'
      <3> PICK f \in Ops : fence # NoFence /\ f = fence.owner
        BY <2>11, FenceTyped DEF Held
      <3>1. Firm(f)'
        BY <2>11, <1>e, FirmKept DEF Held, IndInv
      <3>2. Retired(f)'
        BY <2>2 DEF Retired, OpsKeep, OwnedBy
      <3>3. ~ Pending(o, {"clear"})'
        BY DEF OpsKeep, IndInv, CallsOK
      <3> QED BY <3>1, <3>2, <3>3, <2>5, <2>6, <2>7, <2>10 DEF Held
    <2>12. HeldOK'
      BY <1>e, <2>11 DEF IndInv, HeldOK, OpsKeep, Barring, InEpoch
    <2>13. LaterEpochOK'
      BY <1>e DEF IndInv, LaterEpochOK, OpsKeep, DispatchesKeep, Barring, InEpoch
    <2>14. PersistentIsCommitted'
      <3>1. fence # NoFence /\ ~ Supersedes(o) /\ fence.state # "recheck"
              => fence.state = "persistent"
        BY <1>2 DEF PrepareGranted, Replaceable
      <3> QED BY <2>6, <2>7, <2>8, <3>1 DEF IndInv, PersistentIsCommitted
    <2> QED BY <2>2, <2>5, <2>9, <2>10, <2>12, <2>13, <2>14 DEF FenceInv
  <1> QED BY <1>1, <1>2

\* A promotion comes from a request that was committed.
LEMMA PromoteKeeps ==
  ASSUME IndInv, NEW o \in Ops, HandlePromote(o), Pending(o, {"promote"}),
         OpsKeep, ContactsKeep, DispatchesKeep, UNCHANGED <<client, provenIn, committed>>
  PROVE  /\ FenceInv'
         /\ fence' \in FenceTypes \cup {NoFence} /\ retired' \in 0..latest.gen
  <1>e. UNCHANGED <<epoch, retired>> /\ retired \in 0..latest.gen
    BY DEF HandlePromote, IndInv, TypeOK
  <1>b. o \in Bars /\ o \in committed
    BY DEF IndInv, CallsOK, Pending, Bars
  <1>1. CASE ~ (InEpoch(o) /\ OwnedBy(o) /\ ~ Retired(o))
    <2>1. UNCHANGED fence
      BY <1>1 DEF HandlePromote
    <2> QED BY <2>1, <1>e, FenceStands, FenceTyped DEF IndInv, TypeOK
  <1>2. CASE InEpoch(o) /\ OwnedBy(o) /\ ~ Retired(o)
    <2>1. fence' = [owner |-> o, state |-> "persistent", fallback |-> NoFallback]
      BY <1>2 DEF HandlePromote
    <2>2. fence' \in FenceTypes /\ fence' # NoFence
      BY <2>1, Absence DEF FenceTypes
    <2>3. /\ fence'.owner = o /\ fence'.state = "persistent" /\ fence'.fallback = NoFallback
          /\ fence # NoFence /\ fence.owner = o
      BY <1>2, <2>1 DEF OwnedBy
    <2>4. FreshOK'
      BY <1>e, <2>2, <2>3, Absence
      DEF IndInv, FreshOK, InEpoch, OpsKeep, ContactsKeep, DispatchesKeep, OwnedBy, IsFallback
    <2>5. StableOK' /\ PersistentIsCommitted'
      BY <2>3, <1>b DEF StableOK, PersistentIsCommitted
    <2>6. ASSUME NEW p \in Ops \cup {NoOp}, Held(p)
          PROVE  Held(p)'
      <3>1. Firm(o)'
        BY <2>3, <2>6, <1>e, FirmKept DEF Held, IndInv
      <3>2. o \in Bars'
        BY <1>b DEF Bars
      <3> QED BY <2>2, <2>3, <3>1, <3>2 DEF Held
    <2>7. HeldOK'
      BY <1>e, <2>6 DEF IndInv, HeldOK, OpsKeep, Barring, InEpoch
    <2>8. LaterEpochOK'
      BY <1>e DEF IndInv, LaterEpochOK, OpsKeep, DispatchesKeep, Barring, InEpoch
    <2> QED BY <1>e, <2>2, <2>4, <2>5, <2>7, <2>8 DEF FenceInv
  <1> QED BY <1>1, <1>2

\* A call that takes a fence back leaves one while the client is barred.
LEMMA ClearKeeps ==
  ASSUME IndInv, NEW o \in Ops, NEW restore \in BOOLEAN, HandleClear(o, restore),
         restore => Pending(o, {"retire", "compensate"}),
         ~ restore => Pending(o, {"clear"}),
         OpsKeep, ContactsKeep, DispatchesKeep, UNCHANGED <<client, provenIn, committed>>
  PROVE  /\ FenceInv'
         /\ fence' \in FenceTypes \cup {NoFence} /\ retired' \in 0..latest.gen
  <1>e. UNCHANGED epoch
    BY DEF HandleClear
  <1>r. retired' \in 0..latest.gen /\ retired' >= retired /\ retired' \in Nat
    <2>1. UNCHANGED retired \/ (InEpoch(o) /\ RetireGenerations(o))
      BY DEF HandleClear
    <2> QED BY <2>1, RetireRaises, FenceTyped, Absence DEF IndInv, TypeOK
  <1>1. CASE UNCHANGED fence
    BY <1>1, <1>e, <1>r, FenceStands, FenceTyped DEF IndInv, TypeOK
  <1>2. CASE fence' # fence
    <2>1. /\ OwnedBy(o) /\ ~ Retired(o)
          /\ \/ restore /\ fence.fallback # NoFallback /\ fence' = Restored(fence.fallback)
             \/ (~ restore \/ fence.fallback = NoFallback) /\ fence' = NoFence
      BY <1>2 DEF HandleClear
    <2>2. fence # NoFence /\ fence.owner = o
      BY <2>1 DEF OwnedBy
    <2>3. ASSUME NEW p \in Ops \cup {NoOp}, Held(p), p \in Ops => Barring(p)
          PROVE  /\ restore /\ fence.fallback # NoFallback
                 /\ Firm(fence.fallback.owner) /\ Retired(fence.fallback.owner)
      <3>1. o \notin Bars
        BY DEF Bars, IndInv, CallsOK, Pending
      <3>2. o # p
        BY <2>3, Absence DEF Barring, IndInv, CallsOK, Pending
      <3> QED BY <2>1, <2>2, <2>3, <3>1, <3>2 DEF Held
    <2>4. LaterEpochOK'
      BY <1>e DEF IndInv, LaterEpochOK, OpsKeep, DispatchesKeep, Barring, InEpoch
    <2>5. CASE fence' = NoFence
      <3>1. FreshOK' /\ StableOK' /\ PersistentIsCommitted'
        BY <2>5, Absence
        DEF IndInv, FreshOK, InEpoch, StableOK, PersistentIsCommitted, OpsKeep, ContactsKeep,
            DispatchesKeep, OwnedBy, IsFallback
      <3>2. \A p \in Ops \cup {NoOp} : ~ (Held(p) /\ (p \in Ops => Barring(p)))
        <4> SUFFICES ASSUME NEW p \in Ops \cup {NoOp}, Held(p), p \in Ops => Barring(p)
                     PROVE  FALSE
          OBVIOUS
        <4>1. restore /\ fence.fallback # NoFallback
          BY <2>3
        <4>2. fence' = Restored(fence.fallback) /\ fence.fallback \in FallbackTypes
          BY <2>1, <2>2, <4>1, FenceTyped
        <4>3. Restored(fence.fallback) \in FenceTypes
          BY <4>2 DEF Restored, FenceTypes, FallbackTypes
        <4> QED BY <4>2, <4>3, <2>5, Absence
      <3>3. HeldOK'
        BY <1>e, <3>2, Absence DEF IndInv, HeldOK, OpsKeep, Barring, InEpoch
      <3> QED BY <2>4, <2>5, <3>1, <3>3, <1>r DEF FenceInv
    <2>6. CASE fence' # NoFence
      <3>1. fence.fallback # NoFallback /\ fence' = Restored(fence.fallback)
        BY <2>1, <2>6
      <3>2. fence.fallback \in FallbackTypes /\ fence.fallback.owner \in Ops
        BY <2>2, <3>1, FenceTyped
      <3>3. /\ fence' \in FenceTypes
            /\ fence'.owner = fence.fallback.owner /\ fence'.fallback = NoFallback
            /\ fence'.state = IF fence.fallback.recheck THEN "recheck" ELSE "persistent"
        BY <3>1, <3>2 DEF Restored, FenceTypes, FallbackTypes
      <3>4. FreshOK'
        BY <1>e, <2>2, <3>1, <3>3, Absence
        DEF IndInv, FreshOK, InEpoch, OpsKeep, ContactsKeep, DispatchesKeep, OwnedBy, IsFallback
      <3>5. StableOK'
        BY <3>3 DEF StableOK
      <3>6. PersistentIsCommitted'
        BY <2>2, <3>1, <3>3 DEF IndInv, PersistentIsCommitted
      <3>7. ASSUME NEW p \in Ops \cup {NoOp}, Held(p), p \in Ops => Barring(p)
            PROVE  Held(p)'
        <4> PICK f \in Ops : f = fence.fallback.owner
          BY <3>2
        <4>1. Firm(f) /\ Retired(f)
          BY <2>3, <3>7
        <4>2. Firm(f)' /\ Retired(f)'
          BY <2>2, <3>1, <4>1, <1>e, <1>r, FirmKept, RetiredKept DEF IndInv, IsFallback
        <4> QED BY <2>6, <3>3, <4>2 DEF Held
      <3>8. HeldOK'
        <4>1. client' \in Barred /\ provenIn' = epoch' => Held(NoOp)'
          BY <1>e, <3>7, Absence DEF IndInv, HeldOK
        <4>2. \A p \in Ops : Barring(p)' /\ InEpoch(p)' => Held(p)'
          BY <1>e, <3>7 DEF IndInv, HeldOK, OpsKeep, Barring, InEpoch
        <4> QED BY <4>1, <4>2 DEF HeldOK
      <3> QED BY <2>4, <3>3, <3>4, <3>5, <3>6, <3>8, <1>r DEF FenceInv
    <2> QED BY <2>5, <2>6
  <1> QED BY <1>1, <1>2
-----------------------------------------------------------------------------
(* What else a step has to keep.                                             *)

\* Nobody is about to bar the client while the row is free.
LEMMA FreeRow ==
  ASSUME LockOK, rowLock = NoOp, NEW o \in Ops
  PROVE  op[o].pc \notin {"proof", "commit"} /\ ~ Barring(o)
  BY Absence DEF LockOK, Barring

\* While the client is admitted and nobody is about to bar it, a fence that stays may be
\* learnt about and passed.
LEMMA AdmittedKeeps ==
  ASSUME IndInv, client' \notin Barred, \A p \in Ops : ~ Barring(p)',
         \A p \in Ops : Unprepared(p)' => Unprepared(p),
         \A c \in Contacts : contact'[c].seen \in {contact[c].seen, NoOp, Lost},
         \A j \in Jobs : dispatch'[j].recheck \in {dispatch[j].recheck, NoOp},
         \A p \in Ops : op'[p].epoch = op[p].epoch,
         committed \subseteq committed', UNCHANGED <<epoch, fence>>
  PROVE  FenceInv'
  <1>1. FreshOK'
    BY Absence DEF IndInv, FreshOK, InEpoch, OwnedBy, IsFallback
  <1>2. StableOK'
    BY FenceTyped, Absence DEF IndInv, StableOK
  <1>3. HeldOK' /\ LaterEpochOK'
    BY DEF HeldOK, LaterEpochOK
  <1>4. PersistentIsCommitted'
    BY DEF IndInv, PersistentIsCommitted
  <1> QED BY <1>1, <1>2, <1>3, <1>4 DEF FenceInv

\* A fence that a contact may lift does not bar the client.
LEMMA LiftKeeps ==
  ASSUME IndInv, NEW k \in Contacts, contact[k].pc = "apply", OwnedBy(contact[k].seen),
         LiftFence, ContactsKeep, DispatchesKeep,
         UNCHANGED <<client, provenIn, committed, epoch, op, late>>
  PROVE  FenceInv' /\ fence' = NoFence /\ retired' \in 0..latest.gen
  <1>1. fence # NoFence /\ fence.owner \in Ops /\ fence' = NoFence
        /\ RetireGenerations(fence.owner)
    BY FenceTyped DEF OwnedBy, LiftFence
  <1>2. retired' \in 0..latest.gen
    BY <1>1, FenceTyped, RetireRaises DEF OwnedBy
  <1>3. ~ Firm(fence.owner)
    BY DEF Firm, OwnedBy
  <1>4. \A p \in Ops \cup {NoOp} : ~ Held(p)
    BY <1>3 DEF Held
  <1>5. HeldOK'
    BY <1>4 DEF IndInv, HeldOK, Barring, InEpoch
  <1>6. FreshOK' /\ StableOK' /\ PersistentIsCommitted'
    BY <1>1, Absence
    DEF IndInv, FreshOK, InEpoch, StableOK, PersistentIsCommitted, ContactsKeep, DispatchesKeep,
        OwnedBy, IsFallback, Unprepared, Pending
  <1>7. LaterEpochOK'
    BY DEF IndInv, LaterEpochOK, DispatchesKeep, Barring, InEpoch
  <1> QED BY <1>1, <1>2, <1>5, <1>6, <1>7 DEF FenceInv

\* A dispatch does not pass a fence that is held.
LEMMA HeldRefuses ==
  ASSUME IndInv, NEW o \in Ops \cup {NoOp}, Held(o), NEW j \in Jobs
  PROVE  ~ PassesFence(j)
  BY DEF Held, PassesFence, Firm

\* Steps that leave the requests and their calls alone.
LEMMA OpsUnchanged ==
  ASSUME IndInv, UNCHANGED <<op, late, rowLock, committed, latest>>
  PROVE  GenerationsOK' /\ LockOK' /\ CallsOK' /\ OpsKeep
  BY DEF IndInv, GenerationsOK, LockOK, CallsOK, OpsKeep, Pending, Unprepared, Bars

\* Calls that are made or given up on keep the generations that are left.
LEMMA GenerationsKept ==
  ASSUME IndInv, \A p \in Ops : Pending(p, {"acquire"})' => Pending(p, {"acquire"}),
         latest'.gen \in Nat, latest'.gen <= latest.gen
  PROVE  GenerationsOK'
  <1> DEFINE S == {p \in Ops : Pending(p, {"acquire"})}
  <1>1. IsFiniteSet(S) /\ IsFiniteSet(S') /\ S' \subseteq S
    <2>1. S' \subseteq Ops /\ S \subseteq Ops /\ S' \subseteq S
      OBVIOUS
    <2> HIDE DEF S
    <2> QED BY <2>1, FenceAssumption, FS_Subset
  <1>2. Cardinality(S) \in Nat /\ Cardinality(S') \in Nat /\ Cardinality(S') <= Cardinality(S)
    <2> HIDE DEF S
    <2> QED BY <1>1, FS_Subset, FS_CardinalityType
  <1>3. latest.gen + Cardinality(S) <= Cardinality(Ops)
    BY DEF IndInv, GenerationsOK
  <1>4. latest'.gen + Cardinality(S') <= Cardinality(Ops)
    <2> HIDE DEF S
    <2> QED BY <1>2, <1>3, FenceTyped, Absence
  <1> QED BY <1>4 DEF GenerationsOK

\* An acquisition that is executed uses one of the generations that are left.
LEMMA GenerationUsed ==
  ASSUME IndInv, \A p \in Ops : Pending(p, {"acquire"})' => Pending(p, {"acquire"}),
         NEW o \in Ops, Pending(o, {"acquire"}), ~ Pending(o, {"acquire"})',
         latest'.gen = latest.gen + 1
  PROVE  GenerationsOK' /\ latest.gen + 1 \in 0..Cardinality(Ops)
  <1> DEFINE S == {p \in Ops : Pending(p, {"acquire"})}
  <1>1. IsFiniteSet(S) /\ S' \subseteq S \ {o} /\ o \in S
    <2>1. S \subseteq Ops /\ S' \subseteq S \ {o} /\ o \in S
      OBVIOUS
    <2> HIDE DEF S
    <2> QED BY <2>1, FenceAssumption, FS_Subset
  <1>2. /\ Cardinality(S) \in Nat /\ Cardinality(S') \in Nat
        /\ Cardinality(S') <= Cardinality(S) - 1
    <2> HIDE DEF S
    <2>1. IsFiniteSet(S \ {o}) /\ Cardinality(S \ {o}) = Cardinality(S) - 1
      BY <1>1, FS_RemoveElement
    <2>2. IsFiniteSet(S') /\ Cardinality(S') <= Cardinality(S \ {o})
      BY <1>1, <2>1, FS_Subset
    <2> QED BY <1>1, <2>1, <2>2, FS_CardinalityType
  <1>3. latest.gen + Cardinality(S) <= Cardinality(Ops)
    BY DEF IndInv, GenerationsOK
  <1>4. /\ latest'.gen + Cardinality(S') <= Cardinality(Ops)
        /\ latest.gen + 1 \in 0..Cardinality(Ops)
    <2> HIDE DEF S
    <2> QED BY <1>2, <1>3, FenceTyped, Absence
  <1> QED BY <1>4 DEF GenerationsOK
-----------------------------------------------------------------------------
(* Every action keeps the invariant: the dispatches.                         *)

LEMMA IdleTyped == IdleDispatch \in DispatchTypes /\ IdleContact \in ContactTypes
  BY FenceAssumption DEF IdleDispatch, DispatchTypes, IdleContact, ContactTypes

LEMMA ReadEpochOK ==
  ASSUME IndInv, NEW j \in Jobs, ReadEpoch(j)
  PROVE  IndInv'
  <1>1. TypeOK'
    BY DEF IndInv, TypeOK, ReadEpoch, db, gateway, DispatchTypes, IdleDispatch
  <1>2. DispatchesKeep /\ ContactsKeep
    BY DEF IndInv, TypeOK, ReadEpoch, IdleDispatch, DispatchesKeep, ContactsKeep, DispatchTypes
  <1>3. GenerationsOK' /\ LockOK' /\ CallsOK' /\ OpsKeep
    BY OpsUnchanged DEF ReadEpoch, db, gateway
  <1>4. EpochsOK'
    BY DEF IndInv, TypeOK, EpochsOK, InEpoch, ReadEpoch, IdleDispatch, db, gateway
  <1>5. FenceInv'
    BY <1>2, <1>3, FenceStands, FenceTyped DEF ReadEpoch, db, gateway
  <1>6. ProtectedOK'
    BY DEF IndInv, ProtectedOK, Barring, ReadEpoch, gateway
  <1> QED BY <1>1, <1>3, <1>4, <1>5, <1>6 DEF IndInv, FenceInv

LEMMA CheckDispatchableOK ==
  ASSUME IndInv, NEW j \in Jobs, CheckDispatchable(j)
  PROVE  IndInv'
  <1>t. target' \in [Jobs -> {"dispatching", "skipped", "agent_lost"}]
    BY DEF IndInv, TypeOK, CheckDispatchable, SkipUndelivered
  <1>1. TypeOK'
    <2>1. [dispatch[j] EXCEPT !.pc = "call"] \in DispatchTypes
      BY DEF IndInv, TypeOK, DispatchTypes
    <2>2. dispatch' \in [Jobs -> DispatchTypes]
      BY <2>1, IdleTyped DEF IndInv, TypeOK, CheckDispatchable
    <2> QED BY <1>t, <2>2 DEF IndInv, TypeOK, CheckDispatchable, gateway
  <1>3. GenerationsOK' /\ LockOK' /\ CallsOK' /\ OpsKeep
    BY OpsUnchanged DEF CheckDispatchable, gateway
  <1>4. EpochsOK'
    BY DEF IndInv, TypeOK, EpochsOK, InEpoch, CheckDispatchable, IdleDispatch, gateway, DispatchTypes
  <1>5. FenceInv'
    <2>1. CASE client \in Barred
      <3>1. DispatchesKeep /\ ContactsKeep
        BY <2>1 DEF IndInv, TypeOK, CheckDispatchable, IdleDispatch, DispatchesKeep,
                    ContactsKeep, DispatchTypes
      <3> QED BY <3>1, <1>3, FenceStands, FenceTyped DEF CheckDispatchable, gateway
    <2>2. CASE client \notin Barred
      <3>1. \A i \in Jobs : dispatch'[i].recheck \in {dispatch[i].recheck, NoOp}
        BY DEF IndInv, TypeOK, CheckDispatchable, IdleDispatch, DispatchTypes
      <3>2. \A p \in Ops : ~ Barring(p)'
        BY <1>3, FreeRow DEF CheckDispatchable, IndInv, Barring
      <3> QED BY <2>2, <3>1, <3>2, <1>3, AdmittedKeeps DEF CheckDispatchable, gateway, OpsKeep
    <2> QED BY <2>1, <2>2
  <1>6. ProtectedOK'
    BY DEF IndInv, ProtectedOK, Barring, CheckDispatchable, gateway
  <1> QED BY <1>1, <1>3, <1>4, <1>5, <1>6 DEF IndInv, FenceInv

\* A command given to a session is never one that a commit to come does not know of.
LEMMA EnqueueOK ==
  ASSUME IndInv, NEW j \in Jobs, Enqueue(j)
  PROVE  IndInv'
  <1>1. TypeOK'
    <2>1. dispatch' \in [Jobs -> DispatchTypes]
      BY IdleTyped DEF IndInv, TypeOK, Enqueue
    <2> QED BY <2>1 DEF IndInv, TypeOK, Enqueue, db
  <1>2. DispatchesKeep /\ ContactsKeep
    BY DEF IndInv, TypeOK, Enqueue, IdleDispatch, DispatchesKeep, ContactsKeep, DispatchTypes
  <1>3. GenerationsOK' /\ LockOK' /\ CallsOK' /\ OpsKeep
    BY OpsUnchanged DEF Enqueue, db
  <1>4. EpochsOK'
    BY DEF IndInv, TypeOK, EpochsOK, InEpoch, Enqueue, IdleDispatch, db
  <1>5. FenceInv'
    BY <1>2, <1>3, FenceStands, FenceTyped DEF Enqueue, db
  <1>6. ProtectedOK'
    <2> SUFFICES ASSUME NEW o \in Ops, Barring(o)
                 PROVE  FALSE
      BY DEF ProtectedOK, Barring, Enqueue
    <2>1. InEpoch(o)
      BY DEF IndInv, LaterEpochOK, Enqueue, PassesFence
    <2>2. Held(o)
      BY <2>1 DEF IndInv, HeldOK
    <2> QED BY <2>2, HeldRefuses DEF Enqueue
  <1> QED BY <1>1, <1>3, <1>4, <1>5, <1>6 DEF IndInv, FenceInv

\* A marker less is one job less to protect.
LEMMA MarkerExpiresOK ==
  ASSUME IndInv, NEW j \in Jobs, MarkerExpires(j)
  PROVE  IndInv'
  <1>u. /\ UNCHANGED <<client, target, rowLock, committed, provenIn, op, dispatch, apiEpoch,
                       contact, epoch, fence, latest, retired, session, late, timeouts>>
        /\ enqueued' \subseteq enqueued
    BY DEF MarkerExpires, db
  <1>1. TypeOK' /\ EpochsOK'
    BY <1>u DEF IndInv, TypeOK, EpochsOK, InEpoch
  <1>2. DispatchesKeep /\ ContactsKeep
    BY <1>u DEF DispatchesKeep, ContactsKeep
  <1>3. GenerationsOK' /\ LockOK' /\ CallsOK' /\ OpsKeep
    BY <1>u, OpsUnchanged
  <1>4. FenceInv'
    BY <1>u, <1>2, <1>3, FenceStands, FenceTyped
  <1>5. ProtectedOK'
    BY <1>u DEF IndInv, ProtectedOK, Barring
  <1> QED BY <1>1, <1>3, <1>4, <1>5 DEF IndInv, FenceInv

LEMMA EpochRecheckOK ==
  ASSUME IndInv, NEW j \in Jobs, EpochRecheck(j)
  PROVE  IndInv'
  <1>1. TypeOK'
    <2>1. epoch \in 0..MaxEpoch
      BY DEF IndInv, TypeOK
    <2>2. dispatch[j] \in DispatchTypes /\ dispatch \in [Jobs -> DispatchTypes]
      BY DEF IndInv, TypeOK
    <2>3. dispatch' \in [Jobs -> DispatchTypes] /\ apiEpoch' \in 0..MaxEpoch
      BY <2>1, <2>2 DEF EpochRecheck, DispatchTypes
    <2> QED BY <2>3 DEF IndInv, TypeOK, EpochRecheck, db, gateway
  <1>2. DispatchesKeep /\ ContactsKeep
    BY DEF IndInv, TypeOK, EpochRecheck, DispatchesKeep, ContactsKeep, DispatchTypes
  <1>3. GenerationsOK' /\ LockOK' /\ CallsOK' /\ OpsKeep
    BY OpsUnchanged DEF EpochRecheck, db, gateway
  <1>4. EpochsOK'
    BY DEF IndInv, TypeOK, EpochsOK, InEpoch, EpochRecheck, db, gateway, DispatchTypes
  <1>5. FenceInv'
    BY <1>2, <1>3, FenceStands, FenceTyped DEF EpochRecheck, db, gateway
  <1>6. ProtectedOK'
    BY DEF IndInv, ProtectedOK, Barring, EpochRecheck, gateway
  <1> QED BY <1>1, <1>3, <1>4, <1>5, <1>6 DEF IndInv, FenceInv

\* The dispatch learns the owner of a fence that is no longer in preparation, and has to
\* prove its eligibility again.
LEMMA LifecycleRecheckOK ==
  ASSUME IndInv, NEW j \in Jobs, LifecycleRecheck(j)
  PROVE  IndInv'
  <1>f. fence # NoFence /\ fence.state = "recheck" /\ fence.owner \in Ops
    BY FenceTyped DEF LifecycleRecheck
  <1>d. /\ \A i \in Jobs \ {j} : dispatch'[i] = dispatch[i]
        /\ dispatch'[j].pc = "check" /\ dispatch'[j].recheck = fence.owner
        /\ dispatch'[j].epoch = dispatch[j].epoch
    BY DEF LifecycleRecheck, IndInv, TypeOK, DispatchTypes
  <1>1. TypeOK'
    BY <1>f DEF IndInv, TypeOK, LifecycleRecheck, db, gateway, DispatchTypes
  <1>3. GenerationsOK' /\ LockOK' /\ CallsOK' /\ OpsKeep
    BY OpsUnchanged DEF LifecycleRecheck, db, gateway
  <1>4. EpochsOK'
    BY <1>d DEF IndInv, EpochsOK, InEpoch, LifecycleRecheck, db, gateway
  <1>u. UNCHANGED <<client, provenIn, committed, epoch, fence, contact, op, late, retired>>
    BY DEF LifecycleRecheck, db, gateway
  <1>5. FreshOK'
    BY <1>f, <1>d, <1>u DEF IndInv, FreshOK, InEpoch, OwnedBy, IsFallback, Unprepared, Pending
  <1>6. StableOK' /\ PersistentIsCommitted'
    BY <1>f, <1>u DEF IndInv, StableOK, PersistentIsCommitted
  <1>7. ASSUME NEW p \in Ops, Firm(p)
        PROVE  Firm(p)'
    BY <1>7, <1>d, <1>u DEF Firm
  <1>8. ASSUME NEW o \in Ops \cup {NoOp}, Held(o)
        PROVE  Held(o)'
    BY <1>7, <1>8, <1>u, FenceTyped DEF Held, Retired, Bars, Pending
  <1>9. HeldOK'
    BY <1>8, <1>u DEF IndInv, HeldOK, Barring, InEpoch
  <1>10. LaterEpochOK'
    BY <1>d, <1>u DEF IndInv, LaterEpochOK, Barring, InEpoch
  <1>11. ProtectedOK'
    BY DEF IndInv, ProtectedOK, Barring, LifecycleRecheck, gateway
  <1> QED BY <1>1, <1>3, <1>4, <1>5, <1>6, <1>9, <1>10, <1>11 DEF IndInv

LEMMA GiveUpOK ==
  ASSUME IndInv, NEW j \in Jobs, GiveUp(j)
  PROVE  IndInv'
  <1>1. TypeOK'
    <2>1. dispatch' \in [Jobs -> DispatchTypes]
      BY IdleTyped DEF IndInv, TypeOK, GiveUp
    <2> QED BY <2>1 DEF IndInv, TypeOK, GiveUp, db, gateway
  <1>2. DispatchesKeep /\ ContactsKeep
    BY DEF IndInv, TypeOK, GiveUp, IdleDispatch, DispatchesKeep, ContactsKeep, DispatchTypes
  <1>3. GenerationsOK' /\ LockOK' /\ CallsOK' /\ OpsKeep
    BY OpsUnchanged DEF GiveUp, db, gateway
  <1>4. EpochsOK'
    BY DEF IndInv, TypeOK, EpochsOK, InEpoch, GiveUp, IdleDispatch, db, gateway
  <1>5. FenceInv'
    BY <1>2, <1>3, FenceStands, FenceTyped DEF GiveUp, db, gateway
  <1>6. ProtectedOK'
    BY DEF IndInv, ProtectedOK, Barring, GiveUp, gateway
  <1> QED BY <1>1, <1>3, <1>4, <1>5, <1>6 DEF IndInv, FenceInv
-----------------------------------------------------------------------------
(* The agent and the gateway process.                                        *)

\* A contact learns only of a fence that is no longer in preparation.
LEMMA ObserveOK ==
  ASSUME IndInv, NEW c \in Contacts, Observe(c)
  PROVE  IndInv'
  <1>s. PICK s \in Ops \cup {NoOp} :
          /\ contact' = [contact EXCEPT ![c] = [pc |-> "commit", seen |-> s]]
          /\ s # NoOp => fence # NoFence /\ fence.state # "prepared" /\ s = fence.owner
    <2>1. StableOwner \in Ops \cup {NoOp}
      BY FenceTyped DEF StableOwner
    <2>2. StableOwner # NoOp => /\ fence # NoFence /\ fence.state # "prepared"
                                /\ StableOwner = fence.owner
      BY DEF StableOwner
    <2>3. \/ contact' = [contact EXCEPT ![c] = [pc |-> "commit", seen |-> StableOwner]]
          \/ contact' = [contact EXCEPT ![c] = [pc |-> "commit", seen |-> NoOp]]
      BY DEF Observe
    <2> QED BY <2>1, <2>2, <2>3
  <1>d. /\ \A k \in Contacts \ {c} : contact'[k] = contact[k]
        /\ contact'[c].pc = "commit" /\ contact'[c].seen = s
        /\ contact' \in [Contacts -> ContactTypes]
    BY <1>s DEF IndInv, TypeOK, ContactTypes
  <1>u. UNCHANGED <<client, provenIn, committed, epoch, fence, dispatch, op, late, retired,
                    rowLock, latest, target, apiEpoch, enqueued, session, timeouts>>
    BY DEF Observe, db, gateway
  <1>1. TypeOK'
    BY <1>d, <1>u DEF IndInv, TypeOK
  <1>3. GenerationsOK' /\ LockOK' /\ CallsOK' /\ OpsKeep
    BY <1>u, OpsUnchanged
  <1>4. EpochsOK' /\ ProtectedOK'
    BY <1>u DEF IndInv, EpochsOK, InEpoch, ProtectedOK, Barring
  <1>5. FreshOK'
    BY <1>s, <1>d, <1>u, Absence DEF IndInv, FreshOK, InEpoch, OwnedBy, IsFallback, Unprepared, Pending
  <1>6. StableOK' /\ PersistentIsCommitted'
    BY <1>s, <1>d, <1>u, Absence, FenceTyped DEF IndInv, StableOK, PersistentIsCommitted
  <1>7. ASSUME NEW p \in Ops, Firm(p)
        PROVE  Firm(p)'
    BY <1>7, <1>d, <1>u DEF Firm
  <1>8. ASSUME NEW o \in Ops \cup {NoOp}, Held(o)
        PROVE  Held(o)'
    BY <1>7, <1>8, <1>u, FenceTyped DEF Held, Retired, Bars, Pending
  <1>9. HeldOK' /\ LaterEpochOK'
    BY <1>8, <1>u DEF IndInv, HeldOK, LaterEpochOK, Barring, InEpoch
  <1> QED BY <1>1, <1>3, <1>4, <1>5, <1>6, <1>9 DEF IndInv

LEMMA CommitHelloOK ==
  ASSUME IndInv, CommitHello
  PROVE  IndInv'
  <1>c. "hello" \in Contacts
    BY DEF Contacts
  <1>d. \A k \in Contacts : contact'[k].seen \in {contact[k].seen, NoOp}
    BY <1>c DEF IndInv, TypeOK, CommitHello, IdleContact, ContactTypes
  <1>t. contact' \in [Contacts -> ContactTypes]
    <2>1. [contact["hello"] EXCEPT !.pc = "apply"] \in ContactTypes
      BY <1>c DEF IndInv, TypeOK, ContactTypes
    <2> QED BY <2>1, <1>c, IdleTyped DEF IndInv, TypeOK, CommitHello
  <1>u. UNCHANGED <<provenIn, committed, epoch, fence, dispatch, op, late, retired,
                    rowLock, latest, target, apiEpoch, enqueued, session, timeouts>>
    BY DEF CommitHello, gateway
  <1>1. TypeOK'
    BY <1>t, <1>u DEF IndInv, TypeOK, CommitHello, Barred
  <1>3. GenerationsOK' /\ LockOK' /\ CallsOK' /\ OpsKeep
    BY <1>u, OpsUnchanged
  <1>4. EpochsOK' /\ ProtectedOK'
    BY <1>u DEF IndInv, EpochsOK, InEpoch, ProtectedOK, Barring
  <1>5. CASE client = "deleted"
    <2>1. ContactsKeep /\ DispatchesKeep /\ client' = client
      BY <1>5, <1>c, <1>d, <1>u
      DEF IndInv, TypeOK, ContactsKeep, DispatchesKeep, CommitHello, IdleContact, ContactTypes
    <2>2. FenceInv'
      BY <1>u, <1>3, <2>1, FenceStands, FenceTyped
    <2> QED BY <1>1, <1>3, <1>4, <2>2 DEF IndInv, FenceInv
  <1>6. CASE client # "deleted"
    <2>1. client' \notin Barred
      BY <1>6 DEF CommitHello, Barred
    <2>2. \A p \in Ops : ~ Barring(p)'
      BY <1>3, <1>u, FreeRow DEF CommitHello, IndInv, Barring
    <2>3. FenceInv'
      BY <1>u, <1>d, <1>3, <2>1, <2>2, AdmittedKeeps DEF OpsKeep
    <2> QED BY <1>1, <1>3, <1>4, <2>3 DEF IndInv, FenceInv
  <1> QED BY <1>5, <1>6

LEMMA CommitTelemetryOK ==
  ASSUME IndInv, CommitTelemetry
  PROVE  IndInv'
  <1>c. "telemetry" \in Contacts
    BY DEF Contacts
  <1>d. \A k \in Contacts : contact'[k].seen \in {contact[k].seen, NoOp}
    BY <1>c DEF IndInv, TypeOK, CommitTelemetry, IdleContact, ContactTypes
  <1>t. contact' \in [Contacts -> ContactTypes]
    <2>1. [contact["telemetry"] EXCEPT !.pc = "apply"] \in ContactTypes
      BY <1>c DEF IndInv, TypeOK, ContactTypes
    <2> QED BY <2>1, <1>c, IdleTyped DEF IndInv, TypeOK, CommitTelemetry
  <1>u. UNCHANGED <<provenIn, committed, epoch, fence, dispatch, op, late, retired,
                    rowLock, latest, target, apiEpoch, enqueued, timeouts>>
    BY DEF CommitTelemetry
  <1>b. session' \in BOOLEAN
    BY DEF IndInv, TypeOK, CommitTelemetry
  <1>1. TypeOK'
    BY <1>t, <1>u, <1>b DEF IndInv, TypeOK, CommitTelemetry
  <1>3. GenerationsOK' /\ LockOK' /\ CallsOK' /\ OpsKeep
    BY <1>u, OpsUnchanged
  <1>4. EpochsOK' /\ ProtectedOK'
    BY <1>u DEF IndInv, EpochsOK, InEpoch, ProtectedOK, Barring
  <1>5. CASE client \in Barred
    <2>1. ContactsKeep /\ DispatchesKeep /\ client' = client
      BY <1>5, <1>c, <1>d, <1>u
      DEF IndInv, TypeOK, ContactsKeep, DispatchesKeep, CommitTelemetry, IdleContact, ContactTypes
    <2>2. FenceInv'
      BY <1>u, <1>3, <2>1, FenceStands, FenceTyped
    <2> QED BY <1>1, <1>3, <1>4, <2>2 DEF IndInv, FenceInv
  <1>6. CASE client \notin Barred
    <2>1. client' \notin Barred
      BY <1>6 DEF CommitTelemetry, Barred
    <2>2. \A p \in Ops : ~ Barring(p)'
      BY <1>3, <1>u, FreeRow DEF CommitTelemetry, IndInv, Barring
    <2>3. FenceInv'
      BY <1>u, <1>d, <1>3, <2>1, <2>2, AdmittedKeeps DEF OpsKeep
    <2> QED BY <1>1, <1>3, <1>4, <2>3 DEF IndInv, FenceInv
  <1> QED BY <1>5, <1>6

\* The database learns that the client is offline.
LEMMA GoOfflineOK ==
  ASSUME IndInv, GoOffline
  PROVE  IndInv'
  <1>u. UNCHANGED <<provenIn, committed, epoch, fence, dispatch, op, late, retired, contact,
                    rowLock, latest, target, apiEpoch, enqueued, session, timeouts>>
    BY DEF GoOffline, gateway
  <1>1. TypeOK' /\ client' \notin Barred
    BY <1>u DEF IndInv, TypeOK, GoOffline, Barred
  <1>3. GenerationsOK' /\ LockOK' /\ CallsOK' /\ OpsKeep
    BY <1>u, OpsUnchanged
  <1>4. EpochsOK' /\ ProtectedOK'
    BY <1>u DEF IndInv, EpochsOK, InEpoch, ProtectedOK, Barring
  <1>5. \A p \in Ops : ~ Barring(p)'
    BY <1>3, <1>u, FreeRow DEF GoOffline, IndInv, Barring
  <1>6. FenceInv'
    BY <1>u, <1>1, <1>3, <1>5, AdmittedKeeps DEF OpsKeep
  <1> QED BY <1>1, <1>3, <1>4, <1>6 DEF IndInv, FenceInv

\* Steps of the agent's contacts that leave the database, the requests and the epoch alone.
LEMMA ContactStep ==
  ASSUME IndInv, contact' \in [Contacts -> ContactTypes], session' \in BOOLEAN,
         fence' \in FenceTypes \cup {NoFence}, retired' \in 0..latest.gen, FenceInv',
         UNCHANGED <<db, op, dispatch, apiEpoch, epoch, latest, enqueued, late, timeouts>>
  PROVE  IndInv'
  <1>1. TypeOK'
    BY DEF IndInv, TypeOK, db
  <1>2. GenerationsOK' /\ LockOK' /\ CallsOK'
    BY OpsUnchanged DEF db
  <1>3. EpochsOK' /\ ProtectedOK'
    BY DEF IndInv, EpochsOK, InEpoch, ProtectedOK, Barring, db
  <1> QED BY <1>1, <1>2, <1>3 DEF IndInv, FenceInv

\* A registered hello lifts only a fence that was no longer in preparation when the
\* gateway was told of the hello, after the client was readmitted.
LEMMA RegisterSessionOK ==
  ASSUME IndInv, RegisterSession
  PROVE  IndInv'
  <1>c. "hello" \in Contacts /\ "telemetry" \in Contacts /\ Contacts = {"hello", "telemetry"}
    BY DEF Contacts
  <1>u. UNCHANGED <<db, op, dispatch, apiEpoch, epoch, latest, enqueued, late, timeouts>>
    BY DEF RegisterSession
  <1>d. ContactsKeep /\ DispatchesKeep /\ contact' \in [Contacts -> ContactTypes]
    <2>1. contact' \in [Contacts -> ContactTypes]
      BY <1>c, IdleTyped DEF IndInv, TypeOK, RegisterSession, ContactTypes
    <2>2. ContactsKeep
      BY <1>c DEF IndInv, TypeOK, RegisterSession, ContactTypes, ContactsKeep, IdleContact
    <2> QED BY <1>u, <2>1, <2>2 DEF DispatchesKeep
  <1>b. session' \in BOOLEAN
    BY DEF IndInv, TypeOK, RegisterSession
  <1>1. CASE fence # NoFence /\ MayLift(contact["hello"].seen)
    <2>1. LiftFence /\ OwnedBy(contact["hello"].seen) /\ contact["hello"].pc = "apply"
      BY <1>1 DEF RegisterSession, MayLift
    <2>2. FenceInv' /\ fence' = NoFence /\ retired' \in 0..latest.gen
      BY <1>c, <1>d, <1>u, <2>1, LiftKeeps DEF db
    <2> QED BY <1>b, <1>d, <1>u, <2>2, ContactStep
  <1>2. CASE fence = NoFence \/ ~ MayLift(contact["hello"].seen)
    <2>1. UNCHANGED <<fence, retired>>
      BY <1>2 DEF RegisterSession
    <2>2. FenceInv'
      BY <1>d, <1>u, <2>1, OpsUnchanged, FenceStands, FenceTyped DEF db
    <2>3. fence' \in FenceTypes \cup {NoFence} /\ retired' \in 0..latest.gen
      BY <2>1 DEF IndInv, TypeOK
    <2> QED BY <1>b, <1>d, <1>u, <2>2, <2>3, ContactStep
  <1> QED BY <1>1, <1>2

LEMMA RefreshRouteOK ==
  ASSUME IndInv, RefreshRoute
  PROVE  IndInv'
  <1>c. "telemetry" \in Contacts
    BY DEF Contacts
  <1>u. UNCHANGED <<db, op, dispatch, apiEpoch, epoch, latest, enqueued, session, late, timeouts>>
    BY DEF RefreshRoute
  <1>d. ContactsKeep /\ DispatchesKeep /\ contact' \in [Contacts -> ContactTypes]
    <2>1. contact' \in [Contacts -> ContactTypes]
      BY <1>c, IdleTyped DEF IndInv, TypeOK, RefreshRoute
    <2>2. ContactsKeep
      BY <1>c DEF IndInv, TypeOK, RefreshRoute, ContactTypes, ContactsKeep, IdleContact
    <2> QED BY <1>u, <2>1, <2>2 DEF DispatchesKeep
  <1>b. session' \in BOOLEAN
    BY <1>u DEF IndInv, TypeOK
  <1>1. CASE OwnedBy(contact["telemetry"].seen) /\ fence.state # "prepared"
    <2>1. LiftFence /\ contact["telemetry"].pc = "apply"
      BY <1>1 DEF RefreshRoute
    <2>2. FenceInv' /\ fence' = NoFence /\ retired' \in 0..latest.gen
      BY <1>1, <1>c, <1>d, <1>u, <2>1, LiftKeeps DEF db
    <2> QED BY <1>b, <1>d, <1>u, <2>2, ContactStep
  <1>2. CASE ~ (OwnedBy(contact["telemetry"].seen) /\ fence.state # "prepared")
    <2>1. UNCHANGED <<fence, retired>>
      BY <1>2 DEF RefreshRoute
    <2>2. FenceInv'
      BY <1>d, <1>u, <2>1, OpsUnchanged, FenceStands, FenceTyped DEF db
    <2>3. fence' \in FenceTypes \cup {NoFence} /\ retired' \in 0..latest.gen
      BY <2>1 DEF IndInv, TypeOK
    <2> QED BY <1>b, <1>d, <1>u, <2>2, <2>3, ContactStep
  <1> QED BY <1>1, <1>2

LEMMA SessionGoneKeeps ==
  ASSUME IndInv, SessionGone
  PROVE  ContactsKeep /\ contact' \in [Contacts -> ContactTypes]
  <1>c. "telemetry" \in Contacts
    BY DEF Contacts
  <1>1. contact' \in [Contacts -> ContactTypes]
    BY <1>c DEF IndInv, TypeOK, SessionGone, ContactTypes
  <1>2. ContactsKeep
    BY <1>c DEF IndInv, TypeOK, SessionGone, ContactTypes, ContactsKeep
  <1> QED BY <1>1, <1>2

LEMMA ContactIdles ==
  ASSUME IndInv, DropHello \/ SessionEnds
  PROVE  IndInv'
  <1>c. "hello" \in Contacts
    BY DEF Contacts
  <1>u. UNCHANGED <<db, op, dispatch, apiEpoch, epoch, latest, enqueued, late, timeouts,
                    fence, retired>>
    BY DEF DropHello, SessionEnds, gateway
  <1>b. session' \in BOOLEAN
    BY DEF IndInv, TypeOK, DropHello, SessionEnds, gateway
  <1>d. ContactsKeep /\ contact' \in [Contacts -> ContactTypes]
    <2>1. CASE DropHello
      <3>1. contact' \in [Contacts -> ContactTypes]
        BY <1>c, <2>1, IdleTyped DEF IndInv, TypeOK, DropHello
      <3>2. ContactsKeep
        BY <1>c, <2>1 DEF IndInv, TypeOK, DropHello, ContactTypes, ContactsKeep, IdleContact
      <3> QED BY <3>1, <3>2
    <2>2. CASE SessionEnds
      BY <2>2, SessionGoneKeeps DEF SessionEnds
    <2> QED BY <2>1, <2>2
  <1>1. DispatchesKeep
    BY <1>u DEF DispatchesKeep
  <1>2. FenceInv'
    BY <1>d, <1>u, <1>1, OpsUnchanged, FenceStands, FenceTyped DEF db
  <1>3. fence' \in FenceTypes \cup {NoFence} /\ retired' \in 0..latest.gen
    BY <1>u DEF IndInv, TypeOK
  <1> QED BY <1>b, <1>d, <1>u, <1>2, <1>3, ContactStep

\* A lease that runs out leaves the fence with its owner.
LEMMA LeaseExpiresOK ==
  ASSUME IndInv, LeaseExpires
  PROVE  IndInv'
  <1>u. UNCHANGED <<db, op, dispatch, apiEpoch, contact, epoch, latest, retired, enqueued,
                    session, late, timeouts>>
    BY DEF LeaseExpires
  <1>f. /\ fence # NoFence /\ fence' \in FenceTypes /\ fence' # NoFence
        /\ fence'.owner = fence.owner /\ fence'.fallback = fence.fallback
        /\ fence'.state = "recheck"
    BY FenceTyped, Absence DEF LeaseExpires, FenceTypes
  <1>1. FreshOK' /\ StableOK' /\ PersistentIsCommitted'
    BY <1>f, <1>u DEF IndInv, FreshOK, InEpoch, StableOK, PersistentIsCommitted, OwnedBy, IsFallback,
                      Unprepared, Pending, db
  <1>2. ASSUME NEW o \in Ops \cup {NoOp}, Held(o)
        PROVE  Held(o)'
    <2>1. \A p \in Ops : (Firm(p)' <=> Firm(p)) /\ (Retired(p)' <=> Retired(p))
      BY <1>u DEF Firm, Retired
    <2> QED BY <1>2, <1>f, <1>u, <2>1, FenceTyped DEF Held, Pending, Bars, db
  <1>3. HeldOK' /\ LaterEpochOK'
    BY <1>2, <1>u DEF IndInv, HeldOK, LaterEpochOK, Barring, InEpoch, db
  <1>4. contact' \in [Contacts -> ContactTypes] /\ retired' \in 0..latest.gen
        /\ session' \in BOOLEAN
    BY <1>u DEF IndInv, TypeOK
  <1> QED BY <1>u, <1>f, <1>1, <1>3, <1>4, ContactStep DEF FenceInv

\* Nobody knows of the new process, and it knows of nobody.
LEMMA RestartOK ==
  ASSUME IndInv, Restart
  PROVE  IndInv'
  <1>u. /\ UNCHANGED <<client, target, rowLock, committed, provenIn, op, dispatch, apiEpoch,
                       timeouts>>
        /\ epoch' = epoch + 1 /\ fence' = NoFence /\ retired' = 0 /\ enqueued' = {}
        /\ session' = FALSE /\ late' = {} /\ latest' = [gen |-> 0, op |-> NoOp]
        /\ epoch < MaxEpoch
    BY DEF Restart, db
  <1>c. contact' \in [Contacts -> ContactTypes]
        /\ \A k \in Contacts : contact'[k].seen \in {NoOp, Lost}
    BY IdleTyped DEF Restart, ContactTypes, IdleContact
  <1>n. epoch \in Nat /\ MaxEpoch \in Nat /\ epoch \in 1..MaxEpoch
    BY FenceAssumption DEF IndInv, TypeOK
  <1>1. TypeOK'
    <2>1. epoch' \in 1..MaxEpoch /\ retired' \in 0..latest'.gen
          /\ latest' \in [gen : 0..Cardinality(Ops), op : Ops \cup {NoOp}]
      BY <1>u, <1>n, Absence
    <2> QED BY <1>u, <1>c, <2>1 DEF IndInv, TypeOK
  <1>p. \A o \in Ops : /\ Pending(o, {"acquire"})' => Pending(o, {"acquire"})
                       /\ Unprepared(o)' => Unprepared(o)
    BY <1>u DEF Pending, Unprepared
  <1>2. GenerationsOK'
    <2>1. latest'.gen \in Nat /\ latest'.gen <= latest.gen
      BY <1>u, FenceTyped
    <2> QED BY <1>p, <2>1, GenerationsKept
  <1>3. LockOK'
    BY <1>u DEF IndInv, LockOK
  <1>4. CallsOK'
    BY <1>u DEF IndInv, CallsOK, Bars, Unprepared, Pending
  <1>5. EpochsOK'
    BY <1>u, <1>n DEF IndInv, TypeOK, EpochsOK, InEpoch, OpTypes, DispatchTypes
  <1>6. ProtectedOK' /\ StableOK' /\ PersistentIsCommitted'
    BY <1>u DEF ProtectedOK, StableOK, PersistentIsCommitted
  <1>7. FreshOK'
    BY <1>u, <1>c, <1>p, Absence DEF IndInv, FreshOK, InEpoch, OwnedBy, IsFallback
  <1>8. \A e \in Nat : e <= epoch => e # epoch'
    BY <1>u, <1>n
  <1>9. HeldOK'
    BY <1>u, <1>8 DEF IndInv, TypeOK, OpTypes, EpochsOK, HeldOK, InEpoch
  <1>10. LaterEpochOK'
    BY <1>u, <1>8 DEF IndInv, TypeOK, DispatchTypes, EpochsOK, InEpoch, LaterEpochOK
  <1> QED BY <1>1, <1>2, <1>3, <1>4, <1>5, <1>6, <1>7, <1>9, <1>10 DEF IndInv
-----------------------------------------------------------------------------
(* The requests.                                                             *)

\* What the gateway does with a call, whenever it arrives.
LEMMA HandleKeeps ==
  ASSUME IndInv, NEW o \in Ops, NEW type \in FinalCalls \cup {"prepare"},
         Handle(type, o), Pending(o, {type}), type = "prepare" => ~ Unprepared(o)',
         op'[o].epoch = op[o].epoch,
         OpsKeep, ContactsKeep, DispatchesKeep, UNCHANGED <<client, provenIn, committed>>
  PROVE  /\ FenceInv'
         /\ fence' \in FenceTypes \cup {NoFence} /\ retired' \in 0..latest.gen
         /\ UNCHANGED <<epoch, latest, enqueued>> /\ session' \in BOOLEAN
  <1>1. CASE type = "prepare"
    <2>1. HandlePrepare(o)
      BY <1>1 DEF Handle
    <2>2. Unprepared(o)
      BY <1>1 DEF Unprepared, Pending
    <2>3. UNCHANGED <<epoch, latest, enqueued>> /\ session' \in BOOLEAN
      BY <2>1 DEF HandlePrepare, IndInv, TypeOK
    <2> QED BY <1>1, <2>1, <2>2, <2>3, PrepareKeeps
  <1>2. CASE type = "promote"
    <2>1. HandlePromote(o)
      BY <1>2 DEF Handle
    <2>2. UNCHANGED <<epoch, latest, enqueued>> /\ session' \in BOOLEAN
      BY <2>1 DEF HandlePromote, IndInv, TypeOK
    <2> QED BY <1>2, <2>1, <2>2, PromoteKeeps
  <1>3. CASE type = "disconnect"
    <2>1. HandleDisconnect(o)
      BY <1>3 DEF Handle
    <2>2. UNCHANGED <<epoch, latest, enqueued, fence, retired>> /\ session' \in BOOLEAN
      BY <2>1 DEF HandleDisconnect
    <2>3. FenceInv'
      BY <2>2, FenceStands, FenceTyped
    <2> QED BY <2>2, <2>3 DEF IndInv, TypeOK
  <1>4. CASE type = "clear"
    <2>1. HandleClear(o, FALSE)
      BY <1>4 DEF Handle
    <2>2. UNCHANGED <<epoch, latest, enqueued>> /\ session' \in BOOLEAN
      BY <2>1 DEF HandleClear, IndInv, TypeOK
    <2> QED BY <1>4, <2>1, <2>2, ClearKeeps
  <1>5. CASE type \in {"retire", "compensate"}
    <2>1. HandleClear(o, TRUE)
      BY <1>5 DEF Handle
    <2>2. UNCHANGED <<epoch, latest, enqueued>> /\ session' \in BOOLEAN
      BY <2>1 DEF HandleClear, IndInv, TypeOK
    <2>3. Pending(o, {"retire", "compensate"})
      BY <1>5 DEF Pending
    <2> QED BY <2>1, <2>2, <2>3, ClearKeeps
  <1> QED BY <1>1, <1>2, <1>3, <1>4, <1>5 DEF FinalCalls

\* Where the answer to a call leads.
LEMMA NextStepFacts ==
  ASSUME NEW o \in Ops, NEW granted \in BOOLEAN
  PROVE  /\ op[o].pc = "acquire" => NextStep(o, granted) = IF granted THEN "prepare" ELSE "done"
         /\ op[o].pc = "prepare" => NextStep(o, granted) = IF granted THEN "begin" ELSE "retire"
         /\ op[o].pc = "promote" => NextStep(o, granted) =
              IF Kind[o] = "delete" THEN "disconnect" ELSE "done"
         /\ op[o].pc \notin {"acquire", "prepare", "promote"} => NextStep(o, granted) = "done"
  BY DEF NextStep

\* The contacts after a call that may have cost the client its session.
LEMMA SessionOrNot ==
  ASSUME IndInv, IF session /\ ~ session' THEN SessionGone ELSE UNCHANGED contact
  PROVE  ContactsKeep /\ contact' \in [Contacts -> ContactTypes]
  <1>1. CASE SessionGone
    BY <1>1, SessionGoneKeeps
  <1>2. CASE UNCHANGED contact
    BY <1>2 DEF ContactsKeep, IndInv, TypeOK
  <1> QED BY <1>1, <1>2

LEMMA FinalizeOK ==
  ASSUME IndInv, NEW o \in Ops, Finalize(o)
  PROVE  IndInv'
  <1>u. UNCHANGED <<client, target, rowLock, committed, provenIn, dispatch, apiEpoch, late,
                    timeouts>> /\ op[o].pc \in FinalCalls
    BY DEF Finalize, db
  <1>n. /\ NextStep(o, TRUE) \in {"done", "disconnect"}
        /\ NextStep(o, TRUE) = "disconnect" => op[o].pc = "promote"
    BY <1>u, NextStepFacts DEF FinalCalls
  <1>g. /\ op' \in [Ops -> OpTypes]
        /\ op'[o].pc = NextStep(o, TRUE) /\ op'[o].epoch = op[o].epoch /\ op'[o].gen = op[o].gen
        /\ \A p \in Ops \ {o} : op'[p] = op[p]
    <2>1. NextStep(o, TRUE) \in PCs
      BY <1>n DEF PCs
    <2> QED BY <2>1, GotoFacts DEF Finalize, IndInv
  <1> HIDE DEF NextStep
  <1>o. OpsKeep
    BY <1>u, <1>n, <1>g DEF OpsKeep, Unprepared, Pending
  <1>c. ContactsKeep /\ DispatchesKeep /\ contact' \in [Contacts -> ContactTypes]
    BY <1>u, SessionOrNot DEF Finalize, DispatchesKeep
  <1>1. /\ FenceInv'
        /\ fence' \in FenceTypes \cup {NoFence} /\ retired' \in 0..latest.gen
        /\ UNCHANGED <<epoch, latest, enqueued>> /\ session' \in BOOLEAN
    <2>1. Handle(op[o].pc, o) /\ Pending(o, {op[o].pc}) /\ op[o].pc # "prepare"
      BY <1>u DEF Finalize, Pending, FinalCalls
    <2> QED BY <1>u, <1>g, <1>o, <1>c, <2>1, HandleKeeps
  <1>2. TypeOK'
    BY <1>u, <1>g, <1>c, <1>1 DEF IndInv, TypeOK
  <1>3. GenerationsOK'
    <2>1. \A p \in Ops : Pending(p, {"acquire"})' => Pending(p, {"acquire"})
      BY <1>u, <1>n, <1>g DEF Pending
    <2> QED BY <2>1, <1>1, GenerationsKept, FenceTyped
  <1>4. LockOK'
    BY <1>u, <1>n, <1>g DEF IndInv, LockOK, FinalCalls
  <1>5. CallsOK'
    BY <1>u, <1>n, <1>g DEF IndInv, CallsOK, Unprepared, Pending, Bars
  <1>6. EpochsOK'
    BY <1>u, <1>g, <1>1 DEF IndInv, EpochsOK, InEpoch
  <1>7. ProtectedOK'
    BY <1>n, <1>g, <1>1 DEF IndInv, ProtectedOK, Barring
  <1> QED BY <1>1, <1>2, <1>3, <1>4, <1>5, <1>6, <1>7 DEF IndInv, FenceInv

LEMMA PrepareOK ==
  ASSUME IndInv, NEW o \in Ops, Prepare(o)
  PROVE  IndInv'
  <1>u. UNCHANGED <<client, target, rowLock, committed, provenIn, dispatch, apiEpoch, late,
                    timeouts, contact>> /\ op[o].pc = "prepare"
    BY DEF Prepare, db
  <1>h. UNCHANGED <<epoch, latest, enqueued, session>>
    BY DEF Prepare, HandlePrepare
  <1>n. NextStep(o, PrepareGranted(o)) \in {"begin", "retire"}
    BY <1>u DEF NextStep
  <1>g. /\ op' \in [Ops -> OpTypes]
        /\ op'[o].pc \in {"begin", "retire"} /\ op'[o].epoch = op[o].epoch
        /\ op'[o].gen = op[o].gen
        /\ \A p \in Ops \ {o} : op'[p] = op[p]
    <2>1. (IF PrepareGranted(o) THEN enqueued ELSE {}) \in SUBSET Jobs
      BY DEF IndInv, TypeOK
    <2>2. PICK s \in {"begin", "retire"}, known \in SUBSET Jobs :
            op' = [op EXCEPT ![o].pc = s, ![o].protected = known]
      BY <1>n, <2>1 DEF Prepare
    <2>3. op \in [Ops -> OpTypes]
      BY DEF IndInv, TypeOK
    <2>4. op' \in [Ops -> OpTypes]
      BY <2>2, <2>3 DEF OpTypes
    <2>5. /\ op'[o].pc = s /\ op'[o].epoch = op[o].epoch /\ op'[o].gen = op[o].gen
          /\ \A p \in Ops \ {o} : op'[p] = op[p]
      BY <2>2, <2>3 DEF OpTypes
    <2> QED BY <2>4, <2>5
  <1>l. \A call \in late : call.op # o
    BY <1>u DEF IndInv, CallsOK
  <1>o. OpsKeep /\ Unprepared(o) /\ ~ Unprepared(o)'
    BY <1>u, <1>g, <1>l DEF OpsKeep, Unprepared, Pending
  <1>c. ContactsKeep /\ DispatchesKeep
    BY <1>u DEF ContactsKeep, DispatchesKeep
  <1>1. FenceInv' /\ fence' \in FenceTypes \cup {NoFence} /\ retired' \in 0..latest.gen
    BY <1>u, <1>g, <1>o, <1>c, PrepareKeeps DEF Prepare
  <1>2. TypeOK'
    BY <1>u, <1>h, <1>g, <1>1 DEF IndInv, TypeOK
  <1>3. GenerationsOK'
    <2>1. \A p \in Ops : Pending(p, {"acquire"})' => Pending(p, {"acquire"})
      BY <1>u, <1>g DEF Pending
    <2> QED BY <2>1, <1>h, GenerationsKept, FenceTyped
  <1>4. LockOK'
    BY <1>u, <1>g DEF IndInv, LockOK
  <1>5. CallsOK'
    BY <1>u, <1>g, <1>l DEF IndInv, CallsOK, Unprepared, Pending, Bars
  <1>6. EpochsOK'
    BY <1>u, <1>g, <1>h DEF IndInv, EpochsOK, InEpoch
  <1>7. ProtectedOK'
    BY <1>g, <1>h DEF IndInv, ProtectedOK, Barring
  <1> QED BY <1>1, <1>2, <1>3, <1>4, <1>5, <1>6, <1>7 DEF IndInv, FenceInv

\* A call that the API gives up on stays pending.
LEMMA TimesOutOK ==
  ASSUME IndInv, NEW o \in Ops, TimesOut(o)
  PROVE  IndInv'
  <1>u. /\ UNCHANGED <<client, target, rowLock, committed, provenIn, dispatch, apiEpoch,
                       contact, epoch, fence, latest, retired, enqueued, session>>
        /\ op[o].pc \in FinalCalls \cup {"acquire", "prepare"}
        /\ late' = late \cup {[type |-> op[o].pc, op |-> o]}
        /\ timeouts' \in 0..MaxTimeouts
    BY FenceAssumption DEF TimesOut, db, gateway, IndInv, TypeOK
  <1>n. /\ NextStep(o, FALSE) \in {"done", "retire", "disconnect"}
        /\ NextStep(o, FALSE) = "disconnect" => op[o].pc = "promote"
        /\ NextStep(o, FALSE) = "retire" => op[o].pc = "prepare"
    BY <1>u, NextStepFacts DEF FinalCalls
  <1>g. /\ op' \in [Ops -> OpTypes]
        /\ op'[o].pc = NextStep(o, FALSE) /\ op'[o].epoch = op[o].epoch
        /\ op'[o].gen = op[o].gen
        /\ \A p \in Ops \ {o} : op'[p] = op[p]
    <2>1. NextStep(o, FALSE) \in PCs
      BY <1>n DEF PCs
    <2> QED BY <2>1, GotoFacts DEF TimesOut, IndInv
  <1> HIDE DEF NextStep
  <1>l. /\ \A p \in Ops \ {o} : \A type : [type |-> type, op |-> p] \in late'
                                            => [type |-> type, op |-> p] \in late
        /\ \A type : [type |-> type, op |-> o] \in late'
                       => type = op[o].pc \/ [type |-> type, op |-> o] \in late
        /\ late' \subseteq CallTypes
        /\ \A call \in late' : call \in late \/ call.op = o
    BY <1>u DEF IndInv, TypeOK, CallTypes, FinalCalls
  <1>o. OpsKeep
    BY <1>n, <1>g, <1>l DEF OpsKeep, Unprepared, Pending
  <1>c. ContactsKeep /\ DispatchesKeep
    BY <1>u DEF ContactsKeep, DispatchesKeep
  <1>1. FenceInv'
    BY <1>u, <1>o, <1>c, FenceStands, FenceTyped
  <1>2. TypeOK'
    BY <1>u, <1>g, <1>l DEF IndInv, TypeOK
  <1>3. GenerationsOK'
    <2>1. \A p \in Ops : Pending(p, {"acquire"})' => Pending(p, {"acquire"})
      BY <1>n, <1>g, <1>l DEF Pending
    <2> QED BY <2>1, <1>u, GenerationsKept, FenceTyped
  <1>4. LockOK'
    BY <1>u, <1>n, <1>g DEF IndInv, LockOK, FinalCalls
  <1>5. CallsOK'
    <2> SUFFICES ASSUME NEW p \in Ops
                 PROVE  CallsOK!(p)'
      BY DEF CallsOK
    <2>1. CASE p # o
      BY <1>u, <1>g, <1>l, <2>1 DEF IndInv, CallsOK, Unprepared, Pending, Bars
    <2>2. CASE p = o
      BY <1>u, <1>n, <1>g, <1>l, <2>2 DEF IndInv, CallsOK, Unprepared, Pending, Bars
    <2> QED BY <2>1, <2>2
  <1>6. EpochsOK'
    BY <1>u, <1>g DEF IndInv, EpochsOK, InEpoch
  <1>7. ProtectedOK'
    BY <1>n, <1>g, <1>u DEF IndInv, ProtectedOK, Barring
  <1> QED BY <1>1, <1>2, <1>3, <1>4, <1>5, <1>6, <1>7 DEF IndInv, FenceInv

\* An acquisition hands out the next generation and touches no fence.
LEMMA AcquireHandled ==
  ASSUME IndInv, NEW o \in Ops, HandleAcquire(o), Pending(o, {"acquire"}),
         ~ Pending(o, {"acquire"})',
         \A p \in Ops : Pending(p, {"acquire"})' => Pending(p, {"acquire"})
  PROVE  /\ GenerationsOK'
         /\ latest' \in [gen : 0..Cardinality(Ops), op : Ops \cup {NoOp}]
         /\ AcquireGranted(o) => latest.gen + 1 \in 0..Cardinality(Ops)
         /\ latest'.gen \in {latest.gen, latest.gen + 1}
  <1>t. latest \in [gen : 0..Cardinality(Ops), op : Ops \cup {NoOp}]
    BY DEF IndInv, TypeOK
  <1>1. CASE AcquireGranted(o)
    <2>1. latest' = [gen |-> latest.gen + 1, op |-> o]
      BY <1>1 DEF HandleAcquire
    <2>2. GenerationsOK' /\ latest.gen + 1 \in 0..Cardinality(Ops)
      BY <2>1, GenerationUsed
    <2> QED BY <2>1, <2>2
  <1>2. CASE ~ AcquireGranted(o)
    <2>1. latest' = latest
      BY <1>2 DEF HandleAcquire
    <2>2. GenerationsOK'
      BY <2>1, GenerationsKept, FenceTyped
    <2> QED BY <1>2, <1>t, <2>1, <2>2
  <1> QED BY <1>1, <1>2

LEMMA AcquireOK ==
  ASSUME IndInv, NEW o \in Ops, Acquire(o)
  PROVE  IndInv'
  <1>u. UNCHANGED <<client, target, rowLock, committed, provenIn, dispatch, apiEpoch, late,
                    timeouts, contact, epoch, fence, retired, enqueued, session>>
        /\ op[o].pc = "acquire" /\ HandleAcquire(o)
    BY DEF Acquire, db, HandleAcquire
  <1>l. \A call \in late : call.op # o
    BY <1>u DEF IndInv, CallsOK
  <1>k. Unprepared(o) /\ Pending(o, {"acquire"})
    BY <1>u DEF Unprepared, Pending
  <1>s. PICK s \in {"prepare", "done"}, e \in {epoch, 0}, g \in {latest.gen + 1, 0} :
          /\ op' = [op EXCEPT ![o].pc = s, ![o].epoch = e, ![o].gen = g]
          /\ g = latest.gen + 1 => AcquireGranted(o)
    <2>1. NextStep(o, AcquireGranted(o)) = IF AcquireGranted(o) THEN "prepare" ELSE "done"
      BY <1>u DEF NextStep
    <2>2. latest.gen + 1 # 0
      BY FenceTyped
    <2>3. CASE AcquireGranted(o)
      BY <2>1, <2>3 DEF Acquire
    <2>4. CASE ~ AcquireGranted(o)
      <3>1. op' = [op EXCEPT ![o].pc = "done", ![o].epoch = 0, ![o].gen = 0]
        BY <2>1, <2>4 DEF Acquire
      <3>2. 0 = latest.gen + 1 => AcquireGranted(o)
        BY <2>2
      <3> QED BY <3>1, <3>2
    <2> QED BY <2>3, <2>4
  <1>o. op \in [Ops -> OpTypes]
    BY DEF IndInv, TypeOK
  <1>d. /\ op'[o].pc = s /\ op'[o].epoch = e /\ op'[o].gen = g
        /\ \A p \in Ops \ {o} : op'[p] = op[p]
    BY <1>s, <1>o DEF OpTypes
  <1>1. /\ GenerationsOK'
        /\ latest' \in [gen : 0..Cardinality(Ops), op : Ops \cup {NoOp}]
        /\ AcquireGranted(o) => latest.gen + 1 \in 0..Cardinality(Ops)
        /\ latest'.gen \in {latest.gen, latest.gen + 1}
        /\ AcquireGranted(o) => latest'.gen = latest.gen + 1
    <2>1. ~ Pending(o, {"acquire"})'
      BY <1>u, <1>l, <1>d DEF Pending
    <2>2. \A p \in Ops : Pending(p, {"acquire"})' => Pending(p, {"acquire"})
      BY <1>u, <1>k, <1>d DEF Pending
    <2>3. AcquireGranted(o) => latest'.gen = latest.gen + 1
      BY <1>u DEF HandleAcquire
    <2> QED BY <1>u, <1>k, <2>1, <2>2, <2>3, AcquireHandled
  <1>2. op' \in [Ops -> OpTypes]
    <2>1. e \in 0..MaxEpoch /\ g \in 0..Cardinality(Ops)
      BY <1>s, <1>1, Absence, FenceAssumption DEF IndInv, TypeOK
    <2> QED BY <1>s, <1>o, <2>1 DEF OpTypes
  <1>3. TypeOK'
    <2>1. retired' \in 0..latest'.gen
      BY <1>u, <1>1, FenceTyped
    <2> QED BY <1>u, <1>1, <1>2, <2>1 DEF IndInv, TypeOK
  <1>4. OpsKeep
    BY <1>u, <1>k, <1>l, <1>d DEF OpsKeep, Unprepared, Pending, IndInv, FreshOK, InEpoch
  <1>5. ContactsKeep /\ DispatchesKeep
    BY <1>u DEF ContactsKeep, DispatchesKeep
  <1>6. FenceInv'
    BY <1>u, <1>4, <1>5, FenceStands, FenceTyped
  <1>7. LockOK'
    BY <1>u, <1>d DEF IndInv, LockOK
  <1>8. CallsOK'
    BY <1>u, <1>d, <1>l DEF IndInv, CallsOK, Unprepared, Pending, Bars
  <1>9. EpochsOK'
    <2>1. e <= epoch
      BY <1>s DEF IndInv, TypeOK
    <2>2. g <= latest'.gen
      BY <1>s, <1>1, FenceTyped
    <2>3. ASSUME NEW p \in Ops \ {o}, InEpoch(p)'
          PROVE  op'[p].gen <= latest'.gen
      <3>1. op'[p].gen = op[p].gen /\ op[p].gen <= latest.gen
        BY <1>u, <1>d, <2>3, FenceTyped DEF InEpoch
      <3> QED BY <1>1, <3>1, FenceTyped
    <2> QED BY <1>u, <1>d, <2>1, <2>2, <2>3 DEF IndInv, EpochsOK
  <1>10. ProtectedOK'
    BY <1>u, <1>d DEF IndInv, ProtectedOK, Barring
  <1> QED BY <1>1, <1>3, <1>6, <1>7, <1>8, <1>9, <1>10 DEF IndInv, FenceInv

\* A call that the API has given up on is executed.
LEMMA ArrivesLateOK ==
  ASSUME IndInv, ArrivesLate
  PROVE  IndInv'
  <1>1. PICK call \in late :
          /\ Handle(call.type, call.op)
          /\ late' = late \ {call}
          /\ IF session /\ ~ session' THEN SessionGone ELSE UNCHANGED contact
          /\ UNCHANGED <<db, op, dispatch, apiEpoch, timeouts>>
    BY DEF ArrivesLate
  <1> DEFINE o == call.op
  <1>c. /\ call \in CallTypes /\ o \in Ops
        /\ call = [type |-> call.type, op |-> o]
        /\ call.type \in FinalCalls \cup {"acquire", "prepare"}
    BY DEF IndInv, TypeOK, CallTypes, FinalCalls
  <1>u. UNCHANGED <<client, target, rowLock, committed, provenIn, op, dispatch, apiEpoch,
                    timeouts>>
    BY <1>1 DEF db
  <1>p. /\ Pending(o, {call.type})
        /\ op[o].pc \notin {"acquire", "prepare", "begin", "proof", "commit"}
    BY <1>c DEF Pending, IndInv, CallsOK
  <1>l. late' \subseteq late /\ call \notin late'
    BY <1>1
  <1> HIDE DEF o
  <1>o. OpsKeep
    BY <1>u, <1>l DEF OpsKeep, Unprepared, Pending
  <1>a. \A p \in Ops : Pending(p, {"acquire"})' => Pending(p, {"acquire"})
    BY <1>u, <1>l DEF Pending
  <1>k. ContactsKeep /\ DispatchesKeep /\ contact' \in [Contacts -> ContactTypes]
    BY <1>1, <1>u, SessionOrNot DEF DispatchesKeep
  <1>2. /\ FenceInv' /\ GenerationsOK'
        /\ fence' \in FenceTypes \cup {NoFence} /\ retired' \in 0..latest'.gen
        /\ latest' \in [gen : 0..Cardinality(Ops), op : Ops \cup {NoOp}]
        /\ latest'.gen \in {latest.gen, latest.gen + 1}
        /\ UNCHANGED <<epoch, enqueued>> /\ session' \in BOOLEAN
    <2>1. CASE call.type = "acquire"
      <3>1. HandleAcquire(o)
        BY <1>1, <2>1 DEF Handle, o
      <3>2. UNCHANGED <<epoch, enqueued, fence, retired, session>>
        BY <3>1 DEF HandleAcquire
      <3>3. FenceInv'
        BY <1>o, <1>k, <1>u, <3>2, FenceStands, FenceTyped
      <3>4. Pending(o, {"acquire"}) /\ ~ Pending(o, {"acquire"})'
        BY <1>c, <1>l, <1>p, <1>u, <2>1 DEF Pending
      <3>5. /\ GenerationsOK' /\ latest' \in [gen : 0..Cardinality(Ops), op : Ops \cup {NoOp}]
            /\ latest'.gen \in {latest.gen, latest.gen + 1}
        BY <1>c, <1>a, <3>1, <3>4, AcquireHandled
      <3>6. retired' \in 0..latest'.gen
        BY <3>2, <3>5, FenceTyped
      <3> QED BY <3>2, <3>3, <3>5, <3>6 DEF IndInv, TypeOK
    <2>2. CASE call.type # "acquire"
      <3>1. call.type \in FinalCalls \cup {"prepare"}
        BY <1>c, <2>2
      <3>2. call.type = "prepare" => ~ Unprepared(o)'
        BY <1>c, <1>l, <1>p, <1>u DEF IndInv, CallsOK, Unprepared, Pending
      <3>3. /\ FenceInv'
            /\ fence' \in FenceTypes \cup {NoFence} /\ retired' \in 0..latest.gen
            /\ UNCHANGED <<epoch, latest, enqueued>> /\ session' \in BOOLEAN
        <4>1. Handle(call.type, o)
          BY <1>1 DEF o
        <4> QED BY <1>c, <1>u, <1>o, <1>k, <1>p, <3>1, <3>2, <4>1, HandleKeeps
      <3>4. GenerationsOK'
        BY <1>a, <3>3, GenerationsKept, FenceTyped
      <3> QED BY <3>3, <3>4 DEF IndInv, TypeOK
    <2> QED BY <2>1, <2>2
  <1>3. TypeOK'
    BY <1>2, <1>u, <1>k, <1>l DEF IndInv, TypeOK
  <1>4. LockOK'
    BY <1>u DEF IndInv, LockOK
  <1>5. CallsOK'
    BY <1>u, <1>l DEF IndInv, CallsOK, Unprepared, Pending, Bars
  <1>g. \A p \in Ops : InEpoch(p) => op[p].gen <= latest'.gen
    BY <1>2, FenceTyped
  <1>6. EpochsOK' /\ ProtectedOK'
    BY <1>u, <1>2, <1>g DEF IndInv, EpochsOK, InEpoch, ProtectedOK, Barring
  <1> QED BY <1>2, <1>3, <1>4, <1>5, <1>6 DEF IndInv, FenceInv

\* The transaction's steps leave the gateway and the calls alone.
LEMMA TransactionStep ==
  ASSUME IndInv, NEW o \in Ops, NEW pc \in PCs \ {"acquire", "prepare"}, Goto(o, pc),
         op[o].pc \in {"begin", "proof", "commit"},
         UNCHANGED <<dispatch, apiEpoch, contact, gateway, late, timeouts>>
  PROVE  /\ op' \in [Ops -> OpTypes] /\ GenerationsOK'
         /\ op'[o].pc = pc /\ op'[o].epoch = op[o].epoch /\ op'[o].gen = op[o].gen
         /\ pc \in {"begin", "proof", "commit"} => op'[o].protected = op[o].protected
         /\ \A p \in Ops \ {o} : op'[p] = op[p]
         /\ UNCHANGED <<epoch, fence, latest, retired, enqueued, session>>
         /\ ContactsKeep /\ DispatchesKeep
         /\ \A call \in late : call.op # o
         /\ \A p \in Ops : Unprepared(p)' => Unprepared(p)
         /\ pc \notin {"clear", "commit"} => OpsKeep
  <1>1. /\ op' \in [Ops -> OpTypes]
        /\ op'[o].pc = pc /\ op'[o].epoch = op[o].epoch /\ op'[o].gen = op[o].gen
        /\ pc \in {"begin", "proof", "commit"} => op'[o].protected = op[o].protected
        /\ \A p \in Ops \ {o} : op'[p] = op[p]
    BY GotoFacts DEF IndInv
  <1>2. UNCHANGED <<epoch, fence, latest, retired, enqueued, session>>
    BY DEF gateway
  <1>3. ContactsKeep /\ DispatchesKeep
    BY DEF ContactsKeep, DispatchesKeep
  <1>4. \A call \in late : call.op # o
    BY DEF IndInv, CallsOK
  <1>5. \A p \in Ops : /\ Unprepared(p)' => Unprepared(p)
                       /\ Pending(p, {"acquire"})' => Pending(p, {"acquire"})
                       /\ pc # "clear" => (Pending(p, {"clear"})' => Pending(p, {"clear"}))
    BY <1>1 DEF Unprepared, Pending
  <1>6. GenerationsOK'
    BY <1>2, <1>5, GenerationsKept, FenceTyped
  <1>7. pc \notin {"clear", "commit"} => OpsKeep
    BY <1>1, <1>5 DEF OpsKeep
  <1> QED BY <1>1, <1>2, <1>3, <1>4, <1>5, <1>6, <1>7

LEMMA BeginOK ==
  ASSUME IndInv, NEW o \in Ops, Begin(o)
  PROVE  IndInv'
  <1> DEFINE pc == BeginOutcome(o)
  <1>k. Kind[o] \in Kinds
    BY FenceAssumption
  <1>n. /\ pc \in {"proof", "compensate", "clear"}
        /\ pc = "clear" => Kind[o] = "unsuspend" /\ client \notin Barred
    BY <1>k DEF BeginOutcome, Kinds, Barred, IndInv, TypeOK
  <1>u. /\ UNCHANGED <<client, target, committed, provenIn, dispatch, apiEpoch, contact,
                       gateway, late, timeouts>>
        /\ op[o].pc = "begin" /\ rowLock = NoOp /\ Goto(o, pc)
        /\ rowLock' = IF pc = "proof" THEN o ELSE NoOp
    BY DEF Begin
  <1> HIDE DEF pc
  <1>1. /\ op' \in [Ops -> OpTypes] /\ GenerationsOK'
        /\ op'[o].pc = pc /\ op'[o].epoch = op[o].epoch /\ op'[o].gen = op[o].gen
        /\ \A p \in Ops \ {o} : op'[p] = op[p]
        /\ UNCHANGED <<epoch, fence, latest, retired, enqueued, session>>
        /\ ContactsKeep /\ DispatchesKeep
        /\ \A call \in late : call.op # o
        /\ \A p \in Ops : Unprepared(p)' => Unprepared(p)
        /\ pc # "clear" => OpsKeep
    <2>1. pc \in PCs \ {"acquire", "prepare"}
      BY <1>n DEF PCs
    <2> QED BY <1>n, <1>u, <2>1, TransactionStep
  <1>2. TypeOK'
    BY <1>u, <1>1 DEF IndInv, TypeOK
  <1>3. LockOK'
    BY <1>n, <1>u, <1>1, FreeRow, Absence DEF IndInv, LockOK
  <1>4. CallsOK'
    BY <1>n, <1>u, <1>1 DEF IndInv, CallsOK, Unprepared, Pending, Bars
  <1>5. EpochsOK'
    BY <1>u, <1>1 DEF IndInv, EpochsOK, InEpoch
  <1>6. \A p \in Ops : ~ Barring(p)'
    BY <1>n, <1>u, <1>1, FreeRow DEF IndInv, Barring
  <1>7. FenceInv'
    <2>1. CASE pc = "clear"
      BY <1>n, <1>u, <1>1, <1>6, <2>1, AdmittedKeeps DEF ContactsKeep, DispatchesKeep
    <2>2. CASE pc # "clear"
      BY <1>u, <1>1, <2>2, FenceStands, FenceTyped
    <2> QED BY <2>1, <2>2
  <1>8. ProtectedOK'
    BY <1>6 DEF ProtectedOK
  <1> QED BY <1>1, <1>2, <1>3, <1>4, <1>5, <1>7, <1>8 DEF IndInv, FenceInv

\* A rejected deletion, and every transaction that is rolled back.
LEMMA AbortOK ==
  ASSUME IndInv, NEW o \in Ops, RejectDelete(o) \/ Rollback(o)
  PROVE  IndInv'
  <1>s. PICK pc \in {"compensate", "done"} :
          /\ Goto(o, pc) /\ op[o].pc \in {"begin", "proof", "commit"}
          /\ rowLock' = IF rowLock = o THEN NoOp ELSE rowLock
          /\ UNCHANGED <<client, target, committed, provenIn, dispatch, apiEpoch, contact,
                         gateway, late, timeouts>>
    BY Absence DEF RejectDelete, Rollback, db
  <1>1. /\ op' \in [Ops -> OpTypes] /\ GenerationsOK'
        /\ op'[o].pc = pc /\ op'[o].epoch = op[o].epoch /\ op'[o].gen = op[o].gen
        /\ \A p \in Ops \ {o} : op'[p] = op[p]
        /\ UNCHANGED <<epoch, fence, latest, retired, enqueued, session>>
        /\ ContactsKeep /\ DispatchesKeep
        /\ \A call \in late : call.op # o
        /\ OpsKeep
    <2>1. pc \in PCs \ {"acquire", "prepare"} /\ pc \notin {"clear", "commit"}
      BY DEF PCs
    <2> QED BY <1>s, <2>1, TransactionStep
  <1>2. TypeOK'
    BY <1>s, <1>1 DEF IndInv, TypeOK
  <1>3. LockOK'
    BY <1>s, <1>1, Absence DEF IndInv, LockOK
  <1>4. CallsOK'
    BY <1>s, <1>1 DEF IndInv, CallsOK, Unprepared, Pending, Bars
  <1>5. EpochsOK'
    BY <1>s, <1>1 DEF IndInv, EpochsOK, InEpoch
  <1>6. FenceInv'
    BY <1>s, <1>1, FenceStands, FenceTyped
  <1>7. ProtectedOK'
    BY <1>1 DEF IndInv, ProtectedOK, Barring
  <1> QED BY <1>1, <1>2, <1>3, <1>4, <1>5, <1>6, <1>7 DEF IndInv, FenceInv

\* The proof before the commit: a fence that never left preparation is one nobody passes.
LEMMA ProofOK ==
  ASSUME IndInv, NEW o \in Ops, Proof(o)
  PROVE  IndInv'
  <1>u. /\ UNCHANGED <<client, target, committed, provenIn, rowLock, dispatch, apiEpoch, contact,
                       gateway, late, timeouts>>
        /\ op[o].pc = "proof" /\ Continuous(o) /\ Goto(o, "commit")
    BY DEF Proof, db
  <1>1. /\ op' \in [Ops -> OpTypes] /\ GenerationsOK'
        /\ op'[o].pc = "commit" /\ op'[o].epoch = op[o].epoch /\ op'[o].gen = op[o].gen
        /\ op'[o].protected = op[o].protected
        /\ \A p \in Ops \ {o} : op'[p] = op[p]
        /\ UNCHANGED <<epoch, fence, latest, retired, enqueued, session>>
        /\ ContactsKeep /\ DispatchesKeep
        /\ \A call \in late : call.op # o
        /\ \A p \in Ops : Unprepared(p)' => Unprepared(p)
    <2>1. "commit" \in PCs \ {"acquire", "prepare"}
      BY DEF PCs
    <2> QED BY <1>u, <2>1, TransactionStep
  <1>2. TypeOK'
    BY <1>u, <1>1 DEF IndInv, TypeOK
  <1>3. LockOK' /\ \A p \in Ops : Barring(p)' => p = o
    BY <1>u, <1>1 DEF IndInv, LockOK, Barring
  <1>4. CallsOK'
    BY <1>u, <1>1 DEF IndInv, CallsOK, Unprepared, Pending, Bars
  <1>5. EpochsOK'
    BY <1>u, <1>1 DEF IndInv, EpochsOK, InEpoch
  <1>f. fence # NoFence /\ fence.owner = o /\ fence.state = "prepared"
    <2>1. fence # NoFence /\ fence.owner = o /\ fence.state # "recheck"
      BY <1>u DEF Continuous, OwnedBy
    <2>2. o \notin committed
      BY <1>u DEF IndInv, CallsOK
    <2> QED BY <2>1, <2>2, FenceTyped DEF IndInv, PersistentIsCommitted, FenceTypes
  <1>6. Held(o)'
    <2>1. Firm(o)
      BY <1>f DEF IndInv, StableOK, Firm
    <2>2. Firm(o)'
      BY <1>1, <2>1, FirmKept DEF IndInv
    <2> QED BY <1>f, <1>1, <2>2 DEF Held
  <1>7. Held(NoOp) => Held(NoOp)'
    <2>1. \A p \in Ops : /\ Firm(p) => Firm(p)'
                         /\ Retired(p) => Retired(p)'
                         /\ Pending(p, {"clear"})' => Pending(p, {"clear"})
      BY <1>u, <1>1, FirmKept DEF IndInv, Retired, Pending
    <2> QED BY <1>u, <1>1, <2>1, FenceTyped DEF Held, Bars
  <1>8. HeldOK'
    BY <1>3, <1>6, <1>7, <1>u, <1>1 DEF IndInv, HeldOK
  <1>9. LaterEpochOK'
    <2>1. InEpoch(o)'
      BY <1>u, <1>1 DEF Continuous, InEpoch
    <2> QED BY <1>3, <1>u, <1>1, <2>1 DEF IndInv, LaterEpochOK
  <1>10. FreshOK'
    BY <1>u, <1>1 DEF IndInv, FreshOK, InEpoch, OwnedBy, IsFallback
  <1>11. StableOK' /\ PersistentIsCommitted'
    BY <1>u, <1>1 DEF IndInv, StableOK, PersistentIsCommitted
  <1>12. ProtectedOK'
    BY <1>3, <1>u, <1>1 DEF ProtectedOK, Continuous
  <1> QED BY <1>1, <1>2, <1>3, <1>4, <1>5, <1>8, <1>9, <1>10, <1>11, <1>12 DEF IndInv

\* The commit: the fence that was proved bars the client from now on.
LEMMA CommitOK ==
  ASSUME IndInv, NEW o \in Ops, Commit(o)
  PROVE  IndInv'
  <1>k. Kind[o] \in Kinds
    BY FenceAssumption
  <1>s. PICK pc \in {IF Kind[o] = "unsuspend" THEN "clear" ELSE "promote", "done"} : Goto(o, pc)
    BY DEF Commit
  <1>u. /\ UNCHANGED <<dispatch, apiEpoch, contact, gateway, late, timeouts>>
        /\ op[o].pc = "commit" /\ ApplyChange(o) /\ rowLock' = NoOp
        /\ committed' = committed \cup {o} /\ provenIn' = op[o].epoch
    BY DEF Commit
  <1>a. /\ Kind[o] = "suspend" => client' = "suspended" /\ SkipUndelivered(op[o].protected)
        /\ Kind[o] = "unsuspend" => client' = "offline" /\ UNCHANGED target
        /\ Kind[o] = "delete" =>
             /\ client' = "deleted"
             /\ target' = [j \in Jobs |->
                             IF target[j] = "dispatching" THEN "agent_lost" ELSE target[j]]
    BY <1>u DEF ApplyChange
  <1>1. /\ op' \in [Ops -> OpTypes] /\ GenerationsOK'
        /\ op'[o].pc = pc /\ op'[o].epoch = op[o].epoch /\ op'[o].gen = op[o].gen
        /\ \A p \in Ops \ {o} : op'[p] = op[p]
        /\ UNCHANGED <<epoch, fence, latest, retired, enqueued, session>>
        /\ ContactsKeep /\ DispatchesKeep
        /\ \A call \in late : call.op # o
        /\ \A p \in Ops : Unprepared(p)' => Unprepared(p)
    <2>1. pc \in PCs \ {"acquire", "prepare"}
      BY <1>s DEF PCs
    <2> QED BY <1>s, <1>u, <2>1, TransactionStep
  <1>2. TypeOK'
    <2>1. target' \in [Jobs -> {"dispatching", "skipped", "agent_lost"}]
      BY <1>a, <1>k DEF IndInv, TypeOK, Kinds, SkipUndelivered
    <2>2. client' \in {"online", "offline"} \cup Barred
      BY <1>a, <1>k DEF Kinds, Barred
    <2>3. provenIn' \in 0..MaxEpoch /\ rowLock' \in Ops \cup {NoOp} /\ committed' \subseteq Ops
      BY <1>u DEF IndInv, TypeOK, OpTypes
    <2> QED BY <1>u, <1>1, <2>1, <2>2, <2>3 DEF IndInv, TypeOK
  <1>3. LockOK' /\ \A p \in Ops : ~ Barring(p)'
    BY <1>s, <1>u, <1>1, Absence DEF IndInv, LockOK, Barring
  <1>4. CallsOK'
    BY <1>s, <1>u, <1>1 DEF IndInv, CallsOK, Unprepared, Pending, Bars
  <1>5. EpochsOK'
    BY <1>u, <1>1 DEF IndInv, EpochsOK, InEpoch
  <1>6. ProtectedOK'
    BY <1>3 DEF ProtectedOK
  <1>7. CASE Kind[o] = "unsuspend"
    <2>1. client' \notin Barred
      BY <1>7, <1>a DEF Barred
    <2>2. FenceInv'
      BY <1>u, <1>1, <1>3, <2>1, AdmittedKeeps DEF ContactsKeep, DispatchesKeep
    <2> QED BY <1>1, <1>2, <1>3, <1>4, <1>5, <1>6, <2>2 DEF IndInv, FenceInv
  <1>8. CASE Kind[o] # "unsuspend"
    <2>b. Barring(o) /\ o \in Bars' /\ Bars \subseteq Bars'
      BY <1>8, <1>u DEF Barring, Bars
    <2>1. Held(o) => Held(NoOp)'
      <3>1. \A p \in Ops : /\ Firm(p) => Firm(p)'
                           /\ Retired(p) => Retired(p)'
                           /\ p # o => (Pending(p, {"clear"})' => Pending(p, {"clear"}))
        BY <1>u, <1>1, FirmKept DEF IndInv, Retired, Pending
      <3> QED BY <2>b, <1>1, <3>1, FenceTyped DEF Held
    <2>2. HeldOK'
      BY <1>3, <1>u, <1>1, <2>b, <2>1 DEF IndInv, HeldOK, InEpoch
    <2>3. LaterEpochOK'
      BY <1>3, <1>u, <1>1, <2>b DEF IndInv, LaterEpochOK, InEpoch
    <2>4. FreshOK'
      BY <1>u, <1>1 DEF IndInv, FreshOK, InEpoch, OwnedBy, IsFallback
    <2>5. StableOK' /\ PersistentIsCommitted'
      BY <1>u, <1>1 DEF IndInv, StableOK, PersistentIsCommitted
    <2> QED BY <1>1, <1>2, <1>3, <1>4, <1>5, <1>6, <2>2, <2>3, <2>4, <2>5 DEF IndInv
  <1> QED BY <1>7, <1>8
-----------------------------------------------------------------------------
(* The theorems.                                                             *)

LEMMA InitOK ==
  ASSUME Init
  PROVE  IndInv
  <1>m. PICK made \in Together :
          op = [o \in Ops |-> [pc |-> IF o \in made THEN "acquire" ELSE "done",
                               epoch |-> 0, gen |-> 0, protected |-> {}]]
    BY DEF Init
  <1>n. 0 \in 0..MaxEpoch /\ 0 \in 0..Cardinality(Ops) /\ 0 \in 0..MaxTimeouts /\ 1 \in 1..MaxEpoch
    BY FenceAssumption, Absence
  <1>o. op \in [Ops -> OpTypes] /\ \A o \in Ops : op[o].pc \in {"acquire", "done"}
    BY <1>m, <1>n DEF OpTypes
  <1>d. dispatch \in [Jobs -> DispatchTypes] /\ contact \in [Contacts -> ContactTypes]
    BY IdleTyped DEF Init
  <1>s. session \in BOOLEAN
    BY DEF Init
  <1>1. TypeOK
    BY <1>n, <1>o, <1>d, <1>s DEF Init, TypeOK, Barred
  <1>2. GenerationsOK
    <2> DEFINE S == {o \in Ops : Pending(o, {"acquire"})}
    <2>1. S \subseteq Ops
      OBVIOUS
    <2> HIDE DEF S
    <2>2. Cardinality(S) \in Nat /\ Cardinality(S) <= Cardinality(Ops)
      BY <2>1, FenceAssumption, FS_Subset, FS_CardinalityType
    <2>3. 0 + Cardinality(S) <= Cardinality(Ops)
      BY <2>2, Absence
    <2> USE DEF S
    <2> QED BY <2>3 DEF Init, GenerationsOK
  <1>3. LockOK
    BY <1>o, Absence DEF Init, LockOK
  <1>4. CallsOK
    BY <1>o DEF Init, CallsOK, Pending, Unprepared
  <1>5. EpochsOK
    BY <1>m DEF Init, EpochsOK, InEpoch, IdleDispatch
  <1>6. FreshOK /\ StableOK /\ PersistentIsCommitted
    BY Absence DEF Init, FreshOK, InEpoch, StableOK, PersistentIsCommitted, OwnedBy, IsFallback,
                   IdleContact, IdleDispatch
  <1>7. HeldOK /\ LaterEpochOK /\ ProtectedOK
    BY <1>o DEF Init, HeldOK, LaterEpochOK, ProtectedOK, Barring, IdleDispatch
  <1> QED BY <1>1, <1>2, <1>3, <1>4, <1>5, <1>6, <1>7 DEF IndInv

LEMMA StutterOK ==
  ASSUME IndInv, UNCHANGED vars
  PROVE  IndInv'
  <1>u. UNCHANGED <<db, op, dispatch, apiEpoch, contact, epoch, latest, enqueued, late, timeouts,
                    fence, retired, session>>
    BY DEF vars, gateway
  <1>1. ContactsKeep /\ DispatchesKeep
    BY <1>u DEF ContactsKeep, DispatchesKeep
  <1>2. FenceInv'
    BY <1>u, <1>1, OpsUnchanged, FenceStands, FenceTyped DEF db
  <1>3. contact' \in [Contacts -> ContactTypes] /\ session' \in BOOLEAN
        /\ fence' \in FenceTypes \cup {NoFence} /\ retired' \in 0..latest.gen
    BY <1>u DEF IndInv, TypeOK
  <1> QED BY <1>u, <1>2, <1>3, ContactStep

LEMMA NextOK ==
  ASSUME IndInv, [Next]_vars
  PROVE  IndInv'
  <1>1. ASSUME NEW o \in Ops, OpStep(o)
        PROVE  IndInv'
    BY <1>1, AcquireOK, PrepareOK, FinalizeOK, TimesOutOK, BeginOK, AbortOK, ProofOK, CommitOK
    DEF OpStep
  <1>2. ASSUME NEW j \in Jobs, DispatchStep(j)
        PROVE  IndInv'
    BY <1>2, ReadEpochOK, CheckDispatchableOK, EnqueueOK, EpochRecheckOK, LifecycleRecheckOK,
       MarkerExpiresOK, GiveUpOK
    DEF DispatchStep
  <1>3. CASE AgentStep
    BY <1>3, ObserveOK, CommitHelloOK, RegisterSessionOK, ContactIdles, CommitTelemetryOK,
       RefreshRouteOK
    DEF AgentStep
  <1>4. CASE ArrivesLate \/ LeaseExpires \/ SessionEnds \/ Restart \/ GoOffline
    BY <1>4, ArrivesLateOK, LeaseExpiresOK, ContactIdles, RestartOK, GoOfflineOK
  <1> QED BY <1>1, <1>2, <1>3, <1>4, StutterOK DEF Next

\* The parts of IndInv hold together in every reachable state.
THEOREM FenceInductive == Spec => []IndInv
  BY InitOK, NextOK, PTL DEF Spec

\* Every variable keeps its type: no request's generation, no epoch and no count of
\* timeouts leaves its bounds, and no generation is retired that the running gateway
\* process never gave out, late calls of requests made to an earlier process included.
THEOREM FenceTypeCorrect == Spec => []TypeOK
  <1>1. IndInv => TypeOK
    BY DEF IndInv
  <1> QED BY <1>1, FenceInductive, PTL

\* A fence that refuses commands for good, or would once it is restored, belongs to a
\* request whose transaction was committed.
THEOREM PersistentOnlyCommitted == Spec => []PersistentIsCommitted
  <1>1. IndInv => PersistentIsCommitted
    BY DEF IndInv
  <1> QED BY <1>1, FenceInductive, PTL

\* In the gateway process of the proof, a barred client has a fence.
THEOREM BarredStaysFenced == Spec => []BarredIsFenced
  <1>1. IndInv => BarredIsFenced
    BY DEF IndInv, HeldOK, Held, BarredIsFenced
  <1> QED BY <1>1, FenceInductive, PTL

\* No dispatch passes the fence check of dispatch_gateway_command while the client is
\* suspended or deleted in the database, for any number of requests, calls executed late,
\* leases that run out and restarts of the gateway.
THEOREM BarredIsNeverDispatched == Spec => []NoDispatchWhileBarred
  <1>1. IndInv => NoDispatchWhileBarred
    <2> SUFFICES ASSUME IndInv, client \in Barred, NEW j \in Jobs, PassesFence(j)
                 PROVE  FALSE
      BY DEF NoDispatchWhileBarred
    <2>1. provenIn = epoch
      BY DEF IndInv, LaterEpochOK, PassesFence
    <2>2. Held(NoOp)
      BY <2>1 DEF IndInv, HeldOK
    <2> QED BY <2>2, HeldRefuses
  <1> QED BY <1>1, FenceInductive, PTL

\* Only a commit suspends the client, and it spares every job with a marker.
LEMMA SuspendSpares ==
  ASSUME IndInv, [Next]_vars, client # "suspended", client' = "suspended", NEW j \in enqueued
  PROVE  target'[j] = target[j]
  <1>1. PICK o \in Ops : Commit(o)
    BY DEF Next, vars, db, gateway, OpStep, Acquire, Prepare, Finalize, TimesOut, Begin,
           RejectDelete, Proof, Rollback, DispatchStep, ReadEpoch, CheckDispatchable, Enqueue,
           MarkerExpires, EpochRecheck, LifecycleRecheck, GiveUp, AgentStep, Observe, CommitHello,
           RegisterSession, DropHello, CommitTelemetry, RefreshRoute, ArrivesLate, LeaseExpires,
           SessionEnds, Restart, GoOffline
  <1>2. Kind[o] \in Kinds
    BY FenceAssumption
  <1>3. /\ Kind[o] = "suspend" => SkipUndelivered(op[o].protected)
        /\ Kind[o] = "unsuspend" => client' = "offline"
        /\ Kind[o] = "delete" => client' = "deleted"
    BY <1>1 DEF Commit, ApplyChange
  <1>4. Kind[o] = "suspend" /\ SkipUndelivered(op[o].protected)
    BY <1>2, <1>3 DEF Kinds
  <1>5. j \in op[o].protected /\ j \in Jobs
    BY <1>1, <1>4 DEF IndInv, TypeOK, ProtectedOK, Barring, Commit
  <1> QED BY <1>4, <1>5 DEF SkipUndelivered

\* A suspension skips no target whose enqueue marker the gateway holds at the commit,
\* although markers come and expire between the preparation of the fence and the commit.
THEOREM SuspensionSparesMarked == Spec => SkipSparesMarked
  <1>1. IndInv /\ [Next]_vars =>
          [client # "suspended" /\ client' = "suspended"
             => \A j \in enqueued : target'[j] = target[j]]_vars
    BY SuspendSpares
  <1> QED BY <1>1, FenceInductive, PTL DEF Spec, SkipSparesMarked
=============================================================================
