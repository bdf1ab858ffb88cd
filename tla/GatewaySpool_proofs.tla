------------------------- MODULE GatewaySpool_proofs -------------------------
(***************************************************************************)
(* Proofs about GatewaySpool.  The invariant of the module is restated     *)
(* here by what it speaks of (a target, an event, a pair of outputs),      *)
(* since a step moves one event of one target and leaves the others alone. *)
(***************************************************************************)
EXTENDS GatewaySpool, FiniteSetTheorems, SequenceTheorems, TLAPS

Serving     == phase \in {"up", "flush"}
Cleaning(n) == n \in cleanup \/ n \in dormant

AdmTypes ==
  /\ fate \in [Events -> Fates]
  /\ adm \in [Events -> {"none", "send", "spool"}]

QueueTypes ==
  /\ queue \in [Targets -> Seq(Item)]
  /\ open \in [Targets -> BOOLEAN]
  /\ owner \in [Targets -> {"none", "top", "recv", "busy", "posting"}]
  /\ head \in [Targets -> Busy \cup {NoHead}]

CountTypes == slots \in 0 .. GlobalCap /\ ram \in Nat
DiskTypes  == files \subseteq Events /\ faults \in 0 .. MaxFaults

SetTypes ==
  /\ arrivals \subseteq Events /\ index \subseteq Events
  /\ watched \subseteq Targets /\ ready \subseteq Targets /\ blocked \subseteq Targets

SignalTypes ==
  /\ cleanup \subseteq Events /\ dormant \subseteq Events /\ wake \in BOOLEAN
  /\ \A n \in Events : ~ (n \in cleanup /\ n \in dormant)

ReplayTypes ==
  /\ replay \in [pc : {"refresh", "scan", "send", "blocked", "wait", "stopped"},
                 cur : Events \cup {NoCur}, accepted : BOOLEAN]
  /\ replay.pc \in {"send", "blocked"} <=> replay.cur # NoCur

ProcTypes ==
  /\ phase \in {"up", "flush", "stopping", "cleared", "down"}
  /\ restarts \in 0 .. MaxRestarts
  /\ phase # "up" => restarts < MaxRestarts

Types == /\ AdmTypes /\ QueueTypes /\ CountTypes /\ DiskTypes /\ SetTypes /\ SignalTypes
         /\ ReplayTypes /\ ProcTypes

\* The queue of a target.
QueueOK(t) ==
  /\ Len(queue[t]) <= QueueCap
  /\ owner[t] = "none" => queue[t] = <<>>
  /\ owner[t] # "none" /\ Serving => open[t]
  /\ \A i \in DOMAIN queue[t] :
       /\ Owner[queue[t][i].n] = t
       /\ queue[t][i].disk <=> queue[t][i].n \in files
  /\ \A i, k \in DOMAIN queue[t] : i < k =>
       /\ queue[t][i].n # queue[t][k].n
       /\ ~ Stopping /\ queue[t][i].n \in Outputs /\ queue[t][k].n \in Outputs
          => queue[t][i].n < queue[t][k].n

\* What the owner of a target's queue holds.
HandOK(t) ==
  /\ InHand(t) => /\ head[t] \in Busy
                  /\ Owner[head[t].n] = t
                  /\ head[t].disk <=> head[t].n \in files
  /\ ~ InHand(t) => head[t] = NoHead

\* The places and the history of an event.
EventOK(n) ==
  /\ n \in index => n \notin arrivals /\ n # replay.cur /\ ~ Cleaning(n) /\ ~ OnQueue(n) /\ ~ Held(n)
  /\ n \in arrivals => n # replay.cur /\ ~ Cleaning(n) /\ ~ OnQueue(n) /\ ~ Held(n)
  /\ n = replay.cur => ~ Cleaning(n) /\ ~ OnQueue(n) /\ ~ Held(n)
  /\ Cleaning(n) => ~ OnQueue(n) /\ ~ Held(n) /\ fate[n] # "pending"
  /\ OnQueue(n) => ~ Held(n)
  /\ adm[n] # "none" => ~ OnQueue(n) /\ ~ Held(n) /\ n \notin files /\ phase = "up"
  /\ adm[n] = "spool" => n \in Outputs
  /\ Spooled(n) \/ Cleaning(n) => n \in files
  /\ Serving /\ n \in files => Spooled(n) \/ Cleaning(n) \/ OnQueue(n) \/ Held(n)
  /\ n \in files \/ OnQueue(n) \/ Held(n)
     => fate[n] \in {"pending", "delivered", "refused", "reported"}
  /\ fate[n] = "pending" => n \in files \/ adm[n] # "none" \/ OnQueue(n) \/ Held(n)
  /\ adm[n] # "none" => fate[n] = "pending"

\* The order of two outputs of a target.
PairOK(m, n) ==
  /\ Held(m) /\ (OnQueue(n) \/ Spooled(n) \/ adm[n] # "none") => m < n
  /\ OnQueue(m) /\ (Spooled(n) \/ adm[n] # "none") => m < n
  /\ Spooled(m) /\ adm[n] # "none" => m < n /\ adm[n] = "spool"
  /\ m = replay.cur /\ (n \in index \/ n \in arrivals) => m < n
  /\ m \in index /\ n \in arrivals => m < n
  /\ adm[m] # "none" /\ adm[n] # "none" => m = n

Pairs == ~ Stopping => \A m, n \in Outputs : Owner[m] = Owner[n] => PairOK(m, n)

\* Events are enqueued in their order.
FutureOK ==
  \A m, n \in Events : Owner[m] = Owner[n] /\ m < n /\ fate[m] = "future" => fate[n] = "future"

DownOK ==
  phase = "down" =>
    /\ \A t \in Targets : owner[t] = "none"
    /\ arrivals = {} /\ index = {} /\ cleanup = {} /\ dormant = {} /\ replay.cur = NoCur
    /\ slots = 0 /\ ram = 0

Inv ==
  /\ Types
  /\ \A t \in Targets : QueueOK(t) /\ HandOK(t)
  /\ \A n \in Events : EventOK(n)
  /\ Pairs /\ FutureOK /\ HeadFirst /\ DownOK /\ CountsOK

\* Together the parts are the invariant.
LEMMA InvImplies == Inv => IndInv
  <1> SUFFICES ASSUME Inv PROVE IndInv
    OBVIOUS
  <1>1. TypeOK
    BY DEF Inv, Types, AdmTypes, QueueTypes, CountTypes, DiskTypes, SetTypes, SignalTypes,
           ReplayTypes, ProcTypes, TypeOK
  <1>2. TasksOK
    <2>1. \A t \in Targets :
         /\ Len(queue[t]) <= QueueCap
         /\ owner[t] = "none" => queue[t] = <<>>
         /\ owner[t] # "none" /\ phase \in {"up", "flush"} => open[t]
         /\ \A i \in DOMAIN queue[t] : Owner[queue[t][i].n] = t
      BY DEF Inv, QueueOK, Serving
    <2>2. \A t \in Targets :
            IF InHand(t) THEN head[t] \in Busy /\ Owner[head[t].n] = t ELSE head[t] = NoHead
      BY DEF Inv, HandOK
    <2>3. \A n \in Events : /\ adm[n] # "none" => phase = "up"
                            /\ adm[n] = "spool" => n \in Outputs
      BY DEF Inv, EventOK
    <2> QED BY <2>1, <2>2, <2>3 DEF Inv, Types, ReplayTypes, ProcTypes, DownOK, TasksOK
  <1>3. SoleOK
    <2>1. ASSUME NEW t \in Targets, NEW i \in DOMAIN queue[t], NEW k \in DOMAIN queue[t],
                 queue[t][i].n = queue[t][k].n
          PROVE  i = k
      <3>1. DOMAIN queue[t] = 1 .. Len(queue[t]) /\ Len(queue[t]) \in Nat
        BY LenProperties DEF Inv, Types, QueueTypes
      <3>2. i \in Nat /\ k \in Nat
        BY <3>1
      <3>3. ~ (i < k) /\ ~ (k < i)
        BY <2>1 DEF Inv, QueueOK
      <3> QED BY <3>2, <3>3
    <2> QED BY <2>1 DEF Inv, Types, SignalTypes, EventOK, Cleaning, SoleOK
  <1>4. FilesOK
    BY DEF Inv, EventOK, QueueOK, HandOK, Cleaning, FilesOK
  <1>5. CoveredOK
    BY DEF Inv, Types, DiskTypes, EventOK, Serving, Cleaning, CoveredOK
  <1>6. FatesOK
    BY DEF Inv, EventOK, FutureOK, Cleaning, FatesOK
  <1>7. OrderOK
    <2>1. ~ Stopping => \A t \in Targets : \A i, k \in DOMAIN queue[t] :
             i < k /\ queue[t][i].n \in Outputs /\ queue[t][k].n \in Outputs
             => queue[t][i].n < queue[t][k].n
      BY DEF Inv, QueueOK
    <2> QED BY <2>1 DEF Inv, Pairs, PairOK, OrderOK
  <1> QED BY <1>1, <1>2, <1>3, <1>4, <1>5, <1>6, <1>7 DEF Inv, IndInv
-----------------------------------------------------------------------------
(* What a step that leaves something alone keeps.                            *)

LEMMA TypesKept ==
  ASSUME Inv
  PROVE  /\ UNCHANGED <<fate, adm>> => AdmTypes'
         /\ UNCHANGED <<queue, open, owner, head>> => QueueTypes'
         /\ UNCHANGED <<slots, ram>> => CountTypes'
         /\ UNCHANGED <<files, faults>> => DiskTypes'
         /\ UNCHANGED <<arrivals, index, watched, ready, blocked>> => SetTypes'
         /\ UNCHANGED <<wake, cleanup, dormant>> => SignalTypes'
         /\ UNCHANGED replay => ReplayTypes'
         /\ UNCHANGED <<phase, restarts>> => ProcTypes'
  BY DEF Inv, Types, AdmTypes, QueueTypes, CountTypes, DiskTypes, SetTypes, SignalTypes,
         ReplayTypes, ProcTypes

\* Positions of a queue.
LEMMA Positions ==
  ASSUME Inv, NEW t \in Targets
  PROVE  /\ queue[t] \in Seq(Item) /\ Len(queue[t]) \in Nat /\ DOMAIN queue[t] = 1 .. Len(queue[t])
         /\ \A i \in DOMAIN queue[t] : queue[t][i] \in Item /\ queue[t][i].n \in Events
  <1>1. queue[t] \in Seq(Item)
    BY DEF Inv, Types, QueueTypes
  <1>2. /\ Len(queue[t]) \in Nat /\ DOMAIN queue[t] = 1 .. Len(queue[t])
        /\ queue[t] \in [1 .. Len(queue[t]) -> Item]
    BY <1>1, LenProperties
  <1> QED BY <1>1, <1>2 DEF Item

\* The items of a queue are the events on it.
LEMMA OnItsQueue ==
  ASSUME Inv, NEW t \in Targets, NEW i \in DOMAIN queue[t]
  PROVE  queue[t][i].n \in Events /\ Owner[queue[t][i].n] = t /\ OnQueue(queue[t][i].n)
  BY Positions DEF Inv, QueueOK, OnQueue

LEMMA QueueKept ==
  ASSUME Inv, NEW t \in Targets, queue'[t] = queue[t],
         owner'[t] = "none" => owner[t] = "none" \/ queue[t] = <<>>,
         owner'[t] # "none" /\ Serving' => open'[t],
         ~ Stopping' => ~ Stopping,
         \A n \in Events : Owner[n] = t /\ OnQueue(n) => (n \in files' <=> n \in files)
  PROVE  QueueOK(t)'
  <1>1. \A i \in DOMAIN queue[t] : queue[t][i].n \in files' <=> queue[t][i].n \in files
    BY OnItsQueue
  <1> QED BY <1>1 DEF Inv, QueueOK

LEMMA HandKept ==
  ASSUME Inv, NEW t \in Targets, head'[t] = head[t], InHand(t)' <=> InHand(t),
         InHand(t) => (head[t].n \in files' <=> head[t].n \in files)
  PROVE  HandOK(t)'
  BY DEF Inv, HandOK

LEMMA QueuesKept ==
  ASSUME Inv, UNCHANGED <<queue, owner, open, phase>>,
         \A n \in Events : OnQueue(n) => (n \in files' <=> n \in files)
  PROVE  \A t \in Targets : QueueOK(t)'
  <1> SUFFICES ASSUME NEW t \in Targets PROVE QueueOK(t)'
    OBVIOUS
  <1>1. QueueOK(t) /\ (Serving' => Serving) /\ (~ Stopping' => ~ Stopping)
    BY DEF Inv, Serving, Stopping
  <1> QED BY <1>1, QueueKept DEF QueueOK

LEMMA HandsKept ==
  ASSUME Inv, UNCHANGED <<owner, head>>,
         \A n \in Events : Held(n) => (n \in files' <=> n \in files)
  PROVE  \A t \in Targets : HandOK(t)'
  <1> SUFFICES ASSUME NEW t \in Targets PROVE HandOK(t)'
    OBVIOUS
  <1>1. InHand(t) => head[t].n \in Events /\ Held(head[t].n)
    BY DEF Inv, HandOK, Held, Busy
  <1> QED BY <1>1, HandKept DEF InHand

\* The owner of an event is a target.
LEMMA OwnerIsTarget == \A n \in Events : Owner[n] \in Targets
  BY SpoolAssumption

LEMMA PlacesKept ==
  ASSUME Inv, NEW n \in Events
  PROVE  /\ queue'[Owner[n]] = queue[Owner[n]] => (OnQueue(n)' <=> OnQueue(n))
         /\ head'[Owner[n]] = head[Owner[n]] /\ (InHand(Owner[n])' <=> InHand(Owner[n]))
            => (Held(n)' <=> Held(n))
         /\ UNCHANGED queue => (OnQueue(n)' <=> OnQueue(n))
         /\ UNCHANGED <<owner, head>> => (Held(n)' <=> Held(n))
         /\ UNCHANGED <<index, arrivals, replay>> => (Spooled(n)' <=> Spooled(n))
         /\ UNCHANGED <<cleanup, dormant>> => (Cleaning(n)' <=> Cleaning(n))
  BY DEF OnQueue, Held, InHand, Spooled, Cleaning

\* Neither the event's places nor its history changed.
LEMMA EventKept ==
  ASSUME Inv, NEW n \in Events, OnQueue(n)' <=> OnQueue(n), Held(n)' <=> Held(n),
         n \in index' <=> n \in index, n \in arrivals' <=> n \in arrivals,
         n = replay'.cur <=> n = replay.cur, Cleaning(n)' <=> Cleaning(n),
         n \in files' <=> n \in files, fate'[n] = fate[n], adm'[n] = adm[n],
         UNCHANGED phase
  PROVE  EventOK(n)'
  BY DEF Inv, EventOK, Spooled, Serving

\* The order of the outputs when nothing moves towards the end of it.
LEMMA PairsKept ==
  ASSUME Inv, ~ Stopping' => ~ Stopping,
         \A n \in Outputs : /\ OnQueue(n)' => OnQueue(n)
                            /\ Held(n)' => Held(n)
                            /\ n \in index' => n \in index
                            /\ n \in arrivals' => n \in arrivals
                            /\ n = replay'.cur => n = replay.cur
                            /\ adm'[n] \in {adm[n], "none"} \/ (adm[n] # "none" /\ adm'[n] = "spool")
  PROVE  Pairs'
  <1> SUFFICES ASSUME ~ Stopping', NEW m \in Outputs, NEW n \in Outputs, Owner[m] = Owner[n]
               PROVE  PairOK(m, n)'
    BY DEF Pairs
  <1>1. PairOK(m, n)
    BY DEF Inv, Pairs
  <1> QED BY <1>1 DEF PairOK, Spooled

\* The fates of pending outputs may settle; what is posted does not change.
LEMMA HeadFirstKept ==
  ASSUME Inv,
         \A n \in Outputs : fate'[n] = "pending" => fate[n] = "pending",
         \A t \in Targets : owner'[t] = "posting" => owner[t] = "posting" /\ head'[t] = head[t]
  PROVE  HeadFirst'
  BY DEF Inv, HeadFirst

\* No event becomes a future one, and those enqueued are the earliest.
LEMMA FutureKept ==
  ASSUME Inv, \A n \in Events : fate'[n] = "future" <=> fate[n] = "future"
  PROVE  FutureOK'
  BY DEF Inv, FutureOK

LEMMA UpKept ==
  ASSUME phase' # "down"
  PROVE  DownOK'
  BY DEF DownOK

\* What Settle does to a fate.
LEMMA SettleFacts ==
  ASSUME Inv, NEW S \in SUBSET Events, NEW f \in Fates \ {"future", "pending"},
         fate' = Settle(S, f)
  PROVE  /\ fate' \in [Events -> Fates]
         /\ \A n \in Events : /\ fate'[n] = "future" <=> fate[n] = "future"
                              /\ fate'[n] = "pending" <=> fate[n] = "pending" /\ n \notin S
                              /\ n \notin S => fate'[n] = fate[n]
                              /\ n \in S => fate'[n] \in {fate[n], f}
  BY DEF Inv, Types, AdmTypes, Settle, Fates
-----------------------------------------------------------------------------
(* Counting.                                                                 *)

LEMMA CountSets ==
  ASSUME Inv
  PROVE  /\ \A D : IsFiniteSet(Queued(D)) /\ Cardinality(Queued(D)) \in Nat
         /\ IsFiniteSet(BusyOwners) /\ Cardinality(BusyOwners) \in Nat
         /\ IsFiniteSet({t \in BusyOwners : head[t].ram})
         /\ Cardinality({t \in BusyOwners : head[t].ram}) \in Nat
         /\ IsFiniteSet({n \in Events : adm[n] = "send"})
         /\ Cardinality({n \in Events : adm[n] = "send"}) \in Nat
  <1>1. \A D : Queued(D) \in SUBSET (Targets \X (1 .. QueueCap))
    BY DEF Queued
  <1>2. IsFiniteSet(Targets \X (1 .. QueueCap))
    <2>1. IsFiniteSet(Targets) /\ QueueCap \in Int
      BY SpoolAssumption
    <2>2. IsFiniteSet(1 .. QueueCap)
      BY <2>1, FS_Interval
    <2> QED BY <2>1, <2>2, FS_Product
  <1>3. \A D : IsFiniteSet(Queued(D))
    BY <1>1, <1>2, FS_Subset
  <1>4. IsFiniteSet(BusyOwners) /\ IsFiniteSet({t \in BusyOwners : head[t].ram})
    <2>1. BusyOwners \in SUBSET Targets /\ {t \in BusyOwners : head[t].ram} \in SUBSET Targets
      BY DEF BusyOwners
    <2> QED BY <2>1, SpoolAssumption, FS_Subset
  <1>5. IsFiniteSet({n \in Events : adm[n] = "send"})
    <2>1. {n \in Events : adm[n] = "send"} \in SUBSET Events
      OBVIOUS
    <2> QED BY <2>1, SpoolAssumption, FS_Subset
  <1> QED BY <1>3, <1>4, <1>5, FS_CardinalityType

\* A queue grows at its end.
LEMMA QueuedAppend ==
  ASSUME Inv, NEW t \in Targets, NEW it \in Item, Len(queue[t]) < QueueCap,
         queue' = [queue EXCEPT ![t] = Append(@, it)], NEW D
  PROVE  /\ it.disk \in D => Cardinality(Queued(D)') = Cardinality(Queued(D)) + 1
         /\ it.disk \notin D => Queued(D)' = Queued(D)
  <1> DEFINE len == Len(queue[t])
             new == Append(queue[t], it)
  <1>1. /\ queue[t] \in Seq(Item) /\ len \in Nat
        /\ \A i \in 1 .. len : new[i] = queue[t][i]
        /\ new[len + 1] = it /\ Len(new) = len + 1
    BY Positions, AppendProperties
  <1>2. queue'[t] = new /\ \A u \in Targets \ {t} : queue'[u] = queue[u]
    BY DEF Inv, Types, QueueTypes
  <1>3. QueueCap \in Nat /\ \A u \in Targets : Len(queue[u]) \in Nat
    BY SpoolAssumption, Positions
  <1> HIDE DEF new
  <1>4. ASSUME NEW x \in Targets \X (1 .. QueueCap)
        PROVE  x \in Queued(D)' <=> x \in Queued(D) \/ (x = <<t, len + 1>> /\ it.disk \in D)
    <2>0. x[1] \in Targets /\ x[2] \in 1 .. QueueCap /\ x = <<x[1], x[2]>>
      OBVIOUS
    <2>a. x \in Queued(D) <=> x[2] <= Len(queue[x[1]]) /\ queue[x[1]][x[2]].disk \in D
      BY DEF Queued
    <2>b. x \in Queued(D)' <=> x[2] <= Len(queue'[x[1]]) /\ queue'[x[1]][x[2]].disk \in D
      BY DEF Queued
    <2>1. CASE x[1] # t
      <3>1. queue'[x[1]] = queue[x[1]] /\ x # <<t, len + 1>>
        BY <1>2, <2>0, <2>1
      <3>2. x \in Queued(D)' <=> x \in Queued(D)
        BY <2>a, <2>b, <3>1, Zenon
      <3> QED BY <3>1, <3>2
    <2>2. CASE x[1] = t /\ x[2] = len + 1
      BY <1>1, <1>2, <1>3, <2>2 DEF Queued
    <2>3. CASE x[1] = t /\ x[2] # len + 1
      <3>1. x[2] \in 1 .. QueueCap
        OBVIOUS
      <3>2. x[2] <= len => x[2] \in 1 .. len
        BY <1>1, <1>3, <3>1
      <3>3. x[2] <= len + 1 <=> x[2] <= len
        BY <1>1, <1>3, <3>1, <2>3
      <3>4. x[2] <= len => new[x[2]] = queue[t][x[2]]
        BY <1>1, <3>2
      <3>5. x # <<t, len + 1>>
        BY <2>3
      <3>6. Len(queue'[x[1]]) = len + 1 /\ queue'[x[1]] = new /\ queue[x[1]] = queue[t]
        BY <1>1, <1>2, <2>3
      <3>7. x \in Queued(D)' <=> x[2] <= len /\ queue[t][x[2]].disk \in D
        BY <2>b, <3>3, <3>4, <3>6
      <3> QED BY <2>a, <3>5, <3>6, <3>7
    <2> QED BY <2>1, <2>2, <2>3
  <1>5. <<t, len + 1>> \in Targets \X (1 .. QueueCap) /\ <<t, len + 1>> \notin Queued(D)
    BY <1>1, <1>3 DEF Queued
  <1>6. CASE it.disk \in D
    <2>1. Queued(D)' = Queued(D) \cup {<<t, len + 1>>}
      BY <1>4, <1>5, <1>6 DEF Queued
    <2> QED BY <1>5, <1>6, <2>1, CountSets, FS_AddElement
  <1>7. CASE it.disk \notin D
    BY <1>4, <1>7 DEF Queued
  <1> QED BY <1>6, <1>7

\* A queue loses its head.
LEMMA QueuedTail ==
  ASSUME Inv, NEW t \in Targets, queue[t] # <<>>,
         queue' = [queue EXCEPT ![t] = Tail(@)], NEW D
  PROVE  Cardinality(Queued(D)') =
           IF Head(queue[t]).disk \in D THEN Cardinality(Queued(D)) - 1 ELSE Cardinality(Queued(D))
  <1> DEFINE len == Len(queue[t])
             rest == Queued(D) \ {<<t, 1>>}
             shift == [x \in rest |-> IF x[1] = t THEN <<t, x[2] - 1>> ELSE x]
             P == Queued(D)'
  <1>1. /\ queue[t] \in Seq(Item) /\ len \in Nat \ {0} /\ Head(queue[t]) = queue[t][1]
        /\ \A i \in 1 .. len - 1 : Tail(queue[t])[i] = queue[t][i + 1]
        /\ Len(Tail(queue[t])) = len - 1
    BY Positions, HeadTailProperties, EmptySeq
  <1>2. queue'[t] = Tail(queue[t]) /\ \A u \in Targets \ {t} : queue'[u] = queue[u]
    BY DEF Inv, Types, QueueTypes
  <1>3. QueueCap \in Nat /\ len <= QueueCap /\ \A u \in Targets : Len(queue[u]) \in Nat
    BY SpoolAssumption, Positions DEF Inv, QueueOK
  <1>4. \A x \in Targets \X (1 .. QueueCap) : x[1] # t => (x \in P <=> x \in Queued(D))
    BY <1>2 DEF Queued
  <1>5. \A i \in 1 .. QueueCap : <<t, i>> \in P <=> i + 1 <= len /\ <<t, i + 1>> \in Queued(D)
    <2> TAKE i \in 1 .. QueueCap
    <2>1. CASE i + 1 <= len
      <3>1. i \in 1 .. len - 1 /\ i + 1 \in 1 .. QueueCap /\ i <= len - 1
        BY <1>1, <1>3, <2>1
      <3>2. /\ <<t, i>> \in P <=> i <= Len(queue'[t]) /\ queue'[t][i].disk \in D
            /\ <<t, i + 1>> \in Queued(D) <=> i + 1 <= len /\ queue[t][i + 1].disk \in D
        BY <3>1 DEF Queued
      <3>3. queue'[t][i] = queue[t][i + 1] /\ Len(queue'[t]) = len - 1
        BY <1>1, <1>2, <3>1
      <3> QED BY <2>1, <3>1, <3>2, <3>3
    <2>2. CASE ~ (i + 1 <= len)
      <3>1. ~ (i <= len - 1)
        BY <1>1, <1>3, <2>2
      <3> QED BY <1>1, <1>2, <2>2, <3>1 DEF Queued
    <2> QED BY <2>1, <2>2
  <1>6. \A x \in Queued(D) : /\ x \in Targets \X (1 .. QueueCap)
                             /\ x[1] = t => x[2] <= len
    BY DEF Queued
  <1>7. P \subseteq Targets \X (1 .. QueueCap)
    BY DEF Queued
  <1> HIDE DEF P
  <1>8. shift \in [rest -> P]
    <2> SUFFICES ASSUME NEW x \in rest
                 PROVE  (IF x[1] = t THEN <<t, x[2] - 1>> ELSE x) \in P
      OBVIOUS
    <2>1. CASE x[1] # t
      BY <1>4, <1>6, <2>1
    <2>2. CASE x[1] = t
      <3>1. x = <<t, x[2]>> /\ x[2] \in 1 .. QueueCap /\ x[2] # 1
        BY <1>6, <2>2
      <3>2. x[2] - 1 \in 1 .. QueueCap /\ (x[2] - 1) + 1 = x[2]
        BY <1>3, <3>1
      <3> QED BY <1>5, <1>6, <2>2, <3>1, <3>2
    <2> QED BY <2>1, <2>2
  <1>9. ASSUME NEW x \in rest, NEW y \in rest, shift[x] = shift[y] PROVE x = y
    <2>1. x = <<x[1], x[2]>> /\ y = <<y[1], y[2]>> /\ x[2] \in Nat /\ y[2] \in Nat
      BY <1>6
    <2>2. /\ shift[x] = IF x[1] = t THEN <<t, x[2] - 1>> ELSE x
          /\ shift[y] = IF y[1] = t THEN <<t, y[2] - 1>> ELSE y
      OBVIOUS
    <2>3. shift[x][1] = x[1] /\ shift[y][1] = y[1]
      BY <2>1, <2>2
    <2>4. CASE x[1] = t /\ y[1] = t
      BY <1>9, <2>1, <2>2, <2>4
    <2>5. CASE x[1] # t /\ y[1] # t
      BY <1>9, <2>2, <2>5
    <2> QED BY <1>9, <2>3, <2>4, <2>5
  <1>10. ASSUME NEW y \in P PROVE \E x \in rest : shift[x] = y
    <2>1. y \in Targets \X (1 .. QueueCap) /\ y = <<y[1], y[2]>>
      BY <1>7
    <2>2. CASE y[1] # t
      <3>1. y \in rest
        BY <1>4, <2>1, <2>2
      <3> QED BY <2>2, <3>1
    <2>3. CASE y[1] = t
      <3> DEFINE x == <<t, y[2] + 1>>
      <3>1. x \in Queued(D) /\ x # <<t, 1>> /\ x[1] = t /\ x[2] = y[2] + 1 /\ y[2] \in Nat
        BY <1>5, <2>1, <2>3
      <3>2. shift[x] = <<t, (y[2] + 1) - 1>>
        BY <3>1
      <3>3. shift[x] = y
        BY <2>1, <2>3, <3>1, <3>2
      <3> QED BY <3>1, <3>3
    <2> QED BY <2>2, <2>3
  <1>11. ExistsBijection(rest, P)
    <2> HIDE DEF shift, rest
    <2>1. shift \in Injection(rest, P)
      BY <1>8, <1>9 DEF Injection, IsInjective
    <2>2. shift \in Surjection(rest, P)
      BY <1>8, <1>10 DEF Surjection
    <2> QED BY <2>1, <2>2 DEF ExistsBijection, Bijection
  <1>12. IsFiniteSet(rest) /\ Cardinality(P) = Cardinality(rest)
    BY <1>11, CountSets, FS_RemoveElement, FS_Bijection
  <1>13. <<t, 1>> \in Queued(D) <=> Head(queue[t]).disk \in D
    BY <1>1, <1>3 DEF Queued
  <1> QED BY <1>12, <1>13, CountSets, FS_RemoveElement DEF P

\* An owner takes an event in hand, or lets it go.
LEMMA BusyChanges ==
  ASSUME Inv, NEW t \in Targets, \A u \in Targets \ {t} : InHand(u)' <=> InHand(u)
  PROVE  /\ ~ InHand(t) /\ InHand(t)' => Cardinality(BusyOwners') = Cardinality(BusyOwners) + 1
         /\ InHand(t) /\ ~ InHand(t)' => Cardinality(BusyOwners') = Cardinality(BusyOwners) - 1
         /\ (InHand(t)' <=> InHand(t)) => BusyOwners' = BusyOwners
  <1>1. CASE ~ InHand(t) /\ InHand(t)'
    <2>1. BusyOwners' = BusyOwners \cup {t} /\ t \notin BusyOwners
      BY <1>1 DEF BusyOwners
    <2> QED BY <1>1, <2>1, CountSets, FS_AddElement
  <1>2. CASE InHand(t) /\ ~ InHand(t)'
    <2>1. BusyOwners' = BusyOwners \ {t} /\ t \in BusyOwners
      BY <1>2 DEF BusyOwners
    <2> QED BY <1>2, <2>1, CountSets, FS_RemoveElement
  <1>3. CASE InHand(t)' <=> InHand(t)
    BY <1>3 DEF BusyOwners
  <1> QED BY <1>1, <1>2, <1>3

\* The owners whose event is accounted in RAM.
RamOwners == {t \in BusyOwners : head[t].ram}

LEMMA RamOwnersChange ==
  ASSUME Inv, NEW t \in Targets,
         \A u \in Targets \ {t} : (InHand(u)' <=> InHand(u)) /\ head'[u] = head[u]
  PROVE  /\ t \notin RamOwners /\ t \in RamOwners'
            => Cardinality(RamOwners') = Cardinality(RamOwners) + 1
         /\ t \in RamOwners /\ t \notin RamOwners'
            => Cardinality(RamOwners') = Cardinality(RamOwners) - 1
         /\ (t \in RamOwners' <=> t \in RamOwners) => RamOwners' = RamOwners
  <1>1. \A u \in Targets \ {t} : u \in RamOwners' <=> u \in RamOwners
    BY DEF RamOwners, BusyOwners
  <1>2. RamOwners \subseteq Targets /\ RamOwners' \subseteq Targets
    BY DEF RamOwners, BusyOwners
  <1>3. IsFiniteSet(RamOwners)
    BY CountSets DEF RamOwners
  <1>4. CASE t \notin RamOwners /\ t \in RamOwners'
    <2>1. RamOwners' = RamOwners \cup {t}
      BY <1>1, <1>2, <1>4
    <2> QED BY <1>3, <1>4, <2>1, FS_AddElement
  <1>5. CASE t \in RamOwners /\ t \notin RamOwners'
    <2>1. RamOwners' = RamOwners \ {t}
      BY <1>1, <1>2, <1>5
    <2> QED BY <1>3, <1>5, <2>1, FS_RemoveElement
  <1>6. CASE t \in RamOwners' <=> t \in RamOwners
    BY <1>1, <1>2, <1>6
  <1> QED BY <1>4, <1>5, <1>6

\* The events that have reserved RAM and are not yet on a queue.
Sending == {n \in Events : adm[n] = "send"}

LEMMA SendingChanges ==
  ASSUME Inv, NEW n \in Events, \A m \in Events \ {n} : adm'[m] = adm[m]
  PROVE  /\ adm[n] # "send" /\ adm'[n] = "send" => Cardinality(Sending') = Cardinality(Sending) + 1
         /\ adm[n] = "send" /\ adm'[n] # "send" => Cardinality(Sending') = Cardinality(Sending) - 1
         /\ (adm[n] = "send" <=> adm'[n] = "send") => Sending' = Sending
  <1>1. IsFiniteSet(Sending)
    BY CountSets DEF Sending
  <1>2. CASE adm[n] # "send" /\ adm'[n] = "send"
    <2>1. Sending' = Sending \cup {n} /\ n \notin Sending
      BY <1>2 DEF Sending
    <2> QED BY <1>1, <1>2, <2>1, FS_AddElement
  <1>3. CASE adm[n] = "send" /\ adm'[n] # "send"
    <2>1. Sending' = Sending \ {n} /\ n \in Sending
      BY <1>3 DEF Sending
    <2> QED BY <1>1, <1>3, <2>1, FS_RemoveElement
  <1>4. CASE adm[n] = "send" <=> adm'[n] = "send"
    BY <1>4 DEF Sending
  <1> QED BY <1>2, <1>3, <1>4

\* CountsOK with its parts named.
Exact ==
  /\ slots = Cardinality(Queued(BOOLEAN)) + Cardinality(BusyOwners)
  /\ ram = Cardinality(Queued({FALSE})) + Cardinality(RamOwners) + Cardinality(Sending)

AtLeast ==
  /\ slots >= Cardinality(Queued(BOOLEAN)) + Cardinality(BusyOwners)
  /\ ram >= Cardinality(Queued({FALSE})) + Cardinality(RamOwners) + Cardinality(Sending)

LEMMA Counted == CountsOK <=> AtLeast /\ (Serving => Exact)
  BY DEF CountsOK, CountersExact, AtLeast, Exact, Serving, RamOwners, Sending

LEMMA CountedNext == CountsOK' <=> AtLeast' /\ (Serving' => Exact')
  BY DEF CountsOK, CountersExact, AtLeast, Exact, Serving, RamOwners, Sending

LEMMA CountsAreNatural ==
  ASSUME Inv
  PROVE  /\ Cardinality(Queued(BOOLEAN)) \in Nat /\ Cardinality(Queued({FALSE})) \in Nat
         /\ Cardinality(BusyOwners) \in Nat /\ Cardinality(RamOwners) \in Nat
         /\ Cardinality(Sending) \in Nat /\ slots \in Nat /\ ram \in Nat
         /\ AtLeast /\ (Serving => Exact)
  BY CountSets, Counted DEF RamOwners, Sending, Inv, Types, CountTypes

\* The sets that are counted, when what they are made of stays.
LEMMA CountSetsKept ==
  /\ UNCHANGED queue => \A D : Queued(D)' = Queued(D)
  /\ UNCHANGED <<owner, head>> => BusyOwners' = BusyOwners /\ RamOwners' = RamOwners
  /\ UNCHANGED adm => Sending' = Sending
  BY DEF Queued, BusyOwners, RamOwners, InHand, Sending

LEMMA CountsKept ==
  ASSUME Inv, UNCHANGED <<queue, owner, head, adm, slots, ram>>, Serving' => Serving
  PROVE  CountsOK'
  BY CountsAreNatural, CountSetsKept, CountedNext DEF AtLeast, Exact
-----------------------------------------------------------------------------
(* Signals.                                                                  *)

\* What Signal does to the files that await their removal.
Signaled(failed) ==
  /\ wake' \in BOOLEAN
  /\ \E up \in SUBSET dormant : cleanup' = cleanup \cup failed \cup up /\ dormant' = dormant \ up

LEMMA SignalFacts ==
  ASSUME Inv, NEW failed \in SUBSET Events, Signaled(failed), \A n \in failed : ~ Cleaning(n)
  PROVE  /\ SignalTypes'
         /\ \A n \in Events : Cleaning(n)' <=> Cleaning(n) \/ n \in failed
  BY DEF Inv, Types, SignalTypes, Signaled, Cleaning

LEMMA QuietSignal ==
  ASSUME Inv, Signaled({})
  PROVE  /\ SignalTypes'
         /\ \A n \in Events : Cleaning(n)' <=> Cleaning(n)
  BY SignalFacts
-----------------------------------------------------------------------------
(* Admission.                                                                *)

\* The numbers of events are compared as numbers.
LEMMA EventsAreNumbers == \A n \in Events : n \in Nat /\ n # 0
  BY SpoolAssumption

\* What is present of a target was enqueued before what is to come.
LEMMA PresentIsEarlier ==
  ASSUME Inv, NEW m \in Events, NEW n \in Events, Owner[m] = Owner[n],
         fate[m] # "future", fate[n] = "future"
  PROVE  m < n
  <1>1. ~ (n < m) /\ m # n
    BY DEF Inv, FutureOK
  <1> QED BY <1>1, EventsAreNumbers

LEMMA EnqueueOK ==
  ASSUME Inv, NEW n \in Events, Enqueue(n)
  PROVE  Inv'
  <1> DEFINE spill == n \in Outputs /\ (HasPending(Owner[n]) \/ slots >= GlobalCap \/ ram + 1 > RamCap)
             drop == n \notin Outputs /\ slots >= GlobalCap
  <1>1. /\ phase = "up" /\ fate[n] = "future"
        /\ \A m \in Events : Owner[m] = Owner[n] /\ m < n => fate[m] # "future"
        /\ n \in Outputs => \A m \in Outputs : Owner[m] = Owner[n] => adm[m] = "none"
        /\ UNCHANGED <<queue, open, owner, head, slots, files, faults, arrivals, watched, ready,
                       wake, cleanup, dormant, index, blocked, replay, phase, restarts>>
    BY DEF Enqueue, queueVars, diskVars, signalVars, replayVars, procVars
  <1>2. \/ /\ fate' = [fate EXCEPT ![n] = "rejected"] /\ adm' = [adm EXCEPT ![n] = "none"]
           /\ ram' = ram
        \/ /\ fate' = [fate EXCEPT ![n] = "pending"] /\ adm' = [adm EXCEPT ![n] = "spool"]
           /\ ram' = ram /\ n \in Outputs
        \/ /\ fate' = [fate EXCEPT ![n] = "pending"] /\ adm' = [adm EXCEPT ![n] = "send"]
           /\ ram' = ram + 1 /\ (n \in Outputs => ~ HasPending(Owner[n]))
    <2>1. CASE drop
      BY <2>1 DEF Enqueue
    <2>2. CASE ~ drop /\ spill
      BY <2>2 DEF Enqueue
    <2>3. CASE ~ drop /\ ~ spill
      BY <2>3 DEF Enqueue
    <2> QED BY <2>1, <2>2, <2>3
  <1>3. /\ adm[n] = "none" /\ ~ OnQueue(n) /\ ~ Held(n) /\ n \notin files
        /\ ~ Spooled(n) /\ ~ Cleaning(n)
    BY <1>1 DEF Inv, EventOK
  <1>t. fate \in [Events -> Fates] /\ adm \in [Events -> {"none", "send", "spool"}]
    BY DEF Inv, Types, AdmTypes
  <1>4. /\ \A m \in Events \ {n} : fate'[m] = fate[m] /\ adm'[m] = adm[m]
        /\ fate'[n] \in {"rejected", "pending"} /\ (fate'[n] = "pending" <=> adm'[n] # "none")
        /\ adm'[n] = "spool" => n \in Outputs
        /\ AdmTypes'
    BY <1>2, <1>t DEF AdmTypes, Fates
  <1>5. \A m \in Events : /\ OnQueue(m)' <=> OnQueue(m)
                          /\ Held(m)' <=> Held(m)
                          /\ Spooled(m)' <=> Spooled(m)
                          /\ Cleaning(m)' <=> Cleaning(m)
    BY <1>1, PlacesKept
  <1>6. Types'
    <2>1. CountTypes'
      BY <1>1, <1>2 DEF Inv, Types, CountTypes
    <2> QED BY <1>1, <1>4, <2>1, TypesKept DEF Types
  <1>7. \A t \in Targets : QueueOK(t)' /\ HandOK(t)'
    BY <1>1, QueuesKept, HandsKept
  <1>8. \A m \in Events : EventOK(m)'
    <2> TAKE m \in Events
    <2>1. CASE m # n
      BY <1>1, <1>4, <1>5, <2>1, EventKept
    <2>2. CASE m = n
      BY <1>1, <1>3, <1>4, <1>5, <2>2 DEF EventOK, Spooled
    <2> QED BY <2>1, <2>2
  <1>9. Pairs'
    <2> SUFFICES ASSUME NEW a \in Outputs, NEW b \in Outputs, Owner[a] = Owner[b]
                 PROVE  PairOK(a, b)'
      BY DEF Pairs
    <2>1. a \in Events /\ b \in Events
      BY SpoolAssumption
    <2>2. ~ Stopping /\ PairOK(a, b)
      BY <1>1 DEF Stopping, Inv, Pairs
    <2>3. CASE b # n
      BY <1>1, <1>3, <1>4, <1>5, <2>1, <2>2, <2>3 DEF PairOK, Spooled
    <2>4. CASE b = n
      <3>1. CASE a = n
        BY <1>3, <1>5, <2>1, <2>4, <3>1 DEF PairOK, Spooled
      <3>2. CASE a # n
        <4>1. Held(a) \/ OnQueue(a) \/ Spooled(a) => a < n
          BY <1>1, <2>1, <2>4, PresentIsEarlier DEF Inv, EventOK
        <4>2. Spooled(a) => adm'[n] # "send"
          <5>1. Spooled(a) => HasPending(Owner[n])
            BY <2>1, <2>4 DEF Inv, EventOK, HasPending
          <5> QED BY <1>2, <1>t, <2>4, <5>1
        <4>3. adm'[a] = "none"
          BY <1>1, <1>4, <2>1, <2>4, <3>2
        <4>4. adm'[n] \in {"none", "send", "spool"}
          BY <1>4 DEF AdmTypes
        <4>5. /\ n \notin index /\ n \notin arrivals /\ n # replay.cur
              /\ ~ OnQueue(n) /\ ~ Held(n) /\ ~ Spooled(n)
          BY <1>3 DEF Spooled
        <4> QED BY <1>1, <1>5, <2>1, <2>4, <4>1, <4>2, <4>3, <4>4, <4>5 DEF PairOK
      <3> QED BY <3>1, <3>2
    <2> QED BY <2>3, <2>4
  <1>10. FutureOK'
    BY <1>1, <1>4 DEF Inv, FutureOK
  <1>11. HeadFirst'
    <2> SUFFICES ASSUME NEW t \in Targets, owner[t] = "posting", head[t].n \in Outputs,
                        NEW m \in Outputs, Owner[m] = t, fate'[m] = "pending"
                 PROVE  head[t].n <= m
      BY <1>1 DEF HeadFirst
    <2>1. m \in Events /\ head[t].n \in Events /\ m \in Nat /\ head[t].n \in Nat
      BY SpoolAssumption
    <2>2. CASE m # n
      BY <1>4, <2>1, <2>2 DEF Inv, HeadFirst
    <2>3. CASE m = n
      <3>1. InHand(t) /\ Owner[head[t].n] = t
        BY DEF InHand, Inv, HandOK
      <3>2. fate[head[t].n] # "future"
        BY <2>1, <3>1 DEF Held, Inv, EventOK
      <3>3. head[t].n < m
        BY <1>1, <2>1, <2>3, <3>1, <3>2, PresentIsEarlier
      <3> QED BY <2>1, <3>3
    <2> QED BY <2>2, <2>3
  <1>12. DownOK'
    BY <1>1, UpKept
  <1>13. CountsOK'
    <2>1. Queued(BOOLEAN)' = Queued(BOOLEAN) /\ Queued({FALSE})' = Queued({FALSE})
          /\ BusyOwners' = BusyOwners /\ RamOwners' = RamOwners
      BY <1>1, CountSetsKept
    <2>2. \/ ram' = ram /\ Cardinality(Sending') = Cardinality(Sending)
          \/ ram' = ram + 1 /\ Cardinality(Sending') = Cardinality(Sending) + 1
      BY <1>2, <1>3, <1>4, <1>t, SendingChanges
    <2>3. Serving /\ slots' = slots
      BY <1>1 DEF Serving
    <2> QED BY <2>1, <2>2, <2>3, CountsAreNatural, CountedNext DEF AtLeast, Exact
  <1> QED BY <1>6, <1>7, <1>8, <1>9, <1>10, <1>11, <1>12, <1>13 DEF Inv

\* enqueue_queue_item found room: the item is the queue's last, and the queue has an owner.
Grows(t, it) ==
  /\ queue' = [queue EXCEPT ![t] = Append(@, it)]
  /\ open' = [open EXCEPT ![t] = TRUE]
  /\ owner' = [owner EXCEPT ![t] = IF @ = "none" THEN "top" ELSE @]
  /\ UNCHANGED <<head, files, phase>>

LEMMA GrowsFacts ==
  ASSUME Inv, NEW t \in Targets, NEW it \in Item, Owner[it.n] = t, Grows(t, it),
         Len(queue[t]) < QueueCap, ~ OnQueue(it.n), it.disk <=> it.n \in files,
         ~ Stopping /\ it.n \in Outputs =>
             \A m \in Outputs : Owner[m] = t /\ OnQueue(m) => m < it.n
  PROVE  /\ QueueTypes'
         /\ \A u \in Targets : QueueOK(u)' /\ HandOK(u)'
         /\ \A m \in Events : /\ OnQueue(m)' <=> OnQueue(m) \/ m = it.n
                              /\ Held(m)' <=> Held(m)
         /\ BusyOwners' = BusyOwners /\ RamOwners' = RamOwners
         /\ \A u \in Targets : owner'[u] = "posting" => owner[u] = "posting"
  <1> DEFINE len == Len(queue[t])
  <1>1. /\ queue[t] \in Seq(Item) /\ len \in Nat /\ DOMAIN queue[t] = 1 .. len
        /\ \A i \in 1 .. len : queue[t][i] \in Item /\ queue[t][i].n \in Events
    BY Positions
  <1>2. PICK new : new = Append(queue[t], it)
    OBVIOUS
  <1>3. /\ new \in Seq(Item) /\ Len(new) = len + 1 /\ DOMAIN new = 1 .. len + 1
        /\ new # <<>>
        /\ \A i \in 1 .. len : new[i] = queue[t][i]
        /\ new[len + 1] = it
    BY <1>1, <1>2, AppendProperties, LenProperties
  <1>4. queue'[t] = new /\ \A u \in Targets \ {t} : queue'[u] = queue[u]
    BY <1>2 DEF Grows, Inv, Types, QueueTypes
  <1>5. /\ \A u \in Targets \ {t} : owner'[u] = owner[u] /\ open'[u] = open[u]
        /\ open'[t] = TRUE /\ owner'[t] # "none"
        /\ \A u \in Targets : (InHand(u)' <=> InHand(u)) /\ head'[u] = head[u]
        /\ \A u \in Targets : owner'[u] = "posting" => owner[u] = "posting"
    BY DEF Grows, Inv, Types, QueueTypes, InHand
  <1>6. QueueTypes'
    <2>1. queue' \in [Targets -> Seq(Item)]
      BY <1>2, <1>3 DEF Grows, Inv, Types, QueueTypes
    <2>2. open' \in [Targets -> BOOLEAN]
      BY DEF Grows, Inv, Types, QueueTypes
    <2>3. owner' \in [Targets -> {"none", "top", "recv", "busy", "posting"}] /\ UNCHANGED head
      BY DEF Grows, Inv, Types, QueueTypes
    <2> QED BY <2>1, <2>2, <2>3 DEF Inv, Types, QueueTypes
  <1>7. \A m \in Events : /\ OnQueue(m)' <=> OnQueue(m) \/ m = it.n
                          /\ Held(m)' <=> Held(m)
    <2> TAKE m \in Events
    <2>1. CASE Owner[m] # t
      BY <1>4, <1>5, <2>1, OwnerIsTarget, PlacesKept
    <2>2. CASE Owner[m] = t
      <3>1. OnQueue(m)' <=> \E i \in 1 .. len + 1 : new[i].n = m
        BY <1>3, <1>4, <2>2 DEF OnQueue
      <3>2. OnQueue(m) <=> \E i \in 1 .. len : queue[t][i].n = m
        BY <1>1, <2>2 DEF OnQueue
      <3>3. (\E i \in 1 .. len + 1 : new[i].n = m)
            <=> (\E i \in 1 .. len : queue[t][i].n = m) \/ it.n = m
        BY <1>1, <1>3
      <3>4. Held(m)' <=> Held(m)
        BY <1>5, <2>2, PlacesKept
      <3> QED BY <3>1, <3>2, <3>3, <3>4
    <2> QED BY <2>1, <2>2
  <1>8. ASSUME NEW u \in Targets PROVE QueueOK(u)' /\ HandOK(u)'
    <2>1. HandOK(u)'
      BY <1>5, HandKept DEF Grows
    <2>2. CASE u # t
      <3>1. (~ Stopping' => ~ Stopping) /\ (Serving' => Serving)
        BY DEF Grows, Stopping, Serving
      <3>2. QueueOK(u)
        BY DEF Inv
      <3>3. QueueOK(u)'
        BY <1>4, <1>5, <2>2, <3>1, <3>2, QueueKept DEF Grows, QueueOK
      <3> QED BY <2>1, <3>3
    <2>3. CASE u = t
      <3>1. \A i \in 1 .. len : Owner[queue[t][i].n] = t
                                /\ (queue[t][i].disk <=> queue[t][i].n \in files)
                                /\ OnQueue(queue[t][i].n)
        BY <1>1, OnItsQueue DEF Inv, QueueOK
      <3>2. \A i \in 1 .. len + 1 : /\ Owner[new[i].n] = t
                                    /\ new[i].disk <=> new[i].n \in files'
        <4> TAKE i \in 1 .. len + 1
        <4>1. CASE i \in 1 .. len
          BY <1>3, <3>1, <4>1 DEF Grows
        <4>2. CASE i = len + 1
          BY <1>3, <4>2 DEF Grows
        <4> QED BY <1>1, <4>1, <4>2
      <3>3. \A i, k \in 1 .. len + 1 : i < k =>
              /\ new[i].n # new[k].n
              /\ ~ Stopping' /\ new[i].n \in Outputs /\ new[k].n \in Outputs => new[i].n < new[k].n
        <4> TAKE i, k \in 1 .. len + 1
        <4> HAVE i < k
        <4>s. ~ Stopping' => ~ Stopping
          BY DEF Grows, Stopping
        <4>1. i \in 1 .. len
          BY <1>1
        <4>2. CASE k \in 1 .. len
          <5>1. new[i] = queue[t][i] /\ new[k] = queue[t][k]
            BY <1>3, <4>1, <4>2
          <5>2. QueueOK(t) /\ i \in DOMAIN queue[t] /\ k \in DOMAIN queue[t]
            BY <1>1, <4>1, <4>2 DEF Inv
          <5> QED BY <4>s, <5>1, <5>2 DEF QueueOK
        <4>3. CASE k = len + 1
          <5>1. new[i] = queue[t][i] /\ new[k] = it
            BY <1>3, <4>1, <4>3
          <5> QED BY <3>1, <4>1, <4>s, <5>1
        <4> QED BY <1>1, <4>2, <4>3
      <3>4. QueueCap \in Nat /\ Len(new) <= QueueCap
        BY <1>1, <1>3, SpoolAssumption
      <3> QED BY <1>3, <1>4, <1>5, <2>1, <2>3, <3>2, <3>3, <3>4 DEF QueueOK
    <2> QED BY <2>2, <2>3
  <1>9. BusyOwners' = BusyOwners /\ RamOwners' = RamOwners
    BY <1>5 DEF BusyOwners, RamOwners
  <1> QED BY <1>5, <1>6, <1>7, <1>8, <1>9

\* The queue did not take the event.
LEMMA SendRefusedOK ==
  ASSUME Inv, NEW n \in Events, adm[n] = "send", SendRefused(n), Signaled({}),
         UNCHANGED <<queue, open, owner, head, slots, files, faults, arrivals, watched, ready,
                     index, blocked, replay, phase, restarts>>
  PROVE  Inv'
  <1>1. /\ ~ OnQueue(n) /\ ~ Held(n) /\ n \notin files /\ phase = "up"
        /\ ~ Spooled(n) /\ ~ Cleaning(n) /\ fate[n] = "pending"
    BY DEF Inv, EventOK
  <1>t. fate \in [Events -> Fates] /\ adm \in [Events -> {"none", "send", "spool"}]
    BY DEF Inv, Types, AdmTypes
  <1>2. /\ fate' \in [Events -> Fates]
        /\ \A m \in Events \ {n} : fate'[m] = fate[m]
        /\ \A m \in Events : fate'[m] = "future" <=> fate[m] = "future"
        /\ IF n \in Outputs THEN fate'[n] = "pending" ELSE fate'[n] # "pending"
    <2>1. CASE n \in Outputs
      BY <1>1, <1>t, <2>1 DEF SendRefused
    <2>2. CASE n \notin Outputs
      BY <1>1, <2>2, SettleFacts DEF SendRefused, Fates
    <2> QED BY <2>1, <2>2
  <1>3. /\ adm' \in [Events -> {"none", "send", "spool"}]
        /\ \A m \in Events \ {n} : adm'[m] = adm[m]
        /\ adm'[n] = IF n \in Outputs THEN "spool" ELSE "none"
    BY <1>t DEF SendRefused
  <1>4. \A m \in Events : /\ OnQueue(m)' <=> OnQueue(m)
                          /\ Held(m)' <=> Held(m)
                          /\ Spooled(m)' <=> Spooled(m)
                          /\ Cleaning(m)' <=> Cleaning(m)
    BY PlacesKept, QuietSignal
  <1>5. Cardinality(Sending') = Cardinality(Sending) - 1 /\ ram' = ram - 1 /\ Serving
        /\ Queued(BOOLEAN)' = Queued(BOOLEAN) /\ Queued({FALSE})' = Queued({FALSE})
        /\ BusyOwners' = BusyOwners /\ RamOwners' = RamOwners
    <2>1. Cardinality(Sending') = Cardinality(Sending) - 1
      BY <1>3, SendingChanges
    <2> QED BY <1>1, <2>1, CountSetsKept DEF SendRefused, Serving
  <1>6. CountsOK' /\ CountTypes'
    <2>1. Cardinality(Sending') \in Nat
      <3>1. IsFiniteSet(Sending) /\ n \in Sending
        BY CountSets DEF Sending
      <3>2. Sending # {}
        BY <3>1
      <3> QED BY <1>5, <3>1, <3>2, FS_EmptySet, CountsAreNatural
    <2>2. AtLeast' /\ Exact' /\ ram' \in Nat
      BY <1>5, <2>1, CountsAreNatural DEF AtLeast, Exact
    <2> QED BY <2>2, CountedNext DEF Inv, Types, CountTypes
  <1>7. Types'
    <2>1. AdmTypes' /\ SignalTypes'
      BY <1>2, <1>3, QuietSignal DEF AdmTypes
    <2> QED BY <1>6, <2>1, TypesKept DEF Types
  <1>8. \A t \in Targets : QueueOK(t)' /\ HandOK(t)'
    BY QueuesKept, HandsKept
  <1>9. \A m \in Events : EventOK(m)'
    <2> TAKE m \in Events
    <2>1. CASE m # n
      BY <1>2, <1>3, <1>4, <2>1, EventKept
    <2>2. CASE m = n
      BY <1>1, <1>2, <1>3, <1>4, <2>2 DEF EventOK, Inv, Serving
    <2> QED BY <2>1, <2>2
  <1>10. Pairs'
    <2>1. \A m \in Outputs : m \in Events
      BY SpoolAssumption
    <2>2. \A m \in Outputs : adm'[m] \in {adm[m], "none"} \/ (adm[m] # "none" /\ adm'[m] = "spool")
      BY <1>3, <2>1
    <2> QED BY <1>4, <2>1, <2>2, PairsKept DEF Stopping
  <1>11. HeadFirst'
    <2>1. \A m \in Outputs : fate'[m] = "pending" => fate[m] = "pending"
      BY <1>1, <1>2, SpoolAssumption
    <2> QED BY <2>1, HeadFirstKept
  <1> QED BY <1>1, <1>2, <1>6, <1>7, <1>8, <1>9, <1>10, <1>11, FutureKept, UpKept DEF Inv

LEMMA SendOK ==
  ASSUME Inv, NEW n \in Events, Send(n)
  PROVE  Inv'
  <1> DEFINE t == Owner[n]
             it == [n |-> n, disk |-> FALSE]
  <1>t. t \in Targets /\ adm[n] = "send" /\ it \in Item
    BY OwnerIsTarget DEF Send, Item
  <1>u. UNCHANGED <<files, faults, arrivals, watched, ready, index, blocked, replay, phase, restarts>>
    BY DEF Send, diskVars, replayVars, procVars
  <1>1. CASE SendRefused(n)
    <2>1. UNCHANGED <<queue, open, owner, head, slots>>
      BY <1>1, <1>t DEF Send, SendRefused, queueVars
    <2>2. Signaled({})
      <3>1. CASE UNCHANGED signalVars
        BY <3>1 DEF signalVars, Signaled, Inv, Types, SignalTypes
      <3>2. CASE Signal(slots + 1 = GlobalCap, {})
        BY <3>2 DEF Signal, Signaled, Inv, Types, SignalTypes
      <3> QED BY <1>1, <1>t, <3>1, <3>2 DEF Send, SendRefused
    <2> QED BY <1>1, <1>t, <1>u, <2>1, <2>2, SendRefusedOK
  <1>2. CASE ~ SendRefused(n)
    <2>1. /\ slots < GlobalCap /\ Len(queue[t]) < QueueCap /\ slots' = slots + 1
          /\ adm' = [adm EXCEPT ![n] = "none"] /\ Grows(t, it)
          /\ UNCHANGED <<fate, head, ram, wake, cleanup, dormant>>
      BY <1>2, <1>u DEF Send, Grows, signalVars
    <2>2. /\ ~ OnQueue(n) /\ ~ Held(n) /\ n \notin files /\ phase = "up" /\ fate[n] = "pending"
          /\ ~ Spooled(n) /\ ~ Cleaning(n) /\ ~ Stopping /\ Serving
      BY <1>t DEF Inv, EventOK, Stopping, Serving
    <2>3. it.n = n /\ it.disk = FALSE
      OBVIOUS
    <2> HIDE DEF it
    <2>4. n \in Outputs => \A m \in Outputs : Owner[m] = t =>
            /\ Held(m) \/ OnQueue(m) => m < n
            /\ ~ Spooled(m)
            /\ m # n => adm[m] = "none"
      BY <1>t, <2>2 DEF Inv, Pairs, PairOK
    <2>5. /\ QueueTypes'
          /\ \A u \in Targets : QueueOK(u)' /\ HandOK(u)'
          /\ \A m \in Events : /\ OnQueue(m)' <=> OnQueue(m) \/ m = n
                               /\ Held(m)' <=> Held(m)
          /\ BusyOwners' = BusyOwners /\ RamOwners' = RamOwners
          /\ \A u \in Targets : owner'[u] = "posting" => owner[u] = "posting"
      <3>1. it.disk <=> it.n \in files
        BY <2>2, <2>3
      <3> QED BY <1>t, <2>1, <2>2, <2>3, <2>4, <3>1, GrowsFacts
    <2>6. /\ adm' \in [Events -> {"none", "send", "spool"}] /\ adm'[n] = "none"
          /\ \A m \in Events \ {n} : adm'[m] = adm[m]
      BY <2>1 DEF Inv, Types, AdmTypes
    <2>7. \A m \in Events : (Spooled(m)' <=> Spooled(m)) /\ (Cleaning(m)' <=> Cleaning(m))
      BY <1>u, <2>1, PlacesKept
    <2>8. Types'
      <3>1. AdmTypes'
        BY <2>1, <2>6 DEF Inv, Types, AdmTypes
      <3>2. CountTypes'
        BY <2>1, SpoolAssumption DEF Inv, Types, CountTypes
      <3> QED BY <1>u, <2>1, <2>5, <3>1, <3>2, TypesKept DEF Types
    <2>9. \A m \in Events : EventOK(m)'
      <3> TAKE m \in Events
      <3>1. CASE m # n
        BY <1>u, <2>1, <2>5, <2>6, <2>7, <3>1, EventKept
      <3>2. CASE m = n
        BY <1>u, <2>1, <2>2, <2>5, <2>6, <2>7, <3>2 DEF EventOK, Spooled
      <3> QED BY <3>1, <3>2
    <2>10. Pairs'
      <3> SUFFICES ASSUME NEW a \in Outputs, NEW b \in Outputs, Owner[a] = Owner[b]
                   PROVE  PairOK(a, b)'
        BY DEF Pairs
      <3>1. a \in Events /\ b \in Events /\ PairOK(a, b) /\ PairOK(b, a)
        BY <2>2, SpoolAssumption DEF Inv, Pairs
      <3>2. CASE a # n /\ b # n
        BY <1>u, <2>5, <2>6, <2>7, <3>1, <3>2 DEF PairOK
      <3>3. CASE a = n
        <4>1. ~ Spooled(b) /\ (b # n => adm[b] = "none")
          BY <2>4, <3>3
        <4>2. adm'[b] = "none" /\ adm'[n] = "none" /\ ~ Spooled(b)' /\ ~ Spooled(n)' /\ ~ Held(n)'
          BY <2>2, <2>5, <2>6, <2>7, <3>1, <3>3, <4>1
        <4> QED BY <3>3, <4>2 DEF PairOK, Spooled
      <3>4. CASE b = n /\ a # n
        <4>1. ~ Spooled(a) /\ adm[a] = "none" /\ (Held(a) => a < n)
          BY <2>4, <3>4
        <4>2. /\ adm'[a] = "none" /\ adm'[n] = "none" /\ ~ Spooled(a)' /\ ~ Spooled(n)'
              /\ Held(a)' => a < n
          BY <2>2, <2>5, <2>6, <2>7, <3>1, <3>4, <4>1
        <4> QED BY <3>4, <4>2 DEF PairOK, Spooled
      <3> QED BY <3>2, <3>3, <3>4
    <2>11. HeadFirst'
      BY <2>1, <2>5, HeadFirstKept
    <2>12. FutureOK'
      BY <2>1, FutureKept
    <2>13. CountsOK'
      <3>1. Cardinality(Queued(BOOLEAN)') = Cardinality(Queued(BOOLEAN)) + 1
        BY <1>t, <2>1, <2>3, QueuedAppend DEF Grows
      <3>2. Cardinality(Queued({FALSE})') = Cardinality(Queued({FALSE})) + 1
        BY <1>t, <2>1, <2>3, QueuedAppend DEF Grows
      <3>3. Cardinality(Sending') = Cardinality(Sending) - 1
        BY <1>t, <2>6, SendingChanges
      <3> QED BY <2>1, <2>2, <2>5, <3>1, <3>2, <3>3, CountsAreNatural, CountedNext
              DEF AtLeast, Exact
    <2> QED BY <1>u, <2>2, <2>5, <2>8, <2>9, <2>10, <2>11, <2>12, <2>13, UpKept DEF Inv
  <1> QED BY <1>1, <1>2

LEMMA SpillOK ==
  ASSUME Inv, NEW n \in Events, Spill(n)
  PROVE  Inv'
  <1>u. UNCHANGED <<queue, open, owner, head, slots, ram, watched, ready, index, blocked, replay,
                    phase, restarts>>
    BY DEF Spill, queueVars, countVars, replayVars, procVars
  <1>1. /\ n \in Outputs /\ ~ OnQueue(n) /\ ~ Held(n) /\ n \notin files /\ phase = "up"
        /\ ~ Spooled(n) /\ ~ Cleaning(n) /\ fate[n] = "pending" /\ ~ Stopping /\ Serving
        /\ adm[n] = "spool"
    BY DEF Spill, Inv, EventOK, Stopping, Serving
  <1>2. /\ adm' \in [Events -> {"none", "send", "spool"}] /\ adm'[n] = "none"
        /\ \A m \in Events \ {n} : adm'[m] = adm[m]
    BY DEF Spill, Inv, Types, AdmTypes
  <1>3. \/ /\ files' = files \cup {n} /\ arrivals' = arrivals \cup {n} /\ UNCHANGED <<faults, fate>>
        \/ /\ UNCHANGED <<files, arrivals>> /\ faults' \in {faults, faults + 1}
           /\ faults' \in 0 .. MaxFaults /\ fate' = Settle({n}, "rejected")
    <2>1. Persist(n, TRUE) => files' = files \cup {n} /\ arrivals' = arrivals \cup {n}
                              /\ UNCHANGED faults
      BY DEF Persist
    <2>2. PersistFails(FALSE) => /\ UNCHANGED <<files, arrivals>>
                                 /\ faults' = faults \/ (faults < MaxFaults /\ faults' = faults + 1)
      BY DEF PersistFails, diskVars
    <2>3. faults \in 0 .. MaxFaults /\ MaxFaults \in Nat
      BY SpoolAssumption DEF Inv, Types, DiskTypes
    <2>4. CASE Persist(n, TRUE) /\ UNCHANGED fate
      BY <2>1, <2>4
    <2>5. CASE PersistFails(FALSE) /\ fate' = Settle({n}, "rejected")
      BY <2>2, <2>3, <2>5
    <2> QED BY <2>4, <2>5 DEF Spill
  <1>4. Signaled({})
    <2>1. CASE Signal(TRUE, {})
      BY <2>1 DEF Signal, Signaled, Inv, Types, SignalTypes
    <2>2. CASE Signal(dormant # {} \/ FALSE, {})
      BY <2>2 DEF Signal, Signaled, Inv, Types, SignalTypes
    <2>3. CASE Signal(FALSE, {})
      BY <2>3 DEF Signal, Signaled, Inv, Types, SignalTypes
    <2> QED BY <2>1, <2>2, <2>3 DEF Spill, PersistFails
  <1>5. /\ fate' \in [Events -> Fates]
        /\ \A m \in Events \ {n} : fate'[m] = fate[m]
        /\ \A m \in Events : fate'[m] = "future" <=> fate[m] = "future"
        /\ IF n \in files' THEN fate'[n] = "pending" ELSE fate'[n] # "pending"
    <2>1. CASE fate' = Settle({n}, "rejected") /\ UNCHANGED files
      BY <1>1, <2>1, SettleFacts DEF Fates
    <2>2. CASE UNCHANGED fate /\ n \in files'
      BY <1>1, <2>2 DEF Inv, Types, AdmTypes
    <2> QED BY <1>3, <2>1, <2>2
  <1>6. /\ \A m \in Events : /\ OnQueue(m)' <=> OnQueue(m)
                             /\ Held(m)' <=> Held(m)
                             /\ Cleaning(m)' <=> Cleaning(m)
        /\ \A m \in Events \ {n} : /\ m \in files' <=> m \in files
                                   /\ m \in arrivals' <=> m \in arrivals
                                   /\ Spooled(m)' <=> Spooled(m)
        /\ n \in files' <=> n \in arrivals'
        /\ n \notin index' /\ n # replay'.cur
    BY <1>u, <1>1, <1>3, <1>4, PlacesKept, QuietSignal DEF Spooled, Inv, EventOK
  <1>7. Types'
    <2>1. AdmTypes' /\ SignalTypes'
      BY <1>2, <1>4, <1>5, QuietSignal DEF AdmTypes
    <2>2. DiskTypes' /\ SetTypes'
      BY <1>u, <1>3 DEF Inv, Types, DiskTypes, SetTypes
    <2> QED BY <1>u, <2>1, <2>2, TypesKept DEF Types
  <1>8. \A t \in Targets : QueueOK(t)' /\ HandOK(t)'
    BY <1>u, <1>1, <1>6, QueuesKept, HandsKept
  <1>9. \A m \in Events : EventOK(m)'
    <2> TAKE m \in Events
    <2>1. CASE m # n
      BY <1>u, <1>2, <1>5, <1>6, <2>1, EventKept
    <2>2. CASE m = n
      BY <1>u, <1>1, <1>2, <1>5, <1>6, <2>2 DEF EventOK, Spooled, Serving
    <2> QED BY <2>1, <2>2
  <1>10. Pairs'
    <2> SUFFICES ASSUME NEW a \in Outputs, NEW b \in Outputs, Owner[a] = Owner[b]
                 PROVE  PairOK(a, b)'
      BY DEF Pairs
    <2>1. a \in Events /\ b \in Events /\ PairOK(a, b) /\ PairOK(b, a)
      BY <1>1, SpoolAssumption DEF Inv, Pairs
    <2>2. CASE a # n /\ b # n
      BY <1>u, <1>2, <1>6, <2>1, <2>2 DEF PairOK
    <2>3. CASE a = n
      <3>1. adm'[b] = "none" /\ adm'[n] = "none"
        BY <1>1, <1>2, <2>1, <2>3 DEF PairOK
      <3> QED BY <1>u, <1>1, <1>6, <2>3, <3>1 DEF PairOK, Spooled
    <2>4. CASE b = n /\ a # n
      <3>1. adm'[a] = "none" /\ adm'[n] = "none"
        BY <1>1, <1>2, <2>1, <2>4 DEF PairOK
      <3>2. Held(a) \/ OnQueue(a) \/ a \in index \/ a = replay.cur => a < n
        BY <1>1, <2>1, <2>4 DEF PairOK, Spooled
      <3> QED BY <1>u, <1>1, <1>6, <2>1, <2>4, <3>1, <3>2 DEF PairOK
    <2> QED BY <2>2, <2>3, <2>4
  <1>11. HeadFirst'
    <2>1. \A m \in Outputs : fate'[m] = "pending" => fate[m] = "pending"
      BY <1>1, <1>5, SpoolAssumption
    <2> QED BY <1>u, <2>1, HeadFirstKept
  <1>12. CountsOK'
    <2>1. Sending' = Sending
      BY <1>1, <1>2, SendingChanges
    <2> QED BY <1>u, <1>1, <2>1, CountsAreNatural, CountSetsKept, CountedNext DEF AtLeast, Exact
  <1> QED BY <1>u, <1>1, <1>5, <1>7, <1>8, <1>9, <1>10, <1>11, <1>12, FutureKept, UpKept DEF Inv
-----------------------------------------------------------------------------
(* The owner of a queue.                                                     *)

\* Nothing but the state of an owner that holds nothing, or holds the same, changes.
LEMMA OwnerStep ==
  ASSUME Inv, NEW t \in Targets, NEW s \in {"none", "top", "recv", "busy", "posting"},
         owner' = [owner EXCEPT ![t] = s], open'[t] \in BOOLEAN,
         \A u \in Targets \ {t} : open'[u] = open[u], open' \in [Targets -> BOOLEAN],
         s \in {"busy", "posting"} <=> InHand(t),
         s = "none" => queue[t] = <<>>,
         s # "none" /\ Serving => open'[t],
         UNCHANGED <<queue, head, adm, slots, ram, files, faults, arrivals, watched, ready,
                     wake, cleanup, dormant, index, blocked, replay, phase, restarts>>
  PROVE  /\ AdmTypes' => Types'
         /\ \A u \in Targets : QueueOK(u)' /\ HandOK(u)'
         /\ \A m \in Events : /\ OnQueue(m)' <=> OnQueue(m)
                              /\ Held(m)' <=> Held(m)
                              /\ Spooled(m)' <=> Spooled(m)
                              /\ Cleaning(m)' <=> Cleaning(m)
         /\ Pairs' /\ CountsOK'
  <1>1. /\ owner'[t] = s /\ \A u \in Targets \ {t} : owner'[u] = owner[u]
        /\ owner' \in [Targets -> {"none", "top", "recv", "busy", "posting"}]
    BY DEF Inv, Types, QueueTypes
  <1>2. \A u \in Targets : InHand(u)' <=> InHand(u)
    BY <1>1 DEF InHand
  <1>3. \A m \in Events : /\ OnQueue(m)' <=> OnQueue(m)
                          /\ Held(m)' <=> Held(m)
                          /\ Spooled(m)' <=> Spooled(m)
                          /\ Cleaning(m)' <=> Cleaning(m)
    BY <1>2, PlacesKept, OwnerIsTarget
  <1>4. AdmTypes' => Types'
    <2>1. QueueTypes'
      BY <1>1 DEF Inv, Types, QueueTypes
    <2> QED BY <2>1, TypesKept DEF Types
  <1>5. \A u \in Targets : QueueOK(u)' /\ HandOK(u)'
    <2> TAKE u \in Targets
    <2>1. HandOK(u)'
      BY <1>2, HandKept
    <2>2. QueueOK(u) /\ (Serving' <=> Serving) /\ (Stopping' <=> Stopping)
      BY DEF Inv, Serving, Stopping
    <2>3. owner'[u] # "none" /\ Serving' => open'[u]
      BY <1>1, <2>2 DEF QueueOK
    <2>4. owner'[u] = "none" => owner[u] = "none" \/ queue[u] = <<>>
      BY <1>1
    <2>5. QueueOK(u)'
      BY <2>2, <2>3, <2>4, QueueKept
    <2> QED BY <2>1, <2>5
  <1>6. Pairs'
    BY <1>3, PairsKept, SpoolAssumption DEF Stopping
  <1>7. CountsOK'
    <2>1. BusyOwners' = BusyOwners /\ RamOwners' = RamOwners
      BY <1>2 DEF BusyOwners, RamOwners
    <2>2. Serving' <=> Serving
      BY DEF Serving
    <2> QED BY <2>1, <2>2, CountsAreNatural, CountSetsKept, CountedNext DEF AtLeast, Exact
  <1> QED BY <1>3, <1>4, <1>5, <1>6, <1>7

\* Check, and the beginning of an attempt, which by the order is that of the oldest output.
LEMMA CheckOK ==
  ASSUME Inv, NEW t \in Targets, Check(t)
  PROVE  Inv'
  <1>1. /\ owner[t] = "top" /\ open[t] /\ owner' = [owner EXCEPT ![t] = "recv"]
        /\ UNCHANGED <<fate, adm, queue, open, head, slots, ram, files, faults, arrivals, watched,
                       ready, wake, cleanup, dormant, index, blocked, replay, phase, restarts>>
    BY DEF Check, admVars, countVars, diskVars, signalVars, replayVars, procVars
  <1>2. /\ open \in [Targets -> BOOLEAN] /\ ~ InHand(t) /\ phase # "down"
        /\ owner \in [Targets -> {"none", "top", "recv", "busy", "posting"}]
    BY <1>1 DEF Inv, Types, QueueTypes, InHand, DownOK
  <1>3. /\ Types'
        /\ \A u \in Targets : QueueOK(u)' /\ HandOK(u)'
        /\ \A m \in Events : /\ OnQueue(m)' <=> OnQueue(m)
                             /\ Held(m)' <=> Held(m)
                             /\ Spooled(m)' <=> Spooled(m)
                             /\ Cleaning(m)' <=> Cleaning(m)
        /\ Pairs' /\ CountsOK'
    <2>1. AdmTypes'
      BY <1>1, TypesKept
    <2> QED BY <1>1, <1>2, <2>1, OwnerStep
  <1>4. \A m \in Events : EventOK(m)'
    BY <1>1, <1>3, EventKept
  <1>5. HeadFirst'
    BY <1>1, <1>2, HeadFirstKept
  <1> QED BY <1>1, <1>2, <1>3, <1>4, <1>5, FutureKept, UpKept DEF Inv

LEMMA FinishedOK ==
  ASSUME Inv, NEW t \in Targets, Finished(t)
  PROVE  Inv'
  <1>1. /\ owner[t] = "recv" /\ queue[t] = <<>> /\ owner' = [owner EXCEPT ![t] = "none"]
        /\ open' = [open EXCEPT ![t] = FALSE]
        /\ UNCHANGED <<fate, adm, queue, head, slots, ram, files, faults, arrivals, watched,
                       ready, wake, cleanup, dormant, index, blocked, replay, phase, restarts>>
    BY DEF Finished, admVars, countVars, diskVars, signalVars, replayVars, procVars
  <1>2. /\ open' \in [Targets -> BOOLEAN] /\ \A u \in Targets \ {t} : open'[u] = open[u]
        /\ ~ InHand(t) /\ phase # "down"
        /\ owner \in [Targets -> {"none", "top", "recv", "busy", "posting"}]
    BY <1>1 DEF Inv, Types, QueueTypes, InHand, DownOK
  <1>3. /\ Types'
        /\ \A u \in Targets : QueueOK(u)' /\ HandOK(u)'
        /\ \A m \in Events : /\ OnQueue(m)' <=> OnQueue(m)
                             /\ Held(m)' <=> Held(m)
                             /\ Spooled(m)' <=> Spooled(m)
                             /\ Cleaning(m)' <=> Cleaning(m)
        /\ Pairs' /\ CountsOK'
    <2>1. AdmTypes' /\ open'[t] \in BOOLEAN
      BY <1>1, <1>2, TypesKept
    <2> QED BY <1>1, <1>2, <2>1, OwnerStep
  <1>4. \A m \in Events : EventOK(m)'
    BY <1>1, <1>3, EventKept
  <1>5. HeadFirst'
    BY <1>1, <1>2, HeadFirstKept
  <1> QED BY <1>1, <1>2, <1>3, <1>4, <1>5, FutureKept, UpKept DEF Inv

LEMMA PostOK ==
  ASSUME Inv, NEW t \in Targets, Post(t)
  PROVE  Inv'
  <1>1. /\ owner[t] = "busy" /\ ~ Stopping /\ owner' = [owner EXCEPT ![t] = "posting"]
        /\ UNCHANGED <<fate, adm, queue, open, head, slots, ram, files, faults, arrivals, watched,
                       ready, wake, cleanup, dormant, index, blocked, replay, phase, restarts>>
    BY DEF Post, admVars, countVars, diskVars, signalVars, replayVars, procVars
  <1>2. /\ open \in [Targets -> BOOLEAN] /\ InHand(t) /\ phase # "down" /\ Serving
        /\ owner \in [Targets -> {"none", "top", "recv", "busy", "posting"}]
        /\ Serving => open[t]
    BY <1>1 DEF Inv, Types, QueueTypes, InHand, DownOK, Stopping, Serving, ProcTypes, QueueOK
  <1>3. /\ Types'
        /\ \A u \in Targets : QueueOK(u)' /\ HandOK(u)'
        /\ \A m \in Events : /\ OnQueue(m)' <=> OnQueue(m)
                             /\ Held(m)' <=> Held(m)
                             /\ Spooled(m)' <=> Spooled(m)
                             /\ Cleaning(m)' <=> Cleaning(m)
        /\ Pairs' /\ CountsOK'
    <2>1. AdmTypes'
      BY <1>1, TypesKept
    <2> QED BY <1>1, <1>2, <2>1, OwnerStep
  <1>4. \A m \in Events : EventOK(m)'
    BY <1>1, <1>3, EventKept
  <1>5. HeadFirst'
    <2> SUFFICES ASSUME NEW u \in Targets, owner'[u] = "posting", head[u].n \in Outputs,
                        NEW m \in Outputs, Owner[m] = u, fate[m] = "pending"
                 PROVE  head[u].n <= m
      BY <1>1 DEF HeadFirst
    <2>1. m \in Events /\ head[u].n \in Events /\ m \in Nat /\ head[u].n \in Nat
      BY SpoolAssumption
    <2>2. CASE u # t
      BY <1>1, <1>2, <2>2 DEF Inv, HeadFirst
    <2>3. CASE u = t
      <3>1. Owner[head[t].n] = t /\ Held(head[t].n)
        BY <1>2, <2>1, <2>3 DEF Inv, HandOK, Held
      <3>2. EventOK(m) /\ PairOK(head[t].n, m)
        BY <1>1, <2>1, <2>3, <3>1 DEF Inv, Pairs
      <3>3. Spooled(m) \/ OnQueue(m) \/ adm[m] # "none" \/ Held(m)
        BY <1>2, <3>2 DEF EventOK
      <3>4. CASE Held(m)
        BY <2>1, <2>3, <3>4 DEF Held
      <3>5. CASE ~ Held(m)
        BY <2>1, <2>3, <3>1, <3>2, <3>3, <3>5 DEF PairOK
      <3> QED BY <3>4, <3>5
    <2> QED BY <2>2, <2>3
  <1> QED BY <1>1, <1>2, <1>3, <1>4, <1>5, FutureKept, UpKept DEF Inv

\* A fate that settles in the hand of the owner.
LEMMA SettledInHand ==
  ASSUME Inv, NEW t \in Targets, InHand(t), NEW f \in {"delivered", "refused", "reported"},
         fate' = Settle({head[t].n}, f)
  PROVE  /\ head[t].n \in Events /\ Owner[head[t].n] = t /\ Held(head[t].n)
         /\ fate' \in [Events -> Fates]
         /\ \A m \in Events : /\ fate'[m] = "future" <=> fate[m] = "future"
                              /\ fate'[m] = "pending" => fate[m] = "pending"
                              /\ m # head[t].n => fate'[m] = fate[m]
         /\ fate'[head[t].n] \in {"delivered", "refused", "reported"}
  <1>1. head[t].n \in Events /\ Owner[head[t].n] = t /\ Held(head[t].n)
    BY DEF Inv, HandOK, Held, Busy
  <1>2. fate[head[t].n] \in {"pending", "delivered", "refused", "reported"}
    BY <1>1 DEF Inv, EventOK
  <1> QED BY <1>1, <1>2, SettleFacts DEF Fates

LEMMA AnswerLostOK ==
  ASSUME Inv, NEW t \in Targets, AnswerLost(t)
  PROVE  Inv'
  <1>1. /\ owner[t] = "posting" /\ owner' = [owner EXCEPT ![t] = "busy"]
        /\ fate' = Settle({head[t].n}, "delivered")
        /\ UNCHANGED <<adm, queue, open, head, slots, ram, files, faults, arrivals, watched,
                       ready, wake, cleanup, dormant, index, blocked, replay, phase, restarts>>
    BY DEF AnswerLost, countVars, diskVars, signalVars, replayVars, procVars
  <1>2. /\ open \in [Targets -> BOOLEAN] /\ InHand(t) /\ phase # "down"
        /\ owner \in [Targets -> {"none", "top", "recv", "busy", "posting"}]
        /\ Serving => open[t]
    BY <1>1 DEF Inv, Types, QueueTypes, InHand, DownOK, QueueOK
  <1>f. /\ head[t].n \in Events /\ Held(head[t].n)
        /\ fate' \in [Events -> Fates]
        /\ \A m \in Events : /\ fate'[m] = "future" <=> fate[m] = "future"
                             /\ fate'[m] = "pending" => fate[m] = "pending"
                             /\ m # head[t].n => fate'[m] = fate[m]
        /\ fate'[head[t].n] \in {"delivered", "refused", "reported"}
    BY <1>1, <1>2, SettledInHand
  <1>3. /\ Types'
        /\ \A u \in Targets : QueueOK(u)' /\ HandOK(u)'
        /\ \A m \in Events : /\ OnQueue(m)' <=> OnQueue(m)
                             /\ Held(m)' <=> Held(m)
                             /\ Spooled(m)' <=> Spooled(m)
                             /\ Cleaning(m)' <=> Cleaning(m)
        /\ Pairs' /\ CountsOK'
    <2>1. AdmTypes'
      BY <1>1, <1>f DEF Inv, Types, AdmTypes
    <2> QED BY <1>1, <1>2, <2>1, OwnerStep
  <1>4. \A m \in Events : EventOK(m)'
    <2> TAKE m \in Events
    <2>1. CASE m # head[t].n
      BY <1>1, <1>3, <1>f, <2>1, EventKept
    <2>2. CASE m = head[t].n
      <3>1. EventOK(m) /\ Held(m)
        BY <1>f, <2>2 DEF Inv
      <3> QED BY <1>1, <1>3, <1>f, <2>2, <3>1 DEF EventOK, Spooled, Serving
    <2> QED BY <2>1, <2>2
  <1>5. HeadFirst'
    <2>1. \A m \in Outputs : fate'[m] = "pending" => fate[m] = "pending"
      BY <1>f, SpoolAssumption
    <2> QED BY <1>1, <1>2, <2>1, HeadFirstKept
  <1> QED BY <1>1, <1>2, <1>3, <1>4, <1>5, <1>f, FutureKept, UpKept DEF Inv

\* The item at the head of a queue goes into the hand of the owner.
LEMMA TakeOK ==
  ASSUME Inv, NEW t \in Targets, Take(t)
  PROVE  Inv'
  <1> DEFINE len == Len(queue[t])
  <1>1. /\ owner[t] = "recv" /\ queue[t] # <<>> /\ owner' = [owner EXCEPT ![t] = "busy"]
        /\ queue' = [queue EXCEPT ![t] = Tail(@)]
        /\ watched' = watched \ {t} /\ ready' \in {ready, ready \cup {t}}
        /\ UNCHANGED <<fate, adm, open, slots, ram, files, faults, arrivals, index, blocked,
                       replay, phase, restarts>>
    BY DEF Take, MarkReady, admVars, countVars, diskVars, replayVars, procVars
  <1>2. Signaled({})
    <2>1. Signal(t \in watched, {})
      BY DEF Take, MarkReady
    <2> QED BY <2>1 DEF Signal, Signaled, Inv, Types, SignalTypes
  <1>3. PICK it \in Item : it = Head(queue[t])
    BY <1>1, Positions, HeadTailProperties
  <1>4. /\ it.n \in Events /\ it.disk \in BOOLEAN /\ it = queue[t][1] /\ len \in Nat \ {0}
        /\ DOMAIN queue[t] = 1 .. len /\ 1 \in DOMAIN queue[t]
    BY <1>1, <1>3, Positions, EmptySeq DEF Item
  <1>5. PICK rest \in Seq(Item) : rest = Tail(queue[t])
    BY <1>1, Positions, HeadTailProperties
  <1>6. /\ DOMAIN rest = 1 .. len - 1 /\ Len(rest) = len - 1
        /\ \A i \in 1 .. len - 1 : rest[i] = queue[t][i + 1] /\ i + 1 \in DOMAIN queue[t] /\ 1 < i + 1
    <2>1. Len(rest) = len - 1 /\ \A i \in 1 .. Len(rest) : rest[i] = queue[t][i + 1]
      BY <1>1, <1>5, Positions, HeadTailProperties
    <2>2. DOMAIN rest = 1 .. Len(rest)
      BY LenProperties
    <2> QED BY <1>4, <2>1, <2>2
  <1>7. queue'[t] = rest /\ \A u \in Targets \ {t} : queue'[u] = queue[u]
    BY <1>1, <1>5 DEF Inv, Types, QueueTypes
  <1>8. PICK h \in Busy : h = [n |-> it.n, disk |-> it.disk, ram |-> ~ it.disk]
    <2>1. (~ it.disk) \in BOOLEAN
      OBVIOUS
    <2> DEFINE r == ~ it.disk
    <2>2. r \in BOOLEAN
      BY <2>1
    <2> HIDE DEF r
    <2>3. [n |-> it.n, disk |-> it.disk, ram |-> r] \in Busy
      BY <1>4, <2>2 DEF Busy
    <2> QED BY <2>3 DEF r
  <1>9. /\ h.n = it.n /\ h.disk = it.disk /\ h.ram = ~ it.disk
        /\ head'[t] = h /\ \A u \in Targets \ {t} : head'[u] = head[u]
        /\ head' \in [Targets -> Busy \cup {NoHead}]
    <2>1. head' = [head EXCEPT ![t] = h]
      BY <1>3, <1>8 DEF Take
    <2>2. head \in [Targets -> Busy \cup {NoHead}]
      BY DEF Inv, Types, QueueTypes
    <2> QED BY <1>8, <2>1, <2>2
  <1>10. /\ owner'[t] = "busy" /\ \A u \in Targets \ {t} : owner'[u] = owner[u]
         /\ owner' \in [Targets -> {"none", "top", "recv", "busy", "posting"}]
         /\ InHand(t)' /\ ~ InHand(t) /\ \A u \in Targets \ {t} : InHand(u)' <=> InHand(u)
    <2>1. /\ owner'[t] = "busy" /\ \A u \in Targets \ {t} : owner'[u] = owner[u]
          /\ owner' \in [Targets -> {"none", "top", "recv", "busy", "posting"}]
      BY <1>1 DEF Inv, Types, QueueTypes
    <2> QED BY <1>1, <2>1 DEF InHand
  <1>11. Owner[it.n] = t /\ OnQueue(it.n) /\ (it.disk <=> it.n \in files) /\ phase # "down"
    BY <1>1, <1>4, OnItsQueue DEF Inv, QueueOK, DownOK
  <1>12. \A i \in 1 .. len - 1 : /\ rest[i].n # it.n
                                 /\ ~ Stopping /\ rest[i].n \in Outputs /\ it.n \in Outputs
                                    => it.n < rest[i].n
    <2> TAKE i \in 1 .. len - 1
    <2>1. /\ queue[t][1].n # queue[t][i + 1].n
          /\ ~ Stopping /\ queue[t][1].n \in Outputs /\ queue[t][i + 1].n \in Outputs
             => queue[t][1].n < queue[t][i + 1].n
      <3>1. QueueOK(t) /\ 1 \in DOMAIN queue[t] /\ i + 1 \in DOMAIN queue[t] /\ 1 < i + 1
        BY <1>4, <1>6 DEF Inv
      <3> QED BY <3>1 DEF QueueOK
    <2>2. rest[i] = queue[t][i + 1]
      BY <1>6
    <2> QED BY <1>4, <2>1, <2>2
  <1>13. \A m \in Events : /\ OnQueue(m)' <=> OnQueue(m) /\ m # it.n
                           /\ Held(m)' <=> Held(m) \/ m = it.n
                           /\ Spooled(m)' <=> Spooled(m)
                           /\ Cleaning(m)' <=> Cleaning(m)
    <2> TAKE m \in Events
    <2>1. (Spooled(m)' <=> Spooled(m)) /\ (Cleaning(m)' <=> Cleaning(m))
      BY <1>1, <1>2, PlacesKept, QuietSignal
    <2>2. CASE Owner[m] # t
      BY <1>7, <1>9, <1>10, <1>11, <2>1, <2>2, OwnerIsTarget, PlacesKept
    <2>3. CASE Owner[m] = t
      <3>1. Held(m)' <=> m = it.n
        BY <1>9, <1>10, <2>3 DEF Held
      <3>2. ~ Held(m)
        BY <1>10, <2>3 DEF Held
      <3>3. OnQueue(m)' <=> \E i \in 1 .. len - 1 : rest[i].n = m
        BY <1>6, <1>7, <2>3 DEF OnQueue
      <3>4. OnQueue(m) <=> \E i \in 1 .. len : queue[t][i].n = m
        BY <1>4, <2>3 DEF OnQueue
      <3>5. (\E i \in 1 .. len : queue[t][i].n = m)
            <=> it.n = m \/ \E i \in 1 .. len - 1 : rest[i].n = m
        <4>1. ASSUME NEW i \in 1 .. len, queue[t][i].n = m, it.n # m
              PROVE  \E k \in 1 .. len - 1 : rest[k].n = m
          <5>1. i # 1
            BY <1>4, <4>1
          <5>2. i - 1 \in 1 .. len - 1 /\ (i - 1) + 1 = i
            BY <1>4, <5>1
          <5>3. rest[i - 1] = queue[t][(i - 1) + 1]
            BY <1>6, <5>2
          <5>4. rest[i - 1].n = m
            BY <4>1, <5>2, <5>3
          <5> QED BY <5>2, <5>4
        <4>2. ASSUME NEW k \in 1 .. len - 1, rest[k].n = m
              PROVE  \E i \in 1 .. len : queue[t][i].n = m
          <5>1. k + 1 \in 1 .. len /\ queue[t][k + 1].n = m
            BY <1>4, <1>6, <4>2
          <5> QED BY <5>1
        <4>3. it.n = m => \E i \in 1 .. len : queue[t][i].n = m
          BY <1>4
        <4> QED BY <4>1, <4>2, <4>3
      <3> QED BY <1>12, <2>1, <3>1, <3>2, <3>3, <3>4, <3>5
    <2> QED BY <2>2, <2>3
  <1>14. Types'
    <2>1. queue' \in [Targets -> Seq(Item)]
      BY <1>1, <1>5 DEF Inv, Types, QueueTypes
    <2>2. QueueTypes'
      BY <1>1, <1>9, <1>10, <2>1 DEF Inv, Types, QueueTypes
    <2>3. SetTypes'
      BY <1>1 DEF Inv, Types, SetTypes
    <2> QED BY <1>1, <1>2, <2>2, <2>3, TypesKept, QuietSignal DEF Types
  <1>15. \A u \in Targets : QueueOK(u)' /\ HandOK(u)'
    <2> TAKE u \in Targets
    <2>0. QueueOK(u) /\ (Serving' <=> Serving) /\ (Stopping' <=> Stopping)
      BY <1>1 DEF Inv, Serving, Stopping
    <2>1. CASE u # t
      <3>1. QueueOK(u)'
        BY <1>1, <1>7, <1>10, <2>0, <2>1, QueueKept DEF QueueOK
      <3>2. HandOK(u)'
        BY <1>1, <1>9, <1>10, <2>1, HandKept
      <3> QED BY <3>1, <3>2
    <2>2. CASE u = t
      <3>1. HandOK(t)'
        <4>1. head'[t] \in Busy /\ Owner[head'[t].n] = t
          BY <1>9, <1>11
        <4>2. head'[t].disk <=> head'[t].n \in files'
          BY <1>1, <1>9, <1>11
        <4> QED BY <1>10, <4>1, <4>2 DEF HandOK
      <3>2. \A i \in 1 .. len - 1 : /\ Owner[rest[i].n] = t
                                    /\ rest[i].disk <=> rest[i].n \in files'
        <4> TAKE i \in 1 .. len - 1
        <4>1. rest[i] = queue[t][i + 1] /\ i + 1 \in DOMAIN queue[t]
          BY <1>6
        <4>2. /\ Owner[queue[t][i + 1].n] = t
              /\ queue[t][i + 1].disk <=> queue[t][i + 1].n \in files
          BY <2>0, <2>2, <4>1 DEF QueueOK
        <4> QED BY <1>1, <4>1, <4>2
      <3>3. \A i, k \in 1 .. len - 1 : i < k =>
              /\ rest[i].n # rest[k].n
              /\ ~ Stopping' /\ rest[i].n \in Outputs /\ rest[k].n \in Outputs
                 => rest[i].n < rest[k].n
        <4> TAKE i, k \in 1 .. len - 1
        <4> HAVE i < k
        <4>1. i + 1 < k + 1 /\ i + 1 \in DOMAIN queue[t] /\ k + 1 \in DOMAIN queue[t]
          BY <1>4, <1>6
        <4>2. /\ queue[t][i + 1].n # queue[t][k + 1].n
              /\ ~ Stopping /\ queue[t][i + 1].n \in Outputs /\ queue[t][k + 1].n \in Outputs
                 => queue[t][i + 1].n < queue[t][k + 1].n
          BY <2>0, <2>2, <4>1 DEF QueueOK
        <4>3. rest[i] = queue[t][i + 1] /\ rest[k] = queue[t][k + 1]
          BY <1>6
        <4> QED BY <2>0, <4>2, <4>3
      <3>4. Len(rest) <= QueueCap /\ (Serving => open[t])
        BY <1>1, <1>4, <1>6, <2>0, <2>2, SpoolAssumption DEF QueueOK
      <3>5. QueueOK(t)'
        <4>1. /\ DOMAIN queue'[t] = 1 .. len - 1 /\ queue'[t] = rest
              /\ owner'[t] # "none" /\ (Serving' => open'[t])
          BY <1>1, <1>6, <1>7, <1>10, <2>0, <3>4
        <4> QED BY <3>2, <3>3, <3>4, <4>1 DEF QueueOK
      <3> QED BY <2>2, <3>1, <3>5
    <2> QED BY <2>1, <2>2
  <1>16. \A m \in Events : EventOK(m)'
    <2> TAKE m \in Events
    <2>1. CASE m # it.n
      BY <1>1, <1>13, <2>1, EventKept
    <2>2. CASE m = it.n
      <3>1. EventOK(m)
        BY DEF Inv
      <3> QED BY <1>1, <1>11, <1>13, <2>2, <3>1 DEF EventOK, Spooled, Serving
    <2> QED BY <2>1, <2>2
  <1>17. Pairs'
    <2> SUFFICES ASSUME ~ Stopping', NEW a \in Outputs, NEW b \in Outputs, Owner[a] = Owner[b]
                 PROVE  PairOK(a, b)'
      BY DEF Pairs
    <2>1. a \in Events /\ b \in Events /\ PairOK(a, b) /\ ~ Stopping
      BY <1>1, SpoolAssumption DEF Inv, Pairs, Stopping
    <2>2. CASE a # it.n
      BY <1>1, <1>13, <2>1, <2>2 DEF PairOK, Spooled
    <2>3. CASE a = it.n
      <3>1. OnQueue(b)' => a < b
        <4>1. OnQueue(b)' => \E i \in 1 .. len - 1 : rest[i].n = b
          BY <1>6, <1>7, <1>11, <2>3 DEF OnQueue
        <4> QED BY <1>12, <2>1, <2>3, <4>1
      <3>2. Spooled(b) \/ adm[b] # "none" => a < b
        BY <1>11, <2>1, <2>3 DEF PairOK
      <3>3. ~ Spooled(a) /\ adm[a] = "none"
        BY <1>11, <2>1, <2>3 DEF Inv, EventOK, Spooled
      <3> QED BY <1>1, <1>13, <2>1, <2>3, <3>1, <3>2, <3>3 DEF PairOK, Spooled
    <2> QED BY <2>2, <2>3
  <1>18. HeadFirst'
    BY <1>1, <1>9, <1>10, HeadFirstKept
  <1>19. CountsOK'
    <2>1. Cardinality(Queued(BOOLEAN)') = Cardinality(Queued(BOOLEAN)) - 1
      BY <1>1, <1>3, <1>4, QueuedTail
    <2>2. Cardinality(Queued({FALSE})') =
            IF it.disk = FALSE THEN Cardinality(Queued({FALSE})) - 1 ELSE Cardinality(Queued({FALSE}))
      <3>1. Cardinality(Queued({FALSE})') = IF Head(queue[t]).disk \in {FALSE}
              THEN Cardinality(Queued({FALSE})) - 1 ELSE Cardinality(Queued({FALSE}))
        BY <1>1, QueuedTail
      <3> QED BY <1>3, <3>1
    <2>3. Cardinality(BusyOwners') = Cardinality(BusyOwners) + 1
      BY <1>10, BusyChanges
    <2>4. t \notin RamOwners /\ (t \in RamOwners' <=> it.disk = FALSE)
      BY <1>4, <1>9, <1>10 DEF RamOwners, BusyOwners
    <2>5. Cardinality(RamOwners') =
            IF it.disk = FALSE THEN Cardinality(RamOwners) + 1 ELSE Cardinality(RamOwners)
      <3>1. CASE it.disk = FALSE
        BY <1>9, <1>10, <2>4, <3>1, RamOwnersChange
      <3>2. CASE it.disk # FALSE
        BY <1>9, <1>10, <2>4, <3>2, RamOwnersChange
      <3> QED BY <3>1, <3>2
    <2>6. Sending' = Sending /\ (Serving' <=> Serving) /\ UNCHANGED <<slots, ram>>
      BY <1>1, CountSetsKept DEF Serving
    <2>7. CASE it.disk = FALSE
      BY <2>1, <2>2, <2>3, <2>5, <2>6, <2>7, CountsAreNatural, CountedNext DEF AtLeast, Exact
    <2>8. CASE it.disk # FALSE
      BY <2>1, <2>2, <2>3, <2>5, <2>6, <2>8, CountsAreNatural, CountedNext DEF AtLeast, Exact
    <2> QED BY <2>7, <2>8
  <1> QED BY <1>1, <1>11, <1>14, <1>15, <1>16, <1>17, <1>18, <1>19, FutureKept, UpKept DEF Inv

\* Only a queue whose table was cleared is abandoned.
LEMMA AbandonOK ==
  ASSUME Inv, NEW t \in Targets, Abandon(t)
  PROVE  Inv'
  <1> DEFINE S == {queue[t][i].n : i \in {k \in DOMAIN queue[t] : ~ queue[t][k].disk}}
  <1>1. /\ owner[t] = "top" /\ ~ open[t] /\ owner' = [owner EXCEPT ![t] = "none"]
        /\ fate' = Settle(S, "abandoned") /\ queue' = [queue EXCEPT ![t] = <<>>]
        /\ UNCHANGED <<adm, open, head, slots, ram, files, faults, arrivals, watched, ready,
                       wake, cleanup, dormant, index, blocked, replay, phase, restarts>>
    BY DEF Abandon, countVars, diskVars, signalVars, replayVars, procVars
  <1>2. phase \in {"stopping", "cleared"} /\ Stopping /\ Stopping' /\ ~ Serving'
    BY <1>1 DEF Inv, QueueOK, Serving, DownOK, Types, ProcTypes, Stopping
  <1>3. /\ S \subseteq Events
        /\ \A m \in S : Owner[m] = t /\ OnQueue(m) /\ m \notin files
        /\ \A m \in Events : Owner[m] = t /\ OnQueue(m) /\ m \notin files => m \in S
    <2>1. \A i \in DOMAIN queue[t] : /\ queue[t][i].n \in Events /\ Owner[queue[t][i].n] = t
                                     /\ OnQueue(queue[t][i].n)
                                     /\ queue[t][i].disk <=> queue[t][i].n \in files
      BY OnItsQueue DEF Inv, QueueOK
    <2>2. \A m \in Events : Owner[m] = t /\ OnQueue(m) => \E i \in DOMAIN queue[t] : queue[t][i].n = m
      BY DEF OnQueue
    <2> QED BY <2>1, <2>2
  <1> HIDE DEF S
  <1>4. /\ fate' \in [Events -> Fates]
        /\ \A m \in Events : /\ fate'[m] = "future" <=> fate[m] = "future"
                             /\ fate'[m] = "pending" <=> fate[m] = "pending" /\ m \notin S
                             /\ m \notin S => fate'[m] = fate[m]
    BY <1>1, <1>3, SettleFacts DEF Fates
  <1>5. /\ queue'[t] = <<>> /\ \A u \in Targets \ {t} : queue'[u] = queue[u] /\ owner'[u] = owner[u]
        /\ owner'[t] = "none"
        /\ \A u \in Targets : (InHand(u)' <=> InHand(u)) /\ head'[u] = head[u]
    <2>1. /\ queue'[t] = <<>> /\ \A u \in Targets \ {t} : queue'[u] = queue[u] /\ owner'[u] = owner[u]
          /\ owner'[t] = "none"
      BY <1>1 DEF Inv, Types, QueueTypes
    <2> QED BY <1>1, <2>1 DEF InHand
  <1>e. \A T : <<>> \in Seq(T) /\ Len(<<>>) = 0 /\ DOMAIN <<>> = {}
    BY EmptySeq
  <1>6. \A m \in Events : /\ OnQueue(m)' <=> OnQueue(m) /\ Owner[m] # t
                          /\ Held(m)' <=> Held(m)
                          /\ Spooled(m)' <=> Spooled(m)
                          /\ Cleaning(m)' <=> Cleaning(m)
    <2> TAKE m \in Events
    <2>1. /\ Held(m)' <=> Held(m)
          /\ Spooled(m)' <=> Spooled(m)
          /\ Cleaning(m)' <=> Cleaning(m)
      BY <1>1, <1>5, OwnerIsTarget, PlacesKept
    <2>2. CASE Owner[m] = t
      BY <1>5, <1>e, <2>1, <2>2 DEF OnQueue
    <2>3. CASE Owner[m] # t
      BY <1>5, <2>1, <2>3, OwnerIsTarget, PlacesKept
    <2> QED BY <2>2, <2>3
  <1>7. Types'
    <2>1. AdmTypes'
      BY <1>1, <1>4 DEF Inv, Types, AdmTypes
    <2>2. QueueTypes'
      BY <1>1, <1>e DEF Inv, Types, QueueTypes
    <2> QED BY <1>1, <2>1, <2>2, TypesKept DEF Types
  <1>8. \A u \in Targets : QueueOK(u)' /\ HandOK(u)'
    <2> TAKE u \in Targets
    <2>1. HandOK(u)'
      BY <1>1, <1>5, HandKept
    <2>2. CASE u = t
      BY <1>5, <1>e, <2>1, <2>2, SpoolAssumption DEF QueueOK
    <2>3. CASE u # t
      <3>1. QueueOK(u)
        BY DEF Inv
      <3>2. QueueOK(u)'
        BY <1>1, <1>2, <1>5, <2>3, <3>1, QueueKept DEF QueueOK
      <3> QED BY <2>1, <3>2
    <2> QED BY <2>2, <2>3
  <1>9. \A m \in Events : EventOK(m)'
    <2> TAKE m \in Events
    <2>1. CASE ~ OnQueue(m)
      BY <1>1, <1>3, <1>4, <1>6, <2>1, EventKept
    <2>2. CASE OnQueue(m)
      <3>1. EventOK(m)
        BY DEF Inv
      <3> QED BY <1>1, <1>2, <1>3, <1>4, <1>6, <2>2, <3>1 DEF EventOK, Spooled
    <2> QED BY <2>1, <2>2
  <1>10. HeadFirst'
    <2>1. \A m \in Outputs : fate'[m] = "pending" => fate[m] = "pending"
      BY <1>4, SpoolAssumption
    <2>2. \A u \in Targets : owner'[u] = "posting" => owner[u] = "posting"
      BY <1>5
    <2> QED BY <1>1, <2>1, <2>2, HeadFirstKept
  <1>11. CountsOK'
    <2>1. \A D : Queued(D)' \subseteq Queued(D)
      <3> SUFFICES ASSUME NEW D, NEW x \in Queued(D)' PROVE x \in Queued(D)
        OBVIOUS
      <3>1. /\ x \in Targets \X (1 .. QueueCap) /\ x[1] \in Targets /\ x[2] \in 1 .. QueueCap
            /\ x[2] <= Len(queue'[x[1]]) /\ queue'[x[1]][x[2]].disk \in D
        BY DEF Queued
      <3>2. CASE x[1] = t
        BY <1>5, <1>e, <3>1, <3>2, SpoolAssumption
      <3>3. CASE x[1] # t
        <4>1. queue'[x[1]] = queue[x[1]]
          BY <1>5, <3>1, <3>3
        <4>2. x[2] <= Len(queue[x[1]]) /\ queue[x[1]][x[2]].disk \in D
          BY <3>1, <4>1
        <4> QED BY <3>1, <4>2 DEF Queued
      <3> QED BY <3>2, <3>3
    <2>2. \A D : Cardinality(Queued(D)') <= Cardinality(Queued(D)) /\ Cardinality(Queued(D)') \in Nat
      BY <2>1, CountSets, FS_Subset, FS_CardinalityType
    <2>3. BusyOwners' = BusyOwners /\ RamOwners' = RamOwners /\ Sending' = Sending
      BY <1>1, <1>5, CountSetsKept DEF BusyOwners, RamOwners
    <2> QED BY <1>1, <1>2, <2>2, <2>3, CountsAreNatural, CountedNext DEF AtLeast, Exact
  <1> QED BY <1>1, <1>2, <1>4, <1>7, <1>8, <1>9, <1>10, <1>11, FutureKept, UpKept DEF Inv, Pairs
-----------------------------------------------------------------------------
(* The outcome of an event in hand.                                          *)

LEMMA InHandFacts ==
  ASSUME Inv, NEW t \in Targets, InHand(t)
  PROVE  /\ head[t].n \in Events /\ Owner[head[t].n] = t /\ Held(head[t].n) /\ head[t] \in Busy
         /\ head[t].disk <=> head[t].n \in files
         /\ ~ OnQueue(head[t].n) /\ ~ Spooled(head[t].n) /\ ~ Cleaning(head[t].n)
         /\ adm[head[t].n] = "none" /\ phase # "down" /\ owner[t] # "none"
         /\ fate[head[t].n] \in {"pending", "delivered", "refused", "reported"}
         /\ \A m \in Events : Held(m) /\ Owner[m] = t => m = head[t].n
  <1>1. /\ head[t].n \in Events /\ Owner[head[t].n] = t /\ Held(head[t].n) /\ head[t] \in Busy
        /\ head[t].disk <=> head[t].n \in files
    BY DEF Inv, HandOK, Held, Busy
  <1>2. EventOK(head[t].n)
    BY <1>1 DEF Inv
  <1>3. phase # "down" /\ owner[t] # "none"
    BY DEF Inv, DownOK, InHand
  <1> QED BY <1>1, <1>2, <1>3 DEF EventOK, Spooled, Held

\* The owner lets its event go.  What is left of it is a file the cleanup has, or one for the
\* next start of the gateway.
LEMMA LetGoOK ==
  ASSUME Inv, NEW t \in Targets, InHand(t), Release(t), NEW n, n = head[t].n,
         NEW failed \in SUBSET {n}, Signaled(failed),
         UNCHANGED <<adm, watched, ready, index, blocked, replay, phase, restarts>>,
         fate' \in [Events -> Fates], faults' \in 0 .. MaxFaults,
         files' \subseteq Events, arrivals' \subseteq Events,
         \A m \in Events : fate'[m] = "future" <=> fate[m] = "future",
         \A m \in Events \ {n} : /\ fate'[m] = fate[m]
                                 /\ m \in files' <=> m \in files
                                 /\ m \in arrivals' <=> m \in arrivals,
         n \in files' /\ ~ Stopping => n \in failed,
         n \in failed => n \in files' /\ n \notin arrivals' /\ fate'[n] # "pending",
         n \in arrivals' => n \in files' /\ Stopping,
         n \in files' => fate'[n] \in {"pending", "delivered", "refused", "reported"},
         fate'[n] = "pending" => fate[n] = "pending" /\ n \in files'
  PROVE  Inv'
  <1>1. /\ n \in Events /\ Owner[n] = t /\ Held(n) /\ head[t] \in Busy
        /\ ~ OnQueue(n) /\ ~ Spooled(n) /\ ~ Cleaning(n)
        /\ adm[n] = "none" /\ phase # "down" /\ owner[t] # "none"
        /\ \A m \in Events : Held(m) /\ Owner[m] = t => m = n
    BY InHandFacts
  <1>2. /\ slots' = slots - 1 /\ ram' = IF head[t].ram THEN ram - 1 ELSE ram
        /\ head' = [head EXCEPT ![t] = NoHead] /\ owner' = [owner EXCEPT ![t] = "top"]
        /\ UNCHANGED <<queue, open>>
    BY DEF Release
  <1>3. /\ head'[t] = NoHead /\ owner'[t] = "top"
        /\ \A u \in Targets \ {t} : head'[u] = head[u] /\ owner'[u] = owner[u]
        /\ head' \in [Targets -> Busy \cup {NoHead}]
        /\ owner' \in [Targets -> {"none", "top", "recv", "busy", "posting"}]
    BY <1>2 DEF Inv, Types, QueueTypes
  <1>4. ~ InHand(t)' /\ \A u \in Targets \ {t} : InHand(u)' <=> InHand(u)
    BY <1>3 DEF InHand
  <1>5. SignalTypes' /\ \A m \in Events : Cleaning(m)' <=> Cleaning(m) \/ m \in failed
    BY <1>1, SignalFacts
  <1>6. /\ \A m \in Events : OnQueue(m)' <=> OnQueue(m)
        /\ \A m \in Events : Held(m)' <=> Held(m) /\ m # n
    <2>1. \A m \in Events : OnQueue(m)' <=> OnQueue(m)
      BY <1>2, PlacesKept
    <2>2. ASSUME NEW m \in Events PROVE Held(m)' <=> Held(m) /\ m # n
      <3>1. CASE Owner[m] = t
        BY <1>1, <1>4, <3>1 DEF Held
      <3>2. CASE Owner[m] # t
        BY <1>1, <1>3, <1>4, <3>2, OwnerIsTarget, PlacesKept
      <3> QED BY <3>1, <3>2
    <2> QED BY <2>1, <2>2
  <1>7. CountsOK' /\ CountTypes'
    <2>1. Cardinality(BusyOwners') = Cardinality(BusyOwners) - 1
      BY <1>4, BusyChanges
    <2>2. /\ Cardinality(RamOwners') =
               IF head[t].ram THEN Cardinality(RamOwners) - 1 ELSE Cardinality(RamOwners)
      <3>1. t \notin RamOwners' /\ (t \in RamOwners <=> head[t].ram)
        BY <1>4 DEF RamOwners, BusyOwners
      <3>2. CASE head[t].ram
        BY <1>3, <1>4, <3>1, <3>2, RamOwnersChange
      <3>3. CASE ~ head[t].ram
        BY <1>3, <1>4, <3>1, <3>3, RamOwnersChange
      <3> QED BY <3>2, <3>3
    <2>3. Cardinality(BusyOwners') \in Nat /\ Cardinality(RamOwners') \in Nat
      <3>1. BusyOwners' \in SUBSET Targets /\ RamOwners' \in SUBSET Targets
        BY DEF BusyOwners, RamOwners
      <3> QED BY <3>1, SpoolAssumption, FS_Subset, FS_CardinalityType
    <2>4. /\ Queued(BOOLEAN)' = Queued(BOOLEAN) /\ Queued({FALSE})' = Queued({FALSE})
          /\ Sending' = Sending /\ (Serving' <=> Serving)
      BY <1>2, CountSetsKept DEF Serving
    <2>5. slots \in 0 .. GlobalCap /\ GlobalCap \in Nat
      BY SpoolAssumption DEF Inv, Types, CountTypes
    <2>6. AtLeast' /\ (Serving' => Exact') /\ slots' \in 0 .. GlobalCap
      <3>1. CASE head[t].ram
        BY <1>2, <2>1, <2>2, <2>3, <2>4, <2>5, <3>1, CountsAreNatural DEF AtLeast, Exact
      <3>2. CASE ~ head[t].ram
        <4>1. ram' = ram /\ Cardinality(RamOwners') = Cardinality(RamOwners) /\ slots' = slots - 1
          BY <1>2, <2>2, <3>2
        <4> QED BY <2>1, <2>3, <2>4, <2>5, <4>1, CountsAreNatural DEF AtLeast, Exact
      <3> QED BY <3>1, <3>2
    <2>7. ram' \in Nat
      <3>1. CASE head[t].ram
        <4>1. ram' = ram - 1 /\ Cardinality(RamOwners') = Cardinality(RamOwners) - 1
          BY <1>2, <2>2, <3>1
        <4> QED BY <2>3, <4>1, CountsAreNatural DEF AtLeast
      <3>2. CASE ~ head[t].ram
        BY <1>2, <3>2, CountsAreNatural
      <3> QED BY <3>1, <3>2
    <2> QED BY <2>6, <2>7, CountedNext DEF CountTypes
  <1>8. Types'
    <2>1. QueueTypes'
      BY <1>2, <1>3 DEF Inv, Types, QueueTypes
    <2>2. AdmTypes' /\ DiskTypes' /\ SetTypes'
      BY DEF Inv, Types, AdmTypes, DiskTypes, SetTypes
    <2> QED BY <1>5, <1>7, <2>1, <2>2, TypesKept DEF Types
  <1>9. \A u \in Targets : QueueOK(u)' /\ HandOK(u)'
    <2> TAKE u \in Targets
    <2>1. QueueOK(u) /\ (Serving' <=> Serving) /\ (Stopping' <=> Stopping)
      BY DEF Inv, Serving, Stopping
    <2>2. owner'[u] = "none" => owner[u] = "none"
      BY <1>3
    <2>3. owner'[u] # "none" /\ Serving' => open'[u]
      BY <1>1, <1>2, <1>3, <2>1 DEF QueueOK
    <2>4. \A m \in Events : Owner[m] = u /\ OnQueue(m) => (m \in files' <=> m \in files)
      BY <1>1
    <2>5. QueueOK(u)'
      BY <1>2, <2>1, <2>2, <2>3, <2>4, QueueKept
    <2>6. HandOK(u)'
      <3>1. CASE u = t
        BY <1>3, <1>4, <3>1 DEF HandOK
      <3>2. CASE u # t
        <4>1. InHand(u) => head[u].n \in Events /\ head[u].n # n
          BY <1>1, <3>2, InHandFacts
        <4> QED BY <1>3, <1>4, <3>2, <4>1, HandKept
      <3> QED BY <3>1, <3>2
    <2> QED BY <2>5, <2>6
  <1>10. \A m \in Events : EventOK(m)'
    <2> TAKE m \in Events
    <2>1. CASE m # n
      <3>1. Cleaning(m)' <=> Cleaning(m)
        BY <1>5, <2>1
      <3> QED BY <1>6, <2>1, <3>1, EventKept
    <2>2. CASE m = n
      <3>1. n \notin index' /\ n # replay'.cur /\ ~ OnQueue(n)' /\ ~ Held(n)' /\ adm'[n] = "none"
        BY <1>1, <1>6 DEF Spooled
      <3>2. (Cleaning(n)' <=> n \in failed) /\ (Serving' => ~ Stopping)
        BY <1>1, <1>5 DEF Serving, Stopping
      <3> QED BY <2>2, <3>1, <3>2 DEF EventOK, Spooled
    <2> QED BY <2>1, <2>2
  <1>11. Pairs'
    <2>1. CASE Stopping
      BY <2>1 DEF Pairs, Stopping
    <2>2. CASE ~ Stopping
      <3>1. \A m \in Outputs : m \in Events
        BY SpoolAssumption
      <3>2. \A m \in Outputs : m \in arrivals' => m \in arrivals
        BY <2>2, <3>1
      <3> QED BY <1>6, <2>2, <3>1, <3>2, PairsKept
    <2> QED BY <2>1, <2>2
  <1>12. HeadFirst'
    <2>1. \A m \in Outputs : fate'[m] = "pending" => fate[m] = "pending"
      BY SpoolAssumption
    <2> QED BY <1>3, <2>1, HeadFirstKept
  <1> QED BY <1>1, <1>7, <1>8, <1>9, <1>10, <1>11, <1>12, FutureKept, UpKept DEF Inv

LEMMA SignalIsSignaled ==
  ASSUME Inv, NEW act \in BOOLEAN, NEW failed, Signal(act, failed)
  PROVE  Signaled(failed)
  BY DEF Signal, Signaled, Inv, Types, SignalTypes

LEMMA PersistFailsFacts ==
  ASSUME Inv, NEW freed \in BOOLEAN, PersistFails(freed)
  PROVE  Signaled({}) /\ UNCHANGED <<files, arrivals>> /\ faults' \in 0 .. MaxFaults
  <1>1. faults \in 0 .. MaxFaults /\ MaxFaults \in Nat
    BY SpoolAssumption DEF Inv, Types, DiskTypes
  <1>2. CASE DiskFull
    <2>1. Signal(dormant # {} \/ freed, {}) /\ UNCHANGED <<files, faults, arrivals>>
      BY <1>2 DEF PersistFails, diskVars
    <2>2. (dormant # {} \/ freed) \in BOOLEAN
      OBVIOUS
    <2> QED BY <1>1, <2>1, <2>2, SignalIsSignaled
  <1>3. CASE ~ DiskFull
    <2>1. /\ Signal(freed, {}) /\ UNCHANGED <<files, arrivals>>
          /\ faults < MaxFaults /\ faults' = faults + 1
      BY <1>3 DEF PersistFails
    <2> QED BY <1>1, <2>1, SignalIsSignaled
  <1> QED BY <1>2, <1>3

\* finish_forward_event of an event that is settled: its file goes, or is left to the cleanup.
LEMMA SettledAndRemoved ==
  ASSUME Inv, NEW t \in Targets, InHand(t), NEW f \in {"delivered", "refused", "reported"},
         fate' = Settle({head[t].n}, f), Remove(t), Release(t),
         UNCHANGED <<adm, arrivals, watched, ready, index, blocked, replay, phase, restarts>>
  PROVE  Inv'
  <1>1. PICK n : n = head[t].n
    OBVIOUS
  <1>2. /\ n \in Events /\ Held(n) /\ ~ Spooled(n) /\ (head[t].disk <=> n \in files)
        /\ n \notin arrivals
    BY <1>1, InHandFacts DEF Spooled
  <1>3. /\ fate' \in [Events -> Fates]
        /\ \A m \in Events : /\ fate'[m] = "future" <=> fate[m] = "future"
                             /\ fate'[m] = "pending" => fate[m] = "pending"
                             /\ m # n => fate'[m] = fate[m]
        /\ fate'[n] \in {"delivered", "refused", "reported"}
    BY <1>1, SettledInHand
  <1>4. faults \in 0 .. MaxFaults /\ MaxFaults \in Nat /\ files \subseteq Events /\ arrivals \subseteq Events
    BY SpoolAssumption DEF Inv, Types, DiskTypes, SetTypes
  <1>a. AtGlobalCap \in BOOLEAN
    BY DEF AtGlobalCap
  <1>5. CASE files' = files \ {n} /\ UNCHANGED faults /\ Signal(AtGlobalCap, {})
    <2>1. Signaled({}) /\ {} \in SUBSET {n}
      BY <1>a, <1>5, SignalIsSignaled
    <2>2. \A m \in Events \ {n} : m \in files' <=> m \in files
      BY <1>5
    <2>3. n \notin files' /\ files' \subseteq Events
      BY <1>4, <1>5
    <2> QED BY <1>1, <1>2, <1>3, <1>4, <1>5, <2>1, <2>2, <2>3, LetGoOK
  <1>6. CASE /\ head[t].disk /\ faults < MaxFaults /\ faults' = faults + 1
             /\ UNCHANGED files /\ Signal(AtGlobalCap, {n})
    <2>1. Signaled({n}) /\ {n} \in SUBSET {n}
      BY <1>a, <1>6, SignalIsSignaled
    <2>2. n \in files' /\ faults' \in 0 .. MaxFaults
      BY <1>2, <1>4, <1>6
    <2> QED BY <1>1, <1>2, <1>3, <1>4, <1>6, <2>1, <2>2, LetGoOK
  <1> QED BY <1>1, <1>5, <1>6 DEF Remove

LEMMA DeliverOK ==
  ASSUME Inv, NEW t \in Targets, Deliver(t)
  PROVE  Inv'
  BY SettledAndRemoved DEF Deliver, InHand, replayVars, procVars

LEMMA GiveUpOK ==
  ASSUME Inv, NEW t \in Targets, GiveUp(t)
  PROVE  Inv'
  BY SettledAndRemoved DEF GiveUp, InHand, replayVars, procVars

\* Deferred for shutdown: what has a file keeps it or gets one, the rest is reported.
LEMMA DeferOK ==
  ASSUME Inv, NEW t \in Targets, Defer(t)
  PROVE  Inv'
  <1>1. PICK n : n = head[t].n
    OBVIOUS
  <1>2. /\ InHand(t) /\ Stopping /\ Release(t)
        /\ UNCHANGED <<adm, watched, ready, index, blocked, replay, phase, restarts>>
    BY DEF Defer, replayVars, procVars
  <1>3. /\ n \in Events /\ Held(n) /\ ~ Spooled(n) /\ (head[t].disk <=> n \in files)
        /\ n \notin arrivals /\ fate[n] \in {"pending", "delivered", "refused", "reported"}
    BY <1>1, <1>2, InHandFacts DEF Spooled
  <1>4. /\ faults \in 0 .. MaxFaults /\ files \subseteq Events /\ arrivals \subseteq Events
        /\ fate \in [Events -> Fates]
    BY DEF Inv, Types, AdmTypes, DiskTypes, SetTypes
  <1>a. AtGlobalCap \in BOOLEAN
    BY DEF AtGlobalCap
  <1>b. {} \in SUBSET {n}
    OBVIOUS
  <1>5. CASE /\ head[t].disk /\ Signal(AtGlobalCap, {}) /\ UNCHANGED <<fate, diskVars, arrivals>>
    <2>1. Signaled({}) /\ UNCHANGED <<fate, files, faults, arrivals>>
      BY <1>a, <1>5, SignalIsSignaled DEF diskVars
    <2> QED BY <1>1, <1>2, <1>3, <1>4, <1>5, <1>b, <2>1, LetGoOK
  <1>6. CASE ~ head[t].disk /\ Persist(n, TRUE) /\ Signal(TRUE, {}) /\ UNCHANGED fate
    <2>1. Signaled({})
      BY <1>6, SignalIsSignaled
    <2>2. files' = files \cup {n} /\ arrivals' = arrivals \cup {n} /\ UNCHANGED faults
      BY <1>6 DEF Persist
    <2>3. /\ files' \subseteq Events /\ arrivals' \subseteq Events /\ n \in files'
          /\ \A m \in Events \ {n} : (m \in files' <=> m \in files) /\ (m \in arrivals' <=> m \in arrivals)
      BY <1>3, <1>4, <2>2
    <2> QED BY <1>1, <1>2, <1>3, <1>4, <1>6, <1>b, <2>1, <2>2, <2>3, LetGoOK
  <1>7. CASE ~ head[t].disk /\ PersistFails(AtGlobalCap) /\ fate' = Settle({n}, "reported")
    <2>1. Signaled({}) /\ UNCHANGED <<files, arrivals>> /\ faults' \in 0 .. MaxFaults
      BY <1>7, <1>a, PersistFailsFacts
    <2>2. /\ fate' \in [Events -> Fates]
          /\ \A m \in Events : /\ fate'[m] = "future" <=> fate[m] = "future"
                               /\ m # n => fate'[m] = fate[m]
          /\ fate'[n] \in {"delivered", "refused", "reported"}
      BY <1>1, <1>2, <1>7, SettledInHand
    <2> QED BY <1>1, <1>2, <1>3, <1>4, <1>7, <1>b, <2>1, <2>2, LetGoOK
  <1> QED BY <1>1, <1>5, <1>6, <1>7 DEF Defer

\* The head that is retained gets a file and stays where it is, or is reported lost.
LEMMA RetainOK ==
  ASSUME Inv, NEW t \in Targets, Retain(t)
  PROVE  Inv'
  <1>1. PICK n : n = head[t].n
    OBVIOUS
  <1>2. /\ owner[t] = "posting" /\ InHand(t) /\ ~ head[t].disk
        /\ UNCHANGED <<adm, watched, ready, index, blocked, replay, phase, restarts>>
    BY DEF Retain, replayVars, procVars, InHand
  <1>3. /\ n \in Events /\ Owner[n] = t /\ Held(n) /\ ~ Spooled(n) /\ n \notin files
        /\ n \notin arrivals /\ fate[n] \in {"pending", "delivered", "refused", "reported"}
        /\ head[t] \in Busy /\ phase # "down" /\ ~ OnQueue(n)
    BY <1>1, <1>2, InHandFacts DEF Spooled
  <1>4. /\ faults \in 0 .. MaxFaults /\ files \subseteq Events /\ arrivals \subseteq Events
        /\ fate \in [Events -> Fates]
    BY DEF Inv, Types, AdmTypes, DiskTypes, SetTypes
  <1>5. CASE PersistFails(AtGlobalCap) /\ fate' = Settle({n}, "reported") /\ Release(t)
    <2>0. AtGlobalCap \in BOOLEAN /\ {} \in SUBSET {n}
      BY DEF AtGlobalCap
    <2>1. Signaled({}) /\ UNCHANGED <<files, arrivals>> /\ faults' \in 0 .. MaxFaults
      BY <1>5, <2>0, PersistFailsFacts
    <2>2. /\ fate' \in [Events -> Fates]
          /\ \A m \in Events : /\ fate'[m] = "future" <=> fate[m] = "future"
                               /\ m # n => fate'[m] = fate[m]
          /\ fate'[n] \in {"delivered", "refused", "reported"}
      BY <1>1, <1>2, <1>5, SettledInHand
    <2> QED BY <1>1, <1>2, <1>3, <1>4, <1>5, <2>0, <2>1, <2>2, LetGoOK
  <1>6. CASE /\ Persist(n, FALSE)
             /\ head' = [head EXCEPT ![t].disk = TRUE]
             /\ owner' = [owner EXCEPT ![t] = "busy"]
             /\ UNCHANGED <<fate, queue, open, countVars, signalVars>>
    <2>1. /\ files' = files \cup {n}
          /\ UNCHANGED <<fate, queue, open, slots, ram, wake, cleanup, dormant, faults, arrivals>>
      BY <1>6 DEF Persist, countVars, signalVars
    <2>2. PICK h \in Busy : h = [head[t] EXCEPT !.disk = TRUE]
      BY <1>3 DEF Busy
    <2>3. h.n = n /\ h.disk /\ h.ram = head[t].ram
      BY <1>1, <1>3, <2>2 DEF Busy
    <2>4. /\ head'[t] = h /\ owner'[t] = "busy"
          /\ \A u \in Targets \ {t} : head'[u] = head[u] /\ owner'[u] = owner[u]
          /\ head' \in [Targets -> Busy \cup {NoHead}]
          /\ owner' \in [Targets -> {"none", "top", "recv", "busy", "posting"}]
      <3>1. /\ head \in [Targets -> Busy \cup {NoHead}]
            /\ owner \in [Targets -> {"none", "top", "recv", "busy", "posting"}]
        BY DEF Inv, Types, QueueTypes
      <3>2. head' = [head EXCEPT ![t] = h]
        BY <1>6, <2>2, <3>1
      <3> QED BY <1>6, <3>1, <3>2
    <2>5. \A u \in Targets : InHand(u)' <=> InHand(u)
      BY <1>2, <2>4 DEF InHand
    <2>6. \A m \in Events : /\ OnQueue(m)' <=> OnQueue(m)
                            /\ Held(m)' <=> Held(m)
                            /\ Spooled(m)' <=> Spooled(m)
                            /\ Cleaning(m)' <=> Cleaning(m)
      <3> TAKE m \in Events
      <3>1. /\ OnQueue(m)' <=> OnQueue(m)
            /\ Spooled(m)' <=> Spooled(m)
            /\ Cleaning(m)' <=> Cleaning(m)
        BY <1>2, <2>1, PlacesKept
      <3>2. CASE Owner[m] = t
        BY <1>1, <2>3, <2>4, <2>5, <3>1, <3>2 DEF Held
      <3>3. CASE Owner[m] # t
        BY <2>4, <2>5, <3>1, <3>3, OwnerIsTarget, PlacesKept
      <3> QED BY <3>2, <3>3
    <2>7. Types'
      <3>1. QueueTypes' /\ DiskTypes'
        BY <1>3, <2>1, <2>4 DEF Inv, Types, QueueTypes, DiskTypes
      <3> QED BY <1>2, <2>1, <3>1, TypesKept DEF Types
    <2>8. \A u \in Targets : QueueOK(u)' /\ HandOK(u)'
      <3> TAKE u \in Targets
      <3>1. QueueOK(u) /\ (Serving' <=> Serving) /\ (Stopping' <=> Stopping)
        BY <1>2 DEF Inv, Serving, Stopping
      <3>2. owner'[u] = "none" <=> owner[u] = "none"
        BY <1>2, <2>4
      <3>3. \A m \in Events : Owner[m] = u /\ OnQueue(m) => (m \in files' <=> m \in files)
        BY <1>3, <2>1
      <3>4. QueueOK(u)'
        BY <2>1, <3>1, <3>2, <3>3, QueueKept DEF QueueOK
      <3>5. HandOK(u)'
        <4>1. CASE u = t
          <5>1. n \in files'
            BY <2>1
          <5> QED BY <1>2, <1>3, <2>3, <2>4, <2>5, <4>1, <5>1 DEF HandOK
        <4>2. CASE u # t
          <5>1. InHand(u) => head[u].n \in Events /\ head[u].n # n
            BY <1>3, <4>2, InHandFacts
          <5> QED BY <2>1, <2>4, <2>5, <4>2, <5>1, HandKept
        <4> QED BY <4>1, <4>2
      <3> QED BY <3>4, <3>5
    <2>9. \A m \in Events : EventOK(m)'
      <3> TAKE m \in Events
      <3>1. CASE m # n
        BY <1>2, <2>1, <2>6, <3>1, EventKept
      <3>2. CASE m = n
        <4>1. EventOK(n) /\ n \in files'
          BY <1>3, <2>1 DEF Inv
        <4> QED BY <1>2, <1>3, <2>1, <2>6, <3>2, <4>1 DEF EventOK, Spooled
      <3> QED BY <3>1, <3>2
    <2>10. Pairs'
      BY <1>2, <2>1, <2>6, PairsKept, SpoolAssumption DEF Stopping
    <2>11. HeadFirst'
      BY <2>1, <2>4, HeadFirstKept
    <2>12. CountsOK'
      <3>1. BusyOwners' = BusyOwners /\ RamOwners' = RamOwners
        <4>1. \A u \in Targets : head'[u].ram = head[u].ram
          BY <2>3, <2>4
        <4> QED BY <2>5, <4>1 DEF BusyOwners, RamOwners
      <3>2. Serving' <=> Serving
        BY <1>2 DEF Serving
      <3> QED BY <1>2, <2>1, <3>1, <3>2, CountsAreNatural, CountSetsKept, CountedNext
              DEF AtLeast, Exact
    <2> QED BY <1>2, <1>3, <2>1, <2>7, <2>8, <2>9, <2>10, <2>11, <2>12, FutureKept, UpKept DEF Inv
  <1> QED BY <1>1, <1>5, <1>6 DEF Retain
-----------------------------------------------------------------------------
(* The replay task.                                                          *)

\* A step of the replay task that leaves the queues, their owners and the history alone.
ReplayStep == UNCHANGED <<fate, adm, queue, open, owner, head, slots, ram, phase, restarts>>

LEMMA ReplayStepKeeps ==
  ASSUME Inv, ReplayStep
  PROVE  /\ AdmTypes' /\ QueueTypes' /\ CountTypes' /\ ProcTypes'
         /\ \A n \in Events : (OnQueue(n)' <=> OnQueue(n)) /\ (Held(n)' <=> Held(n))
         /\ FutureOK' /\ HeadFirst' /\ CountsOK'
         /\ (Serving' <=> Serving) /\ (Stopping' <=> Stopping)
         /\ (\A n \in Events : OnQueue(n) \/ Held(n) => (n \in files' <=> n \in files))
            => \A t \in Targets : QueueOK(t)' /\ HandOK(t)'
  <1>1. /\ AdmTypes' /\ QueueTypes' /\ CountTypes' /\ ProcTypes'
        /\ \A n \in Events : (OnQueue(n)' <=> OnQueue(n)) /\ (Held(n)' <=> Held(n))
    BY TypesKept, PlacesKept DEF ReplayStep
  <1>2. FutureOK' /\ HeadFirst'
    BY FutureKept, HeadFirstKept DEF ReplayStep
  <1>3. (Serving' <=> Serving) /\ (Stopping' <=> Stopping)
    BY DEF ReplayStep, Serving, Stopping
  <1>4. CountsOK'
    BY <1>3, CountsKept DEF ReplayStep
  <1>5. (\A n \in Events : OnQueue(n) \/ Held(n) => (n \in files' <=> n \in files))
        => \A t \in Targets : QueueOK(t)' /\ HandOK(t)'
    BY QueuesKept, HandsKept DEF ReplayStep
  <1> QED BY <1>1, <1>2, <1>3, <1>4, <1>5

\* The parts of a step of the replay task that are left to show.
LEMMA ReplayStepOK ==
  ASSUME Inv, ReplayStep, phase # "down", ReplayTypes', DiskTypes', SetTypes', SignalTypes',
         \A n \in Events : OnQueue(n) \/ Held(n) => (n \in files' <=> n \in files),
         \A n \in Events : EventOK(n)', Pairs'
  PROVE  Inv'
  <1>1. DownOK'
    BY UpKept DEF ReplayStep
  <1>2. /\ AdmTypes' /\ QueueTypes' /\ CountTypes' /\ ProcTypes'
        /\ FutureOK' /\ HeadFirst' /\ CountsOK'
        /\ \A t \in Targets : QueueOK(t)' /\ HandOK(t)'
    BY ReplayStepKeeps
  <1>3. Types'
    BY <1>2 DEF Types
  <1> QED BY <1>1, <1>2, <1>3 DEF Inv

\* The file in the replayer's hand goes back into the index.
LEMMA BackToIndex ==
  ASSUME Inv, ReplayStep, phase # "down", replay.cur \in Events, index' = index \cup {replay.cur},
         ReplayTypes', replay'.cur = NoCur,
         UNCHANGED <<files, faults, arrivals, watched, ready, wake, cleanup, dormant>>,
         blocked' \subseteq Targets
  PROVE  Inv'
  <1>1. PICK c \in Events : c = replay.cur
    OBVIOUS
  <1>2. \A n \in Events : n # replay'.cur
    BY EventsAreNumbers DEF NoCur
  <1>3. \A n \in Events : /\ OnQueue(n)' <=> OnQueue(n)
                          /\ Held(n)' <=> Held(n)
                          /\ Spooled(n)' <=> Spooled(n)
                          /\ Cleaning(n)' <=> Cleaning(n)
    BY <1>2, PlacesKept, ReplayStepKeeps DEF Spooled
  <1>4. \A n \in Events : EventOK(n)'
    <2> TAKE n \in Events
    <2>1. CASE n # c
      BY <1>1, <1>2, <1>3, <2>1, EventKept DEF ReplayStep
    <2>2. CASE n = c
      <3>1. EventOK(n) /\ n \in index' /\ n \notin arrivals /\ n = replay.cur
        BY <1>1, <2>2 DEF Inv, EventOK
      <3> QED BY <1>2, <1>3, <3>1, ReplayStepKeeps DEF ReplayStep, EventOK, Spooled
    <2> QED BY <2>1, <2>2
  <1>5. Pairs'
    <2> SUFFICES ASSUME ~ Stopping', NEW a \in Outputs, NEW b \in Outputs, Owner[a] = Owner[b]
                 PROVE  PairOK(a, b)'
      BY DEF Pairs
    <2>1. a \in Events /\ b \in Events /\ PairOK(a, b)
      BY SpoolAssumption, ReplayStepKeeps DEF Inv, Pairs
    <2>2. a \in index' /\ b \in arrivals' => a < b
      BY <2>1 DEF PairOK
    <2> QED BY <1>2, <1>3, <2>1, <2>2 DEF PairOK, ReplayStep
  <1>6. DiskTypes' /\ SetTypes' /\ SignalTypes'
    BY TypesKept DEF Inv, Types, SetTypes
  <1> QED BY <1>4, <1>5, <1>6, ReplayStepOK

LEMMA BlockOK ==
  ASSUME Inv, Block
  PROVE  Inv'
  <1>1. /\ phase # "down" /\ replay.pc = "blocked" /\ blocked' = blocked \cup {Owner[replay.cur]}
        /\ index' = index \cup {replay.cur} /\ replay' = [replay EXCEPT !.pc = "scan", !.cur = NoCur]
        /\ UNCHANGED <<files, faults, arrivals, watched, ready, wake, cleanup, dormant>>
        /\ ReplayStep
    BY DEF Block, At, admVars, queueVars, countVars, diskVars, signalVars, procVars, ReplayStep
  <1>2. /\ replay.cur \in Events /\ ReplayTypes' /\ replay'.cur = NoCur
    BY <1>1 DEF Inv, Types, ReplayTypes
  <1>3. blocked' \subseteq Targets
    BY <1>1, <1>2, OwnerIsTarget DEF Inv, Types, SetTypes
  <1> QED BY <1>1, <1>2, <1>3, BackToIndex

\* The replay task goes on to another place of its loop, with the same file in its hand.
LEMMA ReplayMoves ==
  ASSUME Inv, ReplayStep, phase # "down", ReplayTypes', replay'.cur = replay.cur, Signaled({}),
         UNCHANGED <<files, faults, arrivals, watched, ready, index, blocked>>
  PROVE  Inv'
  <1>1. \A n \in Events : /\ OnQueue(n)' <=> OnQueue(n)
                          /\ Held(n)' <=> Held(n)
                          /\ Cleaning(n)' <=> Cleaning(n)
    BY QuietSignal, ReplayStepKeeps
  <1>2. \A n \in Events : EventOK(n)'
    BY <1>1, EventKept DEF ReplayStep
  <1>3. Pairs'
    BY <1>1, PairsKept, SpoolAssumption, ReplayStepKeeps DEF ReplayStep
  <1>4. DiskTypes' /\ SetTypes' /\ SignalTypes'
    BY TypesKept, QuietSignal
  <1> QED BY <1>2, <1>3, <1>4, ReplayStepOK

LEMMA AfterPassFacts ==
  AfterPass \in {"stopped", "refresh", "wait"}
  BY DEF AfterPass

LEMMA PassEndsOK ==
  ASSUME Inv, PassEnds
  PROVE  Inv'
  <1>1. /\ phase # "down" /\ replay.pc = "scan" /\ replay' = [replay EXCEPT !.pc = AfterPass]
        /\ UNCHANGED <<files, faults, arrivals, watched, ready, wake, cleanup, dormant, index, blocked>>
        /\ ReplayStep
    BY DEF PassEnds, At, admVars, queueVars, countVars, diskVars, signalVars, procVars, ReplayStep
  <1>2. ReplayTypes' /\ replay'.cur = replay.cur
    BY <1>1, AfterPassFacts DEF Inv, Types, ReplayTypes
  <1>3. Signaled({})
    BY <1>1 DEF Signaled, Inv, Types, SignalTypes
  <1> QED BY <1>1, <1>2, <1>3, ReplayMoves

LEMMA WakeOK ==
  ASSUME Inv, Wake
  PROVE  Inv'
  <1> DEFINE pc == IF Stopping THEN "stopped" ELSE "refresh"
  <1>1. /\ phase # "down" /\ replay.pc = "wait" /\ replay' = [replay EXCEPT !.pc = pc]
        /\ wake' = (IF Stopping THEN wake ELSE FALSE)
        /\ UNCHANGED <<files, faults, arrivals, watched, ready, cleanup, dormant, index, blocked>>
        /\ ReplayStep
    BY DEF Wake, At, admVars, queueVars, countVars, diskVars, procVars, ReplayStep
  <1>p. pc \in {"stopped", "refresh"}
    OBVIOUS
  <1> HIDE DEF pc
  <1>2. ReplayTypes' /\ replay'.cur = replay.cur
    BY <1>1, <1>p DEF Inv, Types, ReplayTypes
  <1>3. Signaled({})
    <2>1. wake' \in BOOLEAN
      BY <1>1 DEF Inv, Types, SignalTypes
    <2> QED BY <1>1, <2>1 DEF Signaled
  <1> QED BY <1>1, <1>2, <1>3, ReplayMoves

\* The replayer takes the oldest file of a target.
LEMMA PopOK ==
  ASSUME Inv, Pop
  PROVE  Inv'
  <1>1. /\ phase # "down" /\ replay.pc = "scan" /\ ReplayStep
        /\ UNCHANGED <<files, faults, arrivals, ready, wake, cleanup, dormant, blocked>>
    BY DEF Pop, At, admVars, queueVars, countVars, diskVars, signalVars, procVars, ReplayStep
  <1>2. PICK c \in Candidates : /\ index' = index \ {c} /\ watched' = watched \cup {Owner[c]}
                                /\ replay' = [replay EXCEPT !.pc = "send", !.cur = c]
    BY Zenon DEF Pop
  <1>3. /\ c \in Events /\ c \in index /\ \A m \in index : Owner[m] = Owner[c] => c <= m
        /\ c # NoCur /\ replay.cur = NoCur
    <2>1. c \in index /\ \A m \in index : Owner[m] = Owner[c] => c <= m
      BY DEF Candidates
    <2>2. c \in Events
      BY <2>1 DEF Inv, Types, SetTypes
    <2> QED BY <1>1, <2>1, <2>2, EventsAreNumbers DEF NoCur, Inv, Types, ReplayTypes
  <1>4. ReplayTypes' /\ replay'.cur = c
    BY <1>1, <1>2, <1>3 DEF Inv, Types, ReplayTypes
  <1>5. \A n \in Events : /\ OnQueue(n)' <=> OnQueue(n)
                          /\ Held(n)' <=> Held(n)
                          /\ n # replay.cur
                          /\ Spooled(n)' <=> Spooled(n)
                          /\ Cleaning(n)' <=> Cleaning(n)
    <2>1. \A n \in Events : n # replay.cur
      BY <1>3, EventsAreNumbers DEF NoCur
    <2> QED BY <1>1, <1>2, <1>3, <1>4, <2>1, PlacesKept, ReplayStepKeeps DEF Spooled
  <1>6. \A n \in Events : EventOK(n)'
    <2> TAKE n \in Events
    <2>1. CASE n # c
      BY <1>1, <1>2, <1>4, <1>5, <2>1, EventKept DEF ReplayStep
    <2>2. CASE n = c
      <3>1. EventOK(n) /\ n \notin index' /\ n \in index /\ n = replay'.cur
        BY <1>2, <1>3, <1>4, <2>2 DEF Inv
      <3> QED BY <1>1, <1>5, <3>1, ReplayStepKeeps DEF ReplayStep, EventOK, Spooled
    <2> QED BY <2>1, <2>2
  <1>7. Pairs'
    <2> SUFFICES ASSUME ~ Stopping', NEW a \in Outputs, NEW b \in Outputs, Owner[a] = Owner[b]
                 PROVE  PairOK(a, b)'
      BY DEF Pairs
    <2>1. a \in Events /\ b \in Events /\ PairOK(a, b) /\ a \in Nat /\ b \in Nat
      BY <1>1, SpoolAssumption, ReplayStepKeeps DEF Inv, Pairs
    <2>2. a = replay'.cur /\ (b \in index' \/ b \in arrivals') => a < b
      BY <1>1, <1>2, <1>3, <1>4, <2>1 DEF PairOK
    <2>3. a \in index' /\ b \in arrivals' => a < b
      BY <1>1, <1>2, <2>1 DEF PairOK
    <2> QED BY <1>1, <1>5, <2>1, <2>2, <2>3 DEF PairOK, ReplayStep
  <1>8. DiskTypes' /\ SetTypes' /\ SignalTypes'
    <2>1. SetTypes'
      BY <1>1, <1>2, <1>3, OwnerIsTarget DEF Inv, Types, SetTypes
    <2> QED BY <1>1, <2>1, TypesKept
  <1> QED BY <1>1, <1>4, <1>6, <1>7, <1>8, ReplayStepOK

\* The refresh: one cleanup is retried, the arrivals join the index.
LEMMA RefreshOK ==
  ASSUME Inv, Refresh
  PROVE  Inv'
  <1>1. /\ phase # "down" /\ replay.pc = "refresh" /\ ReplayStep
        /\ blocked' = blocked \ ready /\ ready' = {} /\ index' = index \cup arrivals
        /\ arrivals' = {} /\ UNCHANGED <<watched, wake>>
    BY DEF Refresh, At, admVars, queueVars, countVars, procVars, ReplayStep
  <1>2. PICK acc \in BOOLEAN : replay' = [replay EXCEPT !.pc = "scan", !.accepted = acc]
    BY Zenon DEF Refresh
  <1>3. ReplayTypes' /\ replay.cur = NoCur /\ replay'.cur = NoCur
    BY <1>1, <1>2 DEF Inv, Types, ReplayTypes
  <1>4. \A n \in Events : n # replay'.cur /\ n # replay.cur
    BY <1>3, EventsAreNumbers DEF NoCur
  <1> DEFINE Retried(F) ==
        \/ /\ cleanup' = cleanup \ F /\ files' = files \ F /\ UNCHANGED <<faults, dormant>>
        \/ /\ cleanup' = cleanup \ F /\ dormant' = dormant \cup F /\ UNCHANGED files
           /\ faults < MaxFaults /\ faults' = faults + 1
  <1>5. \E F \in SUBSET cleanup : Retried(F)
    <2>1. CASE cleanup = {} /\ UNCHANGED <<files, faults, cleanup, dormant>>
      <3>1. Retried({}) /\ {} \in SUBSET cleanup
        BY <2>1
      <3> QED BY <3>1
    <2>2. CASE \E f \in cleanup :
                 /\ cleanup' = cleanup \ {f}
                 /\ \/ files' = files \ {f} /\ UNCHANGED <<faults, dormant>>
                    \/ /\ faults < MaxFaults /\ faults' = faults + 1
                       /\ dormant' = dormant \cup {f} /\ UNCHANGED files
      <3>1. PICK f \in cleanup :
                 /\ cleanup' = cleanup \ {f}
                 /\ \/ files' = files \ {f} /\ UNCHANGED <<faults, dormant>>
                    \/ /\ faults < MaxFaults /\ faults' = faults + 1
                       /\ dormant' = dormant \cup {f} /\ UNCHANGED files
        BY <2>2
      <3>2. Retried({f}) /\ {f} \in SUBSET cleanup
        BY <3>1
      <3> QED BY <3>2
    <2> QED BY <2>1, <2>2, Zenon DEF Refresh
  <1>6. PICK F \in SUBSET cleanup : Retried(F)
    BY <1>5
  <1>t. /\ cleanup \subseteq Events /\ dormant \subseteq Events /\ wake \in BOOLEAN
        /\ \A n \in Events : ~ (n \in cleanup /\ n \in dormant)
        /\ files \subseteq Events /\ faults \in 0 .. MaxFaults /\ MaxFaults \in Nat
    BY SpoolAssumption DEF Inv, Types, SignalTypes, DiskTypes
  <1>7. /\ F \subseteq Events /\ \A n \in F : Cleaning(n)
        /\ \A n \in Events \ F : (n \in files' <=> n \in files) /\ (Cleaning(n)' <=> Cleaning(n))
        /\ \A n \in F : Cleaning(n)' <=> n \in files'
        /\ \A n \in Events : n \in files' => n \in files
    <2>1. F \subseteq Events /\ (\A n \in F : Cleaning(n))
      BY <1>t DEF Cleaning
    <2>2. \A n \in F : n \in files
      BY <2>1 DEF Inv, EventOK
    <2>3. CASE /\ cleanup' = cleanup \ F /\ files' = files \ F /\ UNCHANGED <<faults, dormant>>
      BY <1>t, <2>1, <2>2, <2>3 DEF Cleaning
    <2>4. CASE /\ cleanup' = cleanup \ F /\ dormant' = dormant \cup F /\ UNCHANGED files
      BY <1>t, <2>1, <2>2, <2>4 DEF Cleaning
    <2> QED BY <1>6, <2>3, <2>4
  <1>8. \A n \in Events : /\ OnQueue(n)' <=> OnQueue(n)
                          /\ Held(n)' <=> Held(n)
                          /\ Spooled(n)' <=> Spooled(n)
                          /\ OnQueue(n) \/ Held(n) => n \notin F
    <2>1. \A n \in Events : OnQueue(n) \/ Held(n) => ~ Cleaning(n)
      BY DEF Inv, EventOK
    <2> QED BY <1>1, <1>4, <1>7, <2>1, ReplayStepKeeps DEF Spooled
  <1>9. \A n \in Events : EventOK(n)'
    <2> TAKE n \in Events
    <2>1. EventOK(n) /\ n # replay.cur /\ n # replay'.cur /\ (Serving' <=> Serving)
          /\ UNCHANGED <<fate, adm, phase>>
      BY <1>1, <1>4, ReplayStepKeeps DEF Inv, ReplayStep
    <2>2. n \notin arrivals' /\ (n \in index' <=> n \in index \/ n \in arrivals)
      BY <1>1
    <2>3. CASE n \notin F
      <3>1. (n \in files' <=> n \in files) /\ (Cleaning(n)' <=> Cleaning(n))
        BY <1>7, <2>3
      <3> QED BY <1>8, <2>1, <2>2, <3>1 DEF EventOK, Spooled
    <2>4. CASE n \in F
      <3>1. (Cleaning(n)' <=> n \in files') /\ Cleaning(n) /\ (n \in files' => n \in files)
        BY <1>7, <2>4
      <3> QED BY <1>8, <2>1, <2>2, <3>1 DEF EventOK, Spooled
    <2> QED BY <2>3, <2>4
  <1>10. Pairs'
    <2> SUFFICES ASSUME ~ Stopping', NEW a \in Outputs, NEW b \in Outputs, Owner[a] = Owner[b]
                 PROVE  PairOK(a, b)'
      BY DEF Pairs
    <2>1. a \in Events /\ b \in Events /\ PairOK(a, b)
      BY <1>1, SpoolAssumption, ReplayStepKeeps DEF Inv, Pairs
    <2>2. a # replay'.cur /\ b \notin arrivals' /\ UNCHANGED adm
      BY <1>1, <1>4, <2>1 DEF ReplayStep
    <2> QED BY <1>8, <2>1, <2>2 DEF PairOK
  <1>11. DiskTypes' /\ SetTypes' /\ SignalTypes'
    <2>1. SetTypes'
      BY <1>1 DEF Inv, Types, SetTypes
    <2>2. DiskTypes'
      BY <1>6, <1>t DEF DiskTypes
    <2>3. SignalTypes'
      BY <1>1, <1>6, <1>t DEF SignalTypes
    <2> QED BY <2>1, <2>2, <2>3
  <1>12. \A n \in Events : OnQueue(n) \/ Held(n) => (n \in files' <=> n \in files)
    BY <1>7, <1>8
  <1> QED BY <1>1, <1>3, <1>9, <1>10, <1>11, <1>12, ReplayStepOK

\* A spooled file meets its queue.
LEMMA ReplayOK ==
  ASSUME Inv, Replay
  PROVE  Inv'
  <1>1. /\ phase # "down" /\ replay.pc = "send"
        /\ UNCHANGED <<fate, adm, head, ram, files, faults, arrivals, ready, blocked, phase, restarts>>
    BY DEF Replay, At, admVars, diskVars, procVars
  <1>2. PICK n \in Events : n = replay.cur
    BY <1>1 DEF Inv, Types, ReplayTypes
  <1>3. PICK t \in Targets : t = Owner[n]
    BY OwnerIsTarget
  <1>4. CASE /\ slots >= GlobalCap
             /\ index' = index \cup {n}
             /\ replay' = [replay EXCEPT !.pc = AfterPass, !.cur = NoCur]
             /\ UNCHANGED <<queue, open, owner, slots, watched, signalVars>>
    <2>1. ReplayTypes' /\ replay'.cur = NoCur
      BY <1>4, AfterPassFacts DEF Inv, Types, ReplayTypes
    <2>2. blocked' \subseteq Targets
      BY <1>1 DEF Inv, Types, SetTypes
    <2> QED BY <1>1, <1>2, <1>4, <2>1, <2>2, BackToIndex DEF ReplayStep, signalVars
  <1>5. CASE /\ slots < GlobalCap /\ phase # "cleared" /\ Len(queue[t]) >= QueueCap
             /\ replay' = [replay EXCEPT !.pc = "blocked"]
             /\ Signal(slots + 1 = GlobalCap, {})
             /\ UNCHANGED <<queue, open, owner, slots, watched, index>>
    <2>1. ReplayTypes' /\ replay'.cur = replay.cur
      BY <1>1, <1>5 DEF Inv, Types, ReplayTypes
    <2>2. Signaled({})
      BY <1>5, SignalIsSignaled
    <2> QED BY <1>1, <1>5, <2>1, <2>2, ReplayMoves DEF ReplayStep
  <1>6. CASE /\ slots < GlobalCap /\ phase = "cleared"
             /\ replay' = [replay EXCEPT !.pc = "stopped", !.cur = NoCur]
             /\ UNCHANGED <<queue, open, owner, slots, watched, signalVars, index>>
    <2>1. ReplayTypes' /\ replay'.cur = NoCur /\ ReplayStep /\ UNCHANGED <<wake, cleanup, dormant>>
      BY <1>1, <1>6 DEF Inv, Types, ReplayTypes, ReplayStep, signalVars
    <2>2. \A m \in Events : m # replay'.cur
      BY <2>1, EventsAreNumbers DEF NoCur
    <2>3. \A m \in Events : EventOK(m)'
      <3> TAKE m \in Events
      <3>1. EventOK(m) /\ (Cleaning(m)' <=> Cleaning(m)) /\ ~ Serving' /\ (Spooled(m)' => Spooled(m))
        BY <1>1, <1>6, <2>1, <2>2, PlacesKept DEF Inv, Serving, Spooled
      <3> QED BY <1>1, <1>6, <2>1, <2>2, <3>1, ReplayStepKeeps DEF EventOK
    <2>4. Pairs'
      BY <1>1, <1>6 DEF Pairs, Stopping
    <2>5. DiskTypes' /\ SetTypes' /\ SignalTypes'
      BY <1>1, <1>6, <2>1, TypesKept
    <2> QED BY <1>1, <2>1, <2>3, <2>4, <2>5, ReplayStepOK
  <1>7. CASE /\ slots < GlobalCap /\ phase # "cleared" /\ Len(queue[t]) < QueueCap
             /\ queue' = [queue EXCEPT ![t] = Append(@, [n |-> n, disk |-> TRUE])]
             /\ open' = [open EXCEPT ![t] = TRUE]
             /\ owner' = [owner EXCEPT ![t] = IF @ = "none" THEN "top" ELSE @]
             /\ slots' = slots + 1
             /\ watched' = watched \ {t}
             /\ replay' = [pc |-> "scan", cur |-> NoCur, accepted |-> TRUE]
             /\ UNCHANGED <<signalVars, index>>
    <2>1. PICK it \in Item : it = [n |-> n, disk |-> TRUE]
      BY DEF Item
    <2>2. it.n = n /\ it.disk = TRUE
      BY <2>1
    <2>3. Grows(t, it) /\ UNCHANGED <<wake, cleanup, dormant>>
      BY <1>1, <1>7, <2>1 DEF Grows, signalVars
    <2>4. /\ ~ OnQueue(n) /\ ~ Held(n) /\ n \in files /\ Spooled(n) /\ ~ Cleaning(n)
          /\ n \notin index /\ n \notin arrivals /\ adm[n] = "none"
      BY <1>2 DEF Inv, EventOK, Spooled
    <2>5. ~ Stopping /\ n \in Outputs => \A m \in Outputs : Owner[m] = t =>
            /\ Held(m) \/ OnQueue(m) => m < n
            /\ m \in index \/ m \in arrivals => n < m
            /\ adm[m] # "none" => n < m
      BY <1>2, <1>3, <2>4 DEF Inv, Pairs, PairOK
    <2>6. /\ QueueTypes'
          /\ \A u \in Targets : QueueOK(u)' /\ HandOK(u)'
          /\ \A m \in Events : /\ OnQueue(m)' <=> OnQueue(m) \/ m = n
                               /\ Held(m)' <=> Held(m)
          /\ BusyOwners' = BusyOwners /\ RamOwners' = RamOwners
          /\ \A u \in Targets : owner'[u] = "posting" => owner[u] = "posting"
      <3>1. it.disk <=> it.n \in files
        BY <2>2, <2>4
      <3> QED BY <1>3, <1>7, <2>2, <2>3, <2>4, <2>5, <3>1, GrowsFacts
    <2>7. /\ replay'.cur = NoCur /\ ReplayTypes'
          /\ \A m \in Events : m # replay'.cur
      BY <1>7, EventsAreNumbers DEF ReplayTypes, NoCur
    <2>8. \A m \in Events : /\ Cleaning(m)' <=> Cleaning(m)
                            /\ Spooled(m)' <=> Spooled(m) /\ m # n
      BY <1>1, <1>2, <1>7, <2>3, <2>4, <2>7, PlacesKept DEF Spooled
    <2>9. Types'
      <3>1. CountTypes'
        BY <1>1, <1>7, SpoolAssumption DEF Inv, Types, CountTypes
      <3>2. SetTypes'
        BY <1>1, <1>7 DEF Inv, Types, SetTypes
      <3> QED BY <1>1, <2>3, <2>6, <2>7, <3>1, <3>2, TypesKept DEF Types
    <2>10. \A m \in Events : EventOK(m)'
      <3> TAKE m \in Events
      <3>1. EventOK(m) /\ (Serving' <=> Serving)
        BY <1>1 DEF Inv, Serving
      <3>2. CASE m # n
        BY <1>1, <1>2, <1>7, <2>6, <2>7, <2>8, <3>2, EventKept
      <3>3. CASE m = n
        BY <1>1, <1>7, <2>4, <2>6, <2>7, <2>8, <3>1, <3>3 DEF EventOK
      <3> QED BY <3>2, <3>3
    <2>11. Pairs'
      <3> SUFFICES ASSUME ~ Stopping', NEW a \in Outputs, NEW b \in Outputs, Owner[a] = Owner[b]
                   PROVE  PairOK(a, b)'
        BY DEF Pairs
      <3>1. a \in Events /\ b \in Events /\ PairOK(a, b) /\ ~ Stopping
        BY <1>1, SpoolAssumption DEF Inv, Pairs, Stopping
      <3>2. CASE a # n /\ b # n
        BY <1>1, <1>7, <2>6, <2>7, <2>8, <3>1, <3>2 DEF PairOK
      <3>3. CASE a = n
        <4>1. (b \in index \/ b \in arrivals => n < b) /\ (adm[b] # "none" => n < b)
          BY <1>3, <2>5, <3>1, <3>3
        <4>2. /\ ~ Held(n)' /\ ~ Spooled(n)' /\ n \notin index' /\ adm'[n] = "none"
              /\ Spooled(b)' => b \in index \/ b \in arrivals
          BY <1>1, <1>7, <2>4, <2>6, <2>7, <2>8, <3>1 DEF Spooled
        <4> QED BY <1>1, <2>7, <3>1, <3>3, <4>1, <4>2 DEF PairOK
      <3>4. CASE b = n /\ a # n
        <4>1. Held(a) => a < n
          BY <1>3, <2>5, <3>1, <3>4
        <4>2. /\ ~ Spooled(n)' /\ n \notin index' /\ n \notin arrivals' /\ adm'[n] = "none"
              /\ Held(a)' => a < n
          BY <1>1, <1>7, <2>4, <2>6, <2>8, <3>1, <4>1
        <4> QED BY <2>7, <3>1, <3>4, <4>2 DEF PairOK
      <3> QED BY <3>2, <3>3, <3>4
    <2>12. HeadFirst' /\ FutureOK' /\ DownOK'
      BY <1>1, <2>6, HeadFirstKept, FutureKept, UpKept
    <2>13. CountsOK'
      <3>1. Cardinality(Queued(BOOLEAN)') = Cardinality(Queued(BOOLEAN)) + 1
        BY <1>7, <2>2, <2>3, QueuedAppend DEF Grows
      <3>2. Queued({FALSE})' = Queued({FALSE})
        BY <1>7, <2>2, <2>3, QueuedAppend DEF Grows
      <3>3. Sending' = Sending /\ (Serving' <=> Serving) /\ slots' = slots + 1 /\ ram' = ram
        BY <1>1, <1>7, CountSetsKept DEF Serving
      <3> QED BY <2>6, <3>1, <3>2, <3>3, CountsAreNatural, CountedNext DEF AtLeast, Exact
    <2> QED BY <2>6, <2>9, <2>10, <2>11, <2>12, <2>13 DEF Inv
  <1> QED BY <1>2, <1>3, <1>4, <1>5, <1>6, <1>7 DEF Replay

-----------------------------------------------------------------------------
(* The process.                                                              *)

\* A step towards the end of the process, once nothing is being admitted.
LEMMA PhaseStep ==
  ASSUME Inv, phase' \in {"flush", "stopping", "cleared"}, open' \in [Targets -> BOOLEAN],
         Serving' => Serving /\ open' = open, ~ Stopping' => ~ Stopping,
         \A n \in Events : adm[n] = "none", restarts < MaxRestarts,
         UNCHANGED <<fate, adm, queue, owner, head, slots, ram, files, faults, arrivals, watched,
                     ready, wake, cleanup, dormant, index, blocked, replay, restarts>>
  PROVE  Inv'
  <1>1. \A n \in Events : /\ OnQueue(n)' <=> OnQueue(n)
                          /\ Held(n)' <=> Held(n)
                          /\ Spooled(n)' <=> Spooled(n)
                          /\ Cleaning(n)' <=> Cleaning(n)
    BY PlacesKept
  <1>2. Types'
    <2>1. QueueTypes' /\ ProcTypes'
      BY DEF Inv, Types, QueueTypes, ProcTypes
    <2> QED BY <2>1, TypesKept DEF Types
  <1>3. \A t \in Targets : QueueOK(t)' /\ HandOK(t)'
    <2> TAKE t \in Targets
    <2>1. HandOK(t)'
      BY HandKept DEF InHand
    <2>2. QueueOK(t)
      BY DEF Inv
    <2>3. owner'[t] # "none" /\ Serving' => open'[t]
      BY <2>2 DEF QueueOK
    <2>4. QueueOK(t)'
      BY <2>3, QueueKept
    <2> QED BY <2>1, <2>4
  <1>4. \A n \in Events : EventOK(n)'
    <2> TAKE n \in Events
    <2>1. EventOK(n)
      BY DEF Inv
    <2> QED BY <1>1, <2>1 DEF EventOK
  <1>5. Pairs'
    BY <1>1, PairsKept, SpoolAssumption
  <1>6. HeadFirst' /\ FutureOK' /\ DownOK' /\ CountsOK'
    BY HeadFirstKept, FutureKept, UpKept, CountsKept
  <1> QED BY <1>2, <1>3, <1>4, <1>5, <1>6 DEF Inv

LEMMA ShutdownOK ==
  ASSUME Inv, StartFlush \/ RequestShutdown \/ ClearQueues
  PROVE  Inv'
  <1>0. open \in [Targets -> BOOLEAN] /\ (phase # "up" => restarts < MaxRestarts)
        /\ \A n \in Events : adm[n] # "none" => phase = "up"
    BY DEF Inv, Types, QueueTypes, ProcTypes, EventOK
  <1>1. CASE StartFlush
    BY <1>0, <1>1, PhaseStep DEF StartFlush, admVars, queueVars, countVars, diskVars, signalVars,
                                 replayVars, Serving, Stopping
  <1>2. CASE RequestShutdown
    BY <1>0, <1>2, PhaseStep DEF RequestShutdown, admVars, queueVars, countVars, diskVars,
                                 signalVars, replayVars, Serving, Stopping
  <1>3. CASE ClearQueues
    BY <1>0, <1>3, PhaseStep DEF ClearQueues, admVars, countVars, diskVars, signalVars,
                                 replayVars, Serving, Stopping
  <1> QED BY <1>1, <1>2, <1>3

\* Without memory the process has only its files.
LEMMA NothingHeld ==
  ASSUME \A t \in Targets : queue[t] = <<>> /\ owner[t] = "none", \A n \in Events : adm[n] = "none"
  PROVE  /\ \A n \in Events : ~ OnQueue(n) /\ ~ Held(n)
         /\ \A D : Cardinality(Queued(D)) = 0
         /\ Cardinality(BusyOwners) = 0 /\ Cardinality(RamOwners) = 0 /\ Cardinality(Sending) = 0
  <1>e. Len(<<>>) = 0 /\ DOMAIN <<>> = {}
    BY EmptySeq
  <1>1. \A n \in Events : ~ OnQueue(n) /\ ~ Held(n)
    BY <1>e, OwnerIsTarget DEF OnQueue, Held, InHand
  <1>2. \A D : Queued(D) = {}
    <2> SUFFICES ASSUME NEW D, NEW x \in Queued(D) PROVE FALSE
      OBVIOUS
    <2>1. x[1] \in Targets /\ x[2] \in 1 .. QueueCap /\ x[2] <= Len(queue[x[1]])
      BY DEF Queued
    <2> QED BY <1>e, <2>1, SpoolAssumption
  <1>3. BusyOwners = {} /\ RamOwners = {} /\ Sending = {}
    BY DEF BusyOwners, RamOwners, InHand, Sending
  <1> QED BY <1>1, <1>2, <1>3, FS_EmptySet

LEMMA DownStep ==
  ASSUME Inv, Down, restarts < MaxRestarts, fate' \in [Events -> Fates],
         \A n \in Events : /\ fate'[n] = "future" <=> fate[n] = "future"
                           /\ n \in files => fate'[n] = fate[n]
                           /\ fate'[n] = "pending" => n \in files
  PROVE  Inv'
  <1>1. /\ \A t \in Targets : /\ queue'[t] = <<>> /\ owner'[t] = "none"
                              /\ head'[t] = NoHead /\ ~ InHand(t)'
        /\ \A n \in Events : adm'[n] = "none"
    BY DEF Down, InHand
  <1>2. /\ \A n \in Events : ~ OnQueue(n)' /\ ~ Held(n)'
        /\ \A D : Cardinality(Queued(D)') = 0
        /\ Cardinality(BusyOwners') = 0 /\ Cardinality(RamOwners') = 0 /\ Cardinality(Sending') = 0
    <2>e. Len(<<>>) = 0 /\ DOMAIN <<>> = {}
      BY EmptySeq
    <2>1. \A n \in Events : ~ OnQueue(n)' /\ ~ Held(n)'
      BY <1>1, <2>e, OwnerIsTarget DEF OnQueue, Held
    <2>2. \A D : Queued(D)' = {}
      <3> SUFFICES ASSUME NEW D, NEW x \in Queued(D)' PROVE FALSE
        OBVIOUS
      <3>1. x[1] \in Targets /\ x[2] \in 1 .. QueueCap /\ x[2] <= Len(queue'[x[1]])
        BY DEF Queued
      <3> QED BY <1>1, <2>e, <3>1, SpoolAssumption
    <2>3. BusyOwners' = {} /\ RamOwners' = {} /\ Sending' = {}
      BY <1>1 DEF BusyOwners, RamOwners, Sending
    <2> QED BY <2>1, <2>2, <2>3, FS_EmptySet
  <1>3. /\ phase' = "down" /\ slots' = 0 /\ ram' = 0 /\ arrivals' = {} /\ index' = {}
        /\ cleanup' = {} /\ dormant' = {} /\ replay'.cur = NoCur /\ UNCHANGED <<files, faults, restarts>>
    BY DEF Down, diskVars
  <1>4. Types'
    <2>e. <<>> \in Seq(Item)
      BY EmptySeq
    <2>1. AdmTypes' /\ QueueTypes'
      BY <2>e DEF Down, AdmTypes, QueueTypes
    <2>2. CountTypes' /\ SetTypes' /\ SignalTypes'
      <3>1. watched' = {} /\ ready' = {} /\ blocked' = {} /\ wake' = FALSE /\ GlobalCap \in Nat
        BY SpoolAssumption DEF Down
      <3>2. CountTypes'
        BY <1>3, <3>1 DEF CountTypes
      <3>3. SetTypes'
        BY <1>3, <3>1 DEF SetTypes
      <3>4. SignalTypes'
        BY <1>3, <3>1 DEF SignalTypes
      <3> QED BY <3>2, <3>3, <3>4
    <2>4. DiskTypes' /\ ProcTypes'
      BY <1>3 DEF Inv, Types, DiskTypes, ProcTypes
    <2>3. ReplayTypes'
      BY DEF Down, ReplayTypes
    <2> QED BY <2>1, <2>2, <2>3, <2>4 DEF Types
  <1>5. \A t \in Targets : QueueOK(t)' /\ HandOK(t)'
    <2> TAKE t \in Targets
    <2>e. Len(<<>>) = 0 /\ DOMAIN <<>> = {} /\ QueueCap >= 0
      BY EmptySeq, SpoolAssumption
    <2> QED BY <1>1, <2>e DEF QueueOK, HandOK
  <1>6. \A n \in Events : ~ Spooled(n)' /\ ~ Cleaning(n)' /\ n # replay'.cur
    BY <1>3, EventsAreNumbers DEF Spooled, Cleaning, NoCur
  <1>7. \A n \in Events : EventOK(n)'
    <2> TAKE n \in Events
    <2>1. EventOK(n) /\ ~ Serving'
      BY <1>3 DEF Inv, Serving
    <2> QED BY <1>1, <1>2, <1>3, <1>6, <2>1 DEF EventOK
  <1>8. Pairs'
    <2> SUFFICES ASSUME NEW a \in Outputs, NEW b \in Outputs PROVE PairOK(a, b)'
      BY DEF Pairs
    <2>1. a \in Events /\ b \in Events
      BY SpoolAssumption
    <2> QED BY <1>1, <1>2, <1>3, <1>6, <2>1 DEF PairOK
  <1>9. HeadFirst' /\ FutureOK' /\ DownOK'
    BY <1>1, <1>3, FutureKept DEF HeadFirst, DownOK
  <1>10. CountsOK'
    BY <1>2, <1>3, CountedNext DEF AtLeast, Exact
  <1> QED BY <1>4, <1>5, <1>7, <1>8, <1>9, <1>10 DEF Inv

LEMMA ExitOK ==
  ASSUME Inv, Exit
  PROVE  Inv'
  <1>1. phase = "cleared" /\ UNCHANGED fate /\ Down /\ \A t \in Targets : owner[t] = "none"
    BY DEF Exit
  <1>2. restarts < MaxRestarts /\ fate \in [Events -> Fates]
    BY <1>1 DEF Inv, Types, AdmTypes, ProcTypes
  <1>3. \A n \in Events : adm[n] = "none"
    BY <1>1 DEF Inv, EventOK
  <1>4. \A t \in Targets : queue[t] = <<>>
    BY <1>1 DEF Inv, QueueOK
  <1>5. \A n \in Events : fate[n] = "pending" => n \in files
    BY <1>1, <1>3, <1>4, NothingHeld DEF Inv, EventOK
  <1> QED BY <1>1, <1>2, <1>5, DownStep

LEMMA CrashOK ==
  ASSUME Inv, Crash
  PROVE  Inv'
  <1>1. restarts < MaxRestarts /\ Down /\ fate' = Settle(Events \ files, "crashed")
    BY DEF Crash
  <1>2. /\ fate' \in [Events -> Fates]
        /\ \A n \in Events : /\ fate'[n] = "future" <=> fate[n] = "future"
                             /\ n \in files => fate'[n] = fate[n]
                             /\ fate'[n] = "pending" => n \in files
    BY <1>1, SettleFacts DEF Fates
  <1> QED BY <1>1, <1>2, DownStep

\* The replayer starts with all files.
LEMMA RestartOK ==
  ASSUME Inv, Restart
  PROVE  Inv'
  <1>1. /\ phase = "down" /\ phase' = "up" /\ restarts' = restarts + 1 /\ index' = files
        /\ replay' = [replay EXCEPT !.pc = "refresh"]
        /\ UNCHANGED <<fate, adm, queue, open, owner, head, slots, ram, files, faults, arrivals,
                       watched, ready, wake, cleanup, dormant, blocked>>
    BY DEF Restart, admVars, queueVars, countVars, diskVars, signalVars
  <1>2. /\ \A t \in Targets : owner[t] = "none"
        /\ arrivals = {} /\ index = {} /\ cleanup = {} /\ dormant = {} /\ replay.cur = NoCur
        /\ slots = 0 /\ ram = 0 /\ restarts < MaxRestarts
    BY <1>1 DEF Inv, DownOK, Types, ProcTypes
  <1>3. \A n \in Events : adm[n] = "none"
    BY <1>1 DEF Inv, EventOK
  <1>4. \A t \in Targets : queue[t] = <<>>
    BY <1>2 DEF Inv, QueueOK
  <1>5. /\ \A n \in Events : ~ OnQueue(n) /\ ~ Held(n)
        /\ \A D : Cardinality(Queued(D)) = 0
        /\ Cardinality(BusyOwners) = 0 /\ Cardinality(RamOwners) = 0 /\ Cardinality(Sending) = 0
    BY <1>2, <1>3, <1>4, NothingHeld
  <1>6. /\ ReplayTypes' /\ replay'.cur = NoCur
        /\ \A n \in Events : n # replay'.cur
    BY <1>1, <1>2, EventsAreNumbers DEF Inv, Types, ReplayTypes, NoCur
  <1>7. Types'
    <2>1. SetTypes' /\ ProcTypes'
      BY <1>1, <1>2, SpoolAssumption DEF Inv, Types, SetTypes, DiskTypes, ProcTypes
    <2> QED BY <1>1, <1>6, <2>1, TypesKept DEF Types
  <1>8. \A n \in Events : /\ ~ OnQueue(n)' /\ ~ Held(n)' /\ ~ Cleaning(n)'
                          /\ Spooled(n)' <=> n \in files
    BY <1>1, <1>2, <1>5, <1>6, PlacesKept DEF Cleaning, Spooled
  <1>9. \A t \in Targets : QueueOK(t)' /\ HandOK(t)'
    <2> TAKE t \in Targets
    <2>1. HandOK(t)'
      BY <1>1, HandKept DEF InHand
    <2>2. QueueOK(t)'
      BY <1>1, <1>2, QueueKept DEF Stopping
    <2> QED BY <2>1, <2>2
  <1>10. \A n \in Events : EventOK(n)'
    <2> TAKE n \in Events
    <2>1. EventOK(n)
      BY DEF Inv
    <2> QED BY <1>1, <1>2, <1>3, <1>5, <1>6, <1>8, <2>1 DEF EventOK
  <1>11. Pairs'
    <2> SUFFICES ASSUME NEW a \in Outputs, NEW b \in Outputs PROVE PairOK(a, b)'
      BY DEF Pairs
    <2>1. a \in Events /\ b \in Events
      BY SpoolAssumption
    <2> QED BY <1>1, <1>2, <1>3, <1>6, <1>8, <2>1 DEF PairOK
  <1>12. HeadFirst' /\ FutureOK' /\ DownOK'
    BY <1>1, HeadFirstKept, FutureKept, UpKept
  <1>13. CountsOK'
    <2>1. /\ Cardinality(Queued(BOOLEAN)') = 0 /\ Cardinality(Queued({FALSE})') = 0
          /\ Cardinality(BusyOwners') = 0 /\ Cardinality(RamOwners') = 0 /\ Cardinality(Sending') = 0
      BY <1>1, <1>5, CountSetsKept
    <2> QED BY <1>1, <1>2, <2>1, CountedNext DEF AtLeast, Exact
  <1> QED BY <1>7, <1>9, <1>10, <1>11, <1>12, <1>13 DEF Inv

-----------------------------------------------------------------------------
(* The invariant.                                                            *)

LEMMA InitOK == Init => Inv
  <1> SUFFICES ASSUME Init PROVE Inv
    OBVIOUS
  <1>1. /\ \A t \in Targets : /\ queue[t] = <<>> /\ owner[t] = "none"
                              /\ head[t] = NoHead /\ ~ InHand(t)
        /\ \A n \in Events : adm[n] = "none" /\ fate[n] = "future"
        /\ arrivals = {} /\ index = {} /\ files = {} /\ cleanup = {} /\ dormant = {}
        /\ slots = 0 /\ ram = 0 /\ phase = "up" /\ replay.cur = NoCur
    BY DEF Init, InHand
  <1>2. /\ \A n \in Events : ~ OnQueue(n) /\ ~ Held(n)
        /\ \A D : Cardinality(Queued(D)) = 0
        /\ Cardinality(BusyOwners) = 0 /\ Cardinality(RamOwners) = 0 /\ Cardinality(Sending) = 0
    BY <1>1, NothingHeld
  <1>3. \A n \in Events : ~ Spooled(n) /\ ~ Cleaning(n) /\ n # replay.cur
    BY <1>1, EventsAreNumbers DEF Spooled, Cleaning, NoCur
  <1>4. Types
    <2>e. <<>> \in Seq(Item)
      BY EmptySeq
    <2>c. GlobalCap \in Nat /\ MaxFaults \in Nat /\ MaxRestarts \in Nat
      BY SpoolAssumption
    <2>0. /\ watched = {} /\ ready = {} /\ blocked = {} /\ wake = FALSE /\ faults = 0 /\ restarts = 0
      BY DEF Init
    <2>1. AdmTypes
      BY DEF Init, AdmTypes, Fates
    <2>2. QueueTypes
      BY <2>e DEF Init, QueueTypes
    <2>3. CountTypes /\ DiskTypes
      BY <1>1, <2>0, <2>c DEF CountTypes, DiskTypes
    <2>4. SetTypes /\ SignalTypes
      BY <1>1, <2>0 DEF SetTypes, SignalTypes
    <2>5. ReplayTypes
      BY DEF Init, ReplayTypes
    <2>6. ProcTypes
      BY <1>1, <2>0, <2>c DEF ProcTypes
    <2> QED BY <2>1, <2>2, <2>3, <2>4, <2>5, <2>6 DEF Types
  <1>5. \A t \in Targets : QueueOK(t) /\ HandOK(t)
    <2> TAKE t \in Targets
    <2>e. Len(<<>>) = 0 /\ DOMAIN <<>> = {} /\ QueueCap >= 0
      BY EmptySeq, SpoolAssumption
    <2> QED BY <1>1, <2>e DEF QueueOK, HandOK
  <1>6. \A n \in Events : EventOK(n)
    BY <1>1, <1>2, <1>3 DEF EventOK
  <1>7. Pairs
    <2> SUFFICES ASSUME NEW a \in Outputs, NEW b \in Outputs PROVE PairOK(a, b)
      BY DEF Pairs
    <2>1. a \in Events /\ b \in Events
      BY SpoolAssumption
    <2> QED BY <1>1, <1>2, <1>3, <2>1 DEF PairOK
  <1>8. FutureOK /\ HeadFirst /\ DownOK
    BY <1>1 DEF FutureOK, HeadFirst, DownOK
  <1>9. CountsOK
    BY <1>1, <1>2, Counted DEF AtLeast, Exact
  <1> QED BY <1>4, <1>5, <1>6, <1>7, <1>8, <1>9 DEF Inv

LEMMA StutterOK ==
  ASSUME Inv, UNCHANGED vars
  PROVE  Inv'
  <1>1. UNCHANGED <<fate, adm, queue, open, owner, head, slots, ram, files, faults, arrivals,
                    watched, ready, wake, cleanup, dormant, index, blocked, replay, phase, restarts>>
    BY DEF vars, admVars, queueVars, countVars, diskVars, signalVars, replayVars, procVars
  <1> QED BY <1>1 DEF Inv, Types, AdmTypes, QueueTypes, CountTypes, DiskTypes, SetTypes, SignalTypes,
       ReplayTypes, ProcTypes, QueueOK, HandOK, EventOK, Pairs, PairOK, FutureOK, HeadFirst, DownOK,
       CountsOK, CountersExact, Queued, BusyOwners, OnQueue, Held, InHand, Spooled, Cleaning, Serving,
       Stopping

LEMMA NextOK == Inv /\ [Next]_vars => Inv'
  <1> SUFFICES ASSUME Inv, [Next]_vars PROVE Inv'
    OBVIOUS
  <1>1. ASSUME NEW n \in Events, Enqueue(n) \/ Admission(n) PROVE Inv'
    BY <1>1, EnqueueOK, SendOK, SpillOK DEF Admission
  <1>2. ASSUME NEW t \in Targets, QueueOwner(t) PROVE Inv'
    BY <1>2, CheckOK, AbandonOK, TakeOK, PostOK DEF QueueOwner
  <1>3. ASSUME NEW t \in Targets, Outcome(t) PROVE Inv'
    BY <1>3, DeliverOK, GiveUpOK, DeferOK DEF Outcome
  <1>4. ASSUME NEW t \in Targets, Finished(t) \/ AnswerLost(t) \/ Retain(t) PROVE Inv'
    BY <1>4, FinishedOK, AnswerLostOK, RetainOK
  <1>5. CASE Replayer
    BY <1>5, RefreshOK, PopOK, PassEndsOK, ReplayOK, BlockOK, WakeOK DEF Replayer
  <1>6. CASE Process \/ StartFlush \/ Crash
    BY <1>6, ShutdownOK, ExitOK, RestartOK, CrashOK DEF Process
  <1>7. CASE UNCHANGED vars
    BY <1>7, StutterOK
  <1> QED BY <1>1, <1>2, <1>3, <1>4, <1>5, <1>6, <1>7 DEF Next

LEMMA AlwaysInv == Spec => []Inv
  <1>1. Init => Inv
    BY InitOK
  <1>2. Inv /\ [Next]_vars => Inv'
    BY NextOK
  <1> QED BY <1>1, <1>2, PTL DEF Spec

\* The inductive invariant of the forwarder: the tasks' states, one place for every event, a place
\* for every file, the order of a target's outputs and the counters, for every number of targets,
\* events and restarts and every capacity.
THEOREM SpoolInductive == Spec => []IndInv
  BY AlwaysInv, InvImplies, PTL

\* The forwarder's state has its types: slots never exceed the global cap, nor fall below zero.
THEOREM SpoolTypeCorrect == Spec => []TypeOK
  <1>1. IndInv => TypeOK
    BY DEF IndInv
  <1> QED BY <1>1, SpoolInductive, PTL

\* The queue slots and the RAM in use are exactly those of the events held.
THEOREM CountersAreExact == Spec => []CountersExact
  <1>1. IndInv => CountersExact
    BY DEF IndInv, CountsOK
  <1> QED BY <1>1, SpoolInductive, PTL

-----------------------------------------------------------------------------
(* Every file has one owner.                                                 *)

\* A set with one element, or with none.
LEMMA OneOrNone ==
  ASSUME NEW S, NEW x
  PROVE  /\ S = {x} => Cardinality(S) = 1
         /\ S = {} => Cardinality(S) = 0
  BY FS_Singleton, FS_EmptySet

\* The five sets of the spool's bookkeeping in which a file may be.
Shelves    == {<<index, 1>>, <<arrivals, 2>>, <<{replay.cur}, 3>>, <<cleanup, 4>>, <<dormant, 5>>}
Shelf(f)   == {s \in Shelves : f \in s[1]}
Queues(f)  == {x \in Queued({TRUE}) : queue[x[1]][x[2]].n = f}
Hands(f)   == {t \in BusyOwners : head[t].disk /\ head[t].n = f}

LEMMA OnShelf ==
  ASSUME Inv, NEW f \in Events
  PROVE  /\ Spooled(f) \/ Cleaning(f) => Cardinality(Shelf(f)) = 1
         /\ ~ (Spooled(f) \/ Cleaning(f)) => Cardinality(Shelf(f)) = 0
  <1>1. EventOK(f) /\ ~ (f \in cleanup /\ f \in dormant)
    BY DEF Inv, Types, SignalTypes
  <1>2. \A s : s \in Shelf(f) <=> \/ s = <<index, 1>> /\ f \in index
                                  \/ s = <<arrivals, 2>> /\ f \in arrivals
                                  \/ s = <<{replay.cur}, 3>> /\ f = replay.cur
                                  \/ s = <<cleanup, 4>> /\ f \in cleanup
                                  \/ s = <<dormant, 5>> /\ f \in dormant
    BY DEF Shelf, Shelves
  <1>3. CASE f \in index
    <2>1. Shelf(f) = {<<index, 1>>}
      BY <1>1, <1>2, <1>3 DEF EventOK, Cleaning
    <2> QED BY <1>3, <2>1, OneOrNone DEF Spooled
  <1>4. CASE f \in arrivals
    <2>1. Shelf(f) = {<<arrivals, 2>>}
      BY <1>1, <1>2, <1>4 DEF EventOK, Cleaning
    <2> QED BY <1>4, <2>1, OneOrNone DEF Spooled
  <1>5. CASE f = replay.cur
    <2>1. Shelf(f) = {<<{replay.cur}, 3>>}
      BY <1>1, <1>2, <1>5 DEF EventOK, Cleaning
    <2> QED BY <1>5, <2>1, OneOrNone DEF Spooled
  <1>6. CASE f \in cleanup
    <2>1. Shelf(f) = {<<cleanup, 4>>}
      BY <1>1, <1>2, <1>6 DEF EventOK, Cleaning
    <2> QED BY <1>6, <2>1, OneOrNone DEF Cleaning
  <1>7. CASE f \in dormant
    <2>1. Shelf(f) = {<<dormant, 5>>}
      BY <1>1, <1>2, <1>7 DEF EventOK, Cleaning
    <2> QED BY <1>7, <2>1, OneOrNone DEF Cleaning
  <1>8. CASE ~ (Spooled(f) \/ Cleaning(f))
    <2>1. Shelf(f) = {}
      BY <1>2, <1>8 DEF Spooled, Cleaning
    <2> QED BY <1>8, <2>1, OneOrNone
  <1> QED BY <1>3, <1>4, <1>5, <1>6, <1>7, <1>8 DEF Spooled, Cleaning

LEMMA OnOneQueue ==
  ASSUME Inv, NEW f \in files
  PROVE  /\ OnQueue(f) => Cardinality(Queues(f)) = 1
         /\ ~ OnQueue(f) => Cardinality(Queues(f)) = 0
  <1>0. f \in Events /\ Owner[f] \in Targets
    BY OwnerIsTarget DEF Inv, Types, DiskTypes
  <1>1. ASSUME NEW x \in Queues(f)
        PROVE  /\ x = <<Owner[f], x[2]>> /\ x[2] \in DOMAIN queue[Owner[f]]
               /\ queue[Owner[f]][x[2]].n = f
    <2>1. /\ x \in Targets \X (1 .. QueueCap) /\ x[1] \in Targets /\ x[2] \in 1 .. QueueCap
          /\ x[2] <= Len(queue[x[1]]) /\ queue[x[1]][x[2]].n = f
      BY DEF Queues, Queued
    <2>2. x[2] \in DOMAIN queue[x[1]]
      BY <2>1, Positions, SpoolAssumption
    <2>3. Owner[f] = x[1]
      BY <2>1, <2>2, OnItsQueue
    <2> QED BY <2>1, <2>2, <2>3
  <1>2. CASE ~ OnQueue(f)
    <2>1. Queues(f) = {}
      BY <1>1, <1>2 DEF OnQueue
    <2> QED BY <1>2, <2>1, OneOrNone
  <1>3. CASE OnQueue(f)
    <2> DEFINE t == Owner[f]
    <2>1. PICK i \in DOMAIN queue[t] : queue[t][i].n = f
      BY <1>3 DEF OnQueue
    <2>2. /\ Len(queue[t]) \in Nat /\ DOMAIN queue[t] = 1 .. Len(queue[t]) /\ queue[t][i] \in Item
          /\ Len(queue[t]) <= QueueCap /\ QueueCap \in Nat
      BY <1>0, Positions, SpoolAssumption DEF Inv, QueueOK
    <2>3. queue[t][i].disk = TRUE
      <3>1. queue[t][i].disk <=> queue[t][i].n \in files
        BY <1>0 DEF Inv, QueueOK
      <3>2. queue[t][i].disk \in BOOLEAN
        BY <2>2 DEF Item
      <3> QED BY <2>1, <3>1, <3>2
    <2>4. <<t, i>> \in Queues(f)
      <3>1. <<t, i>> \in Targets \X (1 .. QueueCap) /\ i <= Len(queue[t])
        BY <1>0, <2>2
      <3> QED BY <2>1, <2>3, <3>1 DEF Queues, Queued
    <2>5. ASSUME NEW x \in Queues(f) PROVE x = <<t, i>>
      <3>1. /\ x = <<t, x[2]>> /\ x[2] \in DOMAIN queue[t] /\ queue[t][x[2]].n = f
        BY <1>1
      <3>2. x[2] \in Nat /\ i \in Nat
        BY <2>2, <3>1
      <3>3. ~ (x[2] < i) /\ ~ (i < x[2])
        BY <1>0, <2>1, <3>1 DEF Inv, QueueOK
      <3>4. x[2] = i
        BY <3>2, <3>3
      <3> QED BY <3>1, <3>4
    <2>6. Queues(f) = {<<t, i>>}
      BY <2>4, <2>5
    <2> QED BY <1>3, <2>6, OneOrNone
  <1> QED BY <1>2, <1>3

LEMMA InOneHand ==
  ASSUME Inv, NEW f \in files
  PROVE  /\ Held(f) => Cardinality(Hands(f)) = 1
         /\ ~ Held(f) => Cardinality(Hands(f)) = 0
  <1>0. f \in Events /\ Owner[f] \in Targets
    BY OwnerIsTarget DEF Inv, Types, DiskTypes
  <1>1. \A t \in Targets : t \in Hands(f) => t = Owner[f] /\ Held(f)
    BY DEF Hands, BusyOwners, Held, Inv, HandOK
  <1>2. Hands(f) \subseteq Targets
    BY DEF Hands, BusyOwners
  <1>3. Held(f) => Owner[f] \in Hands(f)
    BY <1>0 DEF Hands, BusyOwners, Held, Inv, HandOK
  <1>4. CASE Held(f)
    <2>1. Hands(f) = {Owner[f]}
      BY <1>1, <1>2, <1>3, <1>4
    <2> QED BY <1>4, <2>1, OneOrNone
  <1>5. CASE ~ Held(f)
    <2>1. Hands(f) = {}
      BY <1>1, <1>2, <1>5
    <2> QED BY <1>5, <2>1, OneOrNone
  <1> QED BY <1>4, <1>5

\* While the gateway runs each spool file is in exactly one of the index, the arrivals, the
\* replayer's hand, a queue, an owner's hand and the cleanup: none is stranded, none has two owners.
THEOREM FilesHaveOneOwner == Spec => []EveryFileHasOneOwner
  <1>1. Inv => EveryFileHasOneOwner
    <2> SUFFICES ASSUME Inv, phase \in {"up", "flush"}, NEW f \in files PROVE Places(f) = 1
      BY DEF EveryFileHasOneOwner
    <2>0. f \in Events /\ EventOK(f) /\ Serving
      BY DEF Inv, Types, DiskTypes, Serving
    <2>1. Places(f) = Cardinality(Shelf(f)) + Cardinality(Queues(f)) + Cardinality(Hands(f))
      BY DEF Places, Shelf, Shelves, Queues, Hands
    <2>2. CASE Spooled(f) \/ Cleaning(f)
      <3>1. ~ OnQueue(f) /\ ~ Held(f)
        BY <2>0, <2>2 DEF EventOK, Spooled
      <3> QED BY <2>0, <2>1, <2>2, <3>1, OnShelf, OnOneQueue, InOneHand
    <2>3. CASE ~ (Spooled(f) \/ Cleaning(f)) /\ OnQueue(f)
      <3>1. ~ Held(f)
        BY <2>0, <2>3 DEF EventOK
      <3> QED BY <2>0, <2>1, <2>3, <3>1, OnShelf, OnOneQueue, InOneHand
    <2>4. CASE ~ (Spooled(f) \/ Cleaning(f)) /\ ~ OnQueue(f)
      <3>1. Held(f)
        BY <2>0, <2>4 DEF EventOK
      <3> QED BY <2>0, <2>1, <2>4, <3>1, OnShelf, OnOneQueue, InOneHand
    <2> QED BY <2>2, <2>3, <2>4
  <1> QED BY <1>1, AlwaysInv, PTL

-----------------------------------------------------------------------------
(* Files and their history.                                                  *)

FilesKept == \A f \in files \ files' : fate'[f] \in {"delivered", "refused", "reported"}

\* Only the end of an event that was posted or given up, and the cleanup, remove a file.
LEMMA FilesShrink == Inv /\ [Next]_vars => FilesKept
  <1> SUFFICES ASSUME Inv, [Next]_vars PROVE FilesKept
    OBVIOUS
  <1>0. (files \subseteq files') => FilesKept
    BY DEF FilesKept
  <1>1. ASSUME NEW n \in Events, Enqueue(n) \/ Admission(n) PROVE files \subseteq files'
    BY <1>1 DEF Enqueue, Admission, Send, Spill, Persist, PersistFails, diskVars
  <1>2. ASSUME NEW t \in Targets, QueueOwner(t) \/ Finished(t) \/ AnswerLost(t)
        PROVE  files \subseteq files'
    BY <1>2 DEF QueueOwner, Check, Abandon, Take, Post, Finished, AnswerLost, diskVars
  <1>3. ASSUME NEW t \in Targets, Retain(t) \/ Defer(t) PROVE files \subseteq files'
    BY <1>3 DEF Retain, Defer, Persist, PersistFails, diskVars
  <1>4. ASSUME NEW t \in Targets, InHand(t), NEW f \in {"delivered", "refused", "reported"},
               fate' = Settle({head[t].n}, f), Remove(t)
        PROVE  FilesKept
    <2>1. fate'[head[t].n] \in {"delivered", "refused", "reported"}
      BY <1>4, SettledInHand
    <2>2. files' = files \ {head[t].n} \/ files' = files
      BY <1>4 DEF Remove
    <2> QED BY <2>1, <2>2 DEF FilesKept
  <1>5. ASSUME NEW t \in Targets, Deliver(t) \/ GiveUp(t) PROVE FilesKept
    <2>1. CASE Deliver(t)
      BY <1>4, <2>1 DEF Deliver, InHand
    <2>2. CASE GiveUp(t)
      BY <1>4, <2>2 DEF GiveUp, InHand
    <2> QED BY <1>5, <2>1, <2>2
  <1>6. CASE Refresh
    <2>1. UNCHANGED fate
      BY <1>6 DEF Refresh, admVars
    <2>2. \A f \in files \ files' : f \in cleanup
      BY <1>6 DEF Refresh
    <2>3. \A f \in files \ files' : f \in Events /\ EventOK(f) /\ Cleaning(f)
      BY <2>2 DEF Cleaning, Inv, Types, DiskTypes
    <2>4. \A f \in files \ files' : fate[f] \in {"delivered", "refused", "reported"}
      BY <2>3 DEF EventOK
    <2> QED BY <2>1, <2>4 DEF FilesKept
  <1>7. CASE Pop \/ PassEnds \/ Replay \/ Block \/ Wake
    <2>1. Pop \/ PassEnds \/ Block \/ Wake => UNCHANGED files
      BY Zenon DEF Pop, PassEnds, Block, Wake, diskVars
    <2>2. Replay => UNCHANGED files
      BY Zenon DEF Replay, diskVars
    <2> QED BY <1>0, <1>7, <2>1, <2>2
  <1>8. CASE Process \/ StartFlush \/ Crash
    BY <1>0, <1>8 DEF Process, RequestShutdown, ClearQueues, Exit, Restart, StartFlush, Crash, Down,
                      diskVars
  <1>9. CASE UNCHANGED vars
    BY <1>0, <1>9 DEF vars, diskVars
  <1> QED BY <1>0, <1>1, <1>2, <1>3, <1>5, <1>6, <1>7, <1>8, <1>9 DEF Next, Outcome, Replayer

\* A file leaves the disk only when the API has the event, has refused it, or its loss was reported,
\* whatever pressure, failing disk, shutdown, crash and replay did before.
THEOREM SpoolFilesOutliveTrouble == Spec => FilesOutliveTrouble
  <1>1. Inv /\ [Next]_vars => FilesKept
    BY FilesShrink
  <1>2. Inv /\ [Next]_vars
        => [\A f \in files \ files' : fate'[f] \in {"delivered", "refused", "reported"}]_vars
    BY <1>1 DEF FilesKept
  <1> QED BY <1>2, AlwaysInv, PTL DEF Spec, FilesOutliveTrouble
-----------------------------------------------------------------------------
(* The contract.                                                             *)

Waiting   == {n \in Outputs : fate[n] = "pending"}
Delivered == {n \in Outputs : fate[n] = "delivered"}
Lost      == {n \in Outputs : fate[n] \notin {"future", "pending", "delivered"}}

\* Events whose fate settles without delivery are lost together.
LEMMA SettlingLoses ==
  ASSUME \A n \in Outputs : \/ fate'[n] = fate[n]
                            \/ /\ fate[n] = "pending"
                               /\ fate'[n] \notin {"future", "pending", "delivered"}
  PROVE  Contract!Next
  <1> DEFINE S == {n \in Waiting : fate'[n] # "pending"}
  <1>1. S \in SUBSET Waiting
    OBVIOUS
  <1>2. Waiting' = Waiting \ S
    BY DEF Waiting
  <1>3. Lost' = Lost \cup S
    BY DEF Waiting, Lost
  <1>4. Delivered' = Delivered
    BY DEF Delivered
  <1> HIDE DEF S
  <1>5. Contract!Lose
    BY <1>1, <1>2, <1>3, <1>4 DEF Contract!Lose, Waiting, Lost, Delivered
  <1> QED BY <1>5 DEF Contract!Next

\* A settlement other than a delivery.
LEMMA SettleLoses ==
  ASSUME NEW S, NEW f \in {"rejected", "refused", "reported", "crashed", "abandoned"},
         fate' = Settle(S, f)
  PROVE  Contract!Next
  <1>1. \A n \in Outputs : n \in Events
    BY SpoolAssumption
  <1>2. \A n \in Outputs : \/ fate'[n] = fate[n]
                           \/ /\ fate[n] = "pending"
                              /\ fate'[n] \notin {"future", "pending", "delivered"}
    BY <1>1 DEF Settle
  <1> QED BY <1>2, SettlingLoses

\* An output that is accepted comes after all those of its target before it.
LEMMA EnqueueAccepts ==
  ASSUME Inv, NEW n \in Events, Enqueue(n)
  PROVE  Contract!Next
  <1>1. /\ fate[n] = "future" /\ fate' = [fate EXCEPT ![n] =
              IF n \notin Outputs /\ slots >= GlobalCap THEN "rejected" ELSE "pending"]
        /\ fate \in [Events -> Fates] /\ \A m \in Outputs : m \in Events
    BY SpoolAssumption DEF Enqueue, Inv, Types, AdmTypes
  <1>2. CASE n \notin Outputs
    <2>1. \A m \in Outputs : fate'[m] = fate[m]
      BY <1>1, <1>2
    <2> QED BY <2>1, SettlingLoses
  <1>3. CASE n \in Outputs
    <2>1. fate' = [fate EXCEPT ![n] = "pending"]
      BY <1>1, <1>3
    <2>2. Waiting' = Waiting \cup {n} /\ Delivered' = Delivered /\ Lost' = Lost
      BY <1>1, <1>3, <2>1 DEF Waiting, Delivered, Lost
    <2>3. n \in Outputs \ (Waiting \cup Delivered \cup Lost)
      BY <1>1, <1>3 DEF Waiting, Delivered, Lost
    <2>4. \A m \in Waiting \cup Delivered \cup Lost : ~ Contract!Earlier(n, m)
      <3>1. \A m \in Waiting \cup Delivered \cup Lost : m \in Events /\ fate[m] # "future"
        BY <1>1 DEF Waiting, Delivered, Lost
      <3> QED BY <1>1, <3>1 DEF Inv, FutureOK, Contract!Earlier
    <2>5. Contract!Accept(n)
      BY <2>2, <2>3, <2>4 DEF Contract!Accept, Waiting, Delivered, Lost
    <2> QED BY <1>3, <2>5 DEF Contract!Next
  <1> QED BY <1>2, <1>3

\* What is posted is the oldest output of its target that waits.
LEMMA CommitDelivers ==
  ASSUME Inv, NEW t \in Targets, owner[t] = "posting", fate' = Settle({head[t].n}, "delivered")
  PROVE  Contract!Next
  <1>1. PICK n : n = head[t].n
    OBVIOUS
  <1>2. /\ n \in Events /\ Owner[n] = t /\ \A m \in Outputs : m \in Events
    BY <1>1, InHandFacts, SpoolAssumption DEF InHand
  <1>3. CASE ~ (n \in Outputs /\ fate[n] = "pending")
    <2>1. \A m \in Outputs : fate'[m] = fate[m]
      BY <1>1, <1>2, <1>3 DEF Settle
    <2> QED BY <2>1, SettlingLoses
  <1>4. CASE n \in Outputs /\ fate[n] = "pending"
    <2>1. fate'[n] = "delivered" /\ \A m \in Outputs \ {n} : fate'[m] = fate[m]
      BY <1>1, <1>2, <1>4 DEF Settle
    <2>2. Waiting' = Waiting \ {n} /\ Delivered' = Delivered \cup {n} /\ Lost' = Lost
      BY <1>4, <2>1 DEF Waiting, Delivered, Lost
    <2>3. \A m \in Waiting : ~ Contract!Earlier(m, n)
      <3> SUFFICES ASSUME NEW m \in Waiting, Owner[m] = Owner[n], m < n PROVE FALSE
        BY DEF Contract!Earlier
      <3>1. m \in Outputs /\ fate[m] = "pending" /\ m \in Nat /\ n \in Nat
        BY <1>2, EventsAreNumbers DEF Waiting
      <3>2. n <= m
        BY <1>1, <1>2, <1>4, <3>1 DEF Inv, HeadFirst
      <3> QED BY <3>1, <3>2
    <2>4. Contract!Deliver(n)
      BY <1>4, <2>2, <2>3 DEF Contract!Deliver, Waiting, Delivered, Lost
    <2> QED BY <1>4, <2>4 DEF Contract!Next
  <1> QED BY <1>3, <1>4

LEMMA StepOfContract == Inv /\ [Next]_vars => Contract!Next
  <1> SUFFICES ASSUME Inv, [Next]_vars PROVE Contract!Next
    OBVIOUS
  <1>0. UNCHANGED fate => Contract!Next
    BY SettlingLoses
  <1>1. ASSUME NEW n \in Events, Enqueue(n) PROVE Contract!Next
    BY <1>1, EnqueueAccepts
  <1>2. ASSUME NEW n \in Events, Admission(n) PROVE Contract!Next
    <2>1. UNCHANGED fate \/ fate' = Settle({n}, "rejected")
      BY <1>2 DEF Admission, Send, SendRefused, Spill
    <2> QED BY <1>0, <2>1, SettleLoses
  <1>3. ASSUME NEW t \in Targets, Deliver(t) \/ AnswerLost(t) PROVE Contract!Next
    <2>1. owner[t] = "posting" /\ fate' = Settle({head[t].n}, "delivered")
      BY <1>3 DEF Deliver, AnswerLost
    <2> QED BY <2>1, CommitDelivers
  <1>4. ASSUME NEW t \in Targets, GiveUp(t) \/ Retain(t) \/ Defer(t) \/ Abandon(t)
        PROVE  Contract!Next
    <2>1. CASE GiveUp(t)
      BY <2>1, SettleLoses DEF GiveUp
    <2>2. CASE Retain(t)
      <3>1. UNCHANGED fate \/ fate' = Settle({head[t].n}, "reported")
        BY <2>2 DEF Retain
      <3> QED BY <1>0, <3>1, SettleLoses
    <2>3. CASE Defer(t)
      <3>1. UNCHANGED fate \/ fate' = Settle({head[t].n}, "reported")
        BY <2>3 DEF Defer
      <3> QED BY <1>0, <3>1, SettleLoses
    <2>4. CASE Abandon(t)
      <3>1. PICK S : fate' = Settle(S, "abandoned")
        BY <2>4 DEF Abandon
      <3> QED BY <3>1, SettleLoses
    <2> QED BY <1>4, <2>1, <2>2, <2>3, <2>4
  <1>5. ASSUME NEW t \in Targets, Check(t) \/ Take(t) \/ Post(t) \/ Finished(t)
        PROVE  UNCHANGED fate
    BY <1>5 DEF Check, Take, Post, Finished, admVars
  <1>6. Replayer => UNCHANGED fate
    <2>1. Refresh \/ Pop \/ PassEnds \/ Block \/ Wake => UNCHANGED fate
      BY Zenon DEF Refresh, Pop, PassEnds, Block, Wake, admVars
    <2>2. Replay => UNCHANGED fate
      BY Zenon DEF Replay, admVars
    <2> QED BY <2>1, <2>2 DEF Replayer
  <1>7. Process \/ StartFlush => UNCHANGED fate
    BY DEF Process, RequestShutdown, ClearQueues, Exit, Restart, StartFlush, admVars
  <1>8. Crash => Contract!Next
    BY SettleLoses DEF Crash
  <1>9. UNCHANGED vars => UNCHANGED fate
    BY DEF vars, admVars
  <1> QED BY <1>0, <1>1, <1>2, <1>3, <1>4, <1>5, <1>6, <1>7, <1>8, <1>9
          DEF Next, QueueOwner, Outcome

\* The forwarder implements its contract: the outputs of a client reach the API in the order in which
\* they were accepted, through RAM, spool, replay, retained heads and restarts; what is not delivered
\* is lost for good, never delivered after a later one.
THEOREM ForwarderImplementsContract == Spec => ImplementsContract
  <1>1. Init => Contract!Init
    BY SpoolAssumption DEF Init, Contract!Init
  <1>2. Inv /\ [Next]_vars => [Contract!Next]_(Contract!contractVars)
    BY StepOfContract
  <1> QED BY <1>1, <1>2, AlwaysInv, PTL DEF Spec, ImplementsContract, Contract!Spec

=============================================================================
