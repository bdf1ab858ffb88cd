----------------------------- MODULE DispatchFence -----------------------------
(***************************************************************************)
(* The dispatch fence of one client: how suspending, unsuspending and      *)
(* deleting a VPS is ordered against commands that were found eligible     *)
(* before.  Three parties take part.                                       *)
(*   - An operator's request, in the API, owns a fence in the gateway from *)
(*     before its database transaction until after the commit.             *)
(*   - A dispatch reads the cached gateway epoch, proves in the database   *)
(*     that its target is eligible, and then asks the gateway to enqueue.  *)
(*   - The agent's hello and telemetry make the client online and lift the *)
(*     fence they had observed before.                                     *)
(* A call to the gateway may time out in the API and still be executed     *)
(* later, a lease may run out at any time, and the gateway may restart and *)
(* forget all fences.                                                      *)
(***************************************************************************)
EXTENDS Naturals, FiniteSetsExt

CONSTANTS Ops,          \* operators' requests; an element is also its token
          Kind,         \* what each request asks for
          Together,     \* the sets of requests that may be made in one behaviour
          Jobs,         \* jobs with a claimed target on the client
          MaxContacts,  \* hellos and telemetry of the agent processed at a time
          MaxEpoch,     \* gateway processes
          MaxTimeouts,  \* calls to the gateway that the API gives up on
          NoOp, Lost, NoFence, NoFallback

Kinds == {"suspend", "unsuspend", "delete"}
Contacts == {"hello", "telemetry"}

ASSUME FenceAssumption ==
  /\ IsFiniteSet(Ops)
  /\ Kind \in [Ops -> Kinds]
  /\ Together \subseteq SUBSET Ops
  /\ MaxEpoch \in Nat \ {0}
  /\ MaxTimeouts \in Nat
  /\ MaxContacts \in 1..2
  /\ NoOp \notin Ops /\ Lost \notin Ops /\ Lost # NoOp

VARIABLES
  client,     \* clients.status
  target,     \* job_targets.status of every job
  rowLock,    \* the request whose transaction holds the client row
  committed,  \* the requests whose transaction was committed
  provenIn,   \* the gateway epoch of the last of them (history)
  op,         \* the progress of every request
  dispatch,   \* the progress of the dispatch of every job
  apiEpoch,   \* the gateway epoch the API has cached
  contact,    \* the hello and the telemetry being processed
  epoch,      \* the epoch of the running gateway process
  fence, latest, retired, session,             \* its state
  enqueued,   \* the jobs whose enqueue markers it holds
  late,       \* calls the API has given up on that may still arrive
  timeouts

db == <<client, target, rowLock, committed, provenIn>>
gateway == <<epoch, fence, latest, retired, enqueued, session>>
vars == <<db, op, dispatch, apiEpoch, contact, gateway, late, timeouts>>

\* A revoked client is refused like a deleted one; revocation takes no fence.
Barred == {"suspended", "deleted"}

OpTypes == [pc : {"acquire", "prepare", "retire", "begin", "proof", "commit",
                  "promote", "disconnect", "clear", "compensate", "done"},
            epoch : 0..MaxEpoch, gen : 0..Cardinality(Ops), protected : SUBSET Jobs]
DispatchTypes == [pc : {"idle", "check", "call"}, epoch : 0..MaxEpoch,
                  recheck : Ops \cup {NoOp}, retry : BOOLEAN]
ContactTypes == [pc : {"idle", "commit", "apply"}, seen : Ops \cup {NoOp, Lost}]
FallbackTypes == [owner : Ops, recheck : BOOLEAN]
FenceTypes == [owner : Ops, state : {"prepared", "persistent", "recheck"},
               fallback : FallbackTypes \cup {NoFallback}]
\* Neither stands for a fence.
ASSUME AbsenceAssumption == NoFallback \notin FallbackTypes /\ NoFence \notin FenceTypes

CallTypes == [type : {"acquire", "prepare", "retire", "promote", "disconnect",
                      "clear", "compensate"}, op : Ops]

\* The type of every variable; no generation is retired that this process never gave out.
TypeOK ==
  /\ client \in {"online", "offline"} \cup Barred
  /\ target \in [Jobs -> {"dispatching", "skipped", "agent_lost"}]
  /\ rowLock \in Ops \cup {NoOp}
  /\ committed \subseteq Ops
  /\ provenIn \in 0..MaxEpoch
  /\ op \in [Ops -> OpTypes]
  /\ dispatch \in [Jobs -> DispatchTypes]
  /\ apiEpoch \in 0..MaxEpoch
  /\ contact \in [Contacts -> ContactTypes]
  /\ epoch \in 1..MaxEpoch
  /\ fence \in FenceTypes \cup {NoFence}
  /\ latest \in [gen : 0..Cardinality(Ops), op : Ops \cup {NoOp}]
  /\ retired \in 0..latest.gen
  /\ enqueued \subseteq Jobs
  /\ session \in BOOLEAN
  /\ late \subseteq CallTypes
  /\ timeouts \in 0..MaxTimeouts

IdleDispatch == [pc |-> "idle", epoch |-> 0, recheck |-> NoOp, retry |-> FALSE]
IdleContact == [pc |-> "idle", seen |-> NoOp]

Init ==
  /\ client \in {"online", "offline", "suspended"}
  /\ target = [j \in Jobs |-> "dispatching"]
  /\ rowLock = NoOp
  /\ committed = {}
  /\ provenIn = 0
  /\ \E made \in Together :
       op = [o \in Ops |-> [pc |-> IF o \in made THEN "acquire" ELSE "done",
                            epoch |-> 0, gen |-> 0, protected |-> {}]]
  /\ dispatch = [j \in Jobs |-> IdleDispatch]
  /\ apiEpoch = 0
  /\ contact = [c \in Contacts |-> IdleContact]
  /\ epoch = 1
  /\ fence = NoFence
  /\ latest = [gen |-> 0, op |-> NoOp]
  /\ retired = 0
  /\ enqueued = {}
  /\ session = (client = "online")
  /\ late = {}
  /\ timeouts = 0

-----------------------------------------------------------------------------
(***************************************************************************)
(* The gateway's side.                                                     *)
(***************************************************************************)
Purpose(o) == IF Kind[o] = "delete" THEN "deletion" ELSE "suspension"

Supersedes(o) == Kind[o] = "unsuspend"

OwnedBy(o) == fence # NoFence /\ fence.owner = o

IsFallback(o) ==
  /\ fence # NoFence
  /\ fence.fallback # NoFallback
  /\ fence.fallback.owner = o

InEpoch(o) == op[o].epoch = epoch

Retired(o) == op[o].gen <= retired

\* The fence that stands may be replaced by one of request o.
Replaceable(o) ==
  \/ Supersedes(o) /\ Purpose(fence.owner) = "suspension" /\ fence.state = "prepared"
  \/ fence.state = "recheck"
  \/ /\ fence.state = "persistent"
     /\ Purpose(fence.owner) = "suspension" \/ Purpose(o) = "deletion"

RetireGenerations(o) == retired' = Max({retired, op[o].gen})

AcquireGranted(o) == fence = NoFence \/ Replaceable(o)

HandleAcquire(o) ==
  /\ latest' = IF AcquireGranted(o) THEN [gen |-> latest.gen + 1, op |-> o] ELSE latest
  /\ UNCHANGED <<epoch, fence, retired, enqueued, session>>

PrepareGranted(o) ==
  /\ InEpoch(o)
  /\ latest = [gen |-> op[o].gen, op |-> o]
  /\ ~ Retired(o)
  /\ fence = NoFence \/ Replaceable(o)

FallbackFor_AsItStands(o) ==
  IF fence = NoFence
  THEN NoFallback
  ELSE [owner |-> fence.owner, recheck |-> fence.state = "recheck"]

\* An unsuspension may have replaced a request whose outcome is unknown.
FallbackFor(o) ==
  IF fence = NoFence
  THEN NoFallback
  ELSE [owner |-> fence.owner, recheck |-> Supersedes(o) \/ fence.state = "recheck"]

HandlePrepare(o) ==
  /\ IF PrepareGranted(o)
     THEN /\ fence' = [owner |-> o, state |-> "prepared", fallback |-> FallbackFor(o)]
          /\ IF fence = NoFence THEN UNCHANGED retired ELSE RetireGenerations(fence.owner)
     ELSE UNCHANGED <<fence, retired>>
  /\ UNCHANGED <<epoch, latest, enqueued, session>>

\* A renewal, as the proof before the commit: the ownership was never interrupted.
Continuous(o) ==
  /\ InEpoch(o) /\ OwnedBy(o) /\ ~ Retired(o)
  /\ fence.state # "recheck"
  /\ enqueued \subseteq op[o].protected

HandlePromote(o) ==
  /\ fence' = IF InEpoch(o) /\ OwnedBy(o) /\ ~ Retired(o)
              THEN [owner |-> o, state |-> "persistent", fallback |-> NoFallback]
              ELSE fence
  /\ UNCHANGED <<epoch, latest, retired, enqueued, session>>

Restored_Dropped(fallback) == NoFence

Restored(fallback) ==
  [owner |-> fallback.owner,
   state |-> IF fallback.recheck THEN "recheck" ELSE "persistent",
   fallback |-> NoFallback]

\* Mutant: the clear of a request is obeyed by a later gateway process too.
HandleClear_OfAnyEpoch(o, restoreFallback) ==
  /\ IF Retired(o) /\ (OwnedBy(o) \/ IsFallback(o))
     THEN UNCHANGED <<fence, retired>>
     ELSE /\ fence' = CASE ~ OwnedBy(o) -> fence
                        [] OwnedBy(o) /\ restoreFallback /\ fence.fallback # NoFallback
                             -> Restored(fence.fallback)
                        [] OTHER -> NoFence
          /\ IF IsFallback(o) THEN UNCHANGED retired ELSE RetireGenerations(o)
  /\ UNCHANGED <<epoch, latest, enqueued, session>>

HandleClear(o, restoreFallback) ==
  /\ IF ~ InEpoch(o) \/ (Retired(o) /\ (OwnedBy(o) \/ IsFallback(o)))
     THEN UNCHANGED <<fence, retired>>
     ELSE /\ fence' = CASE ~ OwnedBy(o) -> fence
                        [] OwnedBy(o) /\ restoreFallback /\ fence.fallback # NoFallback
                             -> Restored(fence.fallback)
                        [] OTHER -> NoFence
          /\ IF IsFallback(o) THEN UNCHANGED retired ELSE RetireGenerations(o)
  /\ UNCHANGED <<epoch, latest, enqueued, session>>

HandleDisconnect(o) ==
  /\ session' = (session /\ ~ (InEpoch(o) /\ OwnedBy(o) /\ ~ Retired(o)
                               /\ fence.state = "persistent"))
  /\ UNCHANGED <<epoch, fence, latest, retired, enqueued>>

\* What the gateway does with a call of each type.
Handle(type, o) ==
  CASE type = "acquire" -> HandleAcquire(o)
    [] type = "prepare" -> HandlePrepare(o)
    [] type = "promote" -> HandlePromote(o)
    [] type = "disconnect" -> HandleDisconnect(o)
    [] type = "clear" -> HandleClear(o, FALSE)
    [] type \in {"retire", "compensate"} -> HandleClear(o, TRUE)

\* normalize_expired_dispatch_fence: a lease that ran out keeps the whole transition.
LeaseExpires ==
  /\ fence # NoFence /\ fence.state = "prepared"
  /\ fence' = [fence EXCEPT !.state = "recheck"]
  /\ UNCHANGED <<db, op, dispatch, apiEpoch, contact, epoch, latest, retired, enqueued,
                 session, late, timeouts>>

\* The session is gone: telemetry of it refreshes nothing any more.
SessionGone ==
  contact' = [contact EXCEPT !["telemetry"].seen =
                IF contact["telemetry"].pc = "idle" THEN NoOp ELSE Lost]

SessionEnds ==
  /\ session
  /\ session' = FALSE
  /\ SessionGone
  /\ UNCHANGED <<db, op, dispatch, apiEpoch, epoch, fence, latest, retired, enqueued,
                 late, timeouts>>

\* A new gateway process: a hello or telemetry of the old one may still be in the API.
Restart ==
  /\ epoch < MaxEpoch
  /\ epoch' = epoch + 1
  /\ fence' = NoFence
  /\ latest' = [gen |-> 0, op |-> NoOp]
  /\ retired' = 0
  /\ enqueued' = {}
  /\ session' = FALSE
  /\ late' = {}
  /\ contact' = [c \in Contacts |->
                   IF contact[c].pc = "commit" THEN [pc |-> "commit", seen |-> Lost]
                                               ELSE IdleContact]
  /\ UNCHANGED <<db, op, dispatch, apiEpoch, timeouts>>
-----------------------------------------------------------------------------
(***************************************************************************)
(* An operator's request in the API.                                       *)
(***************************************************************************)
\* The protected jobs matter until the transaction ends.
Goto(o, pc) ==
  op' = [op EXCEPT ![o].pc = pc,
                   ![o].protected = IF pc \in {"begin", "proof", "commit"} THEN @ ELSE {}]

\* The call is answered in time; granted decides how the request goes on.
NextStep(o, granted) ==
  CASE op[o].pc = "acquire"  -> IF granted THEN "prepare" ELSE "done"
    [] op[o].pc = "prepare"  -> IF granted THEN "begin" ELSE "retire"
    [] op[o].pc = "promote"  -> IF Kind[o] = "delete" THEN "disconnect" ELSE "done"
    [] OTHER -> "done"

Acquire(o) ==
  /\ op[o].pc = "acquire"
  /\ HandleAcquire(o)
  /\ op' = [op EXCEPT ![o].pc = NextStep(o, AcquireGranted(o)),
                      ![o].epoch = IF AcquireGranted(o) THEN epoch ELSE 0,
                      ![o].gen = IF AcquireGranted(o) THEN latest.gen + 1 ELSE 0]
  /\ UNCHANGED <<db, dispatch, apiEpoch, contact, late, timeouts>>

Prepare(o) ==
  /\ op[o].pc = "prepare"
  /\ HandlePrepare(o)
  /\ op' = [op EXCEPT ![o].pc = NextStep(o, PrepareGranted(o)),
                      ![o].protected = IF PrepareGranted(o) THEN enqueued ELSE {}]
  /\ UNCHANGED <<db, dispatch, apiEpoch, contact, late, timeouts>>

FinalCalls == {"retire", "promote", "disconnect", "clear", "compensate"}

Finalize(o) ==
  /\ op[o].pc \in FinalCalls
  /\ Handle(op[o].pc, o)
  /\ Goto(o, NextStep(o, TRUE))
  /\ IF session /\ ~ session' THEN SessionGone ELSE UNCHANGED contact
  /\ UNCHANGED <<db, dispatch, apiEpoch, late, timeouts>>

\* The API gives up on a call, which the gateway may execute later or never.
TimesOut(o) ==
  /\ op[o].pc \in FinalCalls \cup {"acquire", "prepare"}
  /\ timeouts < MaxTimeouts
  /\ timeouts' = timeouts + 1
  /\ late' = late \cup {[type |-> op[o].pc, op |-> o]}
  /\ Goto(o, NextStep(o, FALSE))
  /\ UNCHANGED <<db, dispatch, apiEpoch, contact, gateway>>

ArrivesLate ==
  \E call \in late :
    /\ Handle(call.type, call.op)
    /\ late' = late \ {call}
    /\ IF session /\ ~ session' THEN SessionGone ELSE UNCHANGED contact
    /\ UNCHANGED <<db, op, dispatch, apiEpoch, timeouts>>

\* The transaction locks the client row and applies or rejects the change.
BeginOutcome(o) ==
  CASE Kind[o] = "suspend"   -> IF client = "offline" THEN "proof" ELSE "compensate"
    [] Kind[o] = "unsuspend" -> IF client = "suspended" THEN "proof"
                                ELSE IF client = "deleted" THEN "compensate" ELSE "clear"
    [] OTHER                 -> "proof"

Begin(o) ==
  /\ op[o].pc = "begin"
  /\ rowLock = NoOp
  /\ Goto(o, BeginOutcome(o))
  /\ rowLock' = IF BeginOutcome(o) = "proof" THEN o ELSE NoOp
  /\ UNCHANGED <<client, target, committed, provenIn, dispatch, apiEpoch, contact, gateway,
                 late, timeouts>>

\* Port forwarding that is not cleaned up rejects a deletion.
RejectDelete(o) ==
  /\ op[o].pc = "begin"
  /\ Kind[o] = "delete"
  /\ rowLock = NoOp
  /\ Goto(o, "compensate")
  /\ UNCHANGED <<db, dispatch, apiEpoch, contact, gateway, late, timeouts>>

Proof(o) ==
  /\ op[o].pc = "proof"
  /\ Continuous(o)
  /\ Goto(o, "commit")
  /\ UNCHANGED <<db, dispatch, apiEpoch, contact, gateway, late, timeouts>>

\* A failed proof, a database error, or a dead API: the transaction is rolled back and
\* the fence stays as it is.
Rollback(o) ==
  /\ op[o].pc \in {"begin", "proof", "commit"}
  /\ Goto(o, "done")
  /\ rowLock' = IF rowLock = o THEN NoOp ELSE rowLock
  /\ UNCHANGED <<client, target, committed, provenIn, dispatch, apiEpoch, contact, gateway,
                 late, timeouts>>

SkipUndelivered_AlsoProtected(protected) ==
  target' = [j \in Jobs |-> IF target[j] = "dispatching" THEN "skipped" ELSE target[j]]

SkipUndelivered(protected) ==
  target' = [j \in Jobs |-> IF target[j] = "dispatching" /\ j \notin protected
                            THEN "skipped" ELSE target[j]]

ApplyChange(o) ==
  CASE Kind[o] = "suspend"   -> /\ client' = "suspended"
                                /\ SkipUndelivered(op[o].protected)
    [] Kind[o] = "unsuspend" -> /\ client' = "offline"
                                /\ UNCHANGED target
    [] OTHER                 -> /\ client' = "deleted"
                                /\ target' = [j \in Jobs |->
                                     IF target[j] = "dispatching" THEN "agent_lost"
                                                                  ELSE target[j]]

\* The commit; its outcome may be unknown to the request.
Commit(o) ==
  /\ op[o].pc = "commit"
  /\ ApplyChange(o)
  /\ rowLock' = NoOp
  /\ committed' = committed \cup {o}
  /\ provenIn' = op[o].epoch
  /\ \E pc \in {IF Kind[o] = "unsuspend" THEN "clear" ELSE "promote", "done"} : Goto(o, pc)
  /\ UNCHANGED <<dispatch, apiEpoch, contact, gateway, late, timeouts>>
-----------------------------------------------------------------------------
(***************************************************************************)
(* The dispatch of a claimed target.                                       *)
(***************************************************************************)
ReadEpoch(j) ==
  /\ dispatch[j].pc = "idle"
  /\ dispatch' = [dispatch EXCEPT ![j] = [IdleDispatch EXCEPT !.pc = "check",
                                                              !.epoch = apiEpoch]]
  /\ UNCHANGED <<db, op, apiEpoch, contact, gateway, late, timeouts>>

\* claimed_job_target_dispatchable; of a suspended client it skips every target.
CheckDispatchable(j) ==
  /\ dispatch[j].pc = "check"
  /\ rowLock = NoOp
  /\ IF client = "suspended" THEN SkipUndelivered({}) ELSE UNCHANGED target
  /\ dispatch' = [dispatch EXCEPT ![j] =
                    IF client \notin Barred /\ target[j] = "dispatching"
                    THEN [@ EXCEPT !.pc = "call"] ELSE IdleDispatch]
  /\ UNCHANGED <<client, rowLock, committed, provenIn, op, apiEpoch, contact, gateway, late, timeouts>>

\* The gateway would pass this dispatch on to a session.
PassesFence(j) ==
  /\ dispatch[j].pc = "call"
  /\ dispatch[j].epoch = epoch
  /\ IF fence = NoFence
     THEN dispatch[j].recheck = NoOp
     ELSE fence.state = "recheck" /\ dispatch[j].recheck = fence.owner

Enqueue(j) ==
  /\ PassesFence(j)
  /\ session
  /\ enqueued' = enqueued \cup {j}
  /\ dispatch' = [dispatch EXCEPT ![j] = IdleDispatch]
  /\ UNCHANGED <<db, op, apiEpoch, contact, epoch, fence, latest, retired, session,
                 late, timeouts>>

\* The marker of an enqueued command is dropped at its expiry, three hours at the latest,
\* whether or not the command has ended.
MarkerExpires(j) ==
  /\ j \in enqueued
  /\ enqueued' = enqueued \ {j}
  /\ UNCHANGED <<db, op, dispatch, apiEpoch, contact, epoch, fence, latest, retired, session,
                 late, timeouts>>

\* The gateway asks for a fresh proof, once.
EpochRecheck(j) ==
  /\ dispatch[j].pc = "call" /\ ~ dispatch[j].retry
  /\ dispatch[j].epoch # epoch
  /\ apiEpoch' = epoch
  /\ dispatch' = [dispatch EXCEPT ![j] = [@ EXCEPT !.pc = "check", !.epoch = epoch,
                                                   !.retry = TRUE]]
  /\ UNCHANGED <<db, op, contact, gateway, late, timeouts>>

LifecycleRecheck_NoFreshProof(j) ==
  /\ dispatch[j].pc = "call" /\ ~ dispatch[j].retry
  /\ dispatch[j].epoch = epoch
  /\ fence # NoFence /\ fence.state = "recheck"
  /\ dispatch' = [dispatch EXCEPT ![j] = [@ EXCEPT !.retry = TRUE, !.recheck = fence.owner]]
  /\ UNCHANGED <<db, op, apiEpoch, contact, gateway, late, timeouts>>

LifecycleRecheck(j) ==
  /\ dispatch[j].pc = "call" /\ ~ dispatch[j].retry
  /\ dispatch[j].epoch = epoch
  /\ fence # NoFence /\ fence.state = "recheck"
  /\ dispatch' = [dispatch EXCEPT ![j] = [@ EXCEPT !.pc = "check", !.retry = TRUE,
                                                   !.recheck = fence.owner]]
  /\ UNCHANGED <<db, op, apiEpoch, contact, gateway, late, timeouts>>

\* Refused by the gateway, no session within the grace period, or a lost answer: the
\* target is dispatched again when its lease ends.
GiveUp(j) ==
  /\ dispatch[j].pc = "call"
  /\ dispatch' = [dispatch EXCEPT ![j] = IdleDispatch]
  /\ UNCHANGED <<db, op, apiEpoch, contact, gateway, late, timeouts>>
-----------------------------------------------------------------------------
(***************************************************************************)
(* The agent.                                                              *)
(***************************************************************************)
StableOwner == IF fence # NoFence /\ fence.state # "prepared" THEN fence.owner ELSE NoOp

Observe(c) ==
  /\ contact[c].pc = "idle"
  /\ c = "telemetry" => session
  /\ Quantify(Contacts, LAMBDA k : contact[k].pc # "idle") < MaxContacts
  /\ contact' = [contact EXCEPT ![c] = [pc |-> "commit", seen |->
       IF c = "telemetry" /\ StableOwner # NoOp /\ Purpose(StableOwner) = "deletion"
       THEN NoOp ELSE StableOwner]]
  /\ UNCHANGED <<db, op, dispatch, apiEpoch, gateway, late, timeouts>>

\* An accepted hello ends a suspension.
CommitHello ==
  /\ contact["hello"].pc = "commit"
  /\ rowLock = NoOp
  /\ client' = IF client = "deleted" THEN client ELSE "online"
  /\ contact' = [contact EXCEPT !["hello"] =
                   IF client = "deleted" \/ @.seen = Lost THEN IdleContact
                   ELSE [@ EXCEPT !.pc = "apply"]]
  /\ UNCHANGED <<target, rowLock, committed, provenIn, op, dispatch, apiEpoch, gateway, late, timeouts>>

MayLift(o) ==
  /\ OwnedBy(o)
  /\ Purpose(o) = "deletion" => fence.state = "recheck"

LiftFence ==
  /\ fence' = NoFence
  /\ RetireGenerations(fence.owner)

RegisterSession ==
  /\ contact["hello"].pc = "apply"
  /\ IF fence = NoFence \/ MayLift(contact["hello"].seen)
     THEN /\ IF fence = NoFence THEN UNCHANGED <<fence, retired>> ELSE LiftFence
          /\ session' = TRUE
          /\ contact' = [contact EXCEPT !["hello"] = IdleContact,
                           !["telemetry"].seen = IF contact["telemetry"].pc = "idle"
                                                 THEN NoOp ELSE Lost]
     ELSE /\ contact' = [contact EXCEPT !["hello"] = IdleContact]
          /\ UNCHANGED <<fence, retired, session>>
  /\ UNCHANGED <<db, op, dispatch, apiEpoch, epoch, latest, enqueued, late, timeouts>>

\* Telemetry of a suspended client is refused and costs it the session.
CommitTelemetry ==
  /\ contact["telemetry"].pc = "commit"
  /\ rowLock = NoOp
  /\ IF client \in Barred
     THEN /\ session' = (session /\ contact["telemetry"].seen = Lost)
          /\ contact' = [contact EXCEPT !["telemetry"] = IdleContact]
          /\ UNCHANGED client
     ELSE /\ client' = "online"
          /\ contact' = [contact EXCEPT !["telemetry"] =
                           IF @.seen \in Ops THEN [@ EXCEPT !.pc = "apply"]
                                             ELSE IdleContact]
          /\ UNCHANGED session
  /\ UNCHANGED <<target, rowLock, committed, provenIn, op, dispatch, apiEpoch, epoch, fence, latest,
                 retired, enqueued, late, timeouts>>

RefreshRoute ==
  /\ contact["telemetry"].pc = "apply"
  /\ contact' = [contact EXCEPT !["telemetry"] = IdleContact]
  /\ IF /\ OwnedBy(contact["telemetry"].seen)
        /\ fence.state # "prepared"
     THEN LiftFence
     ELSE UNCHANGED <<fence, retired>>
  /\ UNCHANGED <<db, op, dispatch, apiEpoch, epoch, latest, enqueued, session, late, timeouts>>

\* The connection breaks off before the hello is registered.
DropHello ==
  /\ contact["hello"].pc = "apply"
  /\ contact' = [contact EXCEPT !["hello"] = IdleContact]
  /\ UNCHANGED <<db, op, dispatch, apiEpoch, gateway, late, timeouts>>

\* The worker's sweep, or the end of the session, as the database learns of it.
GoOffline ==
  /\ client = "online"
  /\ rowLock = NoOp
  /\ client' = "offline"
  /\ UNCHANGED <<target, rowLock, committed, provenIn, op, dispatch, apiEpoch, contact, gateway,
                 late, timeouts>>
-----------------------------------------------------------------------------
OpStep(o) ==
  \/ Acquire(o) \/ Prepare(o) \/ Finalize(o) \/ TimesOut(o)
  \/ Begin(o) \/ RejectDelete(o) \/ Proof(o) \/ Rollback(o) \/ Commit(o)

DispatchStep(j) ==
  \/ ReadEpoch(j) \/ CheckDispatchable(j) \/ Enqueue(j) \/ MarkerExpires(j)
  \/ EpochRecheck(j) \/ LifecycleRecheck(j) \/ GiveUp(j)

AgentStep ==
  \/ \E c \in Contacts : Observe(c)
  \/ CommitHello \/ RegisterSession \/ DropHello
  \/ CommitTelemetry \/ RefreshRoute

Next ==
  \/ \E o \in Ops : OpStep(o)
  \/ \E j \in Jobs : DispatchStep(j)
  \/ AgentStep
  \/ ArrivesLate \/ LeaseExpires \/ SessionEnds \/ Restart \/ GoOffline

Spec == Init /\ [][Next]_vars
-----------------------------------------------------------------------------
\* No dispatch gets past the fence check of dispatch_gateway_command while the database
\* has the client suspended or deleted, whatever eligibility it had proved before: the
\* lease may have run out between the proof and the commit, the gateway may have been
\* restarted, and calls of other requests may arrive late.
NoDispatchWhileBarred == client \in Barred => ~ \E j \in Jobs : PassesFence(j)

\* While the gateway process lives in which a suspension or deletion was proved before
\* its commit, some fence stands until the client is readmitted: no compensation,
\* clearing or route refresh of another request removes the last one.
BarredIsFenced == client \in Barred /\ provenIn = epoch => fence # NoFence

\* A fence that refuses commands for good, or that would do so when a compensation
\* restores it, belongs to a suspension or deletion that was committed; one whose
\* outcome is unknown only asks for a recheck.
PersistentIsCommitted ==
  fence # NoFence =>
    /\ fence.state = "persistent" => fence.owner \in committed
    /\ fence.fallback # NoFallback /\ ~ fence.fallback.recheck
         => fence.fallback.owner \in committed

\* The transaction of a suspension skips no target whose enqueue marker the gateway still
\* holds: the list of jobs that came with the fence is complete at the commit, whatever
\* was given to a session, or forgotten, in between.  A command that outlives its marker
\* is not protected.
SkipSparesMarked ==
  [][client # "suspended" /\ client' = "suspended"
       => \A j \in enqueued : target'[j] = target[j]]_vars
-----------------------------------------------------------------------------
(***************************************************************************)
(* Why they hold: the parts of the inductive invariant.                    *)
(***************************************************************************)
\* The suspensions and deletions that were committed.
Bars == {o \in committed : Kind[o] # "unsuspend"}

\* Request o is about to make a call of one of these types, or has given up on one
\* that may still arrive.
Pending(o, types) ==
  op[o].pc \in types \/ \E type \in types : [type |-> type, op |-> o] \in late

\* The gateway has not executed the preparation of o.
Unprepared(o) == Pending(o, {"acquire", "prepare"})

\* The transaction of o holds the client row.
LockOK == \A o \in Ops : op[o].pc \in {"proof", "commit"} <=> rowLock = o

\* A request gives up on no call before its transaction; what follows the transaction
\* depends on how it ended.
CallsOK ==
  \A o \in Ops :
    /\ op[o].pc \in {"acquire", "prepare", "begin", "proof", "commit"}
         => \A call \in late : call.op # o
    /\ Pending(o, {"acquire"}) => ~ Pending(o, {"prepare"})
    /\ Pending(o, {"promote", "disconnect"}) => o \in Bars
    /\ Pending(o, {"clear"}) => Kind[o] = "unsuspend" /\ ~ Unprepared(o)
    /\ o \in committed => /\ ~ Pending(o, {"retire", "compensate"})
                          /\ ~ Unprepared(o)
                          /\ op[o].pc \notin {"begin", "proof", "commit"}

\* Nobody knows of a gateway process before it runs, nor of a generation of the running
\* one before it was given out.
EpochsOK ==
  /\ apiEpoch <= epoch /\ provenIn <= epoch
  /\ \A o \in Ops : /\ op[o].epoch <= epoch
                    /\ InEpoch(o) => op[o].gen <= latest.gen
  /\ \A j \in Jobs : dispatch[j].epoch <= epoch

\* A request is known to others only by a fence it has prepared, in the running gateway
\* process, ...
FreshOK ==
  \A o \in Ops :
    /\ OwnedBy(o) \/ IsFallback(o) => InEpoch(o)
    /\ Unprepared(o) => /\ ~ OwnedBy(o) /\ ~ IsFallback(o)
                        /\ \A c \in Contacts : contact[c].seen # o
                        /\ \A j \in Jobs : dispatch[j].recheck # o

\* ... and the agent and the dispatches know of it only once its lease has run out or
\* it was promoted, from when on it is never in preparation again.
StableOK ==
  fence # NoFence /\ fence.state = "prepared" =>
    /\ \A c \in Contacts : contact[c].seen # fence.owner
    /\ \A j \in Jobs : dispatch[j].recheck # fence.owner

\* Neither the agent nor a dispatch gets past a fence of o on the strength of what it
\* has learnt and had committed before.
Firm(o) ==
  /\ \A c \in Contacts : contact[c].pc = "apply" => contact[c].seen # o
  /\ \A j \in Jobs : dispatch[j].pc = "call" /\ dispatch[j].epoch = epoch
                       => dispatch[j].recheck # o

\* A fence stands that nobody passes, and what may still remove it brings back one like
\* it: its owner is retired, or has barred the client or is o, or has a retired fallback.
Held(o) ==
  /\ fence # NoFence
  /\ Firm(fence.owner)
  /\ \/ Retired(fence.owner)
     \/ fence.owner \in Bars \/ fence.owner = o
     \/ /\ ~ Pending(fence.owner, {"clear"})
        /\ fence.fallback # NoFallback
        /\ Firm(fence.fallback.owner)
        /\ Retired(fence.fallback.owner)

\* From its proof on, a suspension or deletion is about to bar the client.
Barring(o) == op[o].pc = "commit" /\ Kind[o] # "unsuspend"

\* In the gateway process of the proof the fence holds from the proof to the commit and
\* from there until the client is readmitted; ...
HeldOK ==
  /\ client \in Barred /\ provenIn = epoch => Held(NoOp)
  /\ \A o \in Ops : Barring(o) /\ InEpoch(o) => Held(o)

\* ... of a later process no dispatch has learnt that was found eligible in between.
LaterEpochOK ==
  \A j \in Jobs : dispatch[j].pc = "call" /\ dispatch[j].epoch = epoch =>
    /\ client \in Barred => provenIn = epoch
    /\ \A o \in Ops : Barring(o) => InEpoch(o)

\* The commands a suspension knows of are all whose markers the gateway holds.
ProtectedOK ==
  \A o \in Ops : Barring(o) => enqueued \subseteq op[o].protected

\* Every execution of an acquisition has its own generation.
GenerationsOK ==
  latest.gen + Cardinality({o \in Ops : Pending(o, {"acquire"})}) <= Cardinality(Ops)

IndInv ==
  /\ TypeOK /\ GenerationsOK /\ LockOK /\ CallsOK /\ EpochsOK
  /\ FreshOK /\ StableOK /\ HeldOK /\ LaterEpochOK /\ ProtectedOK
  /\ PersistentIsCommitted
=============================================================================
