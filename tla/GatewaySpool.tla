----------------------------- MODULE GatewaySpool -----------------------------
(***************************************************************************)
(* The gateway's event forwarder: per-client queues in RAM with one owner  *)
(* task each, the disk spool that takes what RAM and the queues cannot,    *)
(* the replayer that brings spooled files back into the queues, delivery   *)
(* to the API, graceful shutdown, crash and restart.                       *)
(*                                                                         *)
(* An event is a number: for one client, numbers are in the order of       *)
(* enqueue_seq.  Outputs are the critical command and terminal outputs,    *)
(* which spool under pressure; the other events are lifecycle events.      *)
(* Telemetry has its own coalescing slot and is not modelled.  Every event *)
(* has the same size, so byte caps count events.                           *)
(***************************************************************************)
EXTENDS Naturals, Sequences, FiniteSets

CONSTANTS
    Targets,      \* target keys (clients)
    Events,       \* events, numbered in enqueue order for each target
    Owner,        \* the target of each event
    Outputs,      \* events for which event_spools_under_pressure holds
    QueueCap,     \* PER_TARGET_QUEUE_CAPACITY
    GlobalCap,    \* GLOBAL_QUEUE_CAPACITY
    RamCap,       \* spool ram_max_bytes, in events
    DiskCap,      \* spool disk_max_bytes, in events
    MaxFaults,    \* bound on failing disk operations
    MaxRestarts   \* bound on restarts of the gateway process

ASSUME SpoolAssumption ==
    /\ Events \subseteq Nat \ {0} /\ Outputs \subseteq Events      \* 0 is no event
    /\ IsFiniteSet(Events) /\ IsFiniteSet(Targets)
    /\ Owner \in [Events -> Targets]
    /\ QueueCap \in Nat \ {0} /\ GlobalCap \in Nat \ {0}
    /\ RamCap \in Nat /\ DiskCap \in Nat
    /\ MaxFaults \in Nat /\ MaxRestarts \in Nat

VARIABLES
    \* What became of each event, and the step its admission has reached.
    fate, adm,
    \* Per target: the mpsc queue, its entry in the queues map, the owner task.
    queue, open, owner, head,
    \* current_queue_depth and ram_bytes.
    slots, ram,
    \* The disk: pending spool files (accounted at every moment).
    files, faults,
    \* The spool's replay bookkeeping, shared by all tasks.
    arrivals, watched, ready, wake, cleanup, dormant,
    \* The replay task: its index, its blocked targets and its position.
    index, blocked, replay,
    \* The process.
    phase, restarts

admVars    == <<fate, adm>>
queueVars  == <<queue, open, owner, head>>
countVars  == <<slots, ram>>
diskVars   == <<files, faults>>
signalVars == <<wake, cleanup, dormant>>
replayVars == <<index, blocked, replay>>
procVars   == <<phase, restarts>>
vars == <<admVars, queueVars, countVars, diskVars, arrivals, watched, ready,
          signalVars, replayVars, procVars>>

Fates  == {"future", "pending", "delivered", "rejected", "refused",
           "reported", "crashed", "abandoned"}
Item   == [n : Events, disk : BOOLEAN]
Busy   == [n : Events, disk : BOOLEAN, ram : BOOLEAN]
NoHead == [n |-> 0, disk |-> FALSE, ram |-> FALSE]
NoCur  == 0

Stopping == phase \in {"stopping", "cleared"}      \* shutdown_requested

\* Record the fate of S unless it was settled before.
Settle(S, f) ==
    [n \in Events |-> IF n \in S /\ fate[n] = "pending" THEN f ELSE fate[n]]

-----------------------------------------------------------------------------
(***************************************************************************)
(* The spool.                                                              *)
(***************************************************************************)

\* notify_replay_activity (when act) and the queueing of a delivered file
\* whose removal failed.  An activity reactivates one dormant cleanup;
\* the one being tried while it comes counts as dormant already, since the try is
\* one step here.
Signal(act, failed) ==
    /\ wake' = (wake \/ act \/ failed # {})
    /\ \E up \in IF act /\ dormant # {} THEN {{d} : d \in dormant} ELSE {{}} :
        /\ cleanup' = cleanup \cup failed \cup up
        /\ dormant' = dormant \ up

\* Mutant: the fence looks only at files the replayer has not taken yet.
HasPending_Untaken(t) == \E f \in files \cap (index \cup arrivals) : Owner[f] = t

\* target_has_pending: the replay fence of a target.
HasPending(t) == \E f \in files : Owner[f] = t

DiskFull == Cardinality(files) + 1 > DiskCap

\* persist_spool_event succeeds; publish: it is put before the replayer.
Persist(n, publish) ==
    /\ ~ DiskFull
    /\ files' = files \cup {n}
    /\ arrivals' = IF publish THEN arrivals \cup {n} ELSE arrivals
    /\ UNCHANGED faults

\* persist_spool_event fails: the cap, or a disk error (freed: the caller
\* releases a queue slot at the global cap in the same step).
PersistFails(freed) ==
    \/ DiskFull /\ Signal(dormant # {} \/ freed, {}) /\ UNCHANGED <<diskVars, arrivals>>
    \/ /\ ~ DiskFull /\ faults < MaxFaults /\ faults' = faults + 1
       /\ Signal(freed, {}) /\ UNCHANGED <<files, arrivals>>

-----------------------------------------------------------------------------
(***************************************************************************)
(* Admission.                                                              *)
(***************************************************************************)

\* enqueue and the first half of enqueue_event: outputs of a target hold its
\* admission lane; the event spools behind pending files, at the global cap
\* or without RAM, and else reserves RAM.  Lifecycle events never spool here.
\* Terminal output other than a final status takes part in RAM and order like
\* an output but may be dropped under pressure; it is left out.
Enqueue(n) ==
    LET full  == slots >= GlobalCap
        spill == n \in Outputs
                 /\ (HasPending(Owner[n]) \/ full \/ ram + 1 > RamCap)
        drop  == n \notin Outputs /\ full
    IN  /\ phase = "up" /\ fate[n] = "future"
        /\ \A m \in Events : Owner[m] = Owner[n] /\ m < n => fate[m] # "future"
        /\ n \in Outputs =>
             \A m \in Outputs : Owner[m] = Owner[n] => adm[m] = "none"
        /\ fate' = [fate EXCEPT ![n] = IF drop THEN "rejected" ELSE "pending"]
        /\ adm' = [adm EXCEPT ![n] = IF drop THEN "none"
                                     ELSE IF spill THEN "spool" ELSE "send"]
        /\ ram' = IF drop \/ spill THEN ram ELSE ram + 1
        /\ UNCHANGED <<queueVars, slots, diskVars, arrivals, watched, ready,
                       signalVars, replayVars, procVars>>

\* Mutant: a refused send keeps the RAM it reserved.
SendRefused_KeepRam(n) ==
    /\ fate' = IF n \in Outputs THEN fate ELSE Settle({n}, "rejected")
    /\ adm' = [adm EXCEPT ![n] = IF n \in Outputs THEN "spool" ELSE "none"]
    /\ UNCHANGED ram

\* The queue did not take the event: its RAM is released, an output spools,
\* another event is dropped and its producer told.
SendRefused(n) ==
    /\ fate' = IF n \in Outputs THEN fate ELSE Settle({n}, "rejected")
    /\ adm' = [adm EXCEPT ![n] = IF n \in Outputs THEN "spool" ELSE "none"]
    /\ ram' = ram - 1

\* enqueue_queue_item for an event in RAM: reserve a slot, find or create the
\* target's queue and its owner, try_send.
Send(n) ==
    LET t == Owner[n] IN
    /\ adm[n] = "send"
    /\ \/ /\ slots >= GlobalCap
          /\ SendRefused(n) /\ UNCHANGED <<queueVars, slots, signalVars>>
       \/ /\ slots < GlobalCap /\ Len(queue[t]) >= QueueCap
          /\ SendRefused(n) /\ Signal(slots + 1 = GlobalCap, {})
          /\ UNCHANGED <<queueVars, slots>>
       \/ /\ slots < GlobalCap /\ Len(queue[t]) < QueueCap
          /\ queue' = [queue EXCEPT ![t] = Append(@, [n |-> n, disk |-> FALSE])]
          /\ open' = [open EXCEPT ![t] = TRUE]
          /\ owner' = [owner EXCEPT ![t] = IF @ = "none" THEN "top" ELSE @]
          /\ slots' = slots + 1
          /\ adm' = [adm EXCEPT ![n] = "none"]
          /\ UNCHANGED <<fate, head, ram, signalVars>>
    /\ UNCHANGED <<diskVars, arrivals, watched, ready, replayVars, procVars>>

\* spool_event_for_later_replay, or drop_enqueue_event when it fails.
Spill(n) ==
    /\ adm[n] = "spool"
    /\ adm' = [adm EXCEPT ![n] = "none"]
    /\ \/ Persist(n, TRUE) /\ Signal(TRUE, {}) /\ UNCHANGED fate
       \/ PersistFails(FALSE) /\ fate' = Settle({n}, "rejected")
    /\ UNCHANGED <<queueVars, countVars, watched, ready, replayVars, procVars>>

-----------------------------------------------------------------------------
(***************************************************************************)
(* The owner of a target's queue (run_forward_queue).                      *)
(***************************************************************************)

\* forward_queue_idle_wait: the entry of the queues map still is this queue.
Check(t) ==
    /\ owner[t] = "top" /\ open[t]
    /\ owner' = [owner EXCEPT ![t] = "recv"]
    /\ UNCHANGED <<admVars, queue, open, head, countVars, diskVars, arrivals,
                   watched, ready, signalVars, replayVars, procVars>>

\* The entry is gone: the loop breaks and the receiver is dropped with what
\* it holds.
Abandon(t) ==
    /\ owner[t] = "top" /\ ~ open[t]
    /\ owner' = [owner EXCEPT ![t] = "none"]
    /\ fate' = Settle({queue[t][i].n : i \in {k \in DOMAIN queue[t] :
                                                ~ queue[t][k].disk}}, "abandoned")
    /\ queue' = [queue EXCEPT ![t] = <<>>]
    /\ UNCHANGED <<adm, open, head, countVars, diskVars, arrivals, watched,
                   ready, signalVars, replayVars, procVars>>

\* recv returns None (queue closed and empty), or the idle queue is retired.
Finished(t) ==
    /\ owner[t] = "recv" /\ queue[t] = <<>>
    /\ owner' = [owner EXCEPT ![t] = "none"]
    /\ open' = [open EXCEPT ![t] = FALSE]
    /\ UNCHANGED <<admVars, queue, head, countVars, diskVars, arrivals,
                   watched, ready, signalVars, replayVars, procVars>>

\* Mutant: the replayer is woken, but the target is not marked ready.
MarkReady_NoMark(t) ==
    /\ watched' = watched \ {t}
    /\ UNCHANGED ready
    /\ Signal(t \in watched, {})

\* mark_replay_target_ready.
MarkReady(t) ==
    /\ watched' = watched \ {t}
    /\ ready' = IF t \in watched THEN ready \cup {t} ELSE ready
    /\ Signal(t \in watched, {})

\* recv and queue_item_event.
Take(t) ==
    /\ owner[t] = "recv" /\ queue[t] # <<>>
    /\ owner' = [owner EXCEPT ![t] = "busy"]
    /\ LET it == Head(queue[t])
       IN  head' = [head EXCEPT ![t] = [n |-> it.n, disk |-> it.disk,
                                        ram |-> ~ it.disk]]
    /\ queue' = [queue EXCEPT ![t] = Tail(@)]
    /\ MarkReady(t)
    /\ UNCHANGED <<admVars, open, countVars, diskVars, arrivals, replayVars, procVars>>

-----------------------------------------------------------------------------
(***************************************************************************)
(* forward_event_handle: one event on its way to the API.  A post that     *)
(* fails without reaching the API is tried again and changes nothing.      *)
(***************************************************************************)

\* The owner holds an event, before or during an attempt.
InHand(t) == owner[t] \in {"busy", "posting"}

\* release_gateway_queue_slot notifies when it leaves the global cap.
AtGlobalCap == slots = GlobalCap

\* Mutant: the slot is released by the handler and again at the finish.
Release_Twice(t) ==
    /\ ram' = IF head[t].ram THEN ram - 1 ELSE ram
    /\ slots' = slots - 2
    /\ head' = [head EXCEPT ![t] = NoHead]
    /\ owner' = [owner EXCEPT ![t] = "top"]
    /\ UNCHANGED <<queue, open>>

\* finish_forward_event: RAM, slot and the owner's next turn.
Release(t) ==
    /\ ram' = IF head[t].ram THEN ram - 1 ELSE ram
    /\ slots' = slots - 1
    /\ head' = [head EXCEPT ![t] = NoHead]
    /\ owner' = [owner EXCEPT ![t] = "top"]
    /\ UNCHANGED <<queue, open>>

\* Mutant: a file whose removal failed is not given to the cleanup.
Remove_Forget(t) ==
    LET n == head[t].n IN
    \/ files' = files \ {n} /\ UNCHANGED faults /\ Signal(AtGlobalCap, {})
    \/ /\ head[t].disk /\ faults < MaxFaults /\ faults' = faults + 1
       /\ UNCHANGED files /\ Signal(AtGlobalCap, {})

\* finish_forward_event, remove_spooled_file: the file goes, or its removal
\* fails and is left to the cleanup.
Remove(t) ==
    LET n == head[t].n IN
    \/ files' = files \ {n} /\ UNCHANGED faults /\ Signal(AtGlobalCap, {})
    \/ /\ head[t].disk /\ faults < MaxFaults /\ faults' = faults + 1
       /\ UNCHANGED files /\ Signal(AtGlobalCap, {n})

\* post_json_retry_until_expired: no attempt starts after the shutdown request.
Post(t) ==
    /\ owner[t] = "busy" /\ ~ Stopping
    /\ owner' = [owner EXCEPT ![t] = "posting"]
    /\ UNCHANGED <<admVars, queue, open, head, countVars, diskVars, arrivals,
                   watched, ready, signalVars, replayVars, procVars>>

\* The API commits the event and the answer arrives.
Deliver(t) ==
    /\ owner[t] = "posting"
    /\ fate' = Settle({head[t].n}, "delivered")
    /\ Remove(t) /\ Release(t)
    /\ UNCHANGED <<adm, arrivals, watched, ready, replayVars, procVars>>

\* The API commits the event and the answer is lost: it is posted again.
AnswerLost(t) ==
    /\ owner[t] = "posting"
    /\ fate' = Settle({head[t].n}, "delivered")
    /\ owner' = [owner EXCEPT ![t] = "busy"]
    /\ UNCHANGED <<adm, queue, open, head, countVars, diskVars, arrivals, watched,
                   ready, signalVars, replayVars, procVars>>

\* A 409 that will not change, or the event's time to live is over.
GiveUp(t) ==
    /\ \/ owner[t] = "posting" /\ fate' = Settle({head[t].n}, "refused")
       \/ InHand(t) /\ fate' = Settle({head[t].n}, "reported")
    /\ Remove(t) /\ Release(t)
    /\ UNCHANGED <<adm, arrivals, watched, ready, replayVars, procVars>>

\* 409 gateway_session_not_active for an output not yet marked as replay:
\* it is persisted while it stays the head (QueueHead), or reported lost.
Retain(t) ==
    LET n == head[t].n IN
    /\ owner[t] = "posting" /\ n \in Outputs /\ ~ head[t].disk
    /\ \/ /\ Persist(n, FALSE)
          /\ head' = [head EXCEPT ![t].disk = TRUE]
          /\ owner' = [owner EXCEPT ![t] = "busy"]
          /\ UNCHANGED <<fate, queue, open, countVars, signalVars>>
       \/ /\ PersistFails(AtGlobalCap)
          /\ fate' = Settle({n}, "reported")
          /\ Release(t)
    /\ UNCHANGED <<adm, watched, ready, replayVars, procVars>>

\* Mutant: finish_forward_event does not preserve the file of a deferred event.
Defer_Remove(t) ==
    /\ InHand(t) /\ Stopping /\ head[t].disk
    /\ Remove(t) /\ Release(t)
    /\ UNCHANGED <<admVars, arrivals, watched, ready, replayVars, procVars>>

\* DeferredForShutdown: the head goes to the spool if it has no file yet.
Defer(t) ==
    LET n == head[t].n IN
    /\ InHand(t) /\ Stopping
    /\ \/ /\ head[t].disk /\ Signal(AtGlobalCap, {})
          /\ UNCHANGED <<fate, diskVars, arrivals>>
       \/ /\ ~ head[t].disk /\ Persist(n, TRUE) /\ Signal(TRUE, {})
          /\ UNCHANGED fate
       \/ /\ ~ head[t].disk /\ PersistFails(AtGlobalCap)
          /\ fate' = Settle({n}, "reported")
    /\ Release(t)
    /\ UNCHANGED <<adm, watched, ready, replayVars, procVars>>

-----------------------------------------------------------------------------
(***************************************************************************)
(* The replay task (run_gateway_spool_replay).                             *)
(***************************************************************************)

At(pc) == phase # "down" /\ replay.pc = pc

\* refresh_replay_index: retry one cleanup, unblock the targets marked ready,
\* take the arrivals.
Refresh ==
    /\ At("refresh")
    /\ \/ cleanup = {} /\ UNCHANGED <<files, faults, cleanup, dormant>>
       \/ \E f \in cleanup :
            /\ cleanup' = cleanup \ {f}
            /\ \/ files' = files \ {f} /\ UNCHANGED <<faults, dormant>>
               \/ /\ faults < MaxFaults /\ faults' = faults + 1
                  /\ dormant' = dormant \cup {f} /\ UNCHANGED files
    /\ blocked' = blocked \ ready /\ ready' = {}
    /\ index' = index \cup arrivals /\ arrivals' = {}
    /\ replay' = [replay EXCEPT !.pc = "scan", !.accepted = cleanup' # {}]
    /\ UNCHANGED <<admVars, queueVars, countVars, watched, wake, procVars>>

\* The files the index may offer: the oldest of each target not blocked.
Candidates ==
    {n \in index : /\ Owner[n] \notin blocked
                   /\ \A m \in index : Owner[m] = Owner[n] => n <= m}

\* pop_next, then watch_replay_target before the queue is tried.
Pop ==
    /\ At("scan") /\ slots < GlobalCap
    /\ \E n \in Candidates :
        /\ index' = index \ {n}
        /\ watched' = watched \cup {Owner[n]}
        /\ replay' = [replay EXCEPT !.pc = "send", !.cur = n]
    /\ UNCHANGED <<admVars, queueVars, countVars, diskVars, arrivals, ready,
                   signalVars, blocked, procVars>>

\* The end of a pass: leave on shutdown, go on after progress, else wait.
AfterPass == IF Stopping THEN "stopped"
             ELSE IF replay.accepted THEN "refresh" ELSE "wait"

PassEnds ==
    /\ At("scan") /\ (slots >= GlobalCap \/ Candidates = {})
    /\ replay' = [replay EXCEPT !.pc = AfterPass]
    /\ UNCHANGED <<admVars, queueVars, countVars, diskVars, arrivals, watched,
                   ready, signalVars, index, blocked, procVars>>

\* enqueue_queue_item for a spooled file.
Replay ==
    LET n == replay.cur
        t == Owner[n]
    IN
    /\ At("send")
    /\ \/ \* the global cap: back into the index, end of the pass
          /\ slots >= GlobalCap
          /\ index' = index \cup {n}
          /\ replay' = [replay EXCEPT !.pc = AfterPass, !.cur = NoCur]
          /\ UNCHANGED <<queue, open, owner, slots, watched, signalVars>>
       \/ \* consumers are gone: a new queue cannot be started
          /\ slots < GlobalCap /\ phase = "cleared"
          /\ replay' = [replay EXCEPT !.pc = "stopped", !.cur = NoCur]
          /\ UNCHANGED <<queue, open, owner, slots, watched, signalVars, index>>
       \/ \* GatewaySpoolReplayDeferred
          /\ slots < GlobalCap /\ phase # "cleared" /\ Len(queue[t]) >= QueueCap
          /\ replay' = [replay EXCEPT !.pc = "blocked"]
          /\ Signal(slots + 1 = GlobalCap, {})
          /\ UNCHANGED <<queue, open, owner, slots, watched, index>>
       \/ /\ slots < GlobalCap /\ phase # "cleared" /\ Len(queue[t]) < QueueCap
          /\ queue' = [queue EXCEPT ![t] = Append(@, [n |-> n, disk |-> TRUE])]
          /\ open' = [open EXCEPT ![t] = TRUE]
          /\ owner' = [owner EXCEPT ![t] = IF @ = "none" THEN "top" ELSE @]
          /\ slots' = slots + 1
          /\ watched' = watched \ {t}
          /\ replay' = [pc |-> "scan", cur |-> NoCur, accepted |-> TRUE]
          /\ UNCHANGED <<signalVars, index>>
    /\ UNCHANGED <<admVars, head, ram, diskVars, arrivals, ready, blocked, procVars>>

\* block_target and insert, after the queue was found full.
Block ==
    /\ At("blocked")
    /\ blocked' = blocked \cup {Owner[replay.cur]}
    /\ index' = index \cup {replay.cur}
    /\ replay' = [replay EXCEPT !.pc = "scan", !.cur = NoCur]
    /\ UNCHANGED <<admVars, queueVars, countVars, diskVars, arrivals, watched,
                   ready, signalVars, procVars>>

\* The stored permit of replay_ready, or shutdown.
Wake ==
    /\ At("wait") /\ (wake \/ Stopping)
    /\ wake' = IF Stopping THEN wake ELSE FALSE
    /\ replay' = [replay EXCEPT !.pc = IF Stopping THEN "stopped" ELSE "refresh"]
    /\ UNCHANGED <<admVars, queueVars, countVars, diskVars, arrivals, watched,
                   ready, cleanup, dormant, index, blocked, procVars>>

-----------------------------------------------------------------------------
(***************************************************************************)
(* The process: graceful shutdown, crash, restart.                         *)
(***************************************************************************)

\* main: both listeners are drained, then shutdown_flush closes admission.
StartFlush ==
    /\ phase = "up" /\ restarts < MaxRestarts
    /\ \A n \in Events : adm[n] = "none"
    /\ phase' = "flush"
    /\ UNCHANGED <<admVars, queueVars, countVars, diskVars, arrivals, watched,
                   ready, signalVars, replayVars, restarts>>

\* Nothing is left, or the flush time is over: request_shutdown.
RequestShutdown ==
    /\ phase = "flush"
    /\ phase' = "stopping"
    /\ UNCHANGED <<admVars, queueVars, countVars, diskVars, arrivals, watched,
                   ready, signalVars, replayVars, restarts>>

\* run_gateway_forward_consumers: no new consumers, queues.clear().
ClearQueues ==
    /\ phase = "stopping"
    /\ phase' = "cleared"
    /\ open' = [t \in Targets |-> FALSE]
    /\ UNCHANGED <<admVars, queue, owner, head, countVars, diskVars, arrivals,
                   watched, ready, signalVars, replayVars, restarts>>

\* What is left of the process's memory: nothing.
Down ==
    /\ phase' = "down"
    /\ adm' = [n \in Events |-> "none"]
    /\ queue' = [t \in Targets |-> <<>>] /\ open' = [t \in Targets |-> FALSE]
    /\ owner' = [t \in Targets |-> "none"] /\ head' = [t \in Targets |-> NoHead]
    /\ slots' = 0 /\ ram' = 0 /\ arrivals' = {} /\ watched' = {} /\ ready' = {}
    /\ wake' = FALSE /\ cleanup' = {} /\ dormant' = {} /\ blocked' = {}
    /\ index' = {} /\ replay' = [pc |-> "stopped", cur |-> NoCur, accepted |-> FALSE]
    /\ UNCHANGED <<diskVars, restarts>>

\* Every consumer has been joined.
Exit ==
    /\ phase = "cleared" /\ replay.pc = "stopped"
    /\ \A t \in Targets : owner[t] = "none"
    /\ UNCHANGED fate
    /\ Down

\* A hard crash loses every event that has no file.
Crash ==
    /\ phase # "down" /\ restarts < MaxRestarts
    /\ fate' = Settle(Events \ files, "crashed")
    /\ Down

\* initial_gateway_enqueue_seq_for_spool: all files are accounted before the
\* first admission, and the replayer starts with them.
Restart ==
    /\ phase = "down"
    /\ phase' = "up" /\ restarts' = restarts + 1
    /\ index' = files
    /\ replay' = [replay EXCEPT !.pc = "refresh"]
    /\ UNCHANGED <<admVars, queueVars, countVars, diskVars, arrivals, watched,
                   ready, signalVars, blocked>>

Init ==
    /\ fate = [n \in Events |-> "future"]
    /\ adm = [n \in Events |-> "none"]
    /\ queue = [t \in Targets |-> <<>>] /\ open = [t \in Targets |-> FALSE]
    /\ owner = [t \in Targets |-> "none"] /\ head = [t \in Targets |-> NoHead]
    /\ slots = 0 /\ ram = 0 /\ arrivals = {} /\ watched = {} /\ ready = {}
    /\ wake = FALSE /\ cleanup = {} /\ dormant = {} /\ blocked = {}
    /\ files = {} /\ faults = 0 /\ index = {}
    /\ replay = [pc |-> "refresh", cur |-> NoCur, accepted |-> FALSE]
    /\ phase = "up" /\ restarts = 0

Admission(n) == Send(n) \/ Spill(n)
QueueOwner(t) == Check(t) \/ Abandon(t) \/ Take(t) \/ Post(t)
Outcome(t)    == Deliver(t) \/ GiveUp(t) \/ Defer(t)
Replayer      == Refresh \/ Pop \/ PassEnds \/ Replay \/ Block \/ Wake
Process       == RequestShutdown \/ ClearQueues \/ Exit \/ Restart

Next ==
    \/ \E n \in Events : Enqueue(n) \/ Admission(n)
    \/ \E t \in Targets : \/ QueueOwner(t) \/ Outcome(t) \/ Finished(t)
                          \/ AnswerLost(t) \/ Retain(t)
    \/ Replayer \/ Process \/ StartFlush \/ Crash

Spec == Init /\ [][Next]_vars

\* Every task that can run runs.  A post ends at the latest when the event's
\* time to live is over; the gateway is restarted after it stopped; an owner
\* whose queue was closed leaves.
Fairness ==
    /\ \A n \in Events : WF_vars(Admission(n))
    /\ \A t \in Targets : /\ WF_vars(QueueOwner(t)) /\ WF_vars(Outcome(t))
                          /\ WF_vars(~ open[t] /\ Finished(t))
    /\ WF_vars(Replayer) /\ WF_vars(Process)

FairSpec == Spec /\ Fairness

-----------------------------------------------------------------------------
(***************************************************************************)
(* Properties.                                                             *)
(***************************************************************************)

\* The types of the queues, the files, the counters and the tasks of the forwarder.
TypeOK ==
    /\ fate \in [Events -> Fates]
    /\ adm \in [Events -> {"none", "send", "spool"}]
    /\ queue \in [Targets -> Seq(Item)]
    /\ open \in [Targets -> BOOLEAN]
    /\ owner \in [Targets -> {"none", "top", "recv", "busy", "posting"}]
    /\ head \in [Targets -> Busy \cup {NoHead}]
    /\ slots \in 0 .. GlobalCap /\ ram \in Nat
    /\ files \subseteq Events /\ faults \in 0 .. MaxFaults
    /\ arrivals \subseteq Events /\ index \subseteq Events
    /\ cleanup \subseteq Events /\ dormant \subseteq Events
    /\ watched \subseteq Targets /\ ready \subseteq Targets
    /\ blocked \subseteq Targets /\ wake \in BOOLEAN
    /\ replay \in [pc : {"refresh", "scan", "send", "blocked", "wait", "stopped"},
                   cur : Events \cup {NoCur}, accepted : BOOLEAN]
    /\ phase \in {"up", "flush", "stopping", "cleared", "down"}
    /\ restarts \in 0 .. MaxRestarts

Queued(disk) ==
    {x \in Targets \X (1 .. QueueCap) :
        x[2] <= Len(queue[x[1]]) /\ queue[x[1]][x[2]].disk \in disk}

BusyOwners == {t \in Targets : InHand(t)}

\* try_reserve_queue_slot, try_reserve_ram and their releases: whatever path
\* an event takes through full queues, refusals, failed spooling and its
\* outcome, the two counters that admit events count exactly the events held,
\* so capacity neither leaks away nor is given out twice.
CountersExact ==
    phase \in {"up", "flush"} =>
        /\ slots = Cardinality(Queued(BOOLEAN)) + Cardinality(BusyOwners)
        /\ ram = Cardinality(Queued({FALSE}))
                 + Cardinality({t \in BusyOwners : head[t].ram})
                 + Cardinality({n \in Events : adm[n] = "send"})

\* The places from which a spool file gets on: the index, the arrivals, the
\* replayer's hand, a queue, an owner's hand, the cleanup.
Places(f) ==
    Cardinality({s \in {<<index, 1>>, <<arrivals, 2>>, <<{replay.cur}, 3>>,
                        <<cleanup, 4>>, <<dormant, 5>>} : f \in s[1]})
    + Cardinality({x \in Queued({TRUE}) : queue[x[1]][x[2]].n = f})
    + Cardinality({t \in BusyOwners : head[t].disk /\ head[t].n = f})

\* replay_pending_spool_once, finish_forward_event: while the gateway runs,
\* each file on disk is in the hands of exactly one of them, so no file is
\* stranded until the next restart and none is posted by two paths.
EveryFileHasOneOwner ==
    phase \in {"up", "flush"} => \A f \in files : Places(f) = 1

\* "Queue pressure must not delete already spooled forwarder files"
\* (docs/job-status-model.md): across pressure, shutdown, crash and replay, a
\* file leaves the disk only when the API has the event, has refused it, or
\* its loss has been reported.
FilesOutliveTrouble ==
    [][\A f \in files \ files' : fate'[f] \in {"delivered", "refused", "reported"}]_vars

\* Outputs reach the API in the order in which they were enqueued for their
\* client, through RAM, spool, replay, retained heads and restarts: the
\* forwarder implements its contract.
Contract == INSTANCE ForwardContract WITH
    waiting   <- {n \in Outputs : fate[n] = "pending"},
    delivered <- {n \in Outputs : fate[n] = "delivered"},
    lost      <- {n \in Outputs : fate[n] \notin {"future", "pending", "delivered"}}

ImplementsContract == Contract!Spec

\* replay_waiting_targets, replay_ready and the capacity notifications lose
\* no wake-up: in the end no admitted event is left in a queue or on disk.
EveryEventSettles == <>[](\A n \in Events : fate[n] # "pending")

\* docs/job-status-model.md lists the loss a controlled restart may cause;
\* events accepted into a queue and dropped with it are not on the list.
GracefulStopKeepsEvents == \A n \in Events : fate[n] # "abandoned"
-----------------------------------------------------------------------------
(***************************************************************************)
(* The inductive invariant behind the properties.                          *)
(***************************************************************************)

OnQueue(n) == \E i \in DOMAIN queue[Owner[n]] : queue[Owner[n]][i].n = n
Held(n)    == InHand(Owner[n]) /\ head[Owner[n]].n = n

\* The files that wait for the replayer, its hand included.
Spooled(n) == n \in index \/ n \in arrivals \/ n = replay.cur

\* Queues within their capacity, each with an owner that serves only its
\* target, and the shape of the tasks' states.
TasksOK ==
    /\ \A t \in Targets :
         /\ Len(queue[t]) <= QueueCap
         /\ owner[t] = "none" => queue[t] = <<>>
         /\ owner[t] # "none" /\ phase \in {"up", "flush"} => open[t]
         /\ \A i \in DOMAIN queue[t] : Owner[queue[t][i].n] = t
         /\ IF InHand(t) THEN head[t] \in Busy /\ Owner[head[t].n] = t ELSE head[t] = NoHead
    /\ replay.pc \in {"send", "blocked"} <=> replay.cur # NoCur
    /\ \A n \in Events : /\ adm[n] # "none" => phase = "up"
                         /\ adm[n] = "spool" => n \in Outputs
    /\ phase # "up" => restarts < MaxRestarts
    /\ phase = "down" =>
         /\ \A t \in Targets : owner[t] = "none"
         /\ arrivals = {} /\ index = {} /\ cleanup = {} /\ dormant = {} /\ replay.cur = NoCur
         /\ slots = 0 /\ ram = 0

\* An event is in one place at a time; those with a file are on disk.
SoleOK ==
    /\ \A t \in Targets : \A i, k \in DOMAIN queue[t] :
           queue[t][i].n = queue[t][k].n => i = k
    /\ \A n \in Events :
         /\ n \in index => /\ n \notin arrivals /\ n \notin cleanup /\ n \notin dormant
                           /\ n # replay.cur /\ ~ OnQueue(n) /\ ~ Held(n)
         /\ n \in arrivals => /\ n \notin cleanup /\ n \notin dormant /\ n # replay.cur
                              /\ ~ OnQueue(n) /\ ~ Held(n)
         /\ n \in cleanup => n \notin dormant /\ n # replay.cur /\ ~ OnQueue(n) /\ ~ Held(n)
         /\ n \in dormant => n # replay.cur /\ ~ OnQueue(n) /\ ~ Held(n)
         /\ n = replay.cur => ~ OnQueue(n) /\ ~ Held(n)
         /\ OnQueue(n) => ~ Held(n)
         /\ adm[n] # "none" => ~ OnQueue(n) /\ ~ Held(n)

\* Which places stand for a file.
FilesOK ==
    /\ \A n \in Events :
         /\ Spooled(n) \/ n \in cleanup \/ n \in dormant => n \in files
         /\ adm[n] # "none" => n \notin files
    /\ \A t \in Targets :
         /\ \A i \in DOMAIN queue[t] : queue[t][i].disk <=> queue[t][i].n \in files
         /\ InHand(t) => (head[t].disk <=> head[t].n \in files)

\* While the gateway runs every file is somewhere.
CoveredOK ==
    phase \in {"up", "flush"} =>
        \A f \in files : \/ Spooled(f) \/ f \in cleanup \/ f \in dormant
                         \/ OnQueue(f) \/ Held(f)

\* What the history says of the events in these places.
FatesOK ==
    \A n \in Events :
        /\ n \in files \/ OnQueue(n) \/ Held(n)
           => fate[n] \in {"pending", "delivered", "refused", "reported"}
        /\ n \in cleanup \/ n \in dormant => fate[n] # "pending"
        /\ fate[n] = "pending" => n \in files \/ adm[n] # "none" \/ OnQueue(n) \/ Held(n)
        /\ adm[n] # "none" => fate[n] = "pending"
        /\ \A m \in Events : Owner[m] = Owner[n] /\ m < n /\ fate[m] = "future"
                             => fate[n] = "future"

\* The outputs of a target are in the order hand, queue, replayer, index,
\* arrivals, admission; one is admitted at a time, past no waiting file.  A
\* stop gives the order up, since deferred heads are published behind it.
OrderOK ==
    ~ Stopping =>
        /\ \A t \in Targets : \A i, k \in DOMAIN queue[t] :
             i < k /\ queue[t][i].n \in Outputs /\ queue[t][k].n \in Outputs
             => queue[t][i].n < queue[t][k].n
        /\ \A m, n \in Outputs : Owner[m] = Owner[n] =>
             /\ Held(m) /\ (OnQueue(n) \/ Spooled(n) \/ adm[n] # "none") => m < n
             /\ OnQueue(m) /\ (Spooled(n) \/ adm[n] # "none") => m < n
             /\ Spooled(m) /\ adm[n] # "none" => m < n /\ adm[n] = "spool"
             /\ m = replay.cur /\ (n \in index \/ n \in arrivals) => m < n
             /\ m \in index /\ n \in arrivals => m < n
             /\ adm[m] # "none" /\ adm[n] # "none" => m = n

\* What is being posted is the oldest output that is not settled.
HeadFirst ==
    \A t \in Targets : owner[t] = "posting" /\ head[t].n \in Outputs =>
        \A m \in Outputs : Owner[m] = t /\ fate[m] = "pending" => head[t].n <= m

\* The counters never fall below what is held (and are exact until a stop).
CountsOK ==
    /\ slots >= Cardinality(Queued(BOOLEAN)) + Cardinality(BusyOwners)
    /\ ram >= Cardinality(Queued({FALSE})) + Cardinality({t \in BusyOwners : head[t].ram})
              + Cardinality({n \in Events : adm[n] = "send"})
    /\ CountersExact

IndInv == /\ TypeOK /\ TasksOK /\ SoleOK /\ FilesOK /\ CoveredOK /\ FatesOK /\ OrderOK
          /\ HeadFirst /\ CountsOK
=============================================================================
