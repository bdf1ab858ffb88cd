----------------------------- MODULE JobDispatch -----------------------------
(***************************************************************************)
(* The path of a job from its claimed target row to the agent process and  *)
(* of its outputs back, for the targets of one client:                     *)
(*                                                                         *)
(*   API dispatcher -> gateway session queue -> agent -> gateway           *)
(*     -> forwarder -> API output ingest                                   *)
(*                                                                         *)
(* The dispatcher may send a command again (expired lease), the agent may  *)
(* reconnect or restart, every connection may die with frames in it, and   *)
(* answers may come late.  JobTransactions models how the rows are locked; *)
(* here a repository call is one atomic step.                              *)
(*                                                                         *)
(* A job id stands for the job, its payload and its only target; smaller   *)
(* ids were created earlier.  An output row is represented by its value:   *)
(* the number of the execution that produced it, or Lossy.                 *)
(***************************************************************************)
EXTENDS Integers, Sequences, FiniteSets, JobStatus

CONSTANTS
    Jobs,         \* job ids
    Exclusive,    \* the jobs whose operation type is exclusive
    Activations,  \* the jobs that activate an agent update
    Final,        \* sequence number of a command's final output
    MaxAttempts,  \* bound on dispatch attempts per target
    MaxProcess,   \* bound on agent process incarnations
    MaxSession,   \* bound on gateway sessions
    QueueCap,     \* SESSION_COMMAND_QUEUE_CAPACITY
    PrepareFailures \* ways in which the API may refuse before dispatching

ASSUME DispatchAssumption ==
    /\ Jobs \subseteq Nat \ {0} /\ IsFiniteSet(Jobs)
    /\ Exclusive \subseteq Jobs /\ Activations \subseteq Jobs
    /\ Final \in Nat /\ QueueCap \in Nat \ {0}
    /\ MaxAttempts \in Nat /\ MaxProcess \in Nat \ {0} /\ MaxSession \in Nat
    /\ PrepareFailures \subseteq {"unauthorized", "unprepared"}

VARIABLES
    \* PostgreSQL: the target rows, their output rows, the client row.
    status, attempt, bound, leased, stored, dbInc,
    \* The API's dispatch tasks, one for each claim.
    task,
    \* The gateway: sessions, the registered one, their queues and pending maps.
    sess, registered, queue, pending, forward,
    \* Frames in flight on each session's connection.
    toAgent, toGateway,
    \* The agent: its process, its connection, its commands; the ledger is a file.
    process, link, linked, unresumed, active, recent, ledger,
    \* History: how often the command of each job was started.
    runs

dbVars    == <<status, attempt, bound, leased, stored, dbInc>>
gwVars    == <<sess, registered, queue, pending>>
netVars   == <<toAgent, toGateway>>
agentVars == <<process, link, linked, unresumed, active, recent, ledger, runs>>
vars      == <<dbVars, task, gwVars, forward, netVars, agentVars>>

Attempts == 1 .. MaxAttempts
Sessions == 1 .. MaxSession
Seqs     == 0 .. Final

NoOutput == 0       \* no output row
Lossy    == -1      \* the ledger's "duplicate_job_replay_unavailable"
Refusal  == -2      \* a dispatch_error row of the dispatcher
NoEntry  == -1      \* no PendingCommand for the job
NoWaiter == 0       \* a PendingCommand whose response sender is gone

NotActive == [run |-> 0, next |-> 0, sent |-> 0, finished |-> FALSE]

Active(j) == status[j] \in ActiveTargetStatuses

\* Complete task (j, a): what the dispatcher does after its last await.
Done(j, a) == [task EXCEPT ![j][a] = "done"]

-----------------------------------------------------------------------------
(***************************************************************************)
(* API: claim, checks before the gateway call, and the answers.            *)
(***************************************************************************)

\* A target another claim could take: queued, or its lease ran out and the
\* client still runs the process the target is bound to.
Claimable(j) ==
    \/ status[j] = "queued"
    \/ status[j] = "dispatching" /\ j \notin leased /\ bound[j] = dbInc

\* The exclusivity clauses of the claim: an exclusive command shares its
\* client with no claimed target and waits for earlier claimable ones; any
\* other command only yields to exclusive ones.
MayJoin(j) ==
    LET rivals == IF j \in Exclusive THEN Jobs \ {j} ELSE Exclusive \ {j}
    IN  \A k \in rivals :
            /\ status[k] \notin {"dispatching", "running"}
            /\ k < j => ~Claimable(k)

Claim(j) ==
    /\ dbInc # 0
    /\ Claimable(j)
    /\ MayJoin(j)
    /\ attempt[j] < MaxAttempts
    /\ attempt' = [attempt EXCEPT ![j] = @ + 1]
    /\ bound' = [bound EXCEPT ![j] = IF @ = 0 THEN dbInc ELSE @]
    /\ status' = [status EXCEPT ![j] = "dispatching"]
    /\ leased' = leased \cup {j}
    /\ task' = [task EXCEPT ![j][attempt[j] + 1] = "check"]
    /\ UNCHANGED <<stored, dbInc, gwVars, forward, netVars, agentVars>>

\* dispatch_lease_until passes.
LeaseExpires(j) ==
    /\ j \in leased
    /\ leased' = leased \ {j}
    /\ UNCHANGED <<status, attempt, bound, stored, dbInc, task, gwVars, forward,
                   netVars, agentVars>>

\* Before the gateway call: the actor lost its authority, or the backup
\* request cannot be recorded.
PrepareFails(j, a) ==
    /\ task[j][a] = "check"
    /\ \E why \in PrepareFailures : task' = [task EXCEPT ![j][a] = why]
    /\ UNCHANGED <<dbVars, gwVars, forward, netVars, agentVars>>

\* claimed_job_target_dispatchable, the last look at the rows.
CheckDispatchable(j, a) ==
    /\ task[j][a] = "check"
    /\ task' = [task EXCEPT ![j][a] =
           IF status[j] = "dispatching" /\ attempt[j] = a /\ dbInc = bound[j]
           THEN "send" ELSE "done"]
    /\ UNCHANGED <<dbVars, gwVars, forward, netVars, agentVars>>

\* Mutant: the expected incarnation is not compared.
WrongProcess_Unchecked(s, j) == FALSE

\* agent_incarnation_mismatch: the session belongs to another process.
WrongProcess(s, j) == sess[s].inc # bound[j]

\* dispatch_gateway_command: refuse another process, enqueue otherwise.  With
\* no session the call polls until its grace ends (GiveUp).
GatewayDispatch(j, a) ==
    LET s == registered IN
    /\ task[j][a] = "send"
    /\ s # 0
    /\ IF WrongProcess(s, j)
       THEN /\ task' = [task EXCEPT ![j][a] = "mismatch"]
            /\ UNCHANGED queue
       ELSE IF Len(queue[s]) >= QueueCap
       THEN task' = Done(j, a) /\ UNCHANGED queue
       ELSE /\ queue' = [queue EXCEPT ![s] = Append(@, [job |-> j, attempt |-> a])]
            /\ task' = [task EXCEPT ![j][a] = "wait"]
    /\ UNCHANGED <<dbVars, sess, registered, pending, forward, netVars, agentVars>>

\* Not online, ack timeout, lost HTTP answer, or the API restarts: the
\* delivery error leaves the target to its lease.
GiveUp(j, a) ==
    /\ task[j][a] \notin {"none", "done"}
    /\ task' = Done(j, a)
    /\ UNCHANGED <<dbVars, gwVars, forward, netVars, agentVars>>

\* The attempt fence of every result a dispatch task records.
Current(j, a) == Active(j) /\ attempt[j] = a

\* The status a dispatch task writes for the answer it got.
Verdict(pc) == CASE pc = "acked" -> "running"
                 [] pc = "rejected" -> "rejected"
                 [] pc = "mismatch" -> "agent_lost"
                 [] pc = "unauthorized" -> "rejected"
                 [] pc = "unprepared" -> "failed"

RecordAnswer(j, a) ==
    /\ task[j][a] \in {"acked", "rejected", "mismatch"}
    /\ IF Current(j, a)
       THEN /\ status' = [status EXCEPT ![j] = Verdict(task[j][a])]
            /\ leased' = leased \ {j}
       ELSE UNCHANGED <<status, leased>>
    /\ task' = Done(j, a)
    /\ UNCHANGED <<attempt, bound, stored, dbInc, gwVars, forward, netVars, agentVars>>

\* The refusal is stored as a final output with sequence 0; an output that an
\* earlier attempt left there keeps the target active.
RecordPrepareFailure(j, a) ==
    /\ task[j][a] \in PrepareFailures
    /\ IF Current(j, a) /\ stored[j][0] = NoOutput
       THEN /\ status' = [status EXCEPT ![j] = Verdict(task[j][a])]
            /\ leased' = leased \ {j}
            /\ stored' = [stored EXCEPT ![j][0] = Refusal]
       ELSE UNCHANGED <<status, leased, stored>>
    /\ task' = Done(j, a)
    /\ UNCHANGED <<attempt, bound, dbInc, gwVars, forward, netVars, agentVars>>

\* expire_control_timeout_targets for this target.  An activation that restarts
\* the agent gets agent_lost, which is not told apart here.
ExpireDeadline(j) ==
    /\ Active(j)
    /\ status' = [status EXCEPT ![j] = "control_timeout"]
    /\ leased' = leased \ {j}
    /\ UNCHANGED <<attempt, bound, stored, dbInc, task, gwVars, forward, netVars, agentVars>>

-----------------------------------------------------------------------------
(***************************************************************************)
(* Sessions: agent connection, hello, registration, and their ends.        *)
(***************************************************************************)

Open(s) == sess[s].state \in {"hello", "accepted", "up"}

\* The activation a hello may name: the file its heartbeat is read from was
\* written by a command that was started (UpdateActivation has the file).
Heartbeats == {0} \cup {j \in Activations : runs[j] # 0}

\* The agent connects and sends its hello.
Connect(s) ==
    /\ link = 0
    /\ sess[s].state = "unused" /\ \A r \in Sessions : r < s => sess[r].state # "unused"
    /\ \E b \in Heartbeats :
           sess' = [sess EXCEPT ![s] = [state |-> "hello", inc |-> process, beat |-> b]]
    /\ link' = s
    /\ UNCHANGED <<dbVars, task, registered, queue, pending, forward, netVars,
                   process, linked, unresumed, active, recent, ledger, runs>>

\* Targets the hello of another process sweeps.
SweptBy(inc) ==
    {j \in Jobs : /\ dbInc \notin {0, inc} /\ bound[j] = dbInc
                  /\ status[j] \in {"dispatching", "running"}}

\* What the sweep may make of a target: the activation the heartbeat names is
\* completed, or failed if the digest is not the one that was staged; every
\* other target is lost.
Verdicts(s, j) == IF sess[s].beat = j THEN {"completed", "failed"} ELSE {"agent_lost"}

\* upsert_agent_hello commits for the session's hello.
AcceptHello(s) ==
    LET inc == sess[s].inc IN
    /\ sess[s].state = "hello"
    /\ sess' = [sess EXCEPT ![s].state = "accepted", ![s].beat = 0]
    /\ dbInc' = inc
    /\ status' \in [Jobs -> TargetStatuses]
    /\ \A j \in Jobs :
           status'[j] \in IF j \in SweptBy(inc) THEN Verdicts(s, j) ELSE {status[j]}
    /\ leased' = leased \ SweptBy(inc)
    /\ UNCHANGED <<attempt, bound, stored, task, registered, queue, pending, forward,
                   netVars, agentVars>>

\* Frames reach the agent only while it still holds this connection.
Deliver(s, m) ==
    toAgent' = IF link = s THEN [toAgent EXCEPT ![s] = Append(@, m)] ELSE toAgent

ServerHello == [job |-> 0, attempt |-> 0]

\* register_session_after_accepted_hello, then the ServerHello.
RegisterSession(s) ==
    /\ sess[s].state = "accepted"
    /\ sess' = [sess EXCEPT ![s].state = "up"]
    /\ registered' = s
    /\ Deliver(s, ServerHello)
    /\ UNCHANGED <<dbVars, task, queue, pending, forward, toGateway, agentVars>>

\* close_agent_session_now: the entry goes first, the session reads on until
\* the agent or its deadline closes it.
RemoveSession(s) ==
    /\ registered = s
    /\ registered' = 0
    /\ UNCHANGED <<dbVars, task, sess, queue, pending, forward, netVars, agentVars>>

\* Dispatch tasks whose response sender lives in session s.
WaitingOn(s) ==
    {x \in Jobs \X Attempts : \/ pending[s][x[1]] = x[2]
                              \/ \E i \in DOMAIN queue[s] :
                                     queue[s][i] = [job |-> x[1], attempt |-> x[2]]}

\* Mutant: the closing session leaves its entry behind.
RegisteredAfterClose_Stale(s) == registered

\* unregister_session_if_current: a replaced session leaves its successor be.
RegisteredAfterClose(s) == IF registered = s THEN 0 ELSE registered

\* The session ends: read or write error, deadline of a graceful close (until
\* then it goes on as it is, but writes no command), shutdown.  Queue, pending
\* map and unread frames go with it and the waiting calls fail.
CloseSession(s) ==
    /\ Open(s)
    /\ sess' = [sess EXCEPT ![s].state = "closed"]
    /\ registered' = RegisteredAfterClose(s)
    /\ queue' = [queue EXCEPT ![s] = <<>>]
    /\ pending' = [pending EXCEPT ![s] = [j \in Jobs |-> NoEntry]]
    /\ toGateway' = [toGateway EXCEPT ![s] = <<>>]
    /\ task' = [j \in Jobs |-> [a \in Attempts |->
           IF <<j, a>> \in WaitingOn(s) /\ task[j][a] = "wait" THEN "done" ELSE task[j][a]]]
    /\ UNCHANGED <<dbVars, forward, toAgent, agentVars>>

\* Write the next queued command to the agent.  A session that was replaced or
\* removed only drains its reads.  The job's earlier pending entry is overwritten.
WriteCommand(s) ==
    /\ sess[s].state = "up" /\ registered = s
    /\ queue[s] # <<>>
    /\ LET c == Head(queue[s]) old == pending[s][c.job] IN
       /\ Deliver(s, c)
       /\ pending' = [pending EXCEPT ![s][c.job] = c.attempt]
       /\ task' = IF old > 0 /\ task[c.job][old] = "wait" THEN Done(c.job, old) ELSE task
    /\ queue' = [queue EXCEPT ![s] = Tail(@)]
    /\ UNCHANGED <<dbVars, sess, registered, forward, toGateway, agentVars>>

\* handle_agent_frame for the next frame of the session.
PendingAfter(s, m) ==
    CASE m.type = "resume" -> IF pending[s][m.job] = NoEntry THEN NoWaiter ELSE pending[s][m.job]
      [] m.type = "ack"    -> IF pending[s][m.job] = NoEntry THEN NoEntry ELSE NoWaiter
      [] m.type = "nack"   -> NoEntry
      [] m.type = "output" -> IF m.seq = Final THEN NoEntry ELSE pending[s][m.job]

\* What the waiting dispatch call is told of a JobAck.
AnswerOf(m) == IF m.type = "ack" THEN "acked" ELSE "rejected"

ReadFrame(s) ==
    /\ sess[s].state = "up"
    /\ toGateway[s] # <<>>
    /\ LET m == Head(toGateway[s]) waiter == pending[s][m.job] IN
       /\ pending' = [pending EXCEPT ![s][m.job] = PendingAfter(s, m)]
       /\ task' = IF m.type \in {"ack", "nack"} /\ waiter > 0 /\ task[m.job][waiter] = "wait"
                  THEN [task EXCEPT ![m.job][waiter] = AnswerOf(m)] ELSE task
       /\ forward' = IF m.type = "output" /\ waiter # NoEntry
                     THEN Append(forward, [job |-> m.job, seq |-> m.seq, value |-> m.value,
                                           inc |-> sess[s].inc])
                     ELSE forward
    /\ toGateway' = [toGateway EXCEPT ![s] = Tail(@)]
    /\ UNCHANGED <<dbVars, sess, registered, queue, toAgent, agentVars>>

-----------------------------------------------------------------------------
(***************************************************************************)
(* Agent                                                                   *)
(***************************************************************************)

\* Frames written to a connection the gateway closed are lost.
Send(s, ms) ==
    toGateway' = IF Open(s) THEN [toGateway EXCEPT ![s] = @ \o ms] ELSE toGateway

Frame(type, j)       == [type |-> type, job |-> j, seq |-> 0, value |-> 0]
Output(j, seq, v)    == [type |-> "output", job |-> j, seq |-> seq, value |-> v]
Outputs(j, v, from, to) == [i \in 1 .. to - from |-> Output(j, from + i - 1, v)]

\* flush_pending_command_outputs of command c up to (excluding) output k, and
\* remove_finished_flushed_commands.
Flushed(c, k) ==
    IF c.finished /\ k = c.next THEN NotActive ELSE [c EXCEPT !.sent = k]

\* A failed write drops the connection and keeps the outputs that were not
\* written; k = c.next when every write succeeded.
DropLink ==
    /\ link' = 0
    /\ linked' = FALSE
    /\ unresumed' = {}
    /\ toAgent' = [toAgent EXCEPT ![link] = <<>>]

\* Command j becomes c; the frames ms and its unsent outputs before k are
\* written.  All of them are: the loop goes on with the frames rest to read.
Emit(j, c, ms, k, rest) ==
    /\ active' = [active EXCEPT ![j] = Flushed(c, k)]
    /\ Send(link, ms \o Outputs(j, c.run, c.sent, k))
    /\ IF k < c.next
       THEN DropLink
       ELSE /\ toAgent' = [toAgent EXCEPT ![link] = rest]
            /\ unresumed' = unresumed \ {j}
            /\ UNCHANGED <<link, linked>>

Running(j) == active[j] # NotActive

\* Mutant: only the new command's own flag counts.
ExclusiveConflict_OwnSide(j) == j \in Exclusive /\ \E k \in Jobs : Running(k)

\* exclusive_conflict of handle_command_frame.
ExclusiveConflict(j) ==
    \E k \in Jobs : Running(k) /\ (j \in Exclusive \/ k \in Exclusive)

\* The main loop takes frames and command events only after the resumption.
Ready == linked /\ unresumed = {}

Received(j) == Ready /\ toAgent[link] # <<>> /\ Head(toAgent[link]).job = j
Consume     == toAgent' = [toAgent EXCEPT ![link] = Tail(@)]

agentUnchanged == UNCHANGED <<dbVars, task, gwVars, forward>>

\* The ServerHello ends the handshake; every active command is resumed first.
ReadServerHello ==
    /\ link # 0 /\ ~linked
    /\ toAgent[link] # <<>> /\ Head(toAgent[link]) = ServerHello
    /\ Consume
    /\ linked' = TRUE
    /\ unresumed' = {j \in Jobs : Running(j)}
    /\ agentUnchanged /\ UNCHANGED <<toGateway, process, link, active, recent, ledger, runs>>

\* resume_active_commands for one command, with the flush of its outputs.
ResumeCommand(j) ==
    /\ j \in unresumed
    /\ \E k \in active[j].sent .. active[j].next :
           Emit(j, active[j], <<Frame("resume", j)>>, k, toAgent[link])
    /\ agentUnchanged /\ UNCHANGED <<process, recent, ledger, runs>>

\* A duplicate of an active command: acknowledge and flush.
DuplicateActive(j) ==
    /\ Received(j) /\ Running(j)
    /\ \E k \in active[j].sent .. active[j].next :
           Emit(j, active[j], <<Frame("ack", j)>>, k, Tail(toAgent[link]))
    /\ agentUnchanged /\ UNCHANGED <<process, recent, ledger, runs>>

\* A duplicate of a command in the recent cache: replay its outputs.
ReplayRecent(j) ==
    /\ Received(j) /\ ~Running(j) /\ recent[j] # 0
    /\ Send(link, <<Frame("ack", j)>> \o Outputs(j, recent[j], 0, Final + 1))
    /\ Consume
    /\ agentUnchanged /\ UNCHANGED <<process, link, linked, unresumed, active, recent, ledger, runs>>

\* Only the ledger knows it: a lossy final output.
ReplayLedger(j) ==
    /\ Received(j) /\ ~Running(j) /\ recent[j] = 0 /\ j \in ledger
    /\ Send(link, <<Frame("ack", j), Output(j, Final, Lossy)>>)
    /\ Consume
    /\ agentUnchanged /\ UNCHANGED <<process, link, linked, unresumed, active, recent, ledger, runs>>

\* Mutant: the ledger is not consulted.
Unknown_NoLedger(j) == ~Running(j) /\ recent[j] = 0

\* Neither active nor remembered: the command was never started here.
Unknown(j) == ~Running(j) /\ recent[j] = 0 /\ j \notin ledger

\* A new command that may not run beside the active ones.
RefuseCommand(j) ==
    /\ Received(j) /\ Unknown(j) /\ ExclusiveConflict(j)
    /\ Send(link, <<Frame("nack", j)>>)
    /\ Consume
    /\ agentUnchanged /\ UNCHANGED <<process, link, linked, unresumed, active, recent, ledger, runs>>

\* A new command: acknowledge, then start it.
StartCommand(j) ==
    /\ Received(j) /\ Unknown(j) /\ ~ExclusiveConflict(j)
    /\ Send(link, <<Frame("ack", j)>>)
    /\ Consume
    /\ active' = [active EXCEPT ![j] = [NotActive EXCEPT !.run = runs[j] + 1]]
    /\ runs' = [runs EXCEPT ![j] = @ + 1]
    /\ agentUnchanged /\ UNCHANGED <<process, link, linked, unresumed, recent, ledger>>

\* queue_active_command_output for the next output before the final one.
Produce(j) ==
    /\ Ready /\ Running(j) /\ ~active[j].finished /\ active[j].next < Final
    /\ LET c == [active[j] EXCEPT !.next = @ + 1] IN
       \E k \in c.sent .. c.next : Emit(j, c, <<>>, k, toAgent[link])
    /\ agentUnchanged /\ UNCHANGED <<process, recent, ledger, runs>>

\* finish_active_command: cache, ledger, then the final output.
Finish(j) ==
    /\ Ready /\ Running(j) /\ ~active[j].finished /\ active[j].next = Final
    /\ recent' = [recent EXCEPT ![j] = active[j].run]
    /\ ledger' = ledger \cup {j}
    /\ LET c == [active[j] EXCEPT !.next = @ + 1, !.finished = TRUE] IN
       \E k \in c.sent .. c.next : Emit(j, c, <<>>, k, toAgent[link])
    /\ agentUnchanged /\ UNCHANGED <<process, runs>>

\* The recent cache exceeds its entry or byte limit.
Evict(j) ==
    /\ recent[j] # 0
    /\ recent' = [recent EXCEPT ![j] = 0]
    /\ agentUnchanged /\ UNCHANGED <<netVars, process, link, linked, unresumed, active, ledger, runs>>

\* The connection dies as the agent sees it; commands keep running.
Disconnect ==
    /\ link # 0
    /\ DropLink
    /\ agentUnchanged /\ UNCHANGED <<toGateway, process, active, recent, ledger, runs>>

\* The agent process restarts with a new incarnation; the ledger survives.
Restart ==
    /\ process < MaxProcess
    /\ process' = process + 1
    /\ IF link # 0 THEN DropLink ELSE UNCHANGED <<link, linked, unresumed, toAgent>>
    /\ active' = [j \in Jobs |-> NotActive]
    /\ recent' = [j \in Jobs |-> 0]
    /\ agentUnchanged /\ UNCHANGED <<toGateway, ledger, runs>>

-----------------------------------------------------------------------------
(***************************************************************************)
(* Forwarder and output ingest.  forward is the client's FIFO; its head is *)
(* posted until the API answers, so a lost answer repeats the post.        *)
(***************************************************************************)

\* ensure_output_gateway_session, first for the live session and then, marked
\* as a durable replay, against the process the target is bound to.
Admitted(o) == o.inc \in {dbInc, bound[o.job]}

\* First writer wins.
Conflicts(o) == stored[o.job][o.seq] \notin {NoOutput, o.value}

\* Mutant: rows are added whatever the target's status.
Stores_Late(o) == Admitted(o) /\ ~Conflicts(o)

\* Nothing is added to a terminal target; a repeated row is accepted.
Stores(o)    == /\ Admitted(o) /\ ~Conflicts(o)
                /\ Active(o.job) \/ stored[o.job][o.seq] = o.value
RowsAfter(o) == [stored EXCEPT ![o.job][o.seq] = o.value]

\* Mutant: the final output is enough.
Contiguous_FinalOnly(rows) == rows[Final] # NoOutput

\* job_output_sequence_contiguous_in_tx up to the final output.
Contiguous(rows) == \A q \in Seqs : rows[q] # NoOutput

\* target_outcome_from_done_output: the lossy final reports failed; a real one
\* completed, failed, agent_timeout, canceled or, from a command that refuses
\* its own arguments, rejected.  Only completed and failed are told apart here.
Outcomes(v) == IF v = Lossy THEN {"failed"} ELSE {"completed", "failed"}

\* One post of the head whose output row is accepted: insert, and terminalize
\* the target when its outputs are complete.  The answer may be lost.  After
\* a chunk that completes nothing the request still has to mark the target
\* running.
IngestOutput ==
    /\ forward # <<>>
    /\ LET o == Head(forward)
           ends == Contiguous(RowsAfter(o)[o.job])
       IN  /\ Stores(o)
           /\ stored' = RowsAfter(o)
           /\ IF ends /\ Active(o.job)
              THEN /\ \E v \in Outcomes(RowsAfter(o)[o.job][Final]) :
                          status' = [status EXCEPT ![o.job] = v]
                   /\ leased' = leased \ {o.job}
              ELSE UNCHANGED <<status, leased>>
           /\ forward' \in IF ends \/ o.seq = Final THEN {forward, Tail(forward)} ELSE {forward}
    /\ UNCHANGED <<attempt, bound, dbInc, task, gwVars, netVars, agentVars>>

\* mark_job_target_running after a stored chunk: not fenced by an attempt.
MarkRunning ==
    /\ forward # <<>>
    /\ LET o == Head(forward) IN
       /\ o.seq # Final /\ stored[o.job][o.seq] = o.value
       /\ ~Contiguous(stored[o.job])
       /\ IF Active(o.job)
          THEN /\ status' = [status EXCEPT ![o.job] = "running"]
               /\ leased' = leased \ {o.job}
          ELSE UNCHANGED <<status, leased>>
    /\ forward' = Tail(forward)
    /\ UNCHANGED <<attempt, bound, stored, dbInc, task, gwVars, netVars, agentVars>>

\* The post is refused for good (409): session, conflict or inactive target.
RefuseOutput ==
    /\ forward # <<>>
    /\ ~Stores(Head(forward))
    /\ forward' = Tail(forward)
    /\ UNCHANGED <<dbVars, task, gwVars, netVars, agentVars>>

\* The event expires, or a hard gateway crash loses it before it is spooled.
LoseOutput ==
    /\ forward # <<>>
    /\ forward' = Tail(forward)
    /\ UNCHANGED <<dbVars, task, gwVars, netVars, agentVars>>

-----------------------------------------------------------------------------
Init ==
    /\ status = [j \in Jobs |-> "queued"]
    /\ attempt = [j \in Jobs |-> 0]
    /\ bound = [j \in Jobs |-> 0]
    /\ leased = {}
    /\ stored = [j \in Jobs |-> [q \in Seqs |-> NoOutput]]
    /\ dbInc = 0
    /\ task = [j \in Jobs |-> [a \in Attempts |-> "none"]]
    /\ sess = [s \in Sessions |-> [state |-> "unused", inc |-> 0, beat |-> 0]]
    /\ registered = 0
    /\ queue = [s \in Sessions |-> <<>>]
    /\ pending = [s \in Sessions |-> [j \in Jobs |-> NoEntry]]
    /\ forward = <<>>
    /\ toAgent = [s \in Sessions |-> <<>>]
    /\ toGateway = [s \in Sessions |-> <<>>]
    /\ process = 1
    /\ link = 0 /\ linked = FALSE /\ unresumed = {}
    /\ active = [j \in Jobs |-> NotActive]
    /\ recent = [j \in Jobs |-> 0]
    /\ ledger = {}
    /\ runs = [j \in Jobs |-> 0]

DispatchStep ==
    \E j \in Jobs :
        \/ Claim(j) \/ LeaseExpires(j) \/ ExpireDeadline(j)
        \/ \E a \in Attempts :
               \/ PrepareFails(j, a) \/ RecordPrepareFailure(j, a) \/ CheckDispatchable(j, a)
               \/ GatewayDispatch(j, a) \/ GiveUp(j, a) \/ RecordAnswer(j, a)

SessionStep ==
    \E s \in Sessions :
        \/ Connect(s) \/ AcceptHello(s) \/ RegisterSession(s)
        \/ RemoveSession(s) \/ CloseSession(s)
        \/ WriteCommand(s) \/ ReadFrame(s)

AgentStep ==
    \/ ReadServerHello \/ Disconnect \/ Restart
    \/ \E j \in Jobs :
           \/ ResumeCommand(j) \/ DuplicateActive(j) \/ ReplayRecent(j)
           \/ ReplayLedger(j) \/ RefuseCommand(j) \/ StartCommand(j)
           \/ Produce(j) \/ Finish(j) \/ Evict(j)

IngestStep == IngestOutput \/ MarkRunning \/ RefuseOutput \/ LoseOutput

Next == DispatchStep \/ SessionStep \/ AgentStep \/ IngestStep

Spec == Init /\ [][Next]_vars

-----------------------------------------------------------------------------
TaskStates == {"none", "check", "send", "wait", "acked", "rejected", "mismatch", "unauthorized",
               "unprepared", "done"}

\* The types of the rows, the gateway's tables and the agent's state.
TypeOK ==
    /\ status \in [Jobs -> TargetStatuses]
    /\ attempt \in [Jobs -> 0 .. MaxAttempts]
    /\ bound \in [Jobs -> 0 .. MaxProcess]
    /\ leased \subseteq {j \in Jobs : status[j] = "dispatching"}
    /\ stored \in [Jobs -> [Seqs -> Int]]
    /\ dbInc \in 0 .. MaxProcess
    /\ task \in [Jobs -> [Attempts -> TaskStates]]
    /\ sess \in [Sessions -> [state : {"unused", "hello", "accepted", "up", "closed"},
                              inc : 0 .. MaxProcess, beat : Activations \cup {0}]]
    /\ registered \in 0 .. MaxSession
    /\ registered # 0 => sess[registered].state = "up"
    /\ \A s \in Sessions : Len(queue[s]) <= QueueCap
    /\ pending \in [Sessions -> [Jobs -> -1 .. MaxAttempts]]
    /\ process \in 1 .. MaxProcess
    /\ link \in 0 .. MaxSession
    /\ linked \in BOOLEAN /\ (linked => link # 0)
    /\ unresumed \subseteq {j \in Jobs : Running(j)}
    /\ \A j \in Jobs : active[j].sent <= active[j].next /\ active[j].next <= Final + 1
    /\ recent \in [Jobs -> Nat]
    /\ ledger \subseteq Jobs
    /\ runs \in [Jobs -> Nat]

\* However often a command is sent again, over reconnects, restarts and lost
\* answers, the agent starts it at most once (duplicate detection of
\* handle_command_frame and the binding of a target to one process).
RunsAtMostOnce == \A j \in Jobs : runs[j] <= 1

\* Every output of the job's execution is stored, with no gap and nothing lossy.
WholeOutput(j) == \A q \in Seqs : stored[j][q] = 1

\* Its command was started, in a process that has ended since.
OutlivedItsProcess(j) == runs[j] = 1 /\ bound[j] < process

\* A target is completed only with every output of the execution it reports
\* (job_output_sequence_contiguous_in_tx), or, for an update activation, by the
\* heartbeat of a later process than the one that executed it: a late or
\* repeated hello never completes a command that has not run, or whose process
\* still lives (mark_old_incarnation_targets_agent_lost_in_tx).
CompletedHasEvidence ==
    \A j \in Jobs : status[j] = "completed" =>
        WholeOutput(j) \/ (j \in Activations /\ OutlivedItsProcess(j))

\* A command is enqueued, sent and executed only in the process its target is
\* bound to, so nothing bound to a dead process can start in its successor.
OnlyBoundProcessRuns ==
    /\ \A s \in Sessions : \A i \in DOMAIN queue[s] : sess[s].inc = bound[queue[s][i].job]
    /\ \A j \in Jobs : Running(j) => process = bound[j]

\* While an exclusive command is active at the agent nothing else is, even
\* when the database has given up on it (exclusive_conflict).
ExclusiveRunsAlone ==
    \A j \in Exclusive, k \in Jobs : Running(j) /\ Running(k) => j = k

\* "New or conflicting late output is rejected and must not rewrite output
\* history": once a target is terminal its output rows stay as they are.
LateOutputIsIgnored ==
    [][\A j \in Jobs : status[j] \in TerminalTargetStatuses => stored'[j] = stored[j]]_vars

\* docs/job-status-model.md: "rejected: gateway or agent rejected the target
\* before command execution".
RejectedNeverRan ==
    \A j \in Jobs : status[j] = "rejected" => runs[j] = 0
-----------------------------------------------------------------------------
(***************************************************************************)
(* Why they hold: the parts of the inductive invariant.                    *)
(***************************************************************************)
CommandFrames == [job : Jobs, attempt : Attempts]

\* What an output may say: it is of the only execution, or the ledger's final output.
Genuine(seq, value) == value = 1 \/ (value = Lossy /\ seq = Final)

AgentFrames ==
    {m \in [type : {"resume", "ack", "nack", "output"}, job : Jobs, seq : Seqs,
            value : {0, 1, Lossy}] :
        m.type = "output" => Genuine(m.seq, m.value)}

Events == {o \in [job : Jobs, seq : Seqs, value : {1, Lossy}, inc : 0 .. MaxProcess] :
              Genuine(o.seq, o.value)}

FramesOK ==
    /\ queue \in [Sessions -> Seq(CommandFrames)]
    /\ toAgent \in [Sessions -> Seq(CommandFrames \cup {ServerHello})]
    /\ toGateway \in [Sessions -> Seq(AgentFrames)]
    /\ forward \in Seq(Events)

\* A refusal is stored only with a terminal status.
RowsOK ==
    \A j \in Jobs : \A q \in Seqs :
        /\ stored[j][q] \in {NoOutput, Refusal} \/ Genuine(q, stored[j][q])
        /\ Active(j) => stored[j][q] # Refusal

\* Only a registered session has a queue, only a connection that was made carries
\* frames, and the agent's connection carries the incarnation of its process.
SessionsOK ==
    /\ \A s \in Sessions :
           /\ sess[s].state = "unused" => toAgent[s] = <<>>
           /\ sess[s].state # "unused" => sess[s].inc \in 1 .. process
           /\ queue[s] # <<>> => sess[s].state = "up"
    /\ link # 0 => sess[link].state # "unused" /\ sess[link].inc = process
    /\ unresumed # {} => linked

\* What OnlyBoundProcessRuns says of the queues holds of the connections too.
WrittenOK ==
    \A s \in Sessions : \A i \in DOMAIN toAgent[s] :
        toAgent[s][i] # ServerHello => sess[s].inc = bound[toAgent[s][i].job]

\* An active or cached command is the job's only execution; a finished one is in the
\* ledger before its last output leaves.
ActiveOK ==
    /\ active \in [Jobs -> [run : {0, 1}, next : 0 .. Final + 1, sent : 0 .. Final + 1,
                            finished : BOOLEAN]]
    /\ \A j \in Jobs :
           /\ Running(j) => active[j].run = 1 /\ runs[j] = 1
           /\ active[j].finished => j \in ledger
           /\ recent[j] \in {0, 1}

\* A command that was started is active, in the ledger, or of a process that is gone.
StartedOK ==
    \A j \in Jobs : runs[j] # 0 =>
        /\ bound[j] \in 1 .. process
        /\ Running(j) \/ j \in ledger \/ bound[j] < process

\* A heartbeat comes from the process that executed the activation or a later one.
HeartbeatsOK ==
    \A s \in Sessions : sess[s].beat # 0 =>
        runs[sess[s].beat] = 1 /\ bound[sess[s].beat] \in 1 .. sess[s].inc

IndInv ==
    /\ TypeOK /\ FramesOK /\ RowsOK /\ SessionsOK /\ WrittenOK /\ ActiveOK /\ StartedOK
    /\ HeartbeatsOK
    /\ OnlyBoundProcessRuns /\ RunsAtMostOnce /\ ExclusiveRunsAlone /\ CompletedHasEvidence
=============================================================================
