-------------------------- MODULE JobDispatch_proofs --------------------------
(***************************************************************************)
(* Proofs about JobDispatch, for any number of jobs, attempts, sessions,   *)
(* agent processes and outputs: a command is started at most once, only in *)
(* the process its target is bound to, and never beside an exclusive one;  *)
(* a completed target has every output of that execution or the heartbeat  *)
(* of a later process, and a terminal target keeps its outputs.            *)
(***************************************************************************)
EXTENDS JobDispatch, SequenceTheorems, TLAPS

ActiveTypes == [run : {0, 1}, next : 0 .. Final + 1, sent : 0 .. Final + 1, finished : BOOLEAN]
AgentInbox == CommandFrames \cup {ServerHello}

(* The inductive invariant, divided by the variables its parts are about.    *)

Rows ==
  /\ status \in [Jobs -> TargetStatuses]
  /\ attempt \in [Jobs -> 0 .. MaxAttempts]
  /\ bound \in [Jobs -> 0 .. MaxProcess]
  /\ leased \subseteq {j \in Jobs : status[j] = "dispatching"}
  /\ stored \in [Jobs -> [Seqs -> Int]]
  /\ dbInc \in 0 .. MaxProcess
  /\ RowsOK

Tasks == task \in [Jobs -> [Attempts -> TaskStates]]

SessTypes == [state : {"unused", "hello", "accepted", "up", "closed"}, inc : 0 .. MaxProcess,
              beat : Activations \cup {0}]

Gateway ==
  /\ sess \in [Sessions -> SessTypes]
  /\ registered \in 0 .. MaxSession
  /\ registered # 0 => sess[registered].state = "up"
  /\ queue \in [Sessions -> Seq(CommandFrames)]
  /\ \A s \in Sessions :
       /\ Len(queue[s]) <= QueueCap
       /\ sess[s].state # "unused" => sess[s].inc # 0
       /\ queue[s] # <<>> => sess[s].state = "up"
  /\ pending \in [Sessions -> [Jobs -> -1 .. MaxAttempts]]

Forwarder == forward \in Seq(Events)

Network ==
  /\ toAgent \in [Sessions -> Seq(AgentInbox)]
  /\ toGateway \in [Sessions -> Seq(AgentFrames)]

Agent ==
  /\ process \in 1 .. MaxProcess
  /\ link \in 0 .. MaxSession
  /\ linked \in BOOLEAN /\ (linked => link # 0)
  /\ unresumed \subseteq {j \in Jobs : Running(j)}
  /\ unresumed # {} => linked
  /\ \A j \in Jobs : active[j].sent <= active[j].next
  /\ ledger \subseteq Jobs
  /\ recent \in [Jobs -> {0, 1}] /\ runs \in [Jobs -> {0, 1}]
  /\ ActiveOK /\ ExclusiveRunsAlone

Binding ==
  /\ \A s \in Sessions : sess[s].state = "unused" => toAgent[s] = <<>>
  /\ link # 0 => sess[link].state # "unused" /\ sess[link].inc = process
  /\ WrittenOK /\ StartedOK /\ OnlyBoundProcessRuns

Inv == Rows /\ Tasks /\ Gateway /\ Forwarder /\ Network /\ Agent /\ Binding

\* What a completed target rests on, which needs the parts above.
Evidence ==
  /\ CompletedHasEvidence /\ HeartbeatsOK
  /\ \A s \in Sessions : sess[s].state # "unused" => sess[s].inc <= process

\* Together the parts are the invariant.
LEMMA InvImplies == Inv /\ Evidence => IndInv
  <1> SUFFICES ASSUME Inv, Evidence PROVE IndInv
    OBVIOUS
  <1>1. TypeOK
    <2>1. recent \in [Jobs -> Nat] /\ runs \in [Jobs -> Nat]
      BY DEF Inv, Agent
    <2>2. \A j \in Jobs : active[j].sent <= active[j].next /\ active[j].next <= Final + 1
      BY DispatchAssumption DEF Inv, Agent, ActiveOK
    <2>3. linked \in BOOLEAN /\ (linked => link # 0)
      BY DEF Inv, Agent
    <2> QED BY <2>1, <2>2, <2>3
        DEF Inv, Rows, Tasks, Gateway, Agent, TypeOK, SessTypes
  <1>2. FramesOK
    BY DEF Inv, Gateway, Network, Forwarder, FramesOK, AgentInbox
  <1>3. SessionsOK
    <2>1. \A s \in Sessions : sess[s].state # "unused" => sess[s].inc \in 1 .. process
      BY DispatchAssumption DEF Inv, Gateway, Agent, Evidence, SessTypes
    <2> QED BY <2>1 DEF Inv, Gateway, Agent, Binding, SessionsOK
  <1>4. RunsAtMostOnce
    BY DEF Inv, Agent, RunsAtMostOnce
  <1> QED BY <1>1, <1>2, <1>3, <1>4 DEF Inv, Evidence, Rows, Agent, Binding, IndInv

\* A part whose variables do not change is kept.
LEMMA PartsKept ==
  ASSUME Inv
  PROVE  /\ UNCHANGED dbVars => Rows'
         /\ UNCHANGED task => Tasks'
         /\ UNCHANGED gwVars => Gateway'
         /\ UNCHANGED forward => Forwarder'
         /\ UNCHANGED netVars => Network'
         /\ UNCHANGED agentVars => Agent'
         /\ UNCHANGED <<bound, sess, queue, toAgent, agentVars>> => Binding'
  <1>1. UNCHANGED dbVars => Rows'
    BY DEF Inv, Rows, dbVars, RowsOK, Active
  <1>2. UNCHANGED task => Tasks'
    BY DEF Inv, Tasks
  <1>3. UNCHANGED gwVars => Gateway'
    BY DEF Inv, Gateway, gwVars
  <1>4. UNCHANGED forward => Forwarder'
    BY DEF Inv, Forwarder
  <1>5. UNCHANGED netVars => Network'
    BY DEF Inv, Network, netVars
  <1>6. UNCHANGED agentVars => Agent'
    BY DEF Inv, Agent, agentVars, ActiveOK, ExclusiveRunsAlone, Running
  <1>7. UNCHANGED <<bound, sess, queue, toAgent, agentVars>> => Binding'
    BY DEF Inv, Binding, agentVars, WrittenOK, StartedOK, OnlyBoundProcessRuns, Running
  <1> QED BY <1>1, <1>2, <1>3, <1>4, <1>5, <1>6, <1>7

-----------------------------------------------------------------------------
(* The rows and the dispatch tasks.                                          *)

\* An active target that takes another status and loses its lease.
LEMMA StatusStep ==
  ASSUME Inv, NEW j \in Jobs, NEW v \in TargetStatuses, Active(j),
         status' = [status EXCEPT ![j] = v], leased' = leased \ {j},
         UNCHANGED <<attempt, bound, stored, dbInc>>
  PROVE  Rows'
  <1>1. /\ status' \in [Jobs -> TargetStatuses]
        /\ leased' \subseteq {k \in Jobs : status'[k] = "dispatching"}
    BY DEF Inv, Rows
  <1>2. RowsOK'
    BY DEF Inv, Rows, RowsOK, Active
  <1> QED BY <1>1, <1>2 DEF Inv, Rows

\* A task that goes on.
LEMMA TaskStep ==
  ASSUME Inv, NEW j \in Jobs, NEW a \in Attempts, NEW pc \in TaskStates,
         task' = [task EXCEPT ![j][a] = pc]
  PROVE  Tasks'
  BY DEF Inv, Tasks

LEMMA ClaimOK ==
  ASSUME Inv, NEW j \in Jobs, Claim(j)
  PROVE  Inv'
  <1>1. Rows'
    <2>1. /\ status' \in [Jobs -> TargetStatuses] /\ attempt' \in [Jobs -> 0 .. MaxAttempts]
          /\ bound' \in [Jobs -> 0 .. MaxProcess]
          /\ UNCHANGED <<stored, dbInc>>
      BY DispatchAssumption DEF Inv, Rows, Claim, TargetStatuses, ActiveTargetStatuses
    <2>2. leased' \subseteq {k \in Jobs : status'[k] = "dispatching"}
      BY DEF Inv, Rows, Claim
    <2>3. RowsOK'
      BY DEF Inv, Rows, RowsOK, Active, Claim, Claimable, ActiveTargetStatuses
    <2> QED BY <2>1, <2>2, <2>3 DEF Inv, Rows
  <1>2. Tasks'
    <2>1. attempt[j] + 1 \in Attempts /\ "check" \in TaskStates
      BY DispatchAssumption DEF Inv, Rows, Claim, Attempts, TaskStates
    <2> QED BY <2>1 DEF Inv, Tasks, Claim
  <1>3. Gateway' /\ Forwarder' /\ Network' /\ Agent'
    BY PartsKept DEF Claim
  <1>4. Binding'
    <2>1. \A k \in Jobs : bound[k] # 0 => bound'[k] = bound[k]
      BY DEF Inv, Rows, Claim
    <2>u. UNCHANGED <<sess, queue, toAgent, process, link, active, ledger, runs>>
      BY DEF Claim, gwVars, netVars, agentVars
    <2>2. WrittenOK'
      <3> SUFFICES ASSUME NEW s \in Sessions, NEW i \in DOMAIN toAgent[s],
                          toAgent[s][i] # ServerHello
                   PROVE  sess[s].inc = bound'[toAgent[s][i].job]
        BY <2>u DEF WrittenOK
      <3>1. toAgent[s] \in Seq(AgentInbox) /\ toAgent[s] # <<>>
        BY DEF Inv, Network
      <3>2. toAgent[s][i] \in CommandFrames
        BY <3>1 DEF AgentInbox
      <3>3. toAgent[s][i].job \in Jobs
        BY <3>2 DEF CommandFrames
      <3>4. sess[s].inc # 0 /\ sess[s].inc = bound[toAgent[s][i].job]
        BY <3>1 DEF Inv, Binding, Gateway, WrittenOK
      <3> QED BY <2>1, <3>3, <3>4
    <2>3. OnlyBoundProcessRuns'
      <3>1. ASSUME NEW s \in Sessions, NEW i \in DOMAIN queue[s]
            PROVE  sess[s].inc = bound'[queue[s][i].job]
        <4>1. queue[s] \in Seq(CommandFrames) /\ queue[s] # <<>>
          BY <3>1 DEF Inv, Gateway
        <4>2. queue[s][i] \in CommandFrames
          BY <3>1, <4>1
        <4>3. queue[s][i].job \in Jobs
          BY <4>2 DEF CommandFrames
        <4>4. sess[s].inc # 0 /\ sess[s].inc = bound[queue[s][i].job]
          BY <3>1, <4>1 DEF Inv, Binding, Gateway, OnlyBoundProcessRuns
        <4> QED BY <2>1, <4>3, <4>4
      <3>2. \A k \in Jobs : Running(k) => process = bound'[k]
        BY <2>1 DEF Inv, Binding, Agent, OnlyBoundProcessRuns
      <3> QED BY <2>u, <3>1, <3>2 DEF OnlyBoundProcessRuns, Running
    <2>4. StartedOK'
      BY <2>1, <2>u DEF Inv, Binding, Rows, Agent, StartedOK, Running
    <2> QED BY <2>u, <2>2, <2>3, <2>4 DEF Inv, Binding
  <1> QED BY <1>1, <1>2, <1>3, <1>4 DEF Inv

LEMMA LeaseExpiresOK ==
  ASSUME Inv, NEW j \in Jobs, LeaseExpires(j)
  PROVE  Inv'
  <1>1. Rows'
    BY DEF Inv, Rows, LeaseExpires, RowsOK, Active
  <1> QED BY <1>1, PartsKept DEF LeaseExpires, gwVars, netVars, Inv

LEMMA ExpireDeadlineOK ==
  ASSUME Inv, NEW j \in Jobs, ExpireDeadline(j)
  PROVE  Inv'
  <1>1. Rows'
    <2>1. "control_timeout" \in TargetStatuses
      BY DEF TargetStatuses, TerminalTargetStatuses
    <2> QED BY <2>1, StatusStep DEF ExpireDeadline
  <1> QED BY <1>1, PartsKept DEF ExpireDeadline, gwVars, netVars, Inv

\* Steps of a task that touch nothing else.
LEMMA TaskOnly ==
  ASSUME Inv, NEW j \in Jobs, NEW a \in Attempts,
         PrepareFails(j, a) \/ CheckDispatchable(j, a) \/ GiveUp(j, a)
  PROVE  Inv'
  <1>1. PICK pc \in TaskStates : task' = [task EXCEPT ![j][a] = pc]
    BY DispatchAssumption DEF PrepareFails, CheckDispatchable, GiveUp, Done, TaskStates
  <1>2. UNCHANGED <<dbVars, gwVars, forward, netVars, agentVars>>
    BY DEF PrepareFails, CheckDispatchable, GiveUp
  <1> QED BY <1>1, <1>2, TaskStep, PartsKept DEF Inv, dbVars, gwVars, netVars

\* A command enters the queue of the process its target is bound to.
LEMMA GatewayDispatchOK ==
  ASSUME Inv, NEW j \in Jobs, NEW a \in Attempts, GatewayDispatch(j, a)
  PROVE  Inv'
  <1>1. PICK pc \in TaskStates : task' = [task EXCEPT ![j][a] = pc]
    BY DEF GatewayDispatch, Done, TaskStates
  <1>2. UNCHANGED <<dbVars, sess, registered, pending, forward, netVars, agentVars>>
    BY DEF GatewayDispatch
  <1>3. CASE UNCHANGED queue
    BY <1>1, <1>2, <1>3, TaskStep, PartsKept DEF Inv, dbVars, gwVars, netVars
  <1>4. CASE ~ UNCHANGED queue
    <2> PICK s \in Sessions : s = registered /\ registered # 0
      BY DispatchAssumption DEF GatewayDispatch, Inv, Gateway, Sessions
    <2> DEFINE c == [job |-> j, attempt |-> a]
    <2>1. /\ queue' = [queue EXCEPT ![s] = Append(@, c)]
          /\ Len(queue[s]) < QueueCap /\ sess[s].inc = bound[j]
      <3>1. queue[s] \in Seq(CommandFrames) /\ Len(queue[s]) \in Nat /\ QueueCap \in Nat
        BY DispatchAssumption DEF Inv, Gateway
      <3> QED BY <1>4, <3>1 DEF GatewayDispatch, WrongProcess
    <2>2. c \in CommandFrames
      BY DEF CommandFrames
    <2>3. /\ queue[s] \in Seq(CommandFrames) /\ queue \in [Sessions -> Seq(CommandFrames)]
          /\ sess[s].state = "up"
      BY DEF Inv, Gateway
    <2> DEFINE new == Append(queue[s], c)
    <2>4. /\ new \in Seq(CommandFrames) /\ Len(new) = Len(queue[s]) + 1
          /\ \A i \in 1 .. Len(queue[s]) : new[i] = queue[s][i]
          /\ new[Len(queue[s]) + 1] = c
          /\ DOMAIN new = 1 .. Len(queue[s]) + 1 /\ DOMAIN queue[s] = 1 .. Len(queue[s])
      <3> HIDE DEF c
      <3> QED BY <2>2, <2>3, AppendProperties, LenProperties
    <2>5. /\ queue' \in [Sessions -> Seq(CommandFrames)]
          /\ queue'[s] = new /\ \A r \in Sessions \ {s} : queue'[r] = queue[r]
      <3> HIDE DEF c
      <3> QED BY <2>1, <2>3, <2>4
    <2> HIDE DEF new, c
    <2>6. Len(new) <= QueueCap
      BY <2>1, <2>3, <2>4, DispatchAssumption
    <2>7. Gateway'
      BY <1>2, <2>3, <2>5, <2>6 DEF Inv, Gateway
    <2>8. OnlyBoundProcessRuns'
      <3>1. ASSUME NEW r \in Sessions, NEW i \in DOMAIN queue'[r]
            PROVE  sess[r].inc = bound[queue'[r][i].job]
        <4>1. CASE r # s
          BY <2>5, <3>1, <4>1 DEF Inv, Binding, OnlyBoundProcessRuns
        <4>2. CASE r = s /\ i \in 1 .. Len(queue[s])
          BY <2>4, <2>5, <4>2 DEF Inv, Binding, OnlyBoundProcessRuns
        <4>3. CASE r = s /\ i = Len(queue[s]) + 1
          BY <2>1, <2>4, <2>5, <4>3 DEF c
        <4>4. r = s => i \in 1 .. Len(queue[s]) \/ i = Len(queue[s]) + 1
          BY <2>3, <2>4, <2>5, <3>1
        <4> QED BY <4>1, <4>2, <4>3, <4>4
      <3> QED BY <1>2, <3>1 DEF Inv, Binding, OnlyBoundProcessRuns, dbVars, agentVars, Running
    <2>9. Binding'
      BY <1>2, <2>8 DEF Inv, Binding, WrittenOK, StartedOK, dbVars, netVars, agentVars, Running
    <2> QED BY <1>1, <1>2, <2>7, <2>9, TaskStep, PartsKept DEF Inv
  <1> QED BY <1>3, <1>4

\* Both kinds of results are recorded for the current attempt of an active target.
LEMMA RecordAnswerOK ==
  ASSUME Inv, NEW j \in Jobs, NEW a \in Attempts, RecordAnswer(j, a)
  PROVE  Inv'
  <1>1. Tasks'
    BY TaskStep DEF RecordAnswer, Done, TaskStates
  <1>2. Rows'
    <2>1. CASE Current(j, a)
      <3>1. PICK v \in TargetStatuses : status' = [status EXCEPT ![j] = v]
        <4>1. Verdict(task[j][a]) \in {"running", "rejected", "agent_lost"}
          BY DEF RecordAnswer, Verdict
        <4> QED BY <2>1, <4>1
            DEF RecordAnswer, TargetStatuses, TerminalTargetStatuses, ActiveTargetStatuses
      <3> QED BY <2>1, <3>1, StatusStep DEF RecordAnswer, Current
    <2>2. CASE ~ Current(j, a)
      BY <2>2, PartsKept DEF RecordAnswer, dbVars
    <2> QED BY <2>1, <2>2
  <1> QED BY <1>1, <1>2, PartsKept DEF RecordAnswer, gwVars, netVars, Inv

LEMMA RecordPrepareFailureOK ==
  ASSUME Inv, NEW j \in Jobs, NEW a \in Attempts, RecordPrepareFailure(j, a)
  PROVE  Inv'
  <1>1. Tasks'
    BY TaskStep DEF RecordPrepareFailure, Done, TaskStates
  <1>2. Rows'
    <2>1. CASE Current(j, a) /\ stored[j][0] = NoOutput
      <3>1. PICK v \in {"rejected", "failed"} : status' = [status EXCEPT ![j] = v]
        <4>1. Verdict(task[j][a]) \in {"rejected", "failed"}
          BY DispatchAssumption DEF RecordPrepareFailure, Verdict
        <4> QED BY <2>1, <4>1 DEF RecordPrepareFailure
      <3>2. /\ stored' = [stored EXCEPT ![j][0] = Refusal] /\ leased' = leased \ {j}
            /\ Active(j) /\ UNCHANGED <<attempt, bound, dbInc>>
        BY <2>1 DEF RecordPrepareFailure, Current
      <3>3. /\ status' \in [Jobs -> TargetStatuses] /\ stored' \in [Jobs -> [Seqs -> Int]]
            /\ leased' \subseteq {k \in Jobs : status'[k] = "dispatching"}
        <4>1. Refusal \in Int
          BY DEF Refusal
        <4>2. stored' \in [Jobs -> [Seqs -> Int]]
          BY <3>2, <4>1 DEF Inv, Rows
        <4>3. status' \in [Jobs -> TargetStatuses]
          BY <3>1 DEF Inv, Rows, TargetStatuses, TerminalTargetStatuses
        <4>4. leased' \subseteq {k \in Jobs : status'[k] = "dispatching"}
          BY <3>1, <3>2 DEF Inv, Rows
        <4> QED BY <4>2, <4>3, <4>4
      <3>4. /\ ~ Active(j)'
            /\ \A k \in Jobs \ {j} : stored'[k] = stored[k] /\ status'[k] = status[k]
            /\ \A q \in Seqs : stored'[j][q] \in {stored[j][q], Refusal}
        BY <3>1, <3>2 DEF Inv, Rows, Active, ActiveTargetStatuses
      <3>5. RowsOK'
        BY <3>4 DEF Inv, Rows, RowsOK, Active
      <3> QED BY <3>2, <3>3, <3>5 DEF Inv, Rows
    <2>2. CASE ~ (Current(j, a) /\ stored[j][0] = NoOutput)
      BY <2>2, PartsKept DEF RecordPrepareFailure, dbVars
    <2> QED BY <2>1, <2>2
  <1> QED BY <1>1, <1>2, PartsKept DEF RecordPrepareFailure, gwVars, netVars, Inv
-----------------------------------------------------------------------------
(* The sessions.                                                             *)

LEMMA ConnectOK ==
  ASSUME Inv, NEW s \in Sessions, Connect(s)
  PROVE  Inv'
  <1>u. UNCHANGED <<dbVars, task, registered, queue, pending, forward, netVars,
                    process, linked, unresumed, active, recent, ledger, runs>>
    BY DEF Connect
  <1>s. /\ sess[s].state = "unused" /\ link = 0 /\ link' = s /\ s # 0
        /\ sess'[s].state = "hello" /\ sess'[s].inc = process
        /\ \A r \in Sessions \ {s} : sess'[r] = sess[r]
        /\ sess' \in [Sessions -> SessTypes]
    <2>1. sess \in [Sessions -> SessTypes] /\ s # 0 /\ process \in 1 .. MaxProcess
      BY DispatchAssumption DEF Inv, Gateway, Agent, Sessions
    <2>2. PICK b \in Heartbeats :
            sess' = [sess EXCEPT ![s] = [state |-> "hello", inc |-> process, beat |-> b]]
      BY DEF Connect
    <2>3. [state |-> "hello", inc |-> process, beat |-> b] \in SessTypes
      BY <2>1 DEF SessTypes, Heartbeats
    <2> QED BY <2>1, <2>2, <2>3 DEF Connect
  <1>1. Gateway'
    <2>1. registered # 0 => registered \in Sessions /\ registered # s
      BY <1>s, DispatchAssumption DEF Inv, Gateway, Sessions
    <2>2. process # 0 /\ queue[s] = <<>>
      BY <1>s DEF Inv, Agent, Gateway
    <2>3. sess'[s].state = "hello" /\ sess'[s].inc = process
      BY <1>s
    <2> QED BY <1>u, <1>s, <2>1, <2>2, <2>3 DEF Inv, Gateway
  <1>2. Agent'
    <2>1. link' \in 0 .. MaxSession
      BY <1>s, DispatchAssumption DEF Sessions
    <2> QED BY <1>u, <1>s, <2>1 DEF Inv, Agent, ActiveOK, ExclusiveRunsAlone, Running
  <1>3. Binding'
    <2>1. toAgent[s] = <<>> /\ queue[s] = <<>>
      BY <1>s DEF Inv, Binding, Gateway
    <2>2. WrittenOK'
      BY <1>u, <1>s, <2>1 DEF Inv, Binding, WrittenOK, dbVars, netVars
    <2>3. OnlyBoundProcessRuns'
      BY <1>u, <1>s, <2>1 DEF Inv, Binding, OnlyBoundProcessRuns, dbVars, Running
    <2>4. StartedOK'
      BY <1>u DEF Inv, Binding, StartedOK, dbVars, Running
    <2>5. link' # 0 => sess'[link'].state # "unused" /\ sess'[link'].inc = process'
      BY <1>u, <1>s
    <2>6. \A r \in Sessions : sess'[r].state = "unused" => toAgent'[r] = <<>>
      BY <1>u, <1>s DEF Inv, Binding, netVars
    <2> QED BY <2>2, <2>3, <2>4, <2>5, <2>6 DEF Binding
  <1> QED BY <1>u, <1>1, <1>2, <1>3, PartsKept DEF Inv

\* The hello of another process ends the targets bound to the one before.
LEMMA AcceptHelloOK ==
  ASSUME Inv, NEW s \in Sessions, AcceptHello(s)
  PROVE  Inv'
  <1>u. UNCHANGED <<attempt, bound, stored, task, registered, queue, pending, forward,
                    netVars, agentVars>>
    BY DEF AcceptHello
  <1>s. /\ sess[s].state = "hello" /\ sess'[s].state = "accepted" /\ sess'[s].inc = sess[s].inc
        /\ \A r \in Sessions \ {s} : sess'[r] = sess[r]
        /\ sess' \in [Sessions -> SessTypes]
    BY DEF AcceptHello, Inv, Gateway, SessTypes
  <1>1. Gateway'
    <2>1. registered # 0 => registered \in Sessions /\ registered # s
      BY <1>s, DispatchAssumption DEF Inv, Gateway, Sessions
    <2>2. queue[s] = <<>> /\ sess[s].inc # 0
      BY <1>s DEF Inv, Gateway
    <2> QED BY <1>u, <1>s, <2>1, <2>2 DEF Inv, Gateway
  <1>2. Rows'
    <2>1. dbInc' \in 0 .. MaxProcess
      BY DEF AcceptHello, Inv, Gateway, SessTypes
    <2>2. \A j \in Jobs : /\ status'[j] = status[j] \/ status'[j] \in TerminalTargetStatuses
                          /\ j \notin SweptBy(sess[s].inc) => status'[j] = status[j]
      BY DEF AcceptHello, Verdicts, TerminalTargetStatuses
    <2>3. status' \in [Jobs -> TargetStatuses]
      BY DEF AcceptHello
    <2>4. leased' \subseteq {j \in Jobs : status'[j] = "dispatching"}
      BY <2>2 DEF AcceptHello, Inv, Rows
    <2>5. RowsOK'
      BY <1>u, <2>2 DEF Inv, Rows, RowsOK, Active, ActiveTargetStatuses, TerminalTargetStatuses
    <2> QED BY <1>u, <2>1, <2>3, <2>4, <2>5 DEF Inv, Rows
  <1>3. Binding'
    <2>1. \A r \in Sessions : /\ sess'[r].inc = sess[r].inc
                              /\ sess'[r].state = "unused" <=> sess[r].state = "unused"
      BY <1>s
    <2>2. WrittenOK' /\ OnlyBoundProcessRuns' /\ StartedOK'
      BY <1>u, <2>1
      DEF Inv, Binding, WrittenOK, OnlyBoundProcessRuns, StartedOK, netVars, agentVars, Running
    <2>3. link # 0 => link \in Sessions
      BY DispatchAssumption DEF Inv, Agent, Sessions
    <2> QED BY <1>u, <2>1, <2>2, <2>3 DEF Inv, Binding, netVars, agentVars
  <1> QED BY <1>u, <1>1, <1>2, <1>3, PartsKept DEF Inv, gwVars

\* A frame to the agent of the process its target is bound to.
LEMMA DeliverKeeps ==
  ASSUME Inv, NEW s \in Sessions, NEW m \in AgentInbox, Deliver(s, m),
         sess[s].state # "unused",
         m # ServerHello => sess[s].inc = bound[m.job],
         \A r \in Sessions : /\ sess'[r].inc = sess[r].inc
                             /\ sess'[r].state = "unused" <=> sess[r].state = "unused",
         UNCHANGED bound
  PROVE  /\ toAgent' \in [Sessions -> Seq(AgentInbox)]
         /\ \A r \in Sessions : sess'[r].state = "unused" => toAgent'[r] = <<>>
         /\ WrittenOK'
  <1>t. toAgent \in [Sessions -> Seq(AgentInbox)] /\ toAgent[s] \in Seq(AgentInbox)
    BY DEF Inv, Network
  <1>1. CASE link # s
    BY <1>t, <1>1 DEF Deliver, Inv, Binding, WrittenOK
  <1>2. CASE link = s
    <2> DEFINE new == Append(toAgent[s], m)
    <2>1. /\ new \in Seq(AgentInbox)
          /\ \A i \in 1 .. Len(toAgent[s]) : new[i] = toAgent[s][i]
          /\ new[Len(toAgent[s]) + 1] = m
          /\ DOMAIN new = 1 .. Len(toAgent[s]) + 1 /\ DOMAIN toAgent[s] = 1 .. Len(toAgent[s])
          /\ Len(toAgent[s]) \in Nat
      BY <1>t, AppendProperties, LenProperties
    <2>2. toAgent' = [toAgent EXCEPT ![s] = new]
      BY <1>2 DEF Deliver
    <2> HIDE DEF new
    <2>3. /\ toAgent' \in [Sessions -> Seq(AgentInbox)] /\ toAgent'[s] = new
          /\ \A r \in Sessions \ {s} : toAgent'[r] = toAgent[r]
      BY <1>t, <2>1, <2>2
    <2>4. ASSUME NEW r \in Sessions, NEW i \in DOMAIN toAgent'[r], toAgent'[r][i] # ServerHello
          PROVE  sess'[r].inc = bound'[toAgent'[r][i].job]
      <3>1. CASE r # s
        BY <2>3, <2>4, <3>1 DEF Inv, Binding, WrittenOK
      <3>2. CASE r = s /\ i \in 1 .. Len(toAgent[s])
        BY <2>1, <2>3, <2>4, <3>2 DEF Inv, Binding, WrittenOK
      <3>3. CASE r = s /\ i = Len(toAgent[s]) + 1
        BY <2>1, <2>3, <2>4, <3>3
      <3>4. r = s => i \in 1 .. Len(toAgent[s]) \/ i = Len(toAgent[s]) + 1
        BY <2>1, <2>3, <2>4
      <3> QED BY <3>1, <3>2, <3>3, <3>4
    <2>5. \A r \in Sessions : sess'[r].state = "unused" => toAgent'[r] = <<>>
      BY <2>3 DEF Inv, Binding
    <2> QED BY <2>3, <2>4, <2>5 DEF WrittenOK
  <1> QED BY <1>1, <1>2

LEMMA RegisterSessionOK ==
  ASSUME Inv, NEW s \in Sessions, RegisterSession(s)
  PROVE  Inv'
  <1>u. UNCHANGED <<dbVars, task, queue, pending, forward, toGateway, agentVars>>
    BY DEF RegisterSession
  <1>s. /\ sess[s].state = "accepted" /\ sess'[s].state = "up" /\ sess'[s].inc = sess[s].inc
        /\ \A r \in Sessions \ {s} : sess'[r] = sess[r]
        /\ sess' \in [Sessions -> SessTypes] /\ registered' = s
    BY DEF RegisterSession, Inv, Gateway, SessTypes
  <1>1. Gateway'
    <2>1. registered' \in 0 .. MaxSession
      BY <1>s, DispatchAssumption DEF Sessions
    <2> QED BY <1>u, <1>s, <2>1 DEF Inv, Gateway
  <1>2. \A r \in Sessions : /\ sess'[r].inc = sess[r].inc
                            /\ sess'[r].state = "unused" <=> sess[r].state = "unused"
    BY <1>s
  <1>3. /\ toAgent' \in [Sessions -> Seq(AgentInbox)]
        /\ \A r \in Sessions : sess'[r].state = "unused" => toAgent'[r] = <<>>
        /\ WrittenOK'
    BY <1>u, <1>s, <1>2, DeliverKeeps DEF RegisterSession, AgentInbox, dbVars
  <1>4. Network'
    BY <1>u, <1>3 DEF Inv, Network
  <1>5. Binding'
    <2>1. OnlyBoundProcessRuns' /\ StartedOK'
      BY <1>u, <1>2
      DEF Inv, Binding, OnlyBoundProcessRuns, StartedOK, dbVars, agentVars, Running
    <2>2. link # 0 => link \in Sessions
      BY DispatchAssumption DEF Inv, Agent, Sessions
    <2>3. link' # 0 => sess'[link'].state # "unused" /\ sess'[link'].inc = process'
      BY <1>u, <1>2, <2>2 DEF Inv, Binding, agentVars
    <2> QED BY <1>3, <2>1, <2>3 DEF Binding
  <1> QED BY <1>u, <1>1, <1>4, <1>5, PartsKept DEF Inv

LEMMA RemoveSessionOK ==
  ASSUME Inv, NEW s \in Sessions, RemoveSession(s)
  PROVE  Inv'
  <1>1. /\ registered' = 0
        /\ UNCHANGED <<dbVars, task, sess, queue, pending, forward, netVars, agentVars>>
    BY DEF RemoveSession
  <1>2. Gateway'
    BY <1>1, DispatchAssumption DEF Inv, Gateway
  <1> QED BY <1>1, <1>2, PartsKept DEF Inv, dbVars, netVars

LEMMA CloseSessionOK ==
  ASSUME Inv, NEW s \in Sessions, CloseSession(s)
  PROVE  Inv'
  <1>u. UNCHANGED <<dbVars, forward, toAgent, agentVars>>
    BY DEF CloseSession
  <1>s. /\ sess[s].state # "unused" /\ sess'[s].state = "closed" /\ sess'[s].inc = sess[s].inc
        /\ \A r \in Sessions \ {s} : sess'[r] = sess[r]
        /\ sess' \in [Sessions -> SessTypes]
    BY DEF CloseSession, Open, Inv, Gateway, SessTypes
  <1>q. /\ queue'[s] = <<>> /\ \A r \in Sessions \ {s} : queue'[r] = queue[r]
        /\ queue' \in [Sessions -> Seq(CommandFrames)]
        /\ toGateway' \in [Sessions -> Seq(AgentFrames)]
    <2>1. <<>> \in Seq(CommandFrames) /\ <<>> \in Seq(AgentFrames)
      BY EmptySeq
    <2> QED BY <2>1 DEF CloseSession, Inv, Gateway, Network
  <1>1. Gateway'
    <2>1. pending' \in [Sessions -> [Jobs -> -1 .. MaxAttempts]]
      <3>1. NoEntry \in -1 .. MaxAttempts
        BY DispatchAssumption DEF NoEntry
      <3>2. [j \in Jobs |-> NoEntry] \in [Jobs -> -1 .. MaxAttempts]
        BY <3>1
      <3> QED BY <3>2 DEF CloseSession, Inv, Gateway
    <2>2. registered' \in 0 .. MaxSession /\ (registered' # 0 => sess'[registered'].state = "up")
      <3>1. registered # 0 => registered \in Sessions
        BY DispatchAssumption DEF Inv, Gateway, Sessions
      <3>2. registered' \in {0, registered} /\ registered' # s
        BY DispatchAssumption DEF CloseSession, RegisteredAfterClose, Sessions
      <3> QED BY <1>s, <3>1, <3>2, DispatchAssumption DEF Inv, Gateway
    <2>3. \A r \in Sessions : /\ Len(queue'[r]) <= QueueCap
                              /\ sess'[r].state # "unused" => sess'[r].inc # 0
                              /\ queue'[r] # <<>> => sess'[r].state = "up"
      <3>1. Len(<<>>) <= QueueCap
        BY DispatchAssumption, EmptySeq
      <3> QED BY <1>s, <1>q, <3>1 DEF Inv, Gateway
    <2> QED BY <1>s, <1>q, <2>1, <2>2, <2>3 DEF Gateway
  <1>2. Tasks'
    <2>1. "done" \in TaskStates
      BY DEF TaskStates
    <2> QED BY <2>1 DEF CloseSession, Inv, Tasks
  <1>3. Network'
    BY <1>u, <1>q DEF Inv, Network
  <1>4. Binding'
    <2>1. WrittenOK' /\ StartedOK'
      BY <1>u, <1>s DEF Inv, Binding, WrittenOK, StartedOK, dbVars, agentVars, Running
    <2>2. OnlyBoundProcessRuns'
      <3>1. ASSUME NEW r \in Sessions, NEW i \in DOMAIN queue'[r]
            PROVE  sess'[r].inc = bound[queue'[r][i].job]
        <4>1. r # s
          BY <1>q, <3>1
        <4> QED BY <1>s, <1>q, <3>1, <4>1 DEF Inv, Binding, OnlyBoundProcessRuns
      <3> QED BY <1>u, <3>1
          DEF Inv, Binding, OnlyBoundProcessRuns, dbVars, agentVars, Running
    <2>3. link # 0 => link \in Sessions
      BY DispatchAssumption DEF Inv, Agent, Sessions
    <2>4. link' # 0 => sess'[link'].state # "unused" /\ sess'[link'].inc = process'
      BY <1>u, <1>s, <2>3 DEF Inv, Binding, agentVars
    <2>5. \A r \in Sessions : sess'[r].state = "unused" => toAgent'[r] = <<>>
      BY <1>u, <1>s DEF Inv, Binding
    <2> QED BY <2>1, <2>2, <2>4, <2>5 DEF Binding
  <1> QED BY <1>u, <1>1, <1>2, <1>3, <1>4, PartsKept DEF Inv

\* What is left of a queue or a connection after its head was taken.
LEMMA TailOf ==
  ASSUME NEW S, NEW q \in Seq(S), q # <<>>
  PROVE  /\ Head(q) \in S /\ Tail(q) \in Seq(S) /\ Len(Tail(q)) < Len(q)
         /\ Head(q) = q[1] /\ 1 \in DOMAIN q
         /\ \A i \in DOMAIN Tail(q) : i + 1 \in DOMAIN q /\ Tail(q)[i] = q[i + 1]
  <1>1. /\ Head(q) \in S /\ Tail(q) \in Seq(S) /\ Len(Tail(q)) = Len(q) - 1
        /\ \A i \in 1 .. Len(Tail(q)) : Tail(q)[i] = q[i + 1]
    BY HeadTailProperties
  <1>2. /\ Len(q) \in Nat /\ DOMAIN q = 1 .. Len(q) /\ Len(q) # 0
        /\ DOMAIN Tail(q) = 1 .. Len(Tail(q)) /\ Len(Tail(q)) \in Nat
    BY <1>1, LenProperties, EmptySeq
  <1> QED BY <1>1, <1>2

LEMMA WriteCommandOK ==
  ASSUME Inv, NEW s \in Sessions, WriteCommand(s)
  PROVE  Inv'
  <1>u. UNCHANGED <<dbVars, sess, registered, forward, toGateway, agentVars>>
    BY DEF WriteCommand
  <1>q. /\ queue \in [Sessions -> Seq(CommandFrames)] /\ queue[s] \in Seq(CommandFrames)
        /\ queue[s] # <<>> /\ sess[s].state = "up"
    BY DEF WriteCommand, Inv, Gateway
  <1> PICK c \in CommandFrames : c = Head(queue[s])
    BY <1>q, TailOf
  <1>c. /\ c.job \in Jobs /\ c.attempt \in Attempts /\ c.attempt \in -1 .. MaxAttempts
        /\ sess[s].inc = bound[c.job]
    <2>1. c.job \in Jobs /\ c.attempt \in Attempts
      BY DEF CommandFrames
    <2>2. c.attempt \in -1 .. MaxAttempts
      BY <2>1, DispatchAssumption DEF Attempts
    <2>3. c = queue[s][1] /\ 1 \in DOMAIN queue[s]
      BY <1>q, TailOf
    <2> QED BY <2>1, <2>2, <2>3 DEF Inv, Binding, OnlyBoundProcessRuns
  <1>t. /\ queue' = [queue EXCEPT ![s] = Tail(queue[s])]
        /\ Tail(queue[s]) \in Seq(CommandFrames) /\ Len(Tail(queue[s])) < Len(queue[s])
        /\ \A i \in DOMAIN Tail(queue[s]) :
             i + 1 \in DOMAIN queue[s] /\ Tail(queue[s])[i] = queue[s][i + 1]
    BY <1>q, TailOf DEF WriteCommand
  <1>r. /\ queue'[s] = Tail(queue[s]) /\ \A r \in Sessions \ {s} : queue'[r] = queue[r]
        /\ queue' \in [Sessions -> Seq(CommandFrames)]
    BY <1>q, <1>t
  <1>1. Gateway'
    <2>1. pending' \in [Sessions -> [Jobs -> -1 .. MaxAttempts]]
      BY <1>c DEF WriteCommand, Inv, Gateway
    <2>2. Len(queue'[s]) <= QueueCap
      <3>1. Len(queue[s]) \in Nat /\ Len(Tail(queue[s])) \in Nat /\ Len(queue[s]) <= QueueCap
        BY <1>q, <1>t, LenProperties DEF Inv, Gateway
      <3> QED BY <1>r, <1>t, <3>1, DispatchAssumption
    <2> QED BY <1>u, <1>q, <1>r, <2>1, <2>2 DEF Inv, Gateway
  <1>2. Tasks'
    <2> PICK old \in -1 .. MaxAttempts : old = pending[s][c.job]
      BY <1>c DEF Inv, Gateway
    <2>1. old > 0 => old \in Attempts
      BY DispatchAssumption DEF Attempts
    <2>2. UNCHANGED task \/ (old > 0 /\ task' = [task EXCEPT ![c.job][old] = "done"])
      BY DEF WriteCommand, Done
    <2>3. "done" \in TaskStates
      BY DEF TaskStates
    <2> QED BY <1>c, <2>1, <2>2, <2>3 DEF Inv, Tasks
  <1>3. /\ toAgent' \in [Sessions -> Seq(AgentInbox)]
        /\ \A r \in Sessions : sess'[r].state = "unused" => toAgent'[r] = <<>>
        /\ WrittenOK'
    <2>1. Deliver(s, c) /\ c \in AgentInbox
      BY DEF WriteCommand, AgentInbox
    <2> QED BY <1>u, <1>q, <1>c, <2>1, DeliverKeeps DEF dbVars
  <1>4. Network'
    BY <1>u, <1>3 DEF Inv, Network
  <1>5. Binding'
    <2>1. ASSUME NEW r \in Sessions, NEW i \in DOMAIN queue'[r]
          PROVE  sess[r].inc = bound[queue'[r][i].job]
      <3>1. CASE r # s
        BY <1>r, <2>1, <3>1 DEF Inv, Binding, OnlyBoundProcessRuns
      <3>2. CASE r = s
        <4>1. i + 1 \in DOMAIN queue[s] /\ queue'[s][i] = queue[s][i + 1]
          BY <1>t, <1>r, <2>1, <3>2
        <4> QED BY <3>2, <4>1 DEF Inv, Binding, OnlyBoundProcessRuns
      <3> QED BY <3>1, <3>2
    <2>2. OnlyBoundProcessRuns' /\ StartedOK'
      BY <1>u, <2>1
      DEF Inv, Binding, OnlyBoundProcessRuns, StartedOK, dbVars, agentVars, Running
    <2>3. link' # 0 => sess'[link'].state # "unused" /\ sess'[link'].inc = process'
      BY <1>u DEF Inv, Binding, agentVars
    <2> QED BY <1>3, <2>2, <2>3 DEF Binding
  <1> QED BY <1>u, <1>1, <1>2, <1>4, <1>5, PartsKept DEF Inv

\* An output goes on with the incarnation of the session it was read from.
LEMMA ReadFrameOK ==
  ASSUME Inv, NEW s \in Sessions, ReadFrame(s)
  PROVE  Inv'
  <1>u. UNCHANGED <<dbVars, sess, registered, queue, toAgent, agentVars>>
    BY DEF ReadFrame
  <1>g. /\ toGateway \in [Sessions -> Seq(AgentFrames)] /\ toGateway[s] \in Seq(AgentFrames)
        /\ toGateway[s] # <<>>
    BY DEF ReadFrame, Inv, Network
  <1>t. Head(toGateway[s]) \in AgentFrames /\ Tail(toGateway[s]) \in Seq(AgentFrames)
    BY <1>g, TailOf
  <1> PICK m \in AgentFrames : m = Head(toGateway[s])
    BY <1>t
  <1>m. /\ m.job \in Jobs /\ m.type \in {"resume", "ack", "nack", "output"} /\ m.seq \in Seqs
        /\ m.type = "output" => Genuine(m.seq, m.value)
    BY DEF AgentFrames
  <1> PICK waiter \in -1 .. MaxAttempts : waiter = pending[s][m.job]
    BY <1>m DEF Inv, Gateway
  <1>1. Gateway'
    <2>1. PendingAfter(s, m) \in -1 .. MaxAttempts
      <3>1. NoEntry \in -1 .. MaxAttempts /\ NoWaiter \in -1 .. MaxAttempts
        BY DispatchAssumption DEF NoEntry, NoWaiter
      <3>2. PendingAfter(s, m) \in {NoEntry, NoWaiter, waiter}
        BY <1>m DEF PendingAfter
      <3> QED BY <3>1, <3>2
    <2>2. pending' \in [Sessions -> [Jobs -> -1 .. MaxAttempts]]
      BY <1>m, <2>1 DEF ReadFrame, Inv, Gateway
    <2> QED BY <1>u, <2>2 DEF Inv, Gateway
  <1>2. Tasks'
    <2>1. waiter > 0 => waiter \in Attempts
      BY DispatchAssumption DEF Attempts
    <2>2. AnswerOf(m) \in TaskStates
      BY DEF AnswerOf, TaskStates
    <2>3. UNCHANGED task \/ (waiter > 0 /\ task' = [task EXCEPT ![m.job][waiter] = AnswerOf(m)])
      BY DEF ReadFrame
    <2> QED BY <1>m, <2>1, <2>2, <2>3 DEF Inv, Tasks
  <1>3. Forwarder'
    <2> DEFINE o == [job |-> m.job, seq |-> m.seq, value |-> m.value, inc |-> sess[s].inc]
    <2>1. UNCHANGED forward \/ (m.type = "output" /\ forward' = Append(forward, o))
      BY DEF ReadFrame
    <2>2. m.type = "output" => o \in Events
      <3>1. sess[s].inc \in 0 .. MaxProcess
        BY DEF Inv, Gateway, SessTypes
      <3> QED BY <1>m, <3>1 DEF Events, Genuine
    <2> HIDE DEF o
    <2> QED BY <2>1, <2>2, AppendProperties DEF Inv, Forwarder
  <1>4. Network'
    <2>1. toGateway' \in [Sessions -> Seq(AgentFrames)]
      BY <1>g, <1>t DEF ReadFrame
    <2> QED BY <1>u, <2>1 DEF Inv, Network
  <1> QED BY <1>u, <1>1, <1>2, <1>3, <1>4, PartsKept DEF Inv, dbVars
-----------------------------------------------------------------------------
(* The agent.                                                                *)

LEMMA NotActiveTyped == NotActive \in ActiveTypes /\ NotActive.run = 0 /\ ~ NotActive.finished
  BY DispatchAssumption DEF NotActive, ActiveTypes

\* A command that has just been started.
LEMMA NewCommand ==
  ASSUME NEW c, c = [NotActive EXCEPT !.run = 1]
  PROVE  /\ c \in ActiveTypes /\ c # NotActive /\ c.run = 1 /\ c.sent = 0 /\ c.next = 0
         /\ c.finished = FALSE
  <1>1. c.run = 1 /\ c.sent = 0 /\ c.next = 0
    BY DEF NotActive
  <1>2. c.finished = FALSE
    BY DEF NotActive
  <1>3. c \in ActiveTypes
    BY NotActiveTyped DEF ActiveTypes
  <1>4. c # NotActive
    <2>1. c.run # NotActive.run
      BY <1>1, NotActiveTyped
    <2> QED BY <2>1
  <1> QED BY <1>1, <1>2, <1>3, <1>4

\* The agent's connection, while it has one.
LEMMA LinkIsSession ==
  ASSUME Inv, link # 0
  PROVE  link \in Sessions /\ sess[link].inc = process /\ sess[link].state # "unused"
  BY DispatchAssumption DEF Inv, Agent, Binding, Sessions

\* Frames with outputs of the only execution.
LEMMA FramesTyped ==
  ASSUME NEW j \in Jobs
  PROVE  /\ \A type \in {"resume", "ack", "nack"} : <<Frame(type, j)>> \in Seq(AgentFrames)
         /\ <<Frame("ack", j), Output(j, Final, Lossy)>> \in Seq(AgentFrames)
         /\ \A from, to \in 0 .. Final + 1 :
              from <= to => Outputs(j, 1, from, to) \in Seq(AgentFrames)
  <1>z. 0 \in Seqs /\ Final \in Seqs /\ Final \in Nat
    BY DispatchAssumption DEF Seqs
  <1>1. \A type \in {"resume", "ack", "nack"} : Frame(type, j) \in AgentFrames
    BY <1>z DEF Frame, AgentFrames
  <1>2. \A seq \in Seqs : Output(j, seq, 1) \in AgentFrames
    BY DEF Output, AgentFrames, Genuine
  <1>3. Output(j, Final, Lossy) \in AgentFrames
    BY <1>z DEF Output, AgentFrames, Genuine
  <1>4. ASSUME NEW from \in 0 .. Final + 1, NEW to \in 0 .. Final + 1, from <= to
        PROVE  Outputs(j, 1, from, to) \in Seq(AgentFrames)
    <2>1. to - from \in Nat
      BY <1>4, <1>z
    <2>2. \A i \in 1 .. to - from : from + i - 1 \in Seqs
      BY <1>4, <1>z DEF Seqs
    <2>3. Outputs(j, 1, from, to) \in [1 .. to - from -> AgentFrames]
      BY <1>2, <2>2 DEF Outputs
    <2> QED BY <2>1, <2>3, SeqDef
  <1> QED BY <1>1, <1>3, <1>4

\* What is sent over a connection, and what is read from it.
LEMMA SendKeeps ==
  ASSUME Inv, NEW s \in Sessions, NEW ms \in Seq(AgentFrames), Send(s, ms)
  PROVE  toGateway' \in [Sessions -> Seq(AgentFrames)]
  <1>1. toGateway \in [Sessions -> Seq(AgentFrames)] /\ toGateway[s] \o ms \in Seq(AgentFrames)
    BY ConcatProperties DEF Inv, Network
  <1> QED BY <1>1 DEF Send

\* The frames on the agent's connection become some of those that were there.
LEMMA InboxKeeps ==
  ASSUME Inv, link # 0, NEW rest \in Seq(AgentInbox),
         toAgent' = [toAgent EXCEPT ![link] = rest],
         \A i \in DOMAIN rest : \E k \in DOMAIN toAgent[link] : rest[i] = toAgent[link][k],
         UNCHANGED <<sess, bound>>
  PROVE  /\ toAgent' \in [Sessions -> Seq(AgentInbox)]
         /\ \A r \in Sessions : sess'[r].state = "unused" => toAgent'[r] = <<>>
         /\ WrittenOK'
  <1>1. /\ toAgent' \in [Sessions -> Seq(AgentInbox)] /\ toAgent'[link] = rest
        /\ \A r \in Sessions \ {link} : toAgent'[r] = toAgent[r]
    BY LinkIsSession DEF Inv, Network
  <1>2. \A r \in Sessions : sess'[r].state = "unused" => toAgent'[r] = <<>>
    BY <1>1, LinkIsSession DEF Inv, Binding
  <1>3. WrittenOK'
    BY <1>1, LinkIsSession DEF Inv, Binding, WrittenOK
  <1> QED BY <1>1, <1>2, <1>3

LEMMA ConsumeKeeps ==
  ASSUME Inv, link # 0, toAgent[link] # <<>>, Consume, UNCHANGED <<sess, bound>>
  PROVE  /\ toAgent' \in [Sessions -> Seq(AgentInbox)]
         /\ \A r \in Sessions : sess'[r].state = "unused" => toAgent'[r] = <<>>
         /\ WrittenOK'
  <1>1. toAgent[link] \in Seq(AgentInbox)
    BY LinkIsSession DEF Inv, Network
  <1>2. PICK rest \in Seq(AgentInbox) :
          /\ rest = Tail(toAgent[link])
          /\ \A i \in DOMAIN rest : \E k \in DOMAIN toAgent[link] : rest[i] = toAgent[link][k]
    <2>1. /\ Tail(toAgent[link]) \in Seq(AgentInbox)
          /\ \A i \in DOMAIN Tail(toAgent[link]) :
               i + 1 \in DOMAIN toAgent[link] /\ Tail(toAgent[link])[i] = toAgent[link][i + 1]
      BY <1>1, TailOf
    <2> QED BY <2>1
  <1>3. toAgent' = [toAgent EXCEPT ![link] = rest]
    BY <1>2 DEF Consume
  <1> QED BY <1>2, <1>3, InboxKeeps

LEMMA DropLinkKeeps ==
  ASSUME Inv, link # 0, DropLink, UNCHANGED <<sess, bound>>
  PROVE  /\ toAgent' \in [Sessions -> Seq(AgentInbox)]
         /\ \A r \in Sessions : sess'[r].state = "unused" => toAgent'[r] = <<>>
         /\ WrittenOK'
         /\ link' = 0 /\ linked' = FALSE /\ unresumed' = {}
  <1>1. /\ toAgent' = [toAgent EXCEPT ![link] = <<>>] /\ <<>> \in Seq(AgentInbox)
        /\ link' = 0 /\ linked' = FALSE /\ unresumed' = {}
    BY EmptySeq DEF DropLink
  <1>2. \A i \in DOMAIN <<>> : \E k \in DOMAIN toAgent[link] : <<>>[i] = toAgent[link][k]
    OBVIOUS
  <1> QED BY <1>1, <1>2, InboxKeeps

\* A command that reaches the agent is bound to its process.
LEMMA ReceivedIsBound ==
  ASSUME Inv, NEW j \in Jobs, Received(j)
  PROVE  /\ link # 0 /\ link \in Sessions /\ toAgent[link] # <<>> /\ linked /\ unresumed = {}
         /\ bound[j] = process
  <1>1. link # 0 /\ toAgent[link] # <<>> /\ Head(toAgent[link]).job = j
        /\ linked /\ unresumed = {}
    BY DEF Received, Ready, Inv, Agent
  <1>2. toAgent[link] \in Seq(AgentInbox) /\ link \in Sessions
    BY <1>1, LinkIsSession DEF Inv, Network
  <1>3. Head(toAgent[link]) = toAgent[link][1] /\ 1 \in DOMAIN toAgent[link]
    BY <1>1, <1>2, TailOf
  <1>4. Head(toAgent[link]) # ServerHello
    BY <1>1, DispatchAssumption DEF ServerHello
  <1>5. sess[link].inc = bound[j]
    BY <1>1, <1>2, <1>3, <1>4 DEF Inv, Binding, WrittenOK
  <1> QED BY <1>1, <1>2, <1>5, LinkIsSession

\* Steps of the agent that only read a frame and answer it.
LEMMA AnswerOK ==
  ASSUME Inv, NEW j \in Jobs, ReplayRecent(j) \/ ReplayLedger(j) \/ RefuseCommand(j)
  PROVE  Inv'
  <1>1. /\ Received(j) /\ Consume
        /\ UNCHANGED <<dbVars, task, gwVars, forward, agentVars>>
    BY DEF ReplayRecent, ReplayLedger, RefuseCommand, agentUnchanged, agentVars
  <1>2. PICK ms \in Seq(AgentFrames) : Send(link, ms)
    <2>1. CASE ReplayRecent(j)
      <3>1. recent[j] = 1
        BY <2>1 DEF ReplayRecent, Inv, Agent
      <3>2. 0 \in 0 .. Final + 1 /\ Final + 1 \in 0 .. Final + 1 /\ 0 <= Final + 1
        BY DispatchAssumption
      <3>3. Outputs(j, recent[j], 0, Final + 1) \in Seq(AgentFrames)
        BY <3>1, <3>2, FramesTyped
      <3>4. <<Frame("ack", j)>> \o Outputs(j, recent[j], 0, Final + 1) \in Seq(AgentFrames)
        BY <3>3, FramesTyped, ConcatProperties
      <3> QED BY <2>1, <3>4 DEF ReplayRecent
    <2>2. CASE ReplayLedger(j)
      BY <2>2, FramesTyped DEF ReplayLedger
    <2>3. CASE RefuseCommand(j)
      BY <2>3, FramesTyped DEF RefuseCommand
    <2> QED BY <2>1, <2>2, <2>3
  <1>3. /\ toAgent' \in [Sessions -> Seq(AgentInbox)]
        /\ \A r \in Sessions : sess'[r].state = "unused" => toAgent'[r] = <<>>
        /\ WrittenOK'
    BY <1>1, ReceivedIsBound, ConsumeKeeps DEF gwVars, dbVars
  <1>4. Network'
    BY <1>1, <1>2, <1>3, ReceivedIsBound, SendKeeps DEF Network
  <1>5. Binding'
    <2>1. StartedOK' /\ OnlyBoundProcessRuns'
      BY <1>1 DEF Inv, Binding, StartedOK, OnlyBoundProcessRuns, Running, gwVars, dbVars, agentVars
    <2>2. link' # 0 => sess'[link'].state # "unused" /\ sess'[link'].inc = process'
      BY <1>1 DEF Inv, Binding, gwVars, agentVars
    <2> QED BY <1>3, <2>1, <2>2 DEF Binding
  <1> QED BY <1>1, <1>4, <1>5, PartsKept DEF Inv

\* The start of a command: it was not started before, and runs in the process its target
\* is bound to.
LEMMA StartCommandOK ==
  ASSUME Inv, NEW j \in Jobs, StartCommand(j)
  PROVE  Inv'
  <1>1. /\ Received(j) /\ Consume /\ Unknown(j) /\ ~ ExclusiveConflict(j)
        /\ Send(link, <<Frame("ack", j)>>)
        /\ active' = [active EXCEPT ![j] = [NotActive EXCEPT !.run = runs[j] + 1]]
        /\ runs' = [runs EXCEPT ![j] = @ + 1]
        /\ UNCHANGED <<dbVars, task, gwVars, forward, process, link, linked, unresumed, recent,
                       ledger>>
    BY DEF StartCommand, agentUnchanged
  <1>2. bound[j] = process /\ unresumed = {}
    BY <1>1, ReceivedIsBound
  <1>3. runs[j] = 0
    <2>1. ~ (bound[j] < process)
      BY <1>2 DEF Inv, Agent
    <2> QED BY <1>1, <2>1 DEF Inv, Binding, StartedOK, Unknown
  <1> DEFINE c == [NotActive EXCEPT !.run = 1]
  <1>4. c \in ActiveTypes /\ c # NotActive /\ c.run = 1 /\ c.sent = 0 /\ c.next = 0
        /\ c.finished = FALSE
    BY NewCommand
  <1> HIDE DEF c
  <1>5. /\ active' \in [Jobs -> ActiveTypes] /\ active'[j] = c
        /\ \A k \in Jobs \ {j} : active'[k] = active[k]
        /\ runs' \in [Jobs -> {0, 1}] /\ runs'[j] = 1
        /\ \A k \in Jobs \ {j} : runs'[k] = runs[k]
    <2>1. active' = [active EXCEPT ![j] = c] /\ runs' = [runs EXCEPT ![j] = 1]
      BY <1>1, <1>3 DEF c
    <2> QED BY <1>4, <2>1 DEF Inv, Agent, ActiveOK, ActiveTypes
  <1>6. Running(j)' /\ \A k \in Jobs \ {j} : Running(k)' <=> Running(k)
    BY <1>4, <1>5 DEF Running
  <1>7. Agent'
    <2>1. ActiveOK'
      BY <1>1, <1>4, <1>5, <1>6 DEF Inv, Agent, ActiveOK, ActiveTypes
    <2>2. ExclusiveRunsAlone'
      BY <1>1, <1>6, DispatchAssumption DEF Inv, Agent, ExclusiveRunsAlone, ExclusiveConflict
    <2>3. \A k \in Jobs : active'[k].sent <= active'[k].next
      BY <1>4, <1>5 DEF Inv, Agent
    <2>4. unresumed' = {}
      BY <1>1, <1>2
    <2>5. linked' \in BOOLEAN /\ (linked' => link' # 0)
      BY <1>1 DEF Inv, Agent
    <2> QED BY <1>1, <1>5, <2>1, <2>2, <2>3, <2>4, <2>5 DEF Inv, Agent
  <1>8. /\ toAgent' \in [Sessions -> Seq(AgentInbox)]
        /\ \A r \in Sessions : sess'[r].state = "unused" => toAgent'[r] = <<>>
        /\ WrittenOK'
    BY <1>1, ReceivedIsBound, ConsumeKeeps DEF gwVars, dbVars
  <1>9. Network'
    BY <1>1, <1>8, ReceivedIsBound, SendKeeps, FramesTyped DEF Network
  <1>10. Binding'
    <2>1. StartedOK'
      <3>1. process \in 1 .. process
        BY DEF Inv, Agent
      <3> QED BY <1>1, <1>2, <1>5, <1>6, <3>1 DEF Inv, Binding, StartedOK, dbVars
    <2>2. OnlyBoundProcessRuns'
      BY <1>1, <1>2, <1>6 DEF Inv, Binding, OnlyBoundProcessRuns, gwVars, dbVars
    <2>3. link' # 0 => sess'[link'].state # "unused" /\ sess'[link'].inc = process'
      BY <1>1 DEF Inv, Binding, gwVars
    <2> QED BY <1>8, <2>1, <2>2, <2>3 DEF Binding
  <1> QED BY <1>1, <1>7, <1>9, <1>10, PartsKept DEF Inv

\* What a command becomes when some of its outputs are written.
LEMMA FlushedFacts ==
  ASSUME NEW c \in ActiveTypes, c.run = 1, c.sent <= c.next, NEW k \in c.sent .. c.next
  PROVE  /\ Flushed(c, k) \in ActiveTypes
         /\ Flushed(c, k).sent <= Flushed(c, k).next
         /\ Flushed(c, k) # NotActive => Flushed(c, k).run = 1
         /\ Flushed(c, k).finished => c.finished
         /\ Flushed(c, k) = NotActive => c.finished
  <1>n. /\ c.sent \in Nat /\ c.next \in Nat /\ Final \in Nat /\ k \in Nat
        /\ c.next <= Final + 1 /\ k <= c.next /\ k \in 0 .. Final + 1
    BY DispatchAssumption DEF ActiveTypes
  <1>1. CASE c.finished /\ k = c.next
    <2>1. Flushed(c, k) = NotActive
      BY <1>1 DEF Flushed
    <2>2. NotActive.sent <= NotActive.next
      BY DEF NotActive
    <2> QED BY <1>1, <2>1, <2>2, NotActiveTyped
  <1>2. CASE ~ (c.finished /\ k = c.next)
    <2> PICK d : d = [c EXCEPT !.sent = k]
      OBVIOUS
    <2>1. Flushed(c, k) = d
      BY <1>2 DEF Flushed
    <2>2. d.run = 1 /\ d.sent = k /\ d.next = c.next
      BY DEF ActiveTypes
    <2>3. d.finished = c.finished
      BY DEF ActiveTypes
    <2>4. d \in ActiveTypes
      BY <1>n DEF ActiveTypes
    <2>5. d # NotActive
      <3>1. d.run # NotActive.run
        BY <2>2, NotActiveTyped
      <3> QED BY <3>1
    <2>6. d.sent <= d.next
      BY <1>n, <2>2
    <2> QED BY <2>1, <2>2, <2>3, <2>4, <2>5, <2>6
  <1> QED BY <1>1, <1>2

\* Outputs of an active command are written, all of them or until the connection fails.
LEMMA EmitKeeps ==
  ASSUME Inv, NEW j \in Jobs, Running(j), linked,
         NEW c \in ActiveTypes, c.run = 1, c.sent <= c.next, NEW k \in c.sent .. c.next,
         NEW ms \in Seq(AgentFrames), NEW rest \in Seq(AgentInbox),
         \A i \in DOMAIN rest : \E n \in DOMAIN toAgent[link] : rest[i] = toAgent[link][n],
         Emit(j, c, ms, k, rest),
         ledger \subseteq ledger', ledger' \subseteq Jobs, c.finished => j \in ledger',
         recent' \in [Jobs -> {0, 1}],
         UNCHANGED <<dbVars, task, gwVars, forward, process, runs>>
  PROVE  Inv'
  <1>l. link # 0 /\ link \in Sessions
    BY LinkIsSession DEF Inv, Agent
  <1>u. UNCHANGED <<bound, sess, queue>>
    BY DEF dbVars, gwVars
  <1> PICK d \in ActiveTypes : d = Flushed(c, k)
    BY FlushedFacts
  <1>d. /\ d.sent <= d.next /\ (d # NotActive => d.run = 1)
        /\ (d.finished => c.finished) /\ (d = NotActive => c.finished)
    BY FlushedFacts
  <1>a. /\ active' \in [Jobs -> ActiveTypes] /\ active'[j] = d
        /\ \A p \in Jobs \ {j} : active'[p] = active[p]
    BY DEF Emit, Inv, Agent, ActiveOK, ActiveTypes
  <1>r. \A p \in Jobs : /\ Running(p)' => Running(p)
                        /\ p # j => (Running(p)' <=> Running(p))
                        /\ Running(p) /\ ~ Running(p)' => p \in ledger'
    BY <1>a, <1>d DEF Running
  <1>t. /\ toAgent' \in [Sessions -> Seq(AgentInbox)]
        /\ \A r \in Sessions : sess'[r].state = "unused" => toAgent'[r] = <<>>
        /\ WrittenOK'
        /\ \/ link' = 0 /\ linked' = FALSE /\ unresumed' = {}
           \/ UNCHANGED <<link, linked>> /\ unresumed' = unresumed \ {j}
    <2>1. CASE k < c.next
      BY <1>l, <1>u, <2>1, DropLinkKeeps DEF Emit
    <2>2. CASE ~ (k < c.next)
      BY <1>l, <1>u, <2>2, InboxKeeps DEF Emit
    <2> QED BY <2>1, <2>2
  <1>1. Agent'
    <2>1. ActiveOK'
      <3>1. ASSUME NEW p \in Jobs
            PROVE  /\ Running(p)' => active'[p].run = 1 /\ runs'[p] = 1
                   /\ active'[p].finished => p \in ledger'
                   /\ recent'[p] \in {0, 1}
        <4>1. CASE p # j
          BY <1>a, <1>r, <4>1 DEF Inv, Agent, ActiveOK
        <4>2. CASE p = j
          BY <1>a, <1>d, <1>r, <4>2 DEF Inv, Agent, ActiveOK, Running
        <4> QED BY <4>1, <4>2
      <3> QED BY <1>a, <3>1 DEF ActiveOK, ActiveTypes
    <2>2. ExclusiveRunsAlone'
      BY <1>r, DispatchAssumption DEF Inv, Agent, ExclusiveRunsAlone
    <2>3. \A p \in Jobs : active'[p].sent <= active'[p].next
      BY <1>a, <1>d DEF Inv, Agent
    <2>4. unresumed' \subseteq {p \in Jobs : Running(p)'}
      BY <1>r, <1>t DEF Inv, Agent
    <2>5. link' \in 0 .. MaxSession /\ linked' \in BOOLEAN /\ (linked' => link' # 0)
          /\ (unresumed' # {} => linked')
      <3>1. CASE link' = 0 /\ linked' = FALSE /\ unresumed' = {}
        <4>1. link' \in 0 .. MaxSession
          BY <3>1, DispatchAssumption
        <4> QED BY <3>1, <4>1
      <3>2. CASE UNCHANGED <<link, linked>>
        BY <3>2 DEF Inv, Agent
      <3> QED BY <1>t, <3>1, <3>2
    <2> QED BY <2>1, <2>2, <2>3, <2>4, <2>5 DEF Inv, Agent
  <1>2. Network'
    <2>1. c.sent \in 0 .. Final + 1 /\ k \in 0 .. Final + 1 /\ c.sent <= k
      BY DispatchAssumption DEF ActiveTypes
    <2>2. Outputs(j, c.run, c.sent, k) \in Seq(AgentFrames)
      BY <2>1, FramesTyped
    <2>3. ms \o Outputs(j, c.run, c.sent, k) \in Seq(AgentFrames)
      BY <2>2, ConcatProperties
    <2>4. toGateway' \in [Sessions -> Seq(AgentFrames)]
      BY <1>l, <2>3, SendKeeps DEF Emit
    <2> QED BY <1>t, <2>4 DEF Network
  <1>3. Binding'
    <2>1. StartedOK'
      BY <1>u, <1>r DEF Inv, Binding, StartedOK
    <2>2. OnlyBoundProcessRuns'
      BY <1>u, <1>r DEF Inv, Binding, OnlyBoundProcessRuns
    <2>3. link' # 0 => sess'[link'].state # "unused" /\ sess'[link'].inc = process'
      BY <1>u, <1>t DEF Inv, Binding
    <2> QED BY <1>t, <2>1, <2>2, <2>3 DEF Binding
  <1> QED BY <1>1, <1>2, <1>3, PartsKept DEF Inv

\* An active command, and the frames that are left on the connection.
LEMMA RunningFacts ==
  ASSUME Inv, NEW j \in Jobs, Running(j)
  PROVE  /\ active[j] \in ActiveTypes /\ active[j].run = 1 /\ active[j].sent <= active[j].next
         /\ active[j].finished => j \in ledger
  BY DEF Inv, Agent, ActiveOK, ActiveTypes

LEMMA RestFacts ==
  ASSUME Inv, link # 0
  PROVE  /\ toAgent[link] \in Seq(AgentInbox)
         /\ toAgent[link] # <<>> =>
              /\ Tail(toAgent[link]) \in Seq(AgentInbox)
              /\ \A i \in DOMAIN Tail(toAgent[link]) :
                   \E n \in DOMAIN toAgent[link] : Tail(toAgent[link])[i] = toAgent[link][n]
  <1>1. toAgent[link] \in Seq(AgentInbox)
    BY LinkIsSession DEF Inv, Network
  <1>2. ASSUME toAgent[link] # <<>>
        PROVE  /\ Tail(toAgent[link]) \in Seq(AgentInbox)
               /\ \A i \in DOMAIN Tail(toAgent[link]) :
                    \E n \in DOMAIN toAgent[link] : Tail(toAgent[link])[i] = toAgent[link][n]
    <2>1. /\ Tail(toAgent[link]) \in Seq(AgentInbox)
          /\ \A i \in DOMAIN Tail(toAgent[link]) :
               i + 1 \in DOMAIN toAgent[link] /\ Tail(toAgent[link])[i] = toAgent[link][i + 1]
      BY <1>1, <1>2, TailOf
    <2> QED BY <2>1
  <1> QED BY <1>1, <1>2

LEMMA ResumeCommandOK ==
  ASSUME Inv, NEW j \in Jobs, ResumeCommand(j)
  PROVE  Inv'
  <1>1. Running(j) /\ linked /\ link # 0
    BY DEF ResumeCommand, Inv, Agent
  <1> PICK c \in ActiveTypes : c = active[j]
    BY <1>1, RunningFacts
  <1> PICK rest \in Seq(AgentInbox) : rest = toAgent[link]
    BY <1>1, RestFacts
  <1>2. PICK k \in c.sent .. c.next : Emit(j, c, <<Frame("resume", j)>>, k, rest)
    BY DEF ResumeCommand
  <1>3. UNCHANGED <<dbVars, task, gwVars, forward, process, runs, recent, ledger>>
    BY DEF ResumeCommand, agentUnchanged
  <1>4. ledger' \subseteq Jobs /\ recent' \in [Jobs -> {0, 1}]
    BY <1>3 DEF Inv, Agent
  <1> QED BY <1>1, <1>2, <1>3, <1>4, RunningFacts, FramesTyped, EmitKeeps

LEMMA DuplicateActiveOK ==
  ASSUME Inv, NEW j \in Jobs, DuplicateActive(j)
  PROVE  Inv'
  <1>1. Running(j) /\ linked /\ link # 0 /\ toAgent[link] # <<>>
    BY ReceivedIsBound DEF DuplicateActive
  <1> PICK c \in ActiveTypes : c = active[j]
    BY <1>1, RunningFacts
  <1> PICK rest \in Seq(AgentInbox) :
        /\ rest = Tail(toAgent[link])
        /\ \A i \in DOMAIN rest : \E n \in DOMAIN toAgent[link] : rest[i] = toAgent[link][n]
    BY <1>1, RestFacts
  <1>2. PICK k \in c.sent .. c.next : Emit(j, c, <<Frame("ack", j)>>, k, rest)
    BY DEF DuplicateActive
  <1>3. UNCHANGED <<dbVars, task, gwVars, forward, process, runs, recent, ledger>>
    BY DEF DuplicateActive, agentUnchanged
  <1>4. ledger' \subseteq Jobs /\ recent' \in [Jobs -> {0, 1}]
    BY <1>3 DEF Inv, Agent
  <1> QED BY <1>1, <1>2, <1>3, <1>4, RunningFacts, FramesTyped, EmitKeeps

LEMMA ProduceOK ==
  ASSUME Inv, NEW j \in Jobs, Produce(j)
  PROVE  Inv'
  <1>1. Running(j) /\ linked /\ link # 0 /\ active[j].next < Final
    BY DEF Produce, Ready, Inv, Agent
  <1> PICK b \in ActiveTypes : b = active[j]
    BY <1>1, RunningFacts
  <1> PICK c : c = [b EXCEPT !.next = @ + 1]
    OBVIOUS
  <1>c. c \in ActiveTypes /\ c.run = 1 /\ c.sent <= c.next /\ c.finished = b.finished
    <2>1. b.run = 1 /\ b.sent <= b.next /\ b.next < Final
      BY <1>1, RunningFacts
    <2>2. b.next \in Nat /\ b.sent \in Nat /\ b.next + 1 \in 0 .. Final + 1
      BY <2>1, DispatchAssumption DEF ActiveTypes
    <2>3. c.run = 1 /\ c.sent = b.sent /\ c.next = b.next + 1
      BY <2>1 DEF ActiveTypes
    <2>4. c.finished = b.finished
      BY DEF ActiveTypes
    <2>5. c \in ActiveTypes
      BY <2>2 DEF ActiveTypes
    <2> QED BY <2>1, <2>2, <2>3, <2>4, <2>5
  <1> PICK rest \in Seq(AgentInbox) : rest = toAgent[link]
    BY <1>1, RestFacts
  <1>2. PICK k \in c.sent .. c.next : Emit(j, c, <<>>, k, rest)
    BY DEF Produce
  <1>3. UNCHANGED <<dbVars, task, gwVars, forward, process, runs, recent, ledger>>
    BY DEF Produce, agentUnchanged
  <1>4. ledger' \subseteq Jobs /\ recent' \in [Jobs -> {0, 1}] /\ (c.finished => j \in ledger')
    BY <1>1, <1>3, <1>c, RunningFacts DEF Inv, Agent
  <1>5. <<>> \in Seq(AgentFrames)
    BY EmptySeq
  <1> QED BY <1>1, <1>2, <1>3, <1>4, <1>5, <1>c, EmitKeeps

\* The end of a command: it is in the ledger before its last output can have left.
LEMMA FinishOK ==
  ASSUME Inv, NEW j \in Jobs, Finish(j)
  PROVE  Inv'
  <1>1. Running(j) /\ linked /\ link # 0 /\ active[j].next = Final
    BY DEF Finish, Ready, Inv, Agent
  <1> PICK b \in ActiveTypes : b = active[j]
    BY <1>1, RunningFacts
  <1> PICK c : c = [b EXCEPT !.next = @ + 1, !.finished = TRUE]
    OBVIOUS
  <1>c. c \in ActiveTypes /\ c.run = 1 /\ c.sent <= c.next
    <2>1. b.run = 1 /\ b.sent <= b.next /\ b.next = Final
      BY <1>1, RunningFacts
    <2>2. b.next \in Nat /\ b.sent \in Nat /\ b.next + 1 \in 0 .. Final + 1
      BY <2>1, DispatchAssumption DEF ActiveTypes
    <2>3. c.run = 1 /\ c.sent = b.sent /\ c.next = b.next + 1
      BY <2>1 DEF ActiveTypes
    <2>4. c \in ActiveTypes
      BY <2>2 DEF ActiveTypes
    <2> QED BY <2>1, <2>2, <2>3, <2>4
  <1> PICK rest \in Seq(AgentInbox) : rest = toAgent[link]
    BY <1>1, RestFacts
  <1>2. PICK k \in c.sent .. c.next : Emit(j, c, <<>>, k, rest)
    BY DEF Finish
  <1>3. UNCHANGED <<dbVars, task, gwVars, forward, process, runs>> /\ ledger' = ledger \cup {j}
    BY DEF Finish, agentUnchanged
  <1>4. ledger' \subseteq Jobs /\ ledger \subseteq ledger' /\ j \in ledger'
        /\ recent' \in [Jobs -> {0, 1}]
    BY <1>1, <1>3, RunningFacts DEF Finish, Inv, Agent
  <1>5. <<>> \in Seq(AgentFrames)
    BY EmptySeq
  <1> QED BY <1>1, <1>2, <1>3, <1>4, <1>5, <1>c, EmitKeeps

LEMMA ReadServerHelloOK ==
  ASSUME Inv, ReadServerHello
  PROVE  Inv'
  <1>1. /\ link # 0 /\ toAgent[link] # <<>> /\ Consume
        /\ linked' = TRUE /\ unresumed' = {j \in Jobs : Running(j)}
        /\ UNCHANGED <<dbVars, task, gwVars, forward, toGateway, process, link, active, recent,
                       ledger, runs>>
    BY DEF ReadServerHello, agentUnchanged
  <1>2. /\ toAgent' \in [Sessions -> Seq(AgentInbox)]
        /\ \A r \in Sessions : sess'[r].state = "unused" => toAgent'[r] = <<>>
        /\ WrittenOK'
    BY <1>1, ConsumeKeeps DEF gwVars, dbVars
  <1>3. Agent'
    BY <1>1 DEF Inv, Agent, ActiveOK, ExclusiveRunsAlone, Running
  <1>4. Network'
    BY <1>1, <1>2 DEF Inv, Network
  <1>5. Binding'
    <2>1. StartedOK' /\ OnlyBoundProcessRuns'
      BY <1>1 DEF Inv, Binding, StartedOK, OnlyBoundProcessRuns, Running, gwVars, dbVars
    <2>2. link' # 0 => sess'[link'].state # "unused" /\ sess'[link'].inc = process'
      BY <1>1 DEF Inv, Binding, gwVars
    <2> QED BY <1>2, <2>1, <2>2 DEF Binding
  <1> QED BY <1>1, <1>3, <1>4, <1>5, PartsKept DEF Inv

LEMMA EvictOK ==
  ASSUME Inv, NEW j \in Jobs, Evict(j)
  PROVE  Inv'
  <1>1. /\ UNCHANGED <<dbVars, task, gwVars, forward, netVars, process, link, linked, unresumed,
                       active, ledger, runs>>
        /\ recent' = [recent EXCEPT ![j] = 0]
    BY DEF Evict, agentUnchanged
  <1>2. Agent'
    <2>1. recent' \in [Jobs -> {0, 1}]
      BY <1>1 DEF Inv, Agent
    <2>2. ActiveOK' /\ ExclusiveRunsAlone'
      BY <1>1, <2>1 DEF Inv, Agent, ActiveOK, ExclusiveRunsAlone, Running
    <2>3. linked' \in BOOLEAN /\ (linked' => link' # 0)
      BY <1>1 DEF Inv, Agent
    <2> QED BY <1>1, <2>1, <2>2, <2>3 DEF Inv, Agent, Running
  <1>3. Binding'
    BY <1>1 DEF Inv, Binding, WrittenOK, StartedOK, OnlyBoundProcessRuns, Running, gwVars, dbVars,
                netVars
  <1> QED BY <1>1, <1>2, <1>3, PartsKept DEF Inv

LEMMA DisconnectOK ==
  ASSUME Inv, Disconnect
  PROVE  Inv'
  <1>1. /\ link # 0 /\ DropLink
        /\ UNCHANGED <<dbVars, task, gwVars, forward, toGateway, process, active, recent, ledger,
                       runs>>
    BY DEF Disconnect, agentUnchanged
  <1>2. /\ toAgent' \in [Sessions -> Seq(AgentInbox)]
        /\ \A r \in Sessions : sess'[r].state = "unused" => toAgent'[r] = <<>>
        /\ WrittenOK'
        /\ link' = 0 /\ linked' = FALSE /\ unresumed' = {}
    BY <1>1, DropLinkKeeps DEF gwVars, dbVars
  <1>3. Agent'
    <2>1. link' \in 0 .. MaxSession
      BY <1>2, DispatchAssumption
    <2> QED BY <1>1, <1>2, <2>1 DEF Inv, Agent, ActiveOK, ExclusiveRunsAlone, Running
  <1>4. Network'
    BY <1>1, <1>2 DEF Inv, Network
  <1>5. Binding'
    <2>1. StartedOK' /\ OnlyBoundProcessRuns'
      BY <1>1 DEF Inv, Binding, StartedOK, OnlyBoundProcessRuns, Running, gwVars, dbVars
    <2> QED BY <1>2, <2>1 DEF Binding
  <1> QED BY <1>1, <1>3, <1>4, <1>5, PartsKept DEF Inv

\* A new process runs nothing, and what ran before is bound to an older one.
LEMMA RestartOK ==
  ASSUME Inv, Restart
  PROVE  Inv'
  <1>1. /\ process < MaxProcess /\ process' = process + 1
        /\ active' = [j \in Jobs |-> NotActive] /\ recent' = [j \in Jobs |-> 0]
        /\ UNCHANGED <<dbVars, task, gwVars, forward, toGateway, ledger, runs>>
    BY DEF Restart, agentUnchanged
  <1>2. /\ toAgent' \in [Sessions -> Seq(AgentInbox)]
        /\ \A r \in Sessions : sess'[r].state = "unused" => toAgent'[r] = <<>>
        /\ WrittenOK'
        /\ link' = 0 /\ ~ linked' /\ linked' \in BOOLEAN /\ unresumed' = {}
    <2>1. CASE link # 0
      BY <1>1, <2>1, DropLinkKeeps DEF Restart, gwVars, dbVars
    <2>2. CASE link = 0
      <3>1. UNCHANGED <<link, linked, unresumed, toAgent>>
        BY <2>2 DEF Restart
      <3>2. ~ linked /\ unresumed = {} /\ linked \in BOOLEAN
        BY <2>2 DEF Inv, Agent
      <3> QED BY <1>1, <2>2, <3>1, <3>2 DEF Inv, Network, Binding, WrittenOK, gwVars, dbVars
    <2> QED BY <2>1, <2>2
  <1>r. \A j \in Jobs : ~ Running(j)'
    BY <1>1 DEF Running
  <1>3. Agent'
    <2>1. link' \in 0 .. MaxSession
      BY <1>2, DispatchAssumption
    <2>2. process' \in 1 .. MaxProcess
      BY <1>1, DispatchAssumption DEF Inv, Agent
    <2>3. ActiveOK' /\ ExclusiveRunsAlone'
      <3>1. active' \in [Jobs -> ActiveTypes] /\ \A j \in Jobs : active'[j] = NotActive
        BY <1>1, NotActiveTyped
      <3> QED BY <1>1, <1>r, <3>1, NotActiveTyped, DispatchAssumption
          DEF ActiveOK, ExclusiveRunsAlone, ActiveTypes
    <2>4. \A j \in Jobs : active'[j].sent <= active'[j].next
      BY <1>1 DEF NotActive
    <2> QED BY <1>1, <1>2, <2>1, <2>2, <2>3, <2>4 DEF Inv, Agent
  <1>4. Network'
    BY <1>1, <1>2 DEF Inv, Network
  <1>5. Binding'
    <2>1. StartedOK'
      <3> SUFFICES ASSUME NEW j \in Jobs, runs[j] # 0
                   PROVE  bound[j] \in 1 .. process + 1 /\ bound[j] < process + 1
        BY <1>1 DEF StartedOK, dbVars
      <3>1. bound[j] \in 1 .. process
        BY DEF Inv, Binding, StartedOK
      <3> QED BY <3>1 DEF Inv, Agent
    <2>2. OnlyBoundProcessRuns'
      BY <1>1, <1>r DEF Inv, Binding, OnlyBoundProcessRuns, gwVars, dbVars
    <2> QED BY <1>2, <2>1, <2>2 DEF Binding
  <1> QED BY <1>1, <1>3, <1>4, <1>5, PartsKept DEF Inv
-----------------------------------------------------------------------------
(* The forwarder and the output ingest.                                      *)

LEMMA HeadEvent ==
  ASSUME Inv, forward # <<>>
  PROVE  /\ Head(forward) \in Events /\ Tail(forward) \in Seq(Events)
         /\ Head(forward).job \in Jobs /\ Head(forward).seq \in Seqs
         /\ Head(forward).value \in {1, Lossy}
         /\ Genuine(Head(forward).seq, Head(forward).value)
  <1>1. Head(forward) \in Events /\ Tail(forward) \in Seq(Events)
    BY TailOf DEF Inv, Forwarder
  <1> QED BY <1>1 DEF Events

\* An output completes a target only with every output of the only execution.
LEMMA IngestOutputOK ==
  ASSUME Inv, IngestOutput
  PROVE  /\ Inv'
         /\ \A k \in Jobs : status'[k] = "completed" =>
              (status[k] = "completed" /\ stored'[k] = stored[k]) \/ WholeOutput(k)'
  <1>e. forward # <<>>
    BY DEF IngestOutput
  <1> PICK o \in Events : o = Head(forward)
    BY <1>e, HeadEvent
  <1>o. o.job \in Jobs /\ o.seq \in Seqs /\ o.value \in {1, Lossy} /\ Genuine(o.seq, o.value)
    BY DEF Events
  <1> DEFINE j == o.job
             rows == RowsAfter(o)[j]
  <1>u. /\ UNCHANGED <<attempt, bound, dbInc, task, gwVars, netVars, agentVars>>
        /\ Stores(o) /\ stored' = RowsAfter(o)
        /\ forward' \in {forward, Tail(forward)}
    BY DEF IngestOutput
  <1>s. \/ UNCHANGED <<status, leased>>
        \/ /\ Active(j) /\ Contiguous(rows) /\ leased' = leased \ {j}
           /\ \E v \in Outcomes(rows[Final]) : status' = [status EXCEPT ![j] = v]
    BY DEF IngestOutput
  <1>r. /\ stored' \in [Jobs -> [Seqs -> Int]] /\ rows = stored'[j]
        /\ stored'[j][o.seq] = o.value
        /\ \A q \in Seqs : q # o.seq => stored'[j][q] = stored[j][q]
        /\ \A k \in Jobs \ {j} : stored'[k] = stored[k]
    <2>1. o.value \in Int
      BY <1>o DEF Lossy
    <2> QED BY <1>o, <1>u, <2>1 DEF RowsAfter, Inv, Rows
  <1>k. ~ Active(j) => stored'[j] = stored[j]
    <2>1. ~ Active(j) => stored[j][o.seq] = o.value
      BY <1>u DEF Stores
    <2>2. stored'[j] \in [Seqs -> Int] /\ stored[j] \in [Seqs -> Int]
      BY <1>o, <1>r DEF Inv, Rows
    <2> QED BY <1>r, <2>1, <2>2
  <1>g. \A k \in Jobs : \A q \in Seqs :
          /\ stored'[k][q] \in {NoOutput, Refusal} \/ Genuine(q, stored'[k][q])
          /\ Active(k) => stored'[k][q] # Refusal
    <2>1. o.value # Refusal
      BY <1>o DEF Refusal, Lossy
    <2> QED BY <1>o, <1>r, <2>1 DEF Inv, Rows, RowsOK
  <1> HIDE DEF j, rows
  <1>j. j \in Jobs /\ j = o.job
    BY <1>o DEF j
  <1> DEFINE reported == \A k \in Jobs : status'[k] = "completed" =>
               (status[k] = "completed" /\ stored'[k] = stored[k]) \/ WholeOutput(k)'
  <1>1. Rows' /\ reported
    <2>1. CASE UNCHANGED <<status, leased>>
      <3>1. RowsOK'
        BY <1>g, <2>1 DEF RowsOK, Active
      <3>2. reported
        <4>1. \A k \in Jobs : status[k] = "completed" => stored'[k] = stored[k]
          BY <1>r, <1>k DEF Active, ActiveTargetStatuses
        <4> QED BY <2>1, <4>1
      <3> QED BY <1>u, <1>r, <2>1, <3>1, <3>2 DEF Inv, Rows
    <2>2. CASE /\ Active(j) /\ Contiguous(rows) /\ leased' = leased \ {j}
               /\ \E v \in Outcomes(rows[Final]) : status' = [status EXCEPT ![j] = v]
      <3>1. PICK v \in Outcomes(rows[Final]) : status' = [status EXCEPT ![j] = v]
        BY <2>2
      <3>2. v \in {"completed", "failed"} /\ (v = "completed" => rows[Final] # Lossy)
        BY DEF Outcomes
      <3>3. /\ status' \in [Jobs -> TargetStatuses]
            /\ status'[j] = v /\ \A k \in Jobs \ {j} : status'[k] = status[k]
            /\ leased' \subseteq {k \in Jobs : status'[k] = "dispatching"}
        BY <1>j, <2>2, <3>1, <3>2 DEF Inv, Rows, TargetStatuses, TerminalTargetStatuses
      <3>4. RowsOK'
        BY <1>g, <2>2, <3>2, <3>3 DEF RowsOK, Active, ActiveTargetStatuses
      <3>5. v = "completed" => \A q \in Seqs : stored'[j][q] = 1
        <4> SUFFICES ASSUME v = "completed", NEW q \in Seqs
                     PROVE  stored'[j][q] = 1
          OBVIOUS
        <4>1. stored'[j][q] # NoOutput /\ stored'[j][q] # Refusal
          BY <1>r, <1>g, <1>j, <2>2 DEF Contiguous
        <4>2. Genuine(q, stored'[j][q])
          BY <1>g, <1>j, <4>1
        <4> QED BY <1>r, <3>2, <4>2 DEF Genuine
      <3>6. reported
        BY <1>r, <3>2, <3>3, <3>5 DEF WholeOutput
      <3> QED BY <1>u, <1>r, <3>3, <3>4, <3>6 DEF Inv, Rows
    <2> QED BY <1>s, <2>1, <2>2
  <1>2. Forwarder'
    BY <1>e, <1>u, HeadEvent DEF Inv, Forwarder
  <1> QED BY <1>u, <1>1, <1>2, PartsKept DEF Inv, gwVars, netVars

LEMMA MarkRunningOK ==
  ASSUME Inv, MarkRunning
  PROVE  Inv'
  <1>1. /\ forward # <<>> /\ forward' = Tail(forward)
        /\ UNCHANGED <<attempt, bound, stored, dbInc, task, gwVars, netVars, agentVars>>
    BY DEF MarkRunning
  <1> PICK j \in Jobs : j = Head(forward).job
    BY <1>1, HeadEvent
  <1>2. Rows'
    <2>1. CASE Active(j)
      <3>1. "running" \in TargetStatuses
        BY DEF TargetStatuses, ActiveTargetStatuses
      <3> QED BY <1>1, <2>1, <3>1, StatusStep DEF MarkRunning
    <2>2. CASE ~ Active(j)
      BY <1>1, <2>2, PartsKept DEF MarkRunning, dbVars
    <2> QED BY <2>1, <2>2
  <1>3. Forwarder'
    BY <1>1, HeadEvent DEF Forwarder
  <1> QED BY <1>1, <1>2, <1>3, PartsKept DEF Inv, gwVars, netVars

LEMMA DropOutputOK ==
  ASSUME Inv, RefuseOutput \/ LoseOutput
  PROVE  Inv'
  <1>1. /\ forward # <<>> /\ forward' = Tail(forward)
        /\ UNCHANGED <<dbVars, task, gwVars, netVars, agentVars>>
    BY DEF RefuseOutput, LoseOutput
  <1>2. Forwarder'
    BY <1>1, HeadEvent DEF Forwarder
  <1> QED BY <1>1, <1>2, PartsKept DEF Inv, dbVars, gwVars, netVars
-----------------------------------------------------------------------------
(* The theorems.                                                             *)

LEMMA InitOK ==
  ASSUME Init
  PROVE  Inv
  <1>n. 0 \in 0 .. MaxAttempts /\ 0 \in 0 .. MaxProcess /\ 0 \in 0 .. MaxSession
        /\ -1 \in -1 .. MaxAttempts /\ 1 \in 1 .. MaxProcess /\ 0 <= QueueCap
    BY DispatchAssumption
  <1>e. \A S : <<>> \in Seq(S) /\ Len(<<>>) = 0
    BY EmptySeq
  <1>1. Rows
    <2>1. status \in [Jobs -> TargetStatuses]
      BY DEF Init, TargetStatuses, ActiveTargetStatuses
    <2>2. /\ stored \in [Jobs -> [Seqs -> Int]]
          /\ \A j \in Jobs : \A q \in Seqs : stored[j][q] = NoOutput
      BY DEF Init, NoOutput
    <2>3. RowsOK
      BY <2>2 DEF RowsOK, NoOutput, Refusal
    <2> QED BY <1>n, <2>1, <2>2, <2>3 DEF Init, Rows
  <1>2. Tasks
    BY DEF Init, Tasks, TaskStates
  <1>3. Gateway
    <2>1. sess \in [Sessions -> SessTypes] /\ \A s \in Sessions : sess[s].state = "unused"
      BY <1>n DEF Init, SessTypes
    <2>2. pending \in [Sessions -> [Jobs -> -1 .. MaxAttempts]]
      BY <1>n DEF Init, NoEntry
    <2>3. queue \in [Sessions -> Seq(CommandFrames)]
          /\ \A s \in Sessions : queue[s] = <<>> /\ Len(queue[s]) <= QueueCap
      BY <1>n, <1>e DEF Init
    <2> QED BY <1>n, <2>1, <2>2, <2>3 DEF Init, Gateway
  <1>4. Forwarder /\ Network
    BY <1>e DEF Init, Forwarder, Network
  <1>r. \A j \in Jobs : ~ Running(j) /\ active[j] = NotActive
    BY DEF Init, Running
  <1>5. Agent
    <2>1. active \in [Jobs -> ActiveTypes]
      BY NotActiveTyped DEF Init
    <2>2. recent \in [Jobs -> {0, 1}] /\ runs \in [Jobs -> {0, 1}]
      BY DEF Init
    <2>3. ActiveOK
      BY <1>r, <2>1, <2>2, NotActiveTyped DEF ActiveOK, ActiveTypes
    <2>4. ExclusiveRunsAlone
      BY <1>r, DispatchAssumption DEF ExclusiveRunsAlone
    <2>5. \A j \in Jobs : active[j].sent <= active[j].next
      BY <1>r DEF NotActive
    <2> QED BY <1>n, <2>2, <2>3, <2>4, <2>5 DEF Init, Agent
  <1>6. Binding
    BY <1>r DEF Init, Binding, WrittenOK, StartedOK, OnlyBoundProcessRuns
  <1> QED BY <1>1, <1>2, <1>3, <1>4, <1>5, <1>6 DEF Inv

LEMMA InitEvidence ==
  ASSUME Init
  PROVE  Evidence
  BY DEF Init, Evidence, CompletedHasEvidence, HeartbeatsOK

LEMMA NextOK ==
  ASSUME Inv, [Next]_vars
  PROVE  Inv'
  <1>1. CASE DispatchStep
    BY <1>1, ClaimOK, LeaseExpiresOK, ExpireDeadlineOK, TaskOnly, RecordPrepareFailureOK,
       GatewayDispatchOK, RecordAnswerOK
    DEF DispatchStep
  <1>2. CASE SessionStep
    BY <1>2, ConnectOK, AcceptHelloOK, RegisterSessionOK, RemoveSessionOK, CloseSessionOK, WriteCommandOK,
       ReadFrameOK
    DEF SessionStep
  <1>3. CASE AgentStep
    BY <1>3, ReadServerHelloOK, DisconnectOK, RestartOK, ResumeCommandOK, DuplicateActiveOK,
       AnswerOK, StartCommandOK, ProduceOK, FinishOK, EvictOK
    DEF AgentStep
  <1>4. CASE IngestStep
    BY <1>4, IngestOutputOK, MarkRunningOK, DropOutputOK DEF IngestStep
  <1>5. CASE UNCHANGED vars
    BY <1>5, PartsKept DEF Inv, vars, dbVars, gwVars, netVars
  <1> QED BY <1>1, <1>2, <1>3, <1>4, <1>5 DEF Next

\* A step that completes no target, forgets no start and takes no binding back keeps the
\* evidence.
LEMMA EvidenceKept ==
  ASSUME Inv, Evidence,
         \A k \in Jobs : status'[k] = "completed" => status[k] = "completed" /\ stored'[k] = stored[k],
         \A k \in Jobs : /\ bound[k] # 0 => bound'[k] = bound[k]
                         /\ runs[k] = 1 => runs'[k] = 1,
         process' \in Nat, process <= process',
         \A s \in Sessions : /\ sess'[s].inc = sess[s].inc /\ sess'[s].beat = sess[s].beat
                             /\ sess[s].state = "unused" => sess'[s].state = "unused"
  PROVE  Evidence'
  <1>1. process \in Nat
    BY DEF Inv, Agent
  <1>2. \A k \in Jobs : runs[k] = 1 => bound[k] \in 1 .. process
    BY DEF Inv, Binding, StartedOK
  <1>b. \A k \in Jobs : runs[k] = 1 => runs'[k] = 1 /\ bound'[k] = bound[k] /\ bound[k] \in Nat
    <2> SUFFICES ASSUME NEW k \in Jobs, runs[k] = 1
                 PROVE  runs'[k] = 1 /\ bound'[k] = bound[k] /\ bound[k] \in Nat
      OBVIOUS
    <2>1. bound[k] \in 1 .. process
      BY <1>2
    <2>2. bound[k] \in Nat /\ bound[k] # 0
      BY <1>1, <2>1
    <2> QED BY <2>2
  <1>3. ASSUME NEW k \in Jobs, OutlivedItsProcess(k)
        PROVE  OutlivedItsProcess(k)'
    BY <1>1, <1>b, <1>3 DEF OutlivedItsProcess
  <1>4. CompletedHasEvidence'
    BY <1>3 DEF Evidence, CompletedHasEvidence, WholeOutput
  <1>5. HeartbeatsOK'
    <2>1. \A s \in Sessions : sess[s].beat # 0 => sess[s].beat \in Jobs
      BY DispatchAssumption DEF Inv, Gateway, SessTypes
    <2> QED BY <1>b, <2>1 DEF Evidence, HeartbeatsOK
  <1>6. \A s \in Sessions : sess[s].inc \in Nat
    BY DEF Inv, Gateway, SessTypes
  <1>7. \A s \in Sessions : sess'[s].state # "unused" => sess'[s].inc <= process'
    BY <1>1, <1>6 DEF Evidence
  <1> QED BY <1>4, <1>5, <1>7 DEF Evidence

\* The agent's hello names an activation it has started.
LEMMA ConnectEvidence ==
  ASSUME Inv, Evidence, NEW s \in Sessions, Connect(s)
  PROVE  Evidence'
  <1>1. PICK b \in Heartbeats :
          sess' = [sess EXCEPT ![s] = [state |-> "hello", inc |-> process, beat |-> b]]
    BY DEF Connect
  <1>2. /\ sess'[s].inc = process /\ sess'[s].beat = b
        /\ \A r \in Sessions \ {s} : sess'[r] = sess[r]
    BY <1>1 DEF Inv, Gateway
  <1>u. UNCHANGED <<status, stored, bound, process, runs>>
    BY DEF Connect, dbVars
  <1>3. CompletedHasEvidence'
    BY <1>u DEF Evidence, CompletedHasEvidence, WholeOutput, OutlivedItsProcess
  <1>4. b # 0 => b \in Jobs /\ runs[b] = 1 /\ bound[b] \in 1 .. process
    BY DispatchAssumption DEF Heartbeats, Inv, Agent, Binding, StartedOK
  <1>5. HeartbeatsOK'
    BY <1>u, <1>2, <1>4 DEF Evidence, HeartbeatsOK
  <1>6. \A r \in Sessions : sess'[r].state # "unused" => sess'[r].inc <= process'
    <2>1. process <= process
      BY DEF Inv, Agent
    <2> QED BY <1>u, <1>2, <2>1 DEF Evidence
  <1> QED BY <1>3, <1>5, <1>6 DEF Evidence

\* A heartbeat completes an activation of a process older than the hello's.
LEMMA AcceptHelloEvidence ==
  ASSUME Inv, Evidence, NEW s \in Sessions, AcceptHello(s)
  PROVE  Evidence'
  <1>u. UNCHANGED <<stored, bound, process, runs>>
    BY DEF AcceptHello, agentVars
  <1>s. /\ sess'[s].inc = sess[s].inc /\ sess'[s].beat = 0 /\ sess[s].state = "hello"
        /\ \A r \in Sessions \ {s} : sess'[r] = sess[r]
    BY DEF AcceptHello, Inv, Gateway, SessTypes
  <1>1. ASSUME NEW j \in Jobs, status'[j] = "completed", status[j] # "completed"
        PROVE  j \in Activations /\ OutlivedItsProcess(j)
    <2>1. j \in SweptBy(sess[s].inc) /\ sess[s].beat = j
      BY <1>1 DEF AcceptHello, Verdicts
    <2>2. bound[j] = dbInc /\ dbInc # sess[s].inc
      BY <2>1 DEF SweptBy
    <2>3. j # 0 /\ j \in Activations
      BY <2>1, DispatchAssumption DEF Inv, Gateway, SessTypes
    <2>4. runs[j] = 1 /\ bound[j] \in 1 .. sess[s].inc /\ sess[s].inc <= process
      BY <1>s, <2>1, <2>3 DEF Evidence, HeartbeatsOK
    <2>5. sess[s].inc \in Nat /\ process \in Nat
      BY DEF Inv, Gateway, SessTypes, Agent
    <2> QED BY <2>2, <2>3, <2>4, <2>5 DEF OutlivedItsProcess
  <1>2. CompletedHasEvidence'
    BY <1>u, <1>1 DEF Evidence, CompletedHasEvidence, WholeOutput, OutlivedItsProcess
  <1>3. HeartbeatsOK'
    BY <1>u, <1>s DEF Evidence, HeartbeatsOK
  <1> QED BY <1>u, <1>s, <1>2, <1>3 DEF Evidence

LEMMA EvidenceOK ==
  ASSUME Inv, Evidence, [Next]_vars
  PROVE  Evidence'
  <1>n. process \in Nat /\ process <= process
    BY DEF Inv, Agent
  <1>e. UNCHANGED <<status, stored, bound, runs, process, sess>> => Evidence'
    BY <1>n, EvidenceKept
  <1>1. CASE DispatchStep
    <2>u. UNCHANGED <<runs, process, sess>>
      <3>1. ASSUME NEW k \in Jobs, Claim(k) \/ LeaseExpires(k) \/ ExpireDeadline(k)
            PROVE  UNCHANGED <<runs, process, sess>>
        BY <3>1 DEF Claim, LeaseExpires, ExpireDeadline, agentVars, gwVars
      <3>2. ASSUME NEW k \in Jobs, NEW a \in Attempts,
                   PrepareFails(k, a) \/ CheckDispatchable(k, a) \/ GiveUp(k, a)
            PROVE  UNCHANGED <<runs, process, sess>>
        BY <3>2 DEF PrepareFails, CheckDispatchable, GiveUp, agentVars, gwVars
      <3>3. ASSUME NEW k \in Jobs, NEW a \in Attempts,
                   GatewayDispatch(k, a) \/ RecordPrepareFailure(k, a) \/ RecordAnswer(k, a)
            PROVE  UNCHANGED <<runs, process, sess>>
        BY <3>3 DEF GatewayDispatch, RecordPrepareFailure, RecordAnswer, agentVars, gwVars
      <3> QED BY <1>1, <3>1, <3>2, <3>3 DEF DispatchStep
    <2>1. ASSUME NEW k \in Jobs, Claim(k)
          PROVE  Evidence'
      <3>1. \A i \in Jobs : bound[i] # 0 => bound'[i] = bound[i]
        BY <2>1 DEF Claim, Inv, Rows
      <3>2. \A i \in Jobs : status'[i] = "completed"
              => status[i] = "completed" /\ stored'[i] = stored[i]
        BY <2>1 DEF Claim, Inv, Rows
      <3> QED BY <1>n, <2>u, <3>1, <3>2, EvidenceKept
    <2>2. ASSUME NEW k \in Jobs, LeaseExpires(k) \/ ExpireDeadline(k)
          PROVE  Evidence'
      <3>1. UNCHANGED <<bound, stored>>
        BY <2>2 DEF LeaseExpires, ExpireDeadline
      <3>2. \A i \in Jobs : status'[i] = "completed" => status[i] = "completed"
        BY <2>2 DEF LeaseExpires, ExpireDeadline, Inv, Rows
      <3> QED BY <1>n, <2>u, <3>1, <3>2, EvidenceKept
    <2>3. ASSUME NEW k \in Jobs, NEW a \in Attempts,
                 \/ PrepareFails(k, a) \/ CheckDispatchable(k, a)
                 \/ GatewayDispatch(k, a) \/ GiveUp(k, a)
          PROVE  Evidence'
      <3>1. UNCHANGED dbVars
        BY <2>3 DEF PrepareFails, CheckDispatchable, GatewayDispatch, GiveUp
      <3> QED BY <1>e, <2>u, <3>1 DEF dbVars
    <2>4. ASSUME NEW k \in Jobs, NEW a \in Attempts, RecordAnswer(k, a)
          PROVE  Evidence'
      <3>1. UNCHANGED <<bound, stored>>
        BY <2>4 DEF RecordAnswer
      <3>2. \A i \in Jobs : status'[i] = "completed" => status[i] = "completed"
        <4>1. Verdict(task[k][a]) # "completed"
          BY <2>4 DEF RecordAnswer, Verdict
        <4> QED BY <2>4, <4>1 DEF RecordAnswer, Inv, Rows
      <3> QED BY <1>n, <2>u, <3>1, <3>2, EvidenceKept
    <2>5. ASSUME NEW k \in Jobs, NEW a \in Attempts, RecordPrepareFailure(k, a)
          PROVE  Evidence'
      <3>1. UNCHANGED bound
        BY <2>5 DEF RecordPrepareFailure
      <3>2. \A i \in Jobs : status'[i] = "completed"
              => status[i] = "completed" /\ stored'[i] = stored[i]
        <4>1. Verdict(task[k][a]) # "completed"
          BY <2>5, DispatchAssumption DEF RecordPrepareFailure, Verdict
        <4> QED BY <2>5, <4>1 DEF RecordPrepareFailure, Inv, Rows
      <3> QED BY <1>n, <2>u, <3>1, <3>2, EvidenceKept
    <2> QED BY <1>1, <2>1, <2>2, <2>3, <2>4, <2>5 DEF DispatchStep
  <1>2. CASE SessionStep
    <2>1. ASSUME NEW s \in Sessions, RegisterSession(s) \/ CloseSession(s)
          PROVE  Evidence'
      <3>1. UNCHANGED <<status, stored, bound, runs, process>>
        BY <2>1 DEF RegisterSession, CloseSession, dbVars, agentVars
      <3>2. \A r \in Sessions : /\ sess'[r].inc = sess[r].inc /\ sess'[r].beat = sess[r].beat
                                /\ sess[r].state = "unused" => sess'[r].state = "unused"
        <4>1. \E v \in {"up", "closed"} : sess' = [sess EXCEPT ![s].state = v]
          BY <2>1 DEF RegisterSession, CloseSession
        <4>2. sess[s].state # "unused" /\ sess \in [Sessions -> SessTypes]
          BY <2>1 DEF RegisterSession, CloseSession, Open, Inv, Gateway
        <4> QED BY <4>1, <4>2 DEF SessTypes
      <3> QED BY <1>n, <3>1, <3>2, EvidenceKept
    <2>2. ASSUME NEW s \in Sessions, RemoveSession(s) \/ WriteCommand(s) \/ ReadFrame(s)
          PROVE  Evidence'
      <3>1. UNCHANGED <<dbVars, agentVars, sess>>
        BY <2>2 DEF RemoveSession, WriteCommand, ReadFrame
      <3> QED BY <1>e, <3>1 DEF dbVars, agentVars
    <2> QED BY <1>2, <2>1, <2>2, ConnectEvidence, AcceptHelloEvidence DEF SessionStep
  <1>3. CASE AgentStep
    <2>u. agentUnchanged => UNCHANGED <<status, stored, bound, sess>>
      BY DEF agentUnchanged, dbVars, gwVars
    <2>1. ASSUME NEW j \in Jobs, StartCommand(j)
          PROVE  Evidence'
      <3>1. agentUnchanged /\ process' = process /\ runs' = [runs EXCEPT ![j] = @ + 1]
        BY <2>1 DEF StartCommand
      <3>2. runs[j] # 1
        <4>1. Inv'
          BY <2>1, StartCommandOK
        <4>2. runs \in [Jobs -> {0, 1}] /\ runs' \in [Jobs -> {0, 1}]
          BY <4>1 DEF Inv, Agent
        <4> QED BY <3>1, <4>2
      <3>3. \A k \in Jobs : runs[k] = 1 => runs'[k] = 1
        BY <3>1, <3>2 DEF Inv, Agent
      <3> QED BY <1>n, <2>u, <3>1, <3>3, EvidenceKept
    <2>2. CASE Restart
      <3>1. agentUnchanged /\ process' = process + 1 /\ runs' = runs
        BY <2>2 DEF Restart
      <3>2. process' \in Nat /\ process <= process'
        BY <1>n, <3>1
      <3> QED BY <2>u, <3>1, <3>2, EvidenceKept
    <2>3. CASE ReadServerHello \/ Disconnect
      BY <1>e, <2>u, <2>3 DEF ReadServerHello, Disconnect
    <2>4. ASSUME NEW j \in Jobs,
                 \/ ResumeCommand(j) \/ DuplicateActive(j) \/ Produce(j) \/ Finish(j)
                 \/ Evict(j)
          PROVE  Evidence'
      BY <1>e, <2>u, <2>4 DEF ResumeCommand, DuplicateActive, Produce, Finish, Evict
    <2>5. ASSUME NEW j \in Jobs, ReplayRecent(j) \/ ReplayLedger(j) \/ RefuseCommand(j)
          PROVE  Evidence'
      BY <1>e, <2>u, <2>5 DEF ReplayRecent, ReplayLedger, RefuseCommand
    <2> QED BY <1>3, <2>1, <2>2, <2>3, <2>4, <2>5 DEF AgentStep
  <1>4. CASE IngestOutput
    <2>1. UNCHANGED <<bound, sess, process, runs>>
      BY <1>4 DEF IngestOutput, gwVars, agentVars
    <2>2. \A k \in Jobs : status'[k] = "completed" =>
            (status[k] = "completed" /\ stored'[k] = stored[k]) \/ WholeOutput(k)'
      BY <1>4, IngestOutputOK
    <2>3. CompletedHasEvidence'
      BY <2>1, <2>2 DEF Evidence, CompletedHasEvidence, WholeOutput, OutlivedItsProcess
    <2> QED BY <2>1, <2>3 DEF Evidence, HeartbeatsOK
  <1>5. CASE MarkRunning
    <2>1. UNCHANGED <<bound, stored, sess, process, runs>>
      BY <1>5 DEF MarkRunning, gwVars, agentVars
    <2>2. \A k \in Jobs : status'[k] = "completed" => status[k] = "completed"
      BY <1>5 DEF MarkRunning, Inv, Rows
    <2> QED BY <1>n, <2>1, <2>2, EvidenceKept
  <1>6. CASE RefuseOutput \/ LoseOutput \/ UNCHANGED vars
    BY <1>e, <1>6 DEF RefuseOutput, LoseOutput, vars, dbVars, gwVars, agentVars
  <1> QED BY <1>1, <1>2, <1>3, <1>4, <1>5, <1>6 DEF Next, IngestStep

\* The parts of IndInv hold together in every reachable state.
THEOREM DispatchInductive == Spec => []IndInv
  <1>1. Spec => [](Inv /\ Evidence)
    <2>1. Init => Inv /\ Evidence
      BY InitOK, InitEvidence
    <2>2. (Inv /\ Evidence) /\ [Next]_vars => (Inv /\ Evidence)'
      BY NextOK, EvidenceOK
    <2> QED BY <2>1, <2>2, PTL DEF Spec
  <1> QED BY <1>1, InvImplies, PTL

\* The rows, the gateway's tables and the agent's state keep their types; in particular
\* no queue exceeds its capacity and no task or attempt leaves its bounds.
THEOREM DispatchTypeCorrect == Spec => []TypeOK
  <1>1. IndInv => TypeOK
    BY DEF IndInv
  <1> QED BY <1>1, DispatchInductive, PTL

\* The agent starts a command at most once, however often it is sent, over any number of
\* reconnects, restarts and lost answers.
THEOREM StartedAtMostOnce == Spec => []RunsAtMostOnce
  <1>1. IndInv => RunsAtMostOnce
    BY DEF IndInv
  <1> QED BY <1>1, DispatchInductive, PTL

\* Commands are queued and executed only in the process their target is bound to.
THEOREM BoundProcessOnly == Spec => []OnlyBoundProcessRuns
  <1>1. IndInv => OnlyBoundProcessRuns
    BY DEF IndInv
  <1> QED BY <1>1, DispatchInductive, PTL

\* Nothing runs beside an exclusive command.
THEOREM ExclusiveAlone == Spec => []ExclusiveRunsAlone
  <1>1. IndInv => ExclusiveRunsAlone
    BY DEF IndInv
  <1> QED BY <1>1, DispatchInductive, PTL

\* A completed target has every output of the execution it reports, or is an activation
\* whose execution was outlived by the process that sent its heartbeat.
THEOREM CompletedIsEvident == Spec => []CompletedHasEvidence
  <1>1. IndInv => CompletedHasEvidence
    BY DEF IndInv
  <1> QED BY <1>1, DispatchInductive, PTL

\* Only the dispatcher's refusal and the ingest write output rows, and neither touches the
\* rows of a target that is no longer active.
LEMMA StepSparesTerminalOutput ==
  ASSUME Inv, [Next]_vars, NEW j \in Jobs, status[j] \in TerminalTargetStatuses
  PROVE  stored'[j] = stored[j]
  <1>1. ~ Active(j)
    BY DEF Active, ActiveTargetStatuses, TerminalTargetStatuses
  <1>2. CASE UNCHANGED stored
    BY <1>2
  <1>3. ASSUME NEW k \in Jobs, NEW a \in Attempts, RecordPrepareFailure(k, a)
        PROVE  stored'[j] = stored[j]
    <2>1. CASE Current(k, a)
      <3>1. k # j
        BY <1>1, <2>1 DEF Current
      <3> QED BY <1>3, <3>1 DEF RecordPrepareFailure, Inv, Rows
    <2>2. CASE ~ Current(k, a)
      BY <1>3, <2>2 DEF RecordPrepareFailure
    <2> QED BY <2>1, <2>2
  <1>4. CASE IngestOutput
    <2>1. forward # <<>>
      BY <1>4 DEF IngestOutput
    <2> PICK o \in Events : o = Head(forward)
      BY <2>1, HeadEvent
    <2>2. o.job \in Jobs /\ o.seq \in Seqs
      BY DEF Events
    <2>3. Stores(o) /\ stored' = RowsAfter(o)
      BY <1>4 DEF IngestOutput
    <2>4. CASE o.job # j
      BY <2>2, <2>3, <2>4 DEF RowsAfter, Inv, Rows
    <2>5. CASE o.job = j
      <3>1. stored[j][o.seq] = o.value
        BY <1>1, <2>3, <2>5 DEF Stores
      <3>2. stored'[j] = [stored[j] EXCEPT ![o.seq] = o.value]
        BY <2>3, <2>5 DEF RowsAfter, Inv, Rows
      <3>3. stored[j] \in [Seqs -> Int]
        BY DEF Inv, Rows
      <3> QED BY <2>2, <3>1, <3>2, <3>3
    <2> QED BY <2>4, <2>5
  <1>5. CASE DispatchStep
    <2>1. ASSUME NEW k \in Jobs, Claim(k) \/ LeaseExpires(k) \/ ExpireDeadline(k)
          PROVE  UNCHANGED stored
      BY <2>1 DEF Claim, LeaseExpires, ExpireDeadline
    <2>2. ASSUME NEW k \in Jobs, NEW a \in Attempts,
                 PrepareFails(k, a) \/ CheckDispatchable(k, a) \/ GatewayDispatch(k, a)
                   \/ GiveUp(k, a) \/ RecordAnswer(k, a)
          PROVE  UNCHANGED stored
      <3>1. PrepareFails(k, a) \/ CheckDispatchable(k, a) => UNCHANGED stored
        BY DEF PrepareFails, CheckDispatchable, dbVars
      <3>2. GatewayDispatch(k, a) => UNCHANGED stored
        BY DEF GatewayDispatch, dbVars
      <3>3. GiveUp(k, a) \/ RecordAnswer(k, a) => UNCHANGED stored
        BY DEF GiveUp, RecordAnswer, dbVars
      <3> QED BY <2>2, <3>1, <3>2, <3>3
    <2> QED BY <1>2, <1>3, <1>5, <2>1, <2>2 DEF DispatchStep
  <1>6. CASE SessionStep
    <2>1. ASSUME NEW s \in Sessions
          PROVE  /\ Connect(s) \/ AcceptHello(s) \/ RegisterSession(s) => UNCHANGED stored
                 /\ RemoveSession(s) \/ CloseSession(s) => UNCHANGED stored
                 /\ WriteCommand(s) \/ ReadFrame(s) => UNCHANGED stored
      <3>1. Connect(s) \/ AcceptHello(s) \/ RegisterSession(s) => UNCHANGED stored
        BY DEF Connect, AcceptHello, RegisterSession, dbVars
      <3>2. RemoveSession(s) \/ CloseSession(s) => UNCHANGED stored
        BY DEF RemoveSession, CloseSession, dbVars
      <3>3. WriteCommand(s) \/ ReadFrame(s) => UNCHANGED stored
        BY DEF WriteCommand, ReadFrame, dbVars
      <3> QED BY <3>1, <3>2, <3>3
    <2> QED BY <1>2, <1>6, <2>1 DEF SessionStep
  <1>7. CASE AgentStep
    <2>1. agentUnchanged => UNCHANGED stored
      BY DEF agentUnchanged, dbVars
    <2>2. ReadServerHello \/ Disconnect \/ Restart => agentUnchanged
      BY DEF ReadServerHello, Disconnect, Restart
    <2>3. ASSUME NEW k \in Jobs
          PROVE  /\ ResumeCommand(k) \/ DuplicateActive(k) => agentUnchanged
                 /\ ReplayRecent(k) \/ ReplayLedger(k) \/ RefuseCommand(k) => agentUnchanged
                 /\ StartCommand(k) \/ Evict(k) => agentUnchanged
                 /\ Produce(k) \/ Finish(k) => agentUnchanged
      BY DEF ResumeCommand, DuplicateActive, ReplayRecent, ReplayLedger, RefuseCommand,
         StartCommand, Evict, Produce, Finish
    <2> QED BY <1>2, <1>7, <2>1, <2>2, <2>3 DEF AgentStep
  <1>8. CASE IngestStep
    BY <1>2, <1>4, <1>8 DEF IngestStep, MarkRunning, RefuseOutput, LoseOutput, dbVars
  <1>9. CASE UNCHANGED vars
    BY <1>2, <1>9 DEF vars, dbVars
  <1> QED BY <1>5, <1>6, <1>7, <1>8, <1>9 DEF Next

\* Once a target is terminal no step changes its output rows: late, repeated and conflicting
\* outputs are accepted as duplicates or refused.
THEOREM TerminalOutputIsKept == Spec => LateOutputIsIgnored
  <1>1. Inv /\ [Next]_vars
        => [\A j \in Jobs : status[j] \in TerminalTargetStatuses => stored'[j] = stored[j]]_vars
    BY StepSparesTerminalOutput
  <1>2. Spec => []Inv
    BY InitOK, NextOK, PTL DEF Spec
  <1> QED BY <1>1, <1>2, PTL DEF Spec, LateOutputIsIgnored
=============================================================================
