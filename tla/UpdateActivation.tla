--------------------------- MODULE UpdateActivation ---------------------------
(***************************************************************************)
(* The agent replaces its own binary: an update is staged beside the       *)
(* active binary, activated, and confirmed by the heartbeat the restarted  *)
(* process sends with its hello, or rolled back.  The files are changed    *)
(* step by step; the process may be killed, and the host lose power,       *)
(* between any two steps.  Activation and rollback run in a blocking       *)
(* thread that goes on when its command has timed out, so the file work of *)
(* two commands can overlap.                                               *)
(*                                                                         *)
(* A binary is known by its digest: an element of Images is a whole        *)
(* binary, Torn one that was cut short.  How commands reach the agent is   *)
(* the subject of JobDispatch; here a command is handed over in one step   *)
(* to the process the database knows.                                      *)
(***************************************************************************)
EXTENDS Naturals, FiniteSets

CONSTANTS
    Jobs,        \* update commands, numbered from 1
    Kind,        \* what each command does
    Image,       \* the binary it stages, or the digest it asks for (None: no digest)
    Restarting,  \* the commands with restart_agent
    Unmanaged,   \* checks the agent starts on its own, unknown to the API
    Images, Original, Torn, None,
    MaxStops,    \* bound on the ends of agent processes
    MaxHellos    \* bound on the hellos on their way at one time

Kinds == {"stage", "check", "activate", "rollback"}

ASSUME UpdateAssumption ==
    /\ Jobs \subseteq Nat \ {0}
    /\ Kind \in [Jobs -> Kinds] /\ Image \in [Jobs -> Images \cup {None}]
    /\ \A j \in Jobs : Kind[j] # "rollback" => Image[j] # None
    /\ Restarting \subseteq Jobs
    /\ Unmanaged \subseteq {j \in Jobs : Kind[j] = "check"}
    /\ Original \in Images /\ Torn \notin Images /\ None \notin Images /\ Torn # None
    /\ MaxStops \in Nat /\ MaxHellos \in Nat

VARIABLES
    \* The agent's directory: the binary, <name>.next, <name>.rollback, the
    \* activation marker (the job it names, 0 without one), and which of the
    \* files written without fsync are not on the medium yet.
    active, staged, rollback, marker, unsynced,
    \* The process: its incarnation, the binary it runs, a requested restart,
    \* whether a hello of it was accepted, the marker read for the next hello.
    up, process, image, restart, stops, met, seen,
    \* The update consumer and the file work of each command: where it is, the
    \* bytes it has read, the file it copies, its cancel token, its final output.
    consumer, pc, bytes, source, canceled, out,
    \* The database: the process it knows, the targets, the hellos on their way.
    known, target, bound, hellos,
    \* The binary run by the process whose heartbeat completed a target.
    witness

diskVars == <<active, staged, rollback, marker, unsynced>>
procVars == <<up, process, image, restart, stops, met, seen>>
workVars == <<consumer, pc, bytes, source, canceled, out>>
apiVars  == <<known, target, bound, hellos, witness>>
vars == <<diskVars, procVars, workVars, apiVars>>

Init ==
    /\ active = Original /\ staged \in Images \cup {None} /\ rollback = None
    /\ marker = 0 /\ unsynced = {}
    /\ up = TRUE /\ process = 1 /\ image = Original /\ restart = FALSE /\ stops = 0
    /\ met = FALSE /\ seen = 0
    /\ consumer = 0 /\ pc = [j \in Jobs |-> "idle"]
    /\ bytes = [j \in Jobs |-> None] /\ source = [j \in Jobs |-> None]
    /\ canceled = {} /\ out = [j \in Jobs |-> "none"]
    /\ known = 0 /\ hellos = {}
    /\ target = [j \in Jobs |-> "queued"] /\ bound = [j \in Jobs |-> 0]
    /\ witness = [j \in Jobs |-> None]

------------------------------------------------------------------------------
(* The update consumer: one command at a time, as long as it waits for it. *)

\* Where file work is under way: in the consumer itself, or in the thread.
Staging == {"fetch", "backup", "save"}
InThread == {"read", "copy", "check", "mark", "swap", "clean"}

Goto(j, where) == pc' = [pc EXCEPT ![j] = where]

\* The command ends and drops what it holds; its output is sent if the
\* consumer still waits for it.
Finish(j, result) ==
    /\ Goto(j, "done")
    /\ bytes' = [bytes EXCEPT ![j] = None] /\ source' = [source EXCEPT ![j] = None]
    /\ canceled' = canceled \ {j}
    /\ consumer' = IF consumer = j THEN 0 ELSE consumer
    /\ out' = IF consumer = j THEN [out EXCEPT ![j] = result] ELSE out

\* A command arrives in the process the database knows, or an unmanaged check
\* is due, both in a session whose hello was accepted; an exclusive command is
\* refused while another one is active.
Begin(j) ==
    /\ up /\ met /\ consumer = 0
    /\ j \in Unmanaged \/ known = process
    /\ pc[j] = "idle" /\ target[j] = "queued"
    /\ consumer' = j
    /\ Goto(j, IF Kind[j] \in {"stage", "check"} THEN "fetch" ELSE "read")
    /\ IF j \in Unmanaged
         THEN UNCHANGED <<target, bound>>
         ELSE /\ target' = [target EXCEPT ![j] = "running"]
              /\ bound' = [bound EXCEPT ![j] = process]
    /\ UNCHANGED <<diskVars, procVars, bytes, source, canceled, out, known, hellos, witness>>

\* The command's timeout: its token is canceled and a failure reported, while
\* the thread goes on to its next look at the token.  The file work of staging
\* does not yield, so only the download before it can time out.
Timeout(j) ==
    /\ consumer = j /\ pc[j] \in InThread \cup {"fetch"}
    /\ consumer' = 0
    /\ IF pc[j] = "fetch"
         THEN Goto(j, "done") /\ canceled' = canceled \ {j}
         ELSE canceled' = canceled \cup {j} /\ UNCHANGED pc
    /\ out' = [out EXCEPT ![j] = "failed"]
    /\ UNCHANGED <<diskVars, procVars, bytes, source, apiVars>>

\* An operator's cancel reaches the token of the active command.
Cancel(j) ==
    /\ consumer = j /\ j \notin canceled \cup Unmanaged
    /\ canceled' = canceled \cup {j}
    /\ UNCHANGED <<diskVars, procVars, consumer, pc, bytes, source, out, apiVars>>

\* Work ends with an error: an I/O error, a canceled token, a missing file, a
\* digest that does not match.
Fail(j) ==
    /\ pc[j] \in Staging \cup InThread
    /\ Finish(j, "failed")
    /\ UNCHANGED <<diskVars, procVars, apiVars>>

------------------------------------------------------------------------------
(* The steps of the file work. *)

Copying(k) == pc[k] \in {"backup", "copy"}

\* fs::copy of the active binary truncates the rollback file first; copies of
\* different binaries that overlap leave a mix of both ...
OpenCopy(j) ==
    /\ rollback' = Torn
    /\ unsynced' = unsynced \cup {"rollback"}
    /\ LET mixed == \E k \in Jobs : Copying(k) /\ source[k] # active
       IN  source' = [k \in Jobs |-> IF k = j \/ Copying(k)
                                       THEN IF mixed THEN Torn ELSE active
                                       ELSE source[k]]

\* ... and the file is whole when the last of them returns.
CloseCopy(j) ==
    rollback' = IF \E k \in Jobs \ {j} : Copying(k) THEN Torn ELSE source[j]

\* The artifact is downloaded and its digest verified; the rollback copy begins.
Fetch(j) ==
    /\ pc[j] = "fetch" /\ j \notin canceled
    /\ OpenCopy(j) /\ Goto(j, "backup")
    /\ UNCHANGED <<active, staged, marker, procVars, consumer, bytes, canceled, out, apiVars>>

Backup(j) ==
    /\ pc[j] = "backup"
    /\ CloseCopy(j) /\ Goto(j, "save")
    /\ UNCHANGED <<active, staged, marker, unsynced, procVars,
                   consumer, bytes, source, canceled, out, apiVars>>

\* The artifact is written beside the binary and renamed, not synced.  A check
\* goes on to activate it.
Save(j) ==
    /\ pc[j] = "save"
    /\ staged' = Image[j]
    /\ unsynced' = unsynced \cup {"staged"}
    /\ IF Kind[j] = "check"
         THEN Goto(j, "read") /\ UNCHANGED <<consumer, bytes, source, canceled, out>>
         ELSE Finish(j, "completed")
    /\ UNCHANGED <<active, rollback, marker, procVars, apiVars>>

\* Mutant: what is read is taken as it is.
DigestMatches_Unchecked(j, content) == TRUE

\* Whether the bytes read are those the command names: activation always
\* compares digests, rollback only if it was given one.
DigestMatches(j, content) == (Kind[j] = "rollback" /\ Image[j] = None) \/ content = Image[j]

\* The staged binary is read and its digest compared; a missing rollback copy
\* is made.
ReadStaged(j) ==
    /\ pc[j] = "read" /\ Kind[j] # "rollback" /\ j \notin canceled
    /\ staged # None /\ DigestMatches(j, staged)
    /\ bytes' = [bytes EXCEPT ![j] = staged]
    /\ IF rollback = None
         THEN OpenCopy(j) /\ Goto(j, "copy")
         ELSE Goto(j, "check") /\ UNCHANGED <<rollback, unsynced, source>>
    /\ UNCHANGED <<active, staged, marker, procVars, consumer, canceled, out, apiVars>>

Copy(j) ==
    /\ pc[j] = "copy"
    /\ CloseCopy(j) /\ Goto(j, "check")
    /\ UNCHANGED <<active, staged, marker, unsynced, procVars,
                   consumer, bytes, source, canceled, out, apiVars>>

\* The rollback copy is read, and compared if a digest was given.
ReadRollback(j) ==
    /\ pc[j] = "read" /\ Kind[j] = "rollback" /\ j \notin canceled
    /\ rollback # None /\ DigestMatches(j, rollback)
    /\ bytes' = [bytes EXCEPT ![j] = rollback]
    /\ Goto(j, "check")
    /\ UNCHANGED <<diskVars, procVars, consumer, source, canceled, out, apiVars>>

\* The last look at the cancel token.
Check(j) ==
    /\ pc[j] = "check" /\ j \notin canceled
    /\ Goto(j, "mark")
    /\ UNCHANGED <<diskVars, procVars, consumer, bytes, source, canceled, out, apiVars>>

\* The marker is replaced atomically with the activation's, or removed.
Mark(j) ==
    /\ pc[j] = "mark"
    /\ marker' = IF Kind[j] = "rollback" THEN 0 ELSE j
    /\ Goto(j, "swap")
    /\ UNCHANGED <<active, staged, rollback, unsynced, procVars,
                   consumer, bytes, source, canceled, out, apiVars>>

\* The new binary is written beside, synced and renamed over the active one: a
\* crash before the rename leaves only a file nobody reads.
Swap(j) ==
    /\ pc[j] = "swap"
    /\ active' = bytes[j]
    /\ IF Kind[j] = "rollback"
         THEN Finish(j, "completed")
         ELSE Goto(j, "clean") /\ UNCHANGED <<consumer, bytes, source, canceled, out>>
    /\ UNCHANGED <<staged, rollback, marker, unsynced, procVars, apiVars>>

\* The staged file is removed, if that works, and a restart requested, which
\* may fail.
Clean(j) ==
    /\ pc[j] = "clean"
    /\ staged' \in {None, staged}
    /\ \/ restart' = (restart \/ j \in Restarting) /\ Finish(j, "completed")
       \/ j \in Restarting /\ Finish(j, "failed") /\ UNCHANGED restart
    /\ UNCHANGED <<active, rollback, marker, unsynced,
                   up, process, image, stops, met, seen, apiVars>>

------------------------------------------------------------------------------
(* The process and its host. *)

\* The process ends, with every thread: it is killed, exits, or replaces itself
\* (request_agent_restart).
ProcessEnds ==
    /\ up /\ stops < MaxStops
    /\ up' = FALSE /\ restart' = FALSE /\ stops' = stops + 1 /\ seen' = 0
    /\ consumer' = 0
    /\ pc' = [j \in Jobs |-> IF pc[j] \in Staging \cup InThread THEN "done" ELSE pc[j]]
    /\ bytes' = [j \in Jobs |-> None] /\ source' = [j \in Jobs |-> None] /\ canceled' = {}
    /\ UNCHANGED <<process, image, met, out, apiVars>>

Stop == ProcessEnds /\ UNCHANGED diskVars

\* A power loss takes what was not synced.
PowerLoss ==
    /\ ProcessEnds
    /\ \E lost \in SUBSET unsynced :
         /\ staged' = IF "staged" \in lost /\ staged # None THEN Torn ELSE staged
         /\ rollback' = IF "rollback" \in lost THEN Torn ELSE rollback
    /\ unsynced' = {}
    /\ UNCHANGED <<active, marker>>

\* The kernel writes a file back.
Writeback(f) ==
    /\ f \in unsynced /\ unsynced' = unsynced \ {f}
    /\ UNCHANGED <<active, staged, rollback, marker, procVars, workVars, apiVars>>

\* The supervisor starts the binary that is in place, or exec continues with it.
Boot ==
    /\ ~ up /\ active \in Images
    /\ up' = TRUE /\ process' = process + 1 /\ image' = active
    /\ met' = FALSE
    /\ UNCHANGED <<diskVars, restart, stops, seen, workVars, apiVars>>

------------------------------------------------------------------------------
(* The API. *)

\* read_activation_heartbeat reads the marker ...
ReadMarker ==
    /\ up /\ seen = 0 /\ marker # 0
    /\ seen' = marker
    /\ UNCHANGED <<diskVars, up, process, image, restart, stops, met, workVars, apiVars>>

\* Mutant: the digest is copied from the marker.
Heartbeat_FromMarker ==
    [process |-> process, job |-> seen,
     digest |-> IF seen = 0 THEN None ELSE Image[seen], ran |-> image]

\* ... and then, if there was one, the digest of the file in place.
Heartbeat ==
    [process |-> process, job |-> seen,
     digest |-> IF seen = 0 THEN None ELSE active, ran |-> image]

\* The hello goes without a heartbeat if there is no marker, or it cannot be read.
SendHello ==
    /\ up /\ Cardinality(hellos) < MaxHellos
    /\ hellos' = hellos \cup {Heartbeat}
    /\ seen' = 0
    /\ UNCHANGED <<diskVars, up, process, image, restart, stops, met,
                   workVars, known, target, bound, witness>>

\* It does not arrive, or is refused: also when its heartbeat contradicts the one
\* the job already has (record_agent_update_heartbeat_in_tx).
LoseHello(h) ==
    /\ hellos' = hellos \ {h}
    /\ UNCHANGED <<diskVars, procVars, workVars, known, target, bound, witness>>

\* The targets that ran in the process that was known until this hello.
Swept(h) ==
    {j \in Jobs : known # 0 /\ h.process # known /\ target[j] = "running" /\ bound[j] = known}

\* An activation whose marker the hello brings is judged by the digest; every
\* other target is lost.
Verdict(h, j) ==
    IF Kind[j] = "activate" /\ h.job = j
      THEN IF h.digest = Image[j] THEN "completed" ELSE "failed"
      ELSE "agent_lost"

\* upsert_agent_hello commits.
CommitHello(h) ==
    /\ hellos' = hellos \ {h}
    /\ known' = h.process
    /\ target' = [j \in Jobs |-> IF j \in Swept(h) THEN Verdict(h, j) ELSE target[j]]
    /\ witness' = [j \in Jobs |-> IF j \in Swept(h) /\ Verdict(h, j) = "completed"
                                    THEN h.ran ELSE witness[j]]
    /\ met' = (met \/ (up /\ h.process = process))
    /\ UNCHANGED <<diskVars, up, process, image, restart, stops, seen, workVars, bound>>

\* The final output of a command ends its target.
Deliver(j) ==
    /\ target[j] = "running" /\ out[j] # "none"
    /\ target' = [target EXCEPT ![j] = out[j]]
    /\ UNCHANGED <<diskVars, procVars, workVars, known, bound, hellos, witness>>

\* The control deadline ends it without one.
Deadline(j) ==
    /\ target[j] = "running"
    /\ target' = [target EXCEPT ![j] =
         IF Kind[j] = "activate" /\ j \in Restarting THEN "agent_lost" ELSE "control_timeout"]
    /\ UNCHANGED <<diskVars, procVars, workVars, known, bound, hellos, witness>>

------------------------------------------------------------------------------
Work(j) ==
    \/ Begin(j) \/ Timeout(j) \/ Cancel(j) \/ Fail(j)
    \/ Fetch(j) \/ Backup(j) \/ Save(j)
    \/ ReadStaged(j) \/ Copy(j) \/ ReadRollback(j)
    \/ Check(j) \/ Mark(j) \/ Swap(j) \/ Clean(j)

Next ==
    \/ \E j \in Jobs : Work(j) \/ Deliver(j) \/ Deadline(j)
    \/ Stop \/ PowerLoss \/ Boot
    \/ \E f \in unsynced : Writeback(f)
    \/ ReadMarker \/ SendHello
    \/ \E h \in hellos : LoseHello(h) \/ CommitHello(h)

Spec == Init /\ [][Next]_vars

------------------------------------------------------------------------------
(* Properties *)

\* Every rollback names the digest of the binary it wants back.
Pinned == \A j \in Jobs : Kind[j] = "rollback" => Image[j] # None

\* When rollbacks name a digest, the binary in place can be started at every
\* moment, wherever the agent is killed or the host loses power, and while the
\* threads of timed-out commands overlap with later ones (replace_active_binary).
ActiveIsWhole == Pinned => active \in Images

\* An activation is confirmed by heartbeat only if the process that sent it runs
\* the staged binary: not for a marker whose binary was never put in place, nor
\* by the process that was to be replaced (mark_old_incarnation_targets_agent_lost_in_tx).
ConfirmedIsRunning == \A j \in Jobs : witness[j] # None => witness[j] = Image[j]

------------------------------------------------------------------------------
(* Why they hold: the parts of the inductive invariant *)

Contents == Images \cup {Torn, None}
Outcomes == {"completed", "failed"}

\* The type invariant.
TypeOK ==
    /\ active \in Contents /\ staged \in Contents /\ rollback \in Contents
    /\ marker \in Jobs \cup {0} /\ unsynced \subseteq {"staged", "rollback"}
    /\ up \in BOOLEAN /\ process \in Nat \ {0} /\ image \in Contents
    /\ restart \in BOOLEAN /\ stops \in 0..MaxStops
    /\ met \in BOOLEAN /\ seen \in Jobs \cup {0}
    /\ consumer \in Jobs \cup {0}
    /\ pc \in [Jobs -> {"idle", "done"} \cup Staging \cup InThread]
    /\ bytes \in [Jobs -> Contents] /\ source \in [Jobs -> Contents]
    /\ canceled \subseteq Jobs /\ out \in [Jobs -> Outcomes \cup {"none"}]
    /\ known \in Nat /\ bound \in [Jobs -> Nat]
    /\ target \in [Jobs -> {"queued", "running", "agent_lost", "control_timeout"} \cup Outcomes]
    /\ hellos \subseteq
         [process : Nat \ {0}, job : Jobs \cup {0}, digest : Contents, ran : Contents]
    /\ witness \in [Jobs -> Contents]

\* File work is done by a process that lives and has had a hello accepted.
WorkHasMet == \A j \in Jobs : pc[j] \in Staging \cup InThread => up /\ met

\* A target that runs is bound to the process the database knows, which is the
\* living one if that has had a hello accepted.
RunningIsKnown ==
    \A j \in Jobs : target[j] = "running" =>
        known # 0 /\ bound[j] = known /\ (met => bound[j] = process)

\* Until its first hello is accepted, a process runs the binary that is in place.
UnmetIsUntouched == up /\ ~ met => active = image

\* What a thread holds when it comes to swap has the digest it was asked for.
BytesVerified ==
    \A j \in Jobs : pc[j] \in {"copy", "check", "mark", "swap"} => DigestMatches(j, bytes[j])

\* Only a command that has begun is named by the marker or by a hello.
NamedHasBegun ==
    /\ marker # 0 => pc[marker] # "idle"
    /\ seen # 0 => pc[seen] # "idle"
    /\ \A h \in hellos : h.job # 0 => pc[h.job] # "idle"

\* A hello that brings a command that still runs for another process names the
\* binary its sender runs.
HelloIsHonest ==
    \A h \in hellos : h.job # 0 /\ target[h.job] = "running" /\ bound[h.job] # h.process
        => h.digest = h.ran

IInv ==
    /\ TypeOK /\ WorkHasMet /\ RunningIsKnown /\ UnmetIsUntouched
    /\ BytesVerified /\ NamedHasBegun /\ HelloIsHonest
    /\ ActiveIsWhole /\ ConfirmedIsRunning
===============================================================================
