----------------------- MODULE UpdateActivation_proofs -----------------------
(***************************************************************************)
(* Proofs about the replacement of the agent's binary, for every set of    *)
(* update commands and any number of crashes, power losses and hellos.     *)
(*                                                                         *)
(* The binary in place is whole because a thread only ever swaps in bytes  *)
(* whose digest it has compared (BytesVerified).  A heartbeat is truthful  *)
(* because the first hello of a process that is accepted settles the       *)
(* targets of its predecessors (RunningIsKnown), and until then the        *)
(* process has not touched the binary it runs (UnmetIsUntouched).          *)
(***************************************************************************)
EXTENDS UpdateActivation, TLAPS

USE DEF Kinds

LEMMA InitHolds == Init => IInv
  <1> SUFFICES ASSUME Init PROVE IInv
    OBVIOUS
  <1>1. TypeOK
    <2>1. /\ active \in Contents /\ staged \in Contents /\ rollback \in Contents
          /\ image \in Contents
      BY UpdateAssumption DEF Init, Contents
    <2>2. up \in BOOLEAN /\ restart \in BOOLEAN /\ met \in BOOLEAN
      BY DEF Init
    <2>3. stops \in 0..MaxStops
      BY UpdateAssumption DEF Init
    <2>4. /\ pc \in [Jobs -> {"idle", "done"} \cup Staging \cup InThread]
          /\ bytes \in [Jobs -> Contents] /\ source \in [Jobs -> Contents]
          /\ witness \in [Jobs -> Contents]
      BY DEF Init, Contents
    <2> QED
      BY <2>1, <2>2, <2>3, <2>4 DEF Init, TypeOK
  <1>2. WorkHasMet /\ RunningIsKnown /\ BytesVerified
    BY DEF Init, WorkHasMet, RunningIsKnown, BytesVerified, Staging, InThread
  <1>3. NamedHasBegun /\ UnmetIsUntouched /\ HelloIsHonest
    BY DEF Init, NamedHasBegun, UnmetIsUntouched, HelloIsHonest
  <1>4. ActiveIsWhole /\ ConfirmedIsRunning
    BY UpdateAssumption DEF Init, ActiveIsWhole, ConfirmedIsRunning
  <1> QED BY <1>1, <1>2, <1>3, <1>4 DEF IInv

LEMMA StutterKeeps == IInv /\ UNCHANGED vars => IInv'
  BY DEF IInv, TypeOK, WorkHasMet, RunningIsKnown, BytesVerified, NamedHasBegun,
         UnmetIsUntouched, HelloIsHonest, ActiveIsWhole, Pinned, ConfirmedIsRunning,
         DigestMatches, vars, diskVars, procVars, workVars, apiVars

\* What the end of a command leaves is of its type.
LEMMA FinishTyped ==
    ASSUME TypeOK, NEW j \in Jobs, NEW result \in Outcomes, Finish(j, result)
    PROVE  /\ consumer' \in Jobs \cup {0}
           /\ pc' \in [Jobs -> {"idle", "done"} \cup Staging \cup InThread]
           /\ bytes' \in [Jobs -> Contents] /\ source' \in [Jobs -> Contents]
           /\ canceled' \subseteq Jobs /\ out' \in [Jobs -> Outcomes \cup {"none"}]
           /\ \A k \in Jobs : pc[k] # "idle" => pc'[k] # "idle"
  BY DEF TypeOK, Finish, Goto, Contents

\* A command that has begun never goes back, so it may stay named.
LEMMA BegunStays ==
    ASSUME TypeOK, NamedHasBegun, UNCHANGED <<marker, seen, hellos>>,
           \A k \in Jobs : pc[k] # "idle" => pc'[k] # "idle"
    PROVE  NamedHasBegun'
  <1>1. \A h \in hellos : h.job \in Jobs \cup {0}
    BY DEF TypeOK
  <1> QED BY <1>1 DEF TypeOK, NamedHasBegun

\* A command that begins is named by no marker and no hello.
LEMMA BeginKeeps ==
    ASSUME IInv, NEW j \in Jobs, Begin(j)
    PROVE  IInv'
  <1>1. TypeOK'
    BY UpdateAssumption DEF TypeOK, Contents, Outcomes, Staging, InThread, IInv,
           Begin, Goto, diskVars, procVars, workVars, apiVars
  <1>2. WorkHasMet' /\ RunningIsKnown'
    BY UpdateAssumption DEF WorkHasMet, RunningIsKnown, TypeOK, Staging, InThread,
           IInv, Begin, Goto, diskVars, procVars, workVars, apiVars
  <1>3. NamedHasBegun'
    BY UpdateAssumption DEF NamedHasBegun, TypeOK, Staging, InThread, IInv, Begin,
           Goto, diskVars, procVars, workVars, apiVars
  <1>4. UnmetIsUntouched'
    BY UpdateAssumption DEF UnmetIsUntouched, TypeOK, WorkHasMet, RunningIsKnown,
           NamedHasBegun, Staging, InThread, IInv, Begin, Goto, diskVars, procVars,
           workVars, apiVars
  <1>5. HelloIsHonest'
    <2>1. \A h \in hellos : h.job \in Jobs \cup {0} /\ h.job # j
      BY UpdateAssumption DEF Begin, IInv, TypeOK, NamedHasBegun
    <2>2. \A k \in Jobs : k # j => bound'[k] = bound[k] /\ target'[k] = target[k]
      BY DEF Begin, IInv, TypeOK
    <2> QED
      BY <2>1, <2>2 DEF HelloIsHonest, IInv, Begin
  <1>6. BytesVerified' /\ ActiveIsWhole' /\ ConfirmedIsRunning'
    BY UpdateAssumption DEF BytesVerified, TypeOK, DigestMatches, ActiveIsWhole,
           Pinned, ConfirmedIsRunning, HelloIsHonest, IInv, Begin, Goto, diskVars,
           procVars, workVars, apiVars
  <1> QED BY <1>1, <1>2, <1>3, <1>4, <1>5, <1>6 DEF IInv

\* A timeout leaves the work of the thread where it is.
LEMMA TimeoutKeeps ==
    ASSUME IInv, NEW j \in Jobs, Timeout(j)
    PROVE  IInv'
  <1>1. TypeOK'
    <2>1. /\ pc' \in [Jobs -> {"idle", "done"} \cup Staging \cup InThread]
          /\ canceled' \subseteq Jobs /\ consumer' \in Jobs \cup {0}
          /\ out' \in [Jobs -> Outcomes \cup {"none"}]
      BY DEF Timeout, Goto, IInv, TypeOK, Outcomes
    <2> QED BY <2>1 DEF Timeout, IInv, TypeOK, diskVars, procVars, apiVars
  <1>2. NamedHasBegun'
    <2>1. \A k \in Jobs : pc[k] # "idle" => pc'[k] # "idle"
      BY DEF Timeout, Goto, IInv, TypeOK
    <2> QED BY <2>1, BegunStays DEF IInv, Timeout, apiVars, diskVars, procVars
  <1>3. /\ WorkHasMet' /\ RunningIsKnown' /\ UnmetIsUntouched' /\ BytesVerified'
        /\ HelloIsHonest' /\ ActiveIsWhole' /\ ConfirmedIsRunning'
    BY UpdateAssumption DEF WorkHasMet, RunningIsKnown, TypeOK, Staging, InThread,
           BytesVerified, DigestMatches, UnmetIsUntouched, NamedHasBegun,
           HelloIsHonest, ActiveIsWhole, Pinned, ConfirmedIsRunning, IInv, Timeout,
           Goto, diskVars, procVars, workVars, apiVars
  <1> QED BY <1>1, <1>2, <1>3 DEF IInv

\* A canceled token changes what work may do next, not what it has done.
LEMMA CancelKeeps ==
    ASSUME IInv, NEW j \in Jobs, Cancel(j)
    PROVE  IInv'
  <1>1. TypeOK'
    BY UpdateAssumption DEF TypeOK, Contents, Outcomes, Staging, InThread, IInv,
           Cancel, diskVars, procVars, workVars, apiVars
  <1>2. /\ WorkHasMet' /\ RunningIsKnown' /\ UnmetIsUntouched' /\ BytesVerified'
        /\ NamedHasBegun' /\ HelloIsHonest' /\ ActiveIsWhole' /\ ConfirmedIsRunning'
    BY UpdateAssumption DEF WorkHasMet, RunningIsKnown, TypeOK, Staging, InThread,
           BytesVerified, DigestMatches, NamedHasBegun, UnmetIsUntouched,
           HelloIsHonest, ActiveIsWhole, Pinned, ConfirmedIsRunning, IInv, Cancel,
           diskVars, procVars, workVars, apiVars
  <1> QED BY <1>1, <1>2 DEF IInv

\* A command that ends with an error has put nothing in place since its last step.
LEMMA FailKeeps ==
    ASSUME IInv, NEW j \in Jobs, Fail(j)
    PROVE  IInv'
  <1>1. TypeOK'
    BY UpdateAssumption DEF TypeOK, Contents, Outcomes, Staging, InThread, IInv, Fail,
           Finish, Goto, diskVars, procVars, workVars, apiVars
  <1>2. /\ WorkHasMet' /\ RunningIsKnown' /\ UnmetIsUntouched' /\ BytesVerified'
        /\ NamedHasBegun' /\ HelloIsHonest' /\ ActiveIsWhole' /\ ConfirmedIsRunning'
    BY UpdateAssumption DEF WorkHasMet, RunningIsKnown, TypeOK, Staging, InThread,
           BytesVerified, DigestMatches, NamedHasBegun, UnmetIsUntouched,
           HelloIsHonest, ActiveIsWhole, Pinned, ConfirmedIsRunning, IInv, Fail,
           Finish, Goto, diskVars, procVars, workVars, apiVars
  <1> QED BY <1>1, <1>2 DEF IInv

\* Staging touches the rollback copy and the staged file only.
LEMMA FetchKeeps ==
    ASSUME IInv, NEW j \in Jobs, Fetch(j)
    PROVE  IInv'
  <1>1. TypeOK'
    BY UpdateAssumption DEF TypeOK, Contents, Outcomes, Staging, InThread, IInv,
           Fetch, OpenCopy, Goto, diskVars, procVars, workVars, apiVars
  <1>2. /\ WorkHasMet' /\ RunningIsKnown' /\ UnmetIsUntouched' /\ BytesVerified'
        /\ NamedHasBegun' /\ HelloIsHonest' /\ ActiveIsWhole' /\ ConfirmedIsRunning'
    BY UpdateAssumption DEF WorkHasMet, RunningIsKnown, TypeOK, Staging, InThread,
           BytesVerified, DigestMatches, NamedHasBegun, UnmetIsUntouched,
           HelloIsHonest, ActiveIsWhole, Pinned, ConfirmedIsRunning, IInv, Fetch,
           OpenCopy, Goto, diskVars, procVars, workVars, apiVars
  <1> QED BY <1>1, <1>2 DEF IInv

LEMMA BackupKeeps ==
    ASSUME IInv, NEW j \in Jobs, Backup(j)
    PROVE  IInv'
  <1>1. TypeOK'
    BY UpdateAssumption DEF TypeOK, Contents, Outcomes, Staging, InThread, IInv,
           Backup, CloseCopy, Goto, diskVars, procVars, workVars, apiVars
  <1>2. /\ WorkHasMet' /\ RunningIsKnown' /\ UnmetIsUntouched' /\ BytesVerified'
        /\ NamedHasBegun' /\ HelloIsHonest' /\ ActiveIsWhole' /\ ConfirmedIsRunning'
    BY UpdateAssumption DEF WorkHasMet, RunningIsKnown, TypeOK, Staging, InThread,
           BytesVerified, DigestMatches, NamedHasBegun, UnmetIsUntouched,
           HelloIsHonest, ActiveIsWhole, Pinned, ConfirmedIsRunning, IInv, Backup,
           CloseCopy, Goto, diskVars, procVars, workVars, apiVars
  <1> QED BY <1>1, <1>2 DEF IInv

LEMMA SaveKeeps ==
    ASSUME IInv, NEW j \in Jobs, Save(j)
    PROVE  IInv'
  <1>1. TypeOK'
    <2>1. CASE Kind[j] = "check"
      BY <2>1, UpdateAssumption
      DEF Save, Goto, IInv, TypeOK, Contents, Staging, InThread, procVars, apiVars
    <2>2. CASE Kind[j] # "check"
      BY <2>2, UpdateAssumption, FinishTyped
      DEF Save, IInv, TypeOK, Contents, Outcomes, procVars, apiVars
    <2> QED BY <2>1, <2>2
  <1>2. NamedHasBegun'
    <2>1. \A k \in Jobs : pc[k] # "idle" => pc'[k] # "idle"
      BY FinishTyped DEF Save, Goto, IInv, TypeOK, Outcomes
    <2> QED BY <2>1, BegunStays DEF IInv, Save, apiVars, procVars
  <1>3. /\ WorkHasMet' /\ RunningIsKnown' /\ UnmetIsUntouched' /\ BytesVerified'
        /\ HelloIsHonest' /\ ActiveIsWhole' /\ ConfirmedIsRunning'
    BY UpdateAssumption DEF WorkHasMet, RunningIsKnown, TypeOK, Staging, InThread,
           BytesVerified, DigestMatches, UnmetIsUntouched, NamedHasBegun,
           HelloIsHonest, ActiveIsWhole, Pinned, ConfirmedIsRunning, IInv, Save,
           Finish, Goto, diskVars, procVars, workVars, apiVars
  <1> QED BY <1>1, <1>2, <1>3 DEF IInv

\* What is read of the staged file has the digest asked for.
LEMMA ReadStagedKeeps ==
    ASSUME IInv, NEW j \in Jobs, ReadStaged(j)
    PROVE  IInv'
  <1>1. TypeOK'
    <2>1. bytes' \in [Jobs -> Contents]
      BY DEF ReadStaged, IInv, TypeOK
    <2>2. pc' \in [Jobs -> {"idle", "done"} \cup Staging \cup InThread]
      BY DEF ReadStaged, Goto, IInv, TypeOK, InThread
    <2>3. rollback' \in Contents /\ source' \in [Jobs -> Contents]
      BY DEF ReadStaged, OpenCopy, IInv, TypeOK, Contents
    <2>4. unsynced' \subseteq {"staged", "rollback"}
      BY DEF ReadStaged, OpenCopy, IInv, TypeOK
    <2> QED
      BY <2>1, <2>2, <2>3, <2>4 DEF ReadStaged, IInv, TypeOK, procVars, apiVars
  <1>2. BytesVerified'
    BY UpdateAssumption DEF BytesVerified, TypeOK, DigestMatches, IInv, ReadStaged,
           OpenCopy, Goto, diskVars, procVars, workVars, apiVars
  <1>3. NamedHasBegun'
    <2>1. \A k \in Jobs : pc[k] # "idle" => pc'[k] # "idle"
      BY DEF ReadStaged, Goto, IInv, TypeOK
    <2> QED BY <2>1, BegunStays DEF IInv, ReadStaged, apiVars, procVars
  <1>4. /\ WorkHasMet' /\ RunningIsKnown' /\ UnmetIsUntouched' /\ HelloIsHonest' /\ ActiveIsWhole'
        /\ ConfirmedIsRunning'
    BY UpdateAssumption DEF WorkHasMet, RunningIsKnown, TypeOK, Staging, InThread,
           UnmetIsUntouched, NamedHasBegun, HelloIsHonest, ActiveIsWhole, Pinned,
           BytesVerified, DigestMatches, ConfirmedIsRunning, IInv, ReadStaged,
           OpenCopy, Goto, diskVars, procVars, workVars, apiVars
  <1> QED BY <1>1, <1>2, <1>3, <1>4 DEF IInv

LEMMA CopyKeeps ==
    ASSUME IInv, NEW j \in Jobs, Copy(j)
    PROVE  IInv'
  <1>1. TypeOK'
    BY UpdateAssumption DEF TypeOK, Contents, Outcomes, Staging, InThread, IInv, Copy,
           CloseCopy, Goto, diskVars, procVars, workVars, apiVars
  <1>2. /\ WorkHasMet' /\ RunningIsKnown' /\ UnmetIsUntouched' /\ BytesVerified'
        /\ NamedHasBegun' /\ HelloIsHonest' /\ ActiveIsWhole' /\ ConfirmedIsRunning'
    BY UpdateAssumption DEF WorkHasMet, RunningIsKnown, TypeOK, Staging, InThread,
           BytesVerified, DigestMatches, NamedHasBegun, UnmetIsUntouched,
           HelloIsHonest, ActiveIsWhole, Pinned, ConfirmedIsRunning, IInv, Copy,
           CloseCopy, Goto, diskVars, procVars, workVars, apiVars
  <1> QED BY <1>1, <1>2 DEF IInv

\* So has what is read of the rollback copy, if a digest was given.
LEMMA ReadRollbackKeeps ==
    ASSUME IInv, NEW j \in Jobs, ReadRollback(j)
    PROVE  IInv'
  <1>1. TypeOK'
    BY UpdateAssumption DEF TypeOK, Contents, Outcomes, Staging, InThread, IInv,
           ReadRollback, Goto, DigestMatches, diskVars, procVars, workVars, apiVars
  <1>2. BytesVerified'
    BY UpdateAssumption DEF BytesVerified, TypeOK, DigestMatches, IInv, ReadRollback,
           Goto, diskVars, procVars, workVars, apiVars
  <1>3. /\ WorkHasMet' /\ RunningIsKnown' /\ NamedHasBegun' /\ UnmetIsUntouched' /\ HelloIsHonest'
        /\ ActiveIsWhole' /\ ConfirmedIsRunning'
    BY UpdateAssumption DEF WorkHasMet, RunningIsKnown, TypeOK, Staging, InThread,
           NamedHasBegun, UnmetIsUntouched, HelloIsHonest, ActiveIsWhole, Pinned,
           BytesVerified, DigestMatches, ConfirmedIsRunning, IInv, ReadRollback, Goto,
           diskVars, procVars, workVars, apiVars
  <1> QED BY <1>1, <1>2, <1>3 DEF IInv

LEMMA CheckKeeps ==
    ASSUME IInv, NEW j \in Jobs, Check(j)
    PROVE  IInv'
  <1>1. TypeOK'
    BY UpdateAssumption DEF TypeOK, Contents, Outcomes, Staging, InThread, IInv,
           Check, Goto, diskVars, procVars, workVars, apiVars
  <1>2. /\ WorkHasMet' /\ RunningIsKnown' /\ UnmetIsUntouched' /\ BytesVerified'
        /\ NamedHasBegun' /\ HelloIsHonest' /\ ActiveIsWhole' /\ ConfirmedIsRunning'
    BY UpdateAssumption DEF WorkHasMet, RunningIsKnown, TypeOK, Staging, InThread,
           BytesVerified, DigestMatches, NamedHasBegun, UnmetIsUntouched,
           HelloIsHonest, ActiveIsWhole, Pinned, ConfirmedIsRunning, IInv, Check,
           Goto, diskVars, procVars, workVars, apiVars
  <1> QED BY <1>1, <1>2 DEF IInv

\* The marker names a command that has begun.
LEMMA MarkKeeps ==
    ASSUME IInv, NEW j \in Jobs, Mark(j)
    PROVE  IInv'
  <1>1. TypeOK'
    BY UpdateAssumption DEF TypeOK, Contents, Outcomes, Staging, InThread, IInv, Mark,
           Goto, diskVars, procVars, workVars, apiVars
  <1>2. NamedHasBegun'
    BY UpdateAssumption DEF NamedHasBegun, TypeOK, Staging, InThread, IInv, Mark,
           Goto, diskVars, procVars, workVars, apiVars
  <1>3. UnmetIsUntouched'
    BY UpdateAssumption DEF UnmetIsUntouched, TypeOK, WorkHasMet, RunningIsKnown,
           NamedHasBegun, Staging, InThread, IInv, Mark, Goto, diskVars, procVars,
           workVars, apiVars
  <1>4. /\ WorkHasMet' /\ RunningIsKnown' /\ BytesVerified' /\ HelloIsHonest' /\ ActiveIsWhole'
        /\ ConfirmedIsRunning'
    BY UpdateAssumption DEF WorkHasMet, RunningIsKnown, TypeOK, Staging, InThread,
           BytesVerified, DigestMatches, HelloIsHonest, NamedHasBegun,
           UnmetIsUntouched, ActiveIsWhole, Pinned, ConfirmedIsRunning, IInv, Mark,
           Goto, diskVars, procVars, workVars, apiVars
  <1> QED BY <1>1, <1>2, <1>3, <1>4 DEF IInv

\* The binary put in place is whole, and its process has met the API.
LEMMA SwapKeeps ==
    ASSUME IInv, NEW j \in Jobs, Swap(j)
    PROVE  IInv'
  <1>1. TypeOK'
    <2>1. active' \in Contents
      BY DEF Swap, IInv, TypeOK
    <2>2. CASE Kind[j] = "rollback"
      BY <2>1, <2>2, FinishTyped DEF Swap, IInv, TypeOK, Outcomes, procVars, apiVars
    <2>3. CASE Kind[j] # "rollback"
      BY <2>1, <2>3 DEF Swap, Goto, IInv, TypeOK, InThread, procVars, apiVars
    <2> QED BY <2>2, <2>3
  <1>2. NamedHasBegun'
    <2>1. \A k \in Jobs : pc[k] # "idle" => pc'[k] # "idle"
      BY FinishTyped DEF Swap, Goto, IInv, TypeOK, Outcomes
    <2> QED BY <2>1, BegunStays DEF IInv, Swap, apiVars, procVars
  <1>3. UnmetIsUntouched'
    BY UpdateAssumption DEF UnmetIsUntouched, TypeOK, WorkHasMet, RunningIsKnown,
           NamedHasBegun, Staging, InThread, IInv, Swap, Finish, Goto, diskVars,
           procVars, workVars, apiVars
  <1>4. ActiveIsWhole'
    BY UpdateAssumption DEF ActiveIsWhole, Pinned, TypeOK, BytesVerified,
           DigestMatches, IInv, Swap, Finish, Goto, diskVars, procVars, workVars,
           apiVars
  <1>5. WorkHasMet' /\ RunningIsKnown' /\ BytesVerified' /\ HelloIsHonest' /\ ConfirmedIsRunning'
    BY UpdateAssumption DEF WorkHasMet, RunningIsKnown, TypeOK, Staging, InThread,
           BytesVerified, DigestMatches, HelloIsHonest, NamedHasBegun,
           UnmetIsUntouched, ConfirmedIsRunning, IInv, Swap, Finish, Goto, diskVars,
           procVars, workVars, apiVars
  <1> QED BY <1>1, <1>2, <1>3, <1>4, <1>5 DEF IInv

LEMMA CleanKeeps ==
    ASSUME IInv, NEW j \in Jobs, Clean(j)
    PROVE  IInv'
  <1>1. PICK result \in Outcomes : Finish(j, result)
    BY DEF Clean, Outcomes
  <1>2. TypeOK'
    <2>1. restart' \in BOOLEAN /\ staged' \in Contents
      BY DEF Clean, IInv, TypeOK, Contents
    <2> QED BY <1>1, <2>1, FinishTyped DEF TypeOK, IInv, Clean, apiVars
  <1>3. NamedHasBegun'
    BY <1>1, FinishTyped, BegunStays DEF IInv, Clean, apiVars
  <1>4. /\ WorkHasMet' /\ RunningIsKnown' /\ BytesVerified' /\ UnmetIsUntouched'
        /\ HelloIsHonest' /\ ActiveIsWhole' /\ ConfirmedIsRunning'
    BY <1>1, UpdateAssumption DEF WorkHasMet, RunningIsKnown, TypeOK, Staging,
           InThread, BytesVerified, DigestMatches, UnmetIsUntouched, HelloIsHonest,
           NamedHasBegun, ActiveIsWhole, Pinned, ConfirmedIsRunning, IInv, Clean,
           Finish, Goto, diskVars, procVars, workVars, apiVars
  <1> QED BY <1>2, <1>3, <1>4 DEF IInv

\* The API's own steps leave the agent alone.
LEMMA DeliverKeeps ==
    ASSUME IInv, NEW j \in Jobs, Deliver(j)
    PROVE  IInv'
  <1>1. TypeOK'
    BY UpdateAssumption DEF TypeOK, Contents, Outcomes, Staging, InThread, IInv,
           Deliver, diskVars, procVars, workVars, apiVars
  <1>2. /\ WorkHasMet' /\ RunningIsKnown' /\ UnmetIsUntouched' /\ BytesVerified'
        /\ NamedHasBegun' /\ HelloIsHonest' /\ ActiveIsWhole' /\ ConfirmedIsRunning'
    BY UpdateAssumption DEF WorkHasMet, RunningIsKnown, TypeOK, Staging, InThread,
           BytesVerified, DigestMatches, NamedHasBegun, UnmetIsUntouched,
           HelloIsHonest, ActiveIsWhole, Pinned, ConfirmedIsRunning, IInv, Deliver,
           diskVars, procVars, workVars, apiVars
  <1> QED BY <1>1, <1>2 DEF IInv

LEMMA DeadlineKeeps ==
    ASSUME IInv, NEW j \in Jobs, Deadline(j)
    PROVE  IInv'
  <1>1. TypeOK'
    BY UpdateAssumption DEF TypeOK, Contents, Outcomes, Staging, InThread, IInv,
           Deadline, diskVars, procVars, workVars, apiVars
  <1>2. /\ WorkHasMet' /\ RunningIsKnown' /\ UnmetIsUntouched' /\ BytesVerified'
        /\ NamedHasBegun' /\ HelloIsHonest' /\ ActiveIsWhole' /\ ConfirmedIsRunning'
    BY UpdateAssumption DEF WorkHasMet, RunningIsKnown, TypeOK, Staging, InThread,
           BytesVerified, DigestMatches, NamedHasBegun, UnmetIsUntouched,
           HelloIsHonest, ActiveIsWhole, Pinned, ConfirmedIsRunning, IInv, Deadline,
           diskVars, procVars, workVars, apiVars
  <1> QED BY <1>1, <1>2 DEF IInv

\* A confirmed activation is one whose digest the sender of the hello runs.
LEMMA CommitHelloKeeps ==
    ASSUME IInv, NEW h \in hellos, CommitHello(h)
    PROVE  IInv'
  <1>1. TypeOK'
    BY UpdateAssumption DEF TypeOK, Contents, Outcomes, Staging, InThread, IInv,
           CommitHello, Swept, Verdict, diskVars, procVars, workVars, apiVars
  <1>2. ConfirmedIsRunning'
    BY UpdateAssumption DEF ConfirmedIsRunning, TypeOK, HelloIsHonest, IInv,
           CommitHello, Swept, Verdict, diskVars, procVars, workVars, apiVars
  <1>3. RunningIsKnown'
    <2>1. ASSUME NEW j \in Jobs, target'[j] = "running"
          PROVE  target[j] = "running" /\ bound[j] = known /\ h.process = known
      <3>1. j \notin Swept(h) /\ target[j] = "running"
        BY <2>1 DEF CommitHello, Verdict, IInv, TypeOK
      <3> QED BY <3>1 DEF Swept, IInv, TypeOK, RunningIsKnown
    <2> QED BY <2>1 DEF RunningIsKnown, CommitHello, IInv
  <1>4. UnmetIsUntouched' /\ WorkHasMet'
    BY DEF UnmetIsUntouched, WorkHasMet, CommitHello, IInv, diskVars, workVars
  <1>5. HelloIsHonest'
    <2>1. \A j \in Jobs : target'[j] = "running" => target[j] = "running"
      BY DEF CommitHello, Verdict, IInv, TypeOK
    <2>2. \A g \in hellos : g.job \in Jobs \cup {0}
      BY DEF IInv, TypeOK
    <2> QED BY <2>1, <2>2 DEF HelloIsHonest, CommitHello, IInv
  <1>6. BytesVerified' /\ NamedHasBegun' /\ ActiveIsWhole'
    BY DEF BytesVerified, DigestMatches, NamedHasBegun, ActiveIsWhole, Pinned, IInv,
           CommitHello, diskVars, workVars
  <1> QED BY <1>1, <1>2, <1>3, <1>4, <1>5, <1>6 DEF IInv

LEMMA LoseHelloKeeps ==
    ASSUME IInv, NEW h \in hellos, LoseHello(h)
    PROVE  IInv'
  <1>1. TypeOK'
    BY UpdateAssumption DEF TypeOK, Contents, Outcomes, Staging, InThread, IInv,
           LoseHello, diskVars, procVars, workVars, apiVars
  <1>2. /\ WorkHasMet' /\ RunningIsKnown' /\ UnmetIsUntouched' /\ BytesVerified'
        /\ NamedHasBegun' /\ HelloIsHonest' /\ ActiveIsWhole' /\ ConfirmedIsRunning'
    BY UpdateAssumption DEF WorkHasMet, RunningIsKnown, TypeOK, Staging, InThread,
           BytesVerified, DigestMatches, NamedHasBegun, UnmetIsUntouched,
           HelloIsHonest, ActiveIsWhole, Pinned, ConfirmedIsRunning, IInv, LoseHello,
           diskVars, procVars, workVars, apiVars
  <1> QED BY <1>1, <1>2 DEF IInv

LEMMA ReadMarkerKeeps ==
    ASSUME IInv, ReadMarker
    PROVE  IInv'
  <1>1. TypeOK'
    BY DEF TypeOK, IInv, ReadMarker, diskVars, workVars, apiVars
  <1>2. /\ WorkHasMet' /\ RunningIsKnown' /\ BytesVerified' /\ NamedHasBegun'
        /\ UnmetIsUntouched' /\ HelloIsHonest' /\ ActiveIsWhole' /\ ConfirmedIsRunning'
    BY DEF WorkHasMet, RunningIsKnown, TypeOK, BytesVerified, DigestMatches,
           NamedHasBegun, UnmetIsUntouched, HelloIsHonest, ActiveIsWhole, Pinned,
           ConfirmedIsRunning, IInv, ReadMarker, diskVars, workVars, apiVars
  <1> QED BY <1>1, <1>2 DEF IInv

\* A hello that names a target of another process names the binary its sender runs.
LEMMA SendHelloKeeps ==
    ASSUME IInv, SendHello
    PROVE  IInv'
  <1>1. TypeOK'
    BY UpdateAssumption DEF TypeOK, Contents, Outcomes, Staging, InThread, IInv,
           SendHello, Heartbeat, diskVars, procVars, workVars, apiVars
  <1>2. NamedHasBegun'
    BY UpdateAssumption DEF NamedHasBegun, TypeOK, Staging, InThread, IInv, SendHello,
           Heartbeat, diskVars, procVars, workVars, apiVars
  <1>3. HelloIsHonest'
    <2>1. Heartbeat.job # 0 /\ target[Heartbeat.job] = "running"
            /\ bound[Heartbeat.job] # Heartbeat.process
          => Heartbeat.digest = Heartbeat.ran
      BY DEF Heartbeat, SendHello, IInv, TypeOK, RunningIsKnown, UnmetIsUntouched
    <2> QED BY <2>1 DEF HelloIsHonest, SendHello, IInv
  <1>4. /\ WorkHasMet' /\ RunningIsKnown' /\ BytesVerified' /\ UnmetIsUntouched' /\ ActiveIsWhole'
        /\ ConfirmedIsRunning'
    BY UpdateAssumption DEF WorkHasMet, RunningIsKnown, TypeOK, Staging, InThread,
           BytesVerified, DigestMatches, UnmetIsUntouched, NamedHasBegun,
           ActiveIsWhole, Pinned, ConfirmedIsRunning, HelloIsHonest, IInv, SendHello,
           Heartbeat, diskVars, procVars, workVars, apiVars
  <1> QED BY <1>1, <1>2, <1>3, <1>4 DEF IInv

\* A process that ends takes its threads with it.
LEMMA StopKeeps ==
    ASSUME IInv, Stop
    PROVE  IInv'
  <1>1. TypeOK'
    <2>1. stops' \in 0..MaxStops
      BY UpdateAssumption DEF IInv, TypeOK, ProcessEnds, Stop
    <2>2. pc' \in [Jobs -> {"idle", "done"} \cup Staging \cup InThread]
      BY DEF IInv, TypeOK, ProcessEnds, Stop
    <2> QED
      BY <2>1, <2>2, UpdateAssumption DEF TypeOK, Contents, Outcomes, IInv, Stop,
             ProcessEnds, diskVars, procVars, workVars, apiVars
  <1>2. /\ WorkHasMet' /\ RunningIsKnown' /\ UnmetIsUntouched' /\ BytesVerified'
        /\ NamedHasBegun' /\ HelloIsHonest' /\ ActiveIsWhole' /\ ConfirmedIsRunning'
    BY UpdateAssumption DEF WorkHasMet, RunningIsKnown, TypeOK, Staging, InThread,
           BytesVerified, DigestMatches, NamedHasBegun, UnmetIsUntouched,
           HelloIsHonest, ActiveIsWhole, Pinned, ConfirmedIsRunning, IInv, Stop,
           ProcessEnds, diskVars, procVars, workVars, apiVars
  <1> QED BY <1>1, <1>2 DEF IInv

\* Neither the binary in place nor the marker is ever written without fsync.
LEMMA PowerLossKeeps ==
    ASSUME IInv, PowerLoss
    PROVE  IInv'
  <1>1. TypeOK'
    <2>1. stops' \in 0..MaxStops
      BY UpdateAssumption DEF IInv, TypeOK, ProcessEnds, PowerLoss
    <2>2. pc' \in [Jobs -> {"idle", "done"} \cup Staging \cup InThread]
      BY DEF IInv, TypeOK, ProcessEnds, PowerLoss
    <2> QED
      BY <2>1, <2>2, UpdateAssumption DEF TypeOK, Contents, Outcomes, IInv, PowerLoss,
             ProcessEnds, diskVars, procVars, workVars, apiVars
  <1>2. /\ WorkHasMet' /\ RunningIsKnown' /\ UnmetIsUntouched' /\ BytesVerified'
        /\ NamedHasBegun' /\ HelloIsHonest' /\ ActiveIsWhole' /\ ConfirmedIsRunning'
    BY UpdateAssumption DEF WorkHasMet, RunningIsKnown, TypeOK, Staging, InThread,
           BytesVerified, DigestMatches, NamedHasBegun, UnmetIsUntouched,
           HelloIsHonest, ActiveIsWhole, Pinned, ConfirmedIsRunning, IInv, PowerLoss,
           ProcessEnds, diskVars, procVars, workVars, apiVars
  <1> QED BY <1>1, <1>2 DEF IInv

\* The next process runs what is in place.
LEMMA BootKeeps ==
    ASSUME IInv, Boot
    PROVE  IInv'
  <1>1. TypeOK'
    <2>1. process' \in Nat \ {0}
      BY DEF Boot, IInv, TypeOK
    <2>2. met' \in BOOLEAN /\ up' \in BOOLEAN
      BY DEF Boot
    <2> QED BY <2>1, <2>2 DEF Boot, IInv, TypeOK, diskVars, workVars, apiVars
  <1>2. UnmetIsUntouched'
    BY UpdateAssumption DEF UnmetIsUntouched, TypeOK, WorkHasMet, RunningIsKnown,
           NamedHasBegun, Staging, InThread, IInv, Boot, diskVars, procVars, workVars,
           apiVars
  <1>3. /\ WorkHasMet' /\ RunningIsKnown' /\ BytesVerified' /\ NamedHasBegun' /\ HelloIsHonest'
        /\ ActiveIsWhole' /\ ConfirmedIsRunning'
    BY UpdateAssumption DEF WorkHasMet, RunningIsKnown, TypeOK, Staging, InThread,
           BytesVerified, DigestMatches, NamedHasBegun, HelloIsHonest,
           UnmetIsUntouched, ActiveIsWhole, Pinned, ConfirmedIsRunning, IInv, Boot,
           diskVars, procVars, workVars, apiVars
  <1> QED BY <1>1, <1>2, <1>3 DEF IInv

LEMMA WritebackKeeps ==
    ASSUME IInv, NEW f \in unsynced, Writeback(f)
    PROVE  IInv'
  <1>1. TypeOK'
    BY UpdateAssumption DEF TypeOK, Contents, Outcomes, Staging, InThread, IInv,
           Writeback, diskVars, procVars, workVars, apiVars
  <1>2. /\ WorkHasMet' /\ RunningIsKnown' /\ UnmetIsUntouched' /\ BytesVerified'
        /\ NamedHasBegun' /\ HelloIsHonest' /\ ActiveIsWhole' /\ ConfirmedIsRunning'
    BY UpdateAssumption DEF WorkHasMet, RunningIsKnown, TypeOK, Staging, InThread,
           BytesVerified, DigestMatches, NamedHasBegun, UnmetIsUntouched,
           HelloIsHonest, ActiveIsWhole, Pinned, ConfirmedIsRunning, IInv, Writeback,
           diskVars, procVars, workVars, apiVars
  <1> QED BY <1>1, <1>2 DEF IInv

LEMMA NextKeeps == IInv /\ [Next]_vars => IInv'
  <1> SUFFICES ASSUME IInv, [Next]_vars PROVE IInv'
    OBVIOUS
  <1>1. ASSUME NEW j \in Jobs, Work(j) PROVE IInv'
    BY <1>1, BeginKeeps, TimeoutKeeps, CancelKeeps, FailKeeps,
       FetchKeeps, BackupKeeps, SaveKeeps, ReadStagedKeeps,
       CopyKeeps, ReadRollbackKeeps, CheckKeeps, MarkKeeps,
       SwapKeeps, CleanKeeps
       DEF Work
  <1>2. ASSUME NEW j \in Jobs, Deliver(j) \/ Deadline(j) PROVE IInv'
    BY <1>2, DeliverKeeps, DeadlineKeeps
  <1>3. ASSUME NEW f \in unsynced, Writeback(f) PROVE IInv'
    BY <1>3, WritebackKeeps
  <1>4. ASSUME NEW h \in hellos, LoseHello(h) \/ CommitHello(h) PROVE IInv'
    BY <1>4, LoseHelloKeeps, CommitHelloKeeps
  <1>5. CASE Stop \/ PowerLoss \/ Boot \/ ReadMarker \/ SendHello
    BY <1>5, StopKeeps, PowerLossKeeps, BootKeeps, ReadMarkerKeeps, SendHelloKeeps
  <1>6. CASE UNCHANGED vars
    BY <1>6, StutterKeeps
  <1> QED BY <1>1, <1>2, <1>3, <1>4, <1>5, <1>6 DEF Next

LEMMA Invariance == Spec => []IInv
  BY InitHolds, NextKeeps, PTL DEF Spec

\* The agent can always be started again: if every rollback names a digest, the
\* binary in place is a whole one at every moment of an update, whatever is
\* killed, loses power, times out or overlaps (replace_active_binary).
THEOREM BinaryAlwaysWhole == Spec => []ActiveIsWhole
  <1>1. IInv => ActiveIsWhole
    BY DEF IInv
  <1> QED BY <1>1, Invariance, PTL

\* An activation that the API completes on a heartbeat is one whose staged
\* binary the process that sent the heartbeat really runs, for every order in
\* which hellos are committed (mark_old_incarnation_targets_agent_lost_in_tx).
THEOREM ConfirmationIsTruthful == Spec => []ConfirmedIsRunning
  <1>1. IInv => ConfirmedIsRunning
    BY DEF IInv
  <1> QED BY <1>1, Invariance, PTL

===============================================================================
