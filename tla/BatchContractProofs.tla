------------------------- MODULE BatchContractProofs -------------------------
(***************************************************************************)
(* Containers that are served one call at a time, beside others whose      *)
(* calls overlap: an exit that reached the cache file is final, with       *)
(* commands that fail, replies that are lost, and death of the server; and *)
(* the service implements BatchContract, where commands get through, and   *)
(* SubmissionContract.  For every set of containers, slots and jobs.       *)
(***************************************************************************)
EXTENDS ContainerExitProofs

-----------------------------------------------------------------------------
(* The invariant *)

\* Such a container has one request at a time.
OneCallEach ==
  \A t, u \in Caller :
    call[t].c \in Serial /\ call[u].c = call[t].c => t = u

\* An exit in the file is one in the pool, and no request of the container is
\* on its way to a write of another state.
ExitIsRecorded(c) ==
  disk[c].state = "EXITED" =>
    /\ mem[c].state = "EXITED"
    /\ \A t \in Caller : call[t].c = c => call[t].pc \notin Writing

FileIsUsed == ~Persistence => \A c \in Container : disk[c] = Absent

DurableInv ==
  /\ TypeOK
  /\ WritersCameBefore
  /\ OneCallEach
  /\ \A c \in Serial : ExitIsRecorded(c)
  /\ FileIsUsed

LEMMA DurableInit == Init => DurableInv
<1> SUFFICES ASSUME Init PROVE DurableInv
  OBVIOUS
<1>1. TypeOK /\ WritersCameBefore
  BY InitType, WritersInit
<1>2. OneCallEach
  BY IdAssumption DEF Init, OneCallEach, Idle, Serial
<1>3. FileIsUsed /\ \A c \in Serial : ExitIsRecorded(c)
  BY DEF Init, FileIsUsed, ExitIsRecorded, Absent, Serial
<1> QED
  BY <1>1, <1>2, <1>3 DEF DurableInv

-----------------------------------------------------------------------------
(* Steps *)

LEMMA DurableRestart ==
  ASSUME DurableInv, Restart
  PROVE  OneCallEach' /\ FileIsUsed' /\ \A c \in Serial : ExitIsRecorded(c)'
<1>1. OneCallEach'
  BY IdAssumption DEF Restart, OneCallEach, Idle, Serial
<1>2. FileIsUsed'
  BY DEF DurableInv, Restart, FileIsUsed
<1>3. ASSUME NEW c \in Serial, disk'[c].state = "EXITED"
      PROVE  mem'[c].state = "EXITED" /\ \A t \in Caller : call'[t].c # c
  <2>1. Persistence
    BY <1>3 DEF DurableInv, Restart, FileIsUsed, Absent, Serial
  <2> QED
    BY <1>3, <2>1, IdAssumption DEF Restart, Idle, Serial
<1> QED
  BY <1>1, <1>2, <1>3 DEF ExitIsRecorded

\* A request that is served: its container's record and file entry are the only
\* ones it touches, and it stays the only request of its container.
LEMMA DurableCallStep ==
  ASSUME DurableInv, NEW t \in Caller, CallStep(t), ~Restart
  PROVE  OneCallEach' /\ FileIsUsed' /\ \A c \in Serial : ExitIsRecorded(c)'
<1> DEFINE c0 == call[t].c
<1>0. TypeOK /\ OneCallEach /\ FileIsUsed /\ \A c \in Serial : ExitIsRecorded(c)
  BY DEF DurableInv
<1>1. /\ \A u \in Caller : u # t => call'[u] = call[u]
      /\ \A c \in Container : c # c0 => mem'[c] = mem[c] /\ disk'[c] = disk[c]
  BY <1>0
  DEF CallStep, CreateDone, CreateFail, StartFail, StartSubmit, StartReplyLost,
      StartRecordPid, StartCommit, StopCancel, StopFail, StopExit, StatusQuery,
      StatusApply, PanicSacct, Update, Answer, GoTo, Return, SetFailed, SetState,
      Persist, TypeOK
<1>2. \/ call'[t] = Idle
      \/ /\ call'[t].c = c0
         /\ call'[t].pc \in Writing => call[t].pc \in Writing
  <2>1. CASE CreateFail(t) \/ StopFail(t) \/ Answer(t)
    BY <1>0, <2>1 DEF CreateFail, StopFail, Answer, Return, TypeOK
  <2>2. CASE StartSubmit(t)
    BY <1>0, <2>2 DEF StartSubmit, TypeOK, Call, Writing
  <2>3. CASE StatusQuery(t)
    BY <1>0, <2>3 DEF StatusQuery, TypeOK, Call, Writing
  <2>4. ASSUME NEW pc, GoTo(t, pc), pc \in Writing => call[t].pc \in Writing
        PROVE  call'[t].c = c0 /\ (call'[t].pc \in Writing => call[t].pc \in Writing)
    BY <1>0, <2>4 DEF GoTo, TypeOK, Call
  <2>5. CASE CreateDone(t) \/ StartRecordPid(t) \/ StartCommit(t) \/ StopCancel(t)
             \/ StopExit(t)
    BY <2>4, <2>5
    DEF CreateDone, StartRecordPid, StartCommit, StopCancel, StopExit, Writing
  <2>6. CASE StartFail(t) \/ StartReplyLost(t) \/ StatusApply(t) \/ Update(t)
    BY <2>4, <2>6 DEF StartFail, StartReplyLost, StatusApply, Update, Writing
  <2> QED
    BY <2>1, <2>2, <2>3, <2>5, <2>6 DEF CallStep, PanicSacct
<1>3. OneCallEach'
  BY <1>0, <1>1, <1>2, IdAssumption DEF OneCallEach, Idle, Serial
<1>4. FileIsUsed'
  BY <1>0
  DEF FileIsUsed, CallStep, CreateDone, CreateFail, StartFail, StartSubmit,
      StartReplyLost, StartRecordPid, StartCommit, StopCancel, StopFail, StopExit,
      StatusQuery, StatusApply, PanicSacct, Update, Answer, Persist
<1>5. ASSUME NEW c \in Serial, disk'[c].state = "EXITED"
      PROVE  /\ mem'[c].state = "EXITED"
             /\ \A u \in Caller : call'[u].c = c => call'[u].pc \notin Writing
  <2>0. c \in Container
    BY DEF Serial
  <2>1. CASE c # c0
    BY <1>0, <1>1, <1>2, <1>5, <2>0, <2>1 DEF ExitIsRecorded, Idle, Writing
  <2>2. CASE c = c0
    <3>1. \A u \in Caller : call[u].c = c => u = t
      BY <1>0, <2>2 DEF OneCallEach
    <3>2. CASE (CreateDone(t) \/ Update(t)) /\ Persistence
      <4>1. /\ disk' = [disk EXCEPT ![c] = mem[c]] /\ mem' = mem
            /\ call'[t].pc = "answer"
        BY <1>0, <2>0, <2>2, <3>2 DEF CreateDone, Update, Persist, GoTo, TypeOK, Call
      <4>2. mem'[c].state = "EXITED"
        BY <1>0, <1>5, <2>0, <4>1 DEF TypeOK
      <4> QED
        BY <1>1, <3>1, <4>1, <4>2 DEF Writing
    <3>3. CASE ~((CreateDone(t) \/ Update(t)) /\ Persistence)
      <4>1. disk' = disk
        BY <3>3
        DEF CallStep, CreateDone, CreateFail, StartFail, StartSubmit, StartReplyLost,
            StartRecordPid, StartCommit, StopCancel, StopFail, StopExit, StatusQuery,
            StatusApply, PanicSacct, Update, Answer, Persist
      <4>2. mem[c].state = "EXITED" /\ call[t].pc \notin Writing
        BY <1>0, <1>5, <2>2, <4>1 DEF ExitIsRecorded
      <4>3. mem' = mem \/ StopExit(t)
        BY <4>2
        DEF CallStep, CreateDone, CreateFail, StartFail, StartSubmit, StartReplyLost,
            StartRecordPid, StartCommit, StopCancel, StopFail, StatusQuery,
            StatusApply, PanicSacct, Update, Answer, Writing
      <4>4. mem'[c].state = "EXITED"
        <5>1. CASE StopExit(t)
          <6>1. [mem[c] EXCEPT !.state = "EXITED"].state = "EXITED"
            BY <1>0, <2>0, <2>2 DEF TypeOK, Metadata
          <6> QED
            BY <1>0, <2>0, <2>2, <5>1, <6>1 DEF StopExit, SetState, TypeOK
        <5> QED
          BY <4>2, <4>3, <5>1
      <4> QED
        BY <1>1, <1>2, <2>0, <3>1, <4>2, <4>4, IdAssumption DEF Idle, Writing
    <3> QED
      BY <3>2, <3>3
  <2> QED
    BY <2>1, <2>2
<1> QED
  BY <1>3, <1>4, <1>5 DEF ExitIsRecorded

\* A request that comes in finds no other one of such a container.
LEMMA DurableCallBegin ==
  ASSUME DurableInv, NEW t \in Caller, NEW c \in Container, CallBegin(t, c), ~Restart
  PROVE  OneCallEach' /\ FileIsUsed' /\ \A d \in Serial : ExitIsRecorded(d)'
<1>0. /\ TypeOK /\ OneCallEach /\ FileIsUsed /\ WritersCameBefore
      /\ \A d \in Serial : ExitIsRecorded(d)
  BY DEF DurableInv
<1>1. c \in Serial => \A u \in Caller : call[u].c # c
  BY DEF CallBegin, CreateBegin, StartBegin, StopBegin, StatusBegin, PanicUnknown,
         MayBegin, CreateContainerMetadata, CreateCMDFails, Serial
<1>2. /\ \A u \in Caller : u # t => call'[u] = call[u]
      /\ call'[t].c = c
  BY <1>0
  DEF CallBegin, CreateBegin, StartBegin, StopBegin, StatusBegin, PanicUnknown,
      Request, TypeOK, CreateContainerMetadata, CreateCMDFails
<1>3. OneCallEach'
  BY <1>0, <1>1, <1>2 DEF OneCallEach
<1>4. FileIsUsed'
  BY <1>0
  DEF FileIsUsed, CallBegin, CreateBegin, StartBegin, StopBegin, StatusBegin,
      PanicUnknown, CreateContainerMetadata, CreateCMDFails, Persist
<1>5. \A d \in Container : d # c => mem'[d] = mem[d] /\ disk'[d] = disk[d]
  BY <1>0
  DEF CallBegin, CreateBegin, StartBegin, StopBegin, StatusBegin, PanicUnknown,
      CreateContainerMetadata, CreateCMDFails, Persist, SetFailed, TypeOK
<1>6. ASSUME c \in Serial, disk'[c].state = "EXITED"
      PROVE  mem'[c].state = "EXITED" /\ call'[t].pc \notin Writing
  <2>1. CASE CreateBegin(t, c)
    <3>1. disk[c] = Absent
      BY <1>0, <2>1 DEF CreateBegin, WritersCameBefore, CreateContainerMetadata
    <3>2. mem'[c].state = "CREATED"
      BY <1>0, <2>1 DEF CreateBegin, CreateContainerMetadata, TypeOK, Absent
    <3>3. disk'[c] \in {mem'[c], disk[c]}
      BY <1>0, <2>1 DEF CreateBegin, CreateContainerMetadata, Persist, TypeOK
    <3> QED
      BY <1>6, <3>1, <3>2, <3>3 DEF Absent
  <2>2. CASE ~CreateBegin(t, c)
    <3>1. disk' = disk
      BY <2>2 DEF CallBegin, StartBegin, StopBegin, StatusBegin, PanicUnknown,
                  CreateCMDFails
    <3>2. mem[c].state = "EXITED"
      BY <1>0, <1>6, <3>1 DEF ExitIsRecorded
    <3>3. StopBegin(t, c) \/ StatusBegin(t, c)
      BY <2>2, <3>2
      DEF CallBegin, StartBegin, StartAllowed, PanicUnknown, CreateCMDFails
    <3>4. mem' = mem
      BY <3>2, <3>3 DEF StopBegin, StatusBegin, CreateCMDFails
    <3>5. call'[t].pc \in {"answer", "update"}
      BY <1>0, <3>2, <3>3 DEF StopBegin, StatusBegin, Request, TypeOK, CreateCMDFails
    <3> QED
      BY <3>2, <3>4, <3>5 DEF Writing
  <2> QED
    BY <2>1, <2>2
<1>7. ASSUME NEW d \in Serial PROVE ExitIsRecorded(d)'
  <2>1. CASE d # c
    BY <1>0, <1>2, <1>5, <2>1 DEF ExitIsRecorded, Serial
  <2>2. CASE d = c
    BY <1>1, <1>2, <1>6, <2>2 DEF ExitIsRecorded
  <2> QED
    BY <2>1, <2>2
<1> QED
  BY <1>3, <1>4, <1>7

LEMMA DurableStep ==
  ASSUME DurableInv, [Next]_vars
  PROVE  DurableInv'
<1>1. TypeOK' /\ WritersCameBefore'
  BY StepType, WritersStep DEF DurableInv
<1>2. OneCallEach' /\ FileIsUsed' /\ \A c \in Serial : ExitIsRecorded(c)'
  <2>1. CASE Restart
    BY <2>1, DurableRestart
  <2>2. ASSUME NEW j \in JobId, JobStep(j) PROVE UNCHANGED <<mem, disk, call>>
    BY <2>2 DEF JobStep, JobRun, JobFinish, JobEnd, JobPurge
  <2>3. CASE UNCHANGED <<mem, disk, call>>
    BY <2>3 DEF DurableInv, OneCallEach, FileIsUsed, ExitIsRecorded
  <2> QED
    BY <2>1, <2>2, <2>3, DurableCallStep, DurableCallBegin DEF Next, Crash, vars
<1> QED
  BY <1>1, <1>2 DEF DurableInv

\* What the invariant says of two states: an exit in the file stays there.
LEMMA ExitStaysInFile ==
  ASSUME DurableInv, [Next]_vars, NEW c \in Serial, disk[c].state = "EXITED"
  PROVE  disk'[c].state = "EXITED"
<1>0. TypeOK /\ ExitIsRecorded(c) /\ WritersCameBefore /\ c \in Container
  BY DEF DurableInv, Serial
<1>1. mem[c].state = "EXITED" /\ life[c] # "fresh"
  BY <1>0 DEF ExitIsRecorded, WritersCameBefore, Absent
<1>2. ASSUME NEW t \in Caller, CreateDone(t) \/ Update(t) PROVE disk'[c].state = "EXITED"
  <2>1. disk'[c] = disk[c] \/ disk'[c] = mem[c]
    BY <1>0, <1>2 DEF CreateDone, Update, Persist, TypeOK
  <2> QED
    BY <1>1, <2>1
<1>3. ASSUME NEW t \in Caller, NEW d \in Container, CreateBegin(t, d)
      PROVE  disk'[c].state = "EXITED"
  BY <1>0, <1>1, <1>3 DEF CreateBegin, CreateContainerMetadata, Persist, TypeOK
<1>4. CASE disk' = disk
  BY <1>4
<1>5. ASSUME NEW t \in Caller, CallStep(t), ~CreateDone(t), ~Update(t)
      PROVE  disk' = disk
  BY <1>5
  DEF CallStep, CreateFail, StartFail, StartSubmit, StartReplyLost, StartRecordPid,
      StartCommit, StopCancel, StopFail, StopExit, StatusQuery, StatusApply,
      PanicSacct, Restart, Answer
<1>6. ASSUME NEW t \in Caller, NEW d \in Container, CallBegin(t, d), ~CreateBegin(t, d)
      PROVE  disk' = disk
  BY <1>6
  DEF CallBegin, StartBegin, StopBegin, StatusBegin, PanicUnknown, Restart,
      CreateCMDFails
<1>7. ASSUME NEW j \in JobId, JobStep(j) PROVE disk' = disk
  BY <1>7 DEF JobStep, JobRun, JobFinish, JobEnd, JobPurge
<1> QED
  BY <1>2, <1>3, <1>4, <1>5, <1>6, <1>7 DEF Next, Crash, Restart, vars

\* DurableExit: no request, failed command or death of the server takes the exit
\* of a container that is served one call at a time, as the kubelet's pod worker
\* does, out of the cache file (runtime/container.go:113-118, 158, 228).
THEOREM DurableExitCorrect == Spec => DurableExit
<1>1. Init => DurableInv
  BY DurableInit
<1>2. DurableInv /\ [Next]_vars => DurableInv'
  BY DurableStep
<1>3. DurableInv /\ [Next]_vars =>
        [\A c \in Serial :
           disk[c].state = "EXITED" => disk'[c].state = "EXITED"]_vars
  BY ExitStaysInFile
<1> QED
  BY <1>1, <1>2, <1>3, PTL DEF Spec, DurableExit

-----------------------------------------------------------------------------
(* Failures.  That a failure is real, or its job forgotten, is FailInv; that   *)
(* an exit on file does not turn into one is that no step touches its record.  *)

\* The exit code in the file is the one in the pool.
CodeIsRecorded(c) == disk[c].state = "EXITED" => mem[c].exit = disk[c].exit

\* A record whose exit is on file keeps its code, and its number too unless it
\* is loaded again.
LEMMA FiledExitStays ==
  ASSUME DurableInv, [Next]_vars, NEW c \in Serial, disk[c].state = "EXITED",
         CodeIsRecorded(c)
  PROVE  /\ mem'[c].exit = mem[c].exit
         /\ mem'[c].pid = mem[c].pid \/ (Persistence /\ mem'[c] = disk[c])
<1>0. /\ TypeOK /\ ExitIsRecorded(c) /\ WritersCameBefore /\ FileIsUsed
      /\ c \in Container /\ mem[c] \in Metadata
  BY DEF DurableInv, Serial, TypeOK
<1>1. /\ mem[c].state = "EXITED" /\ life[c] # "fresh" /\ Persistence
      /\ \A t \in Caller : call[t].c = c => call[t].pc \notin Writing
  BY <1>0 DEF ExitIsRecorded, WritersCameBefore, FileIsUsed, Absent
<1>2. CASE Restart
  BY <1>1, <1>2 DEF Restart, CodeIsRecorded
<1>3. ASSUME NEW t \in Caller, CallStep(t), ~Restart
      PROVE  mem'[c].exit = mem[c].exit /\ mem'[c].pid = mem[c].pid
  <2>1. CASE StopExit(t)
    <3>1. mem'[c] \in {mem[c], [mem[c] EXCEPT !.state = "EXITED"]}
      BY <1>0, <2>1 DEF StopExit, SetState, TypeOK
    <3> QED
      BY <1>0, <3>1 DEF Metadata
  <2>2. CASE call[t].c # c
    BY <1>0, <1>3, <2>2
    DEF CallStep, CreateDone, CreateFail, StartFail, StartSubmit, StartReplyLost,
        StartRecordPid, StartCommit, StopCancel, StopFail, StopExit, StatusQuery,
        StatusApply, PanicSacct, Update, Answer, SetState, SetFailed, TypeOK
  <2>3. CASE call[t].pc \notin Writing /\ ~StopExit(t)
    BY <1>3, <2>3
    DEF CallStep, CreateDone, CreateFail, StartFail, StartSubmit, StartReplyLost,
        StartRecordPid, StartCommit, StopCancel, StopFail, StatusQuery,
        StatusApply, PanicSacct, Update, Answer, Writing
  <2> QED
    BY <1>1, <2>1, <2>2, <2>3
<1>4. ASSUME NEW t \in Caller, NEW d \in Container, CallBegin(t, d), ~Restart
      PROVE  mem'[c] = mem[c]
  <2>1. CASE d # c
    BY <1>0, <1>4, <2>1
    DEF CallBegin, CreateBegin, CreateContainerMetadata, StartBegin, StopBegin,
        StatusBegin, PanicUnknown, CreateCMDFails, SetFailed, TypeOK
  <2>2. CASE d = c
    BY <1>1, <1>4, <2>2
    DEF CallBegin, CreateBegin, StartBegin, StartAllowed, StopBegin, StatusBegin,
        PanicUnknown
  <2> QED
    BY <2>1, <2>2
<1>5. ASSUME NEW j \in JobId, JobStep(j) PROVE mem' = mem
  BY <1>5 DEF JobStep, JobRun, JobFinish, JobEnd, JobPurge
<1> QED
  BY <1>2, <1>3, <1>4, <1>5 DEF Next, Crash, vars

LEMMA CodeStep ==
  ASSUME DurableInv, [Next]_vars, NEW c \in Serial, CodeIsRecorded(c)
  PROVE  CodeIsRecorded(c)'
<1>0. TypeOK /\ FileIsUsed /\ c \in Container
  BY DEF DurableInv, Serial
<1>1. \/ disk'[c] = disk[c]
      \/ disk'[c] = mem'[c]
  <2>1. ASSUME NEW t \in Caller, CallStep(t)
        PROVE  disk'[c] = disk[c] \/ disk'[c] = mem'[c]
    BY <1>0, <2>1
    DEF CallStep, CreateDone, CreateFail, StartFail, StartSubmit, StartReplyLost,
        StartRecordPid, StartCommit, StopCancel, StopFail, StopExit, StatusQuery,
        StatusApply, PanicSacct, Update, Answer, Persist, Restart, TypeOK
  <2>2. ASSUME NEW t \in Caller, NEW d \in Container, CallBegin(t, d)
        PROVE  disk'[c] = disk[c] \/ disk'[c] = mem'[c]
    BY <1>0, <2>2
    DEF CallBegin, CreateBegin, CreateContainerMetadata, StartBegin, StopBegin,
        StatusBegin, PanicUnknown, CreateCMDFails, Persist, Restart, TypeOK
  <2>3. ASSUME NEW j \in JobId, JobStep(j) PROVE disk' = disk
    BY <2>3 DEF JobStep, JobRun, JobFinish, JobEnd, JobPurge
  <2> QED
    BY <2>1, <2>2, <2>3 DEF Next, Crash, Restart, vars
<1>2. CASE disk'[c] = disk[c]
  BY <1>2, FiledExitStays DEF CodeIsRecorded
<1> QED
  BY <1>1, <1>2 DEF CodeIsRecorded

CodesAreRecorded == \A c \in Serial : CodeIsRecorded(c)

\* A new exit code 1, in two states of a step.
LEMMA NewFailure ==
  ASSUME IInv, FailInv, DurableInv, CodesAreRecorded, ~SshMayFail, [Next]_vars,
         NEW c \in Container, NEW j \in JobId, FailsFor(c, j)
  PROVE  /\ Failed(j)
         /\ c \in Serial => disk[c].state # "EXITED"
<1>0. j # 0 /\ mem'[c].exit = 1 /\ mem'[c].pid = j /\ ~(mem[c].exit = 1 /\ mem[c].pid = j)
  BY IdAssumption DEF FailsFor
<1>1. Failed(j)
  BY <1>0, ExitMoves DEF FailInv, FailuresFit
<1>2. ASSUME c \in Serial, disk[c].state = "EXITED" PROVE FALSE
  <2>1. CodeIsRecorded(c)
    BY <1>2 DEF CodesAreRecorded
  <2>2. mem[c].exit = 1
    BY <1>0, <1>2, <2>1, FiledExitStays
  <2>3. CASE mem'[c].pid = mem[c].pid
    BY <1>0, <2>2, <2>3
  <2>4. CASE Persistence /\ mem'[c] = disk[c]
    BY <1>0, <2>2, <2>4 DEF IInv, PidsAreOwn
  <2> QED
    BY <1>2, <2>1, <2>3, <2>4, FiledExitStays
<1> QED
  BY <1>1, <1>2

\* FailureIsRealOrForgotten: when remote commands get through and the kubelet
\* starts a container once, whatever requests overlap, whenever the server dies
\* and a job is forgotten.
THEOREM FailureIsRealOrForgottenCorrect ==
  ASSUME ~SshMayFail, StartOnce
  PROVE  Spec => FailureIsRealOrForgotten
<1> DEFINE Inv == IInv /\ FailInv /\ DurableInv /\ CodesAreRecorded
<1>1. Init => Inv
  BY InitIInv, FailInit, DurableInit
  DEF Init, CodesAreRecorded, CodeIsRecorded, Serial, Absent
<1>2. Inv /\ [Next]_vars => Inv'
  BY StepIInv, FailStep, DurableStep, CodeStep DEF CodesAreRecorded
<1>3. Inv /\ [Next]_vars =>
        [\A c \in Container, j \in JobId :
           FailsFor(c, j) =>
             \/ /\ job[j].phase \in {"COMPLETING", "ENDED"}
                /\ job[j].result \in {"FAILED", "CANCELLED"}
             \/ /\ job[j].phase = "PURGED"
                /\ c \in Serial => disk[c].state # "EXITED"]_vars
  BY NewFailure DEF Failed
<1> QED
  BY <1>1, <1>2, <1>3, PTL DEF Spec, FailureIsRealOrForgotten

-----------------------------------------------------------------------------
(* The contract.  Its phase of a container is read off the cache file, its    *)
(* work off the cluster, and no step of the service changes both.             *)

\* Once somebody has asked for a container, it has a record, in the file too.
Filed ==
  \A c \in Container :
    life[c] # "fresh" => mem[c].state # "NONE" /\ disk[c].state # "NONE"

ContractInv == IInv /\ DurableInv /\ Filed

\* What a step may do to a record and to its entry in the file.
LEMMA RecordMoves ==
  ASSUME IInv, Persistence, [Next]_vars, NEW c \in Container
  PROVE  /\ mem'[c].state # "NONE" \/ mem'[c] \in {mem[c], disk[c]}
         /\ disk'[c] \in {disk[c], mem'[c]}
         /\ life[c] # "fresh" => life'[c] # "fresh"
         /\ life[c] = "fresh" /\ life'[c] # "fresh" => mem'[c].state = "CREATED"
                                                       /\ disk'[c] = mem'[c]
<1> USE DEF IInv, TypeOK
<1>0. mem[c] \in Metadata
  OBVIOUS
<1>1. ASSUME NEW t \in Caller, CallStep(t)
      PROVE  /\ mem'[c].state # "NONE" \/ mem'[c] \in {mem[c], disk[c]}
             /\ disk'[c] \in {disk[c], mem'[c]}
             /\ life'[c] = life[c] \/ (life[c] # "fresh" /\ life'[c] = "made")
  <2>1. CASE CreateDone(t) \/ Update(t)
    BY <2>1 DEF CreateDone, Update, Persist, Bookkeeping
  <2>2. CASE StartFail(t)
    BY <2>2, <1>0 DEF StartFail, SetFailed, Metadata
  <2>3. CASE StartReplyLost(t)
    BY <2>3, <1>0 DEF StartReplyLost, Metadata
  <2>4. CASE StartRecordPid(t)
    BY <2>4, <1>0
    DEF StartRecordPid, CallsAreSound, StartsAreFresh, Starting, Metadata
  <2>5. CASE StartCommit(t) \/ StopExit(t)
    BY <2>5, <1>0 DEF StartCommit, StopExit, SetState, Metadata
  <2>6. CASE StatusApply(t)
    BY <2>6, <1>0 DEF StatusApply, WithAnswer, ContainerStateOf, Metadata
  <2>7. CASE PanicSacct(t)
    BY <2>7 DEF PanicSacct, Restart
  <2>8. CASE CreateFail(t) \/ StartSubmit(t) \/ StopCancel(t) \/ StopFail(t)
             \/ StatusQuery(t) \/ Answer(t)
    BY <2>8 DEF CreateFail, StartSubmit, StopCancel, StopFail, StatusQuery, Answer
  <2> QED
    BY <1>1, <2>1, <2>2, <2>3, <2>4, <2>5, <2>6, <2>7, <2>8 DEF CallStep
<1>2. ASSUME NEW t \in Caller, NEW d \in Container, CallBegin(t, d)
      PROVE  /\ mem'[c].state # "NONE" \/ mem'[c] \in {mem[c], disk[c]}
             /\ disk'[c] \in {disk[c], mem'[c]}
             /\ life[c] # "fresh" => life'[c] # "fresh"
             /\ life[c] = "fresh" /\ life'[c] # "fresh" => mem'[c].state = "CREATED"
                                                           /\ disk'[c] = mem'[c]
  <2>1. CASE CreateBegin(t, d)
    BY <2>1 DEF CreateBegin, CreateContainerMetadata, Persist, Absent
  <2>2. CASE StartBegin(t, d)
    <3>1. mem[d] # Absent /\ life[d] # "fresh"
      BY <2>2 DEF StartBegin, StartAllowed, Absent
    <3> QED
      BY <2>2, <1>0, <3>1 DEF StartBegin, CreateCMDFails, SetFailed, Metadata
  <2>3. CASE StopBegin(t, d) \/ PanicUnknown(t, d)
    BY <2>3 DEF StopBegin, PanicUnknown, Restart
  <2>4. CASE StatusBegin(t, d)
    BY <2>4, <1>0 DEF StatusBegin, CreateCMDFails, SetFailed, Metadata
  <2> QED
    BY <1>2, <2>1, <2>2, <2>3, <2>4 DEF CallBegin
<1>3. CASE Crash
  BY <1>3 DEF Crash, Restart
<1>4. ASSUME NEW j \in JobId, JobStep(j) PROVE UNCHANGED <<mem, disk, life>>
  BY <1>4 DEF JobStep, JobRun, JobFinish, JobEnd, JobPurge
<1> QED
  BY <1>1, <1>2, <1>3, <1>4 DEF Next, vars

LEMMA FiledStep ==
  ASSUME IInv, Filed, Persistence, [Next]_vars
  PROVE  Filed'
<1> SUFFICES ASSUME NEW c \in Container, life'[c] # "fresh"
             PROVE  mem'[c].state # "NONE" /\ disk'[c].state # "NONE"
  BY DEF Filed
<1> QED
  BY RecordMoves DEF Filed

-----------------------------------------------------------------------------
(* The two sides of the mapping *)

\* A container without a job, and one with a job.
LEMMA WorkNone ==
  ASSUME NEW c \in Container, \A j \in JobId : job[j].owner # c
  PROVE  WorkOf(c) = "none"
BY DEF WorkOf, JobsOf

LEMMA WorkOfJob ==
  ASSUME OneJobEach, NEW c \in Container, NEW j \in JobId, job[j].owner = c
  PROVE  WorkOf(c) = IF Live(j) THEN "live" ELSE "over"
<1>1. JobsOf(c) = {j}
  BY IdAssumption DEF JobsOf, OneJobEach
<1> QED
  BY <1>1 DEF WorkOf

\* The contract's step from what becomes of one container.
LEMMA OneMoves ==
  ASSUME NEW c \in Container,
         \A d \in Serial : d # c => PhaseOf(d)' = PhaseOf(d) /\ WorkOf(d)' = WorkOf(d),
         \/ c \notin Serial
         \/ PhaseOf(c)' = PhaseOf(c) /\ WorkOf(c)' = WorkOf(c)
         \/ PhaseOf(c) = "absent" /\ PhaseOf(c)' = "open" /\ WorkOf(c)' = WorkOf(c)
         \/ /\ PhaseOf(c) = "open" /\ PhaseOf(c)' = PhaseOf(c)
            /\ WorkOf(c) = "none" /\ WorkOf(c)' = "live"
         \/ /\ PhaseOf(c)' = PhaseOf(c)
            /\ WorkOf(c) = "live" /\ WorkOf(c)' = "over"
         \/ /\ PhaseOf(c) = "open" /\ PhaseOf(c)' = "closed"
            /\ WorkOf(c)' = WorkOf(c) /\ WorkOf(c) # "live"
  PROVE  [Contract!Next]_(Contract!contractVars)
<1>1. CASE c \notin Serial
  <2>1. \A d \in Serial : PhaseOf(d)' = PhaseOf(d) /\ WorkOf(d)' = WorkOf(d)
    BY <1>1
  <2> QED
    BY <2>1 DEF Contract!contractVars
<1>2. CASE c \in Serial
  BY <1>2
  DEF Contract!Next, Contract!contractVars, Contract!Accept, Contract!Submit,
      Contract!Finish, Contract!Close
<1> QED
  BY <1>1, <1>2

-----------------------------------------------------------------------------
(* Steps *)

\* A step changes one entry of the file, or hands out a job, or moves one job
\* on, never back to life.
LEMMA StepFrame ==
  ASSUME IInv, [Next]_vars
  PROVE  \/ disk' = disk /\ job' = job
         \/ /\ job' = job
            /\ \E c \in Container : \A d \in Container : d # c => disk'[d] = disk[d]
         \/ /\ disk' = disk
            /\ \E t \in Caller : StartSubmit(t)
         \/ /\ disk' = disk
            /\ \E j \in JobId :
                 /\ \A k \in JobId : k # j => job'[k] = job[k]
                 /\ job'[j].owner = job[j].owner /\ job[j].owner # NoContainer
                 /\ job'[j].phase \in {"PENDING", "RUNNING"} => Live(j)
<1> USE DEF IInv, TypeOK
<1>1. ASSUME NEW t \in Caller, CreateDone(t) \/ Update(t)
      PROVE  /\ job' = job /\ call[t].c \in Container
             /\ \A d \in Container : d # call[t].c => disk'[d] = disk[d]
  BY <1>1 DEF CreateDone, Update, Persist, CallsAreSound
<1>2. ASSUME NEW t \in Caller, NEW c \in Container, CreateBegin(t, c)
      PROVE  job' = job /\ \A d \in Container : d # c => disk'[d] = disk[d]
  BY <1>2 DEF CreateBegin, CreateContainerMetadata, Persist
<1>3. ASSUME NEW t \in Caller, NEW c \in Container, CallBegin(t, c), ~CreateBegin(t, c)
      PROVE  disk' = disk /\ job' = job
  BY <1>3
  DEF CallBegin, StartBegin, StopBegin, StatusBegin, PanicUnknown, Restart,
      CreateCMDFails
<1>4. ASSUME NEW t \in Caller, CallStep(t), ~CreateDone(t), ~Update(t), ~StartSubmit(t),
             ~StopCancel(t)
      PROVE  disk' = disk /\ job' = job
  BY <1>4
  DEF CallStep, CreateFail, StartFail, StartReplyLost, StartRecordPid, StartCommit,
      StopFail, StopExit, StatusQuery, StatusApply, PanicSacct, Restart, Answer
<1>5. ASSUME NEW t \in Caller, StopCancel(t), job' # job
      PROVE  /\ disk' = disk
             /\ \E j \in JobId :
                  /\ \A k \in JobId : k # j => job'[k] = job[k]
                  /\ job'[j].owner = job[j].owner /\ job[j].owner # NoContainer
                  /\ job'[j].phase \in {"PENDING", "RUNNING"} => Live(j)
  <2> DEFINE j == call[t].job
  <2>1. Live(j) /\ j \in JobId /\ job[j] \in Job
    BY <1>5 DEF StopCancel, Live
  <2>2. PICK p \in {"ENDED", "COMPLETING"} :
          job' = [job EXCEPT ![j] = [@ EXCEPT !.phase = p, !.result = "CANCELLED"]]
    BY <1>5, <2>1 DEF StopCancel
  <2>3. job'[j].owner = job[j].owner /\ \A k \in JobId : k # j => job'[k] = job[k]
    BY <2>1, <2>2 DEF Job
  <2>4. job[j].owner # NoContainer
    BY <2>1 DEF Live, OneJobEach
  <2> QED
    BY <1>5, <2>1, <2>3, <2>4 DEF StopCancel
<1>6. ASSUME NEW t \in Caller, StartSubmit(t) PROVE disk' = disk
  BY <1>6 DEF StartSubmit
<1>7. ASSUME NEW j \in JobId, JobStep(j)
      PROVE  /\ disk' = disk
             /\ \A k \in JobId : k # j => job'[k] = job[k]
             /\ job'[j].owner = job[j].owner /\ job[j].owner # NoContainer
             /\ job'[j].phase \in {"PENDING", "RUNNING"} => Live(j)
  <2>1. job[j] \in Job /\ job[j].phase # "none"
    BY <1>7 DEF JobStep, JobRun, JobFinish, JobEnd, JobPurge
  <2>2. job[j].owner # NoContainer
    BY <2>1 DEF OneJobEach
  <2>3. CASE JobRun(j)
    BY <2>1, <2>2, <2>3 DEF JobRun, Live, Job
  <2>4. CASE JobFinish(j)
    <3>1. PICK r : job' = [job EXCEPT ![j] = [@ EXCEPT !.phase = "COMPLETING", !.result = r]]
      BY <2>4 DEF JobFinish
    <3> QED
      BY <2>1, <2>2, <2>4, <3>1 DEF JobFinish, Job
  <2>5. CASE JobEnd(j) \/ JobPurge(j)
    BY <2>1, <2>2, <2>5 DEF JobEnd, JobPurge, Job
  <2> QED
    BY <1>7, <2>3, <2>4, <2>5 DEF JobStep
<1>8. CASE Crash \/ UNCHANGED vars
  BY <1>8 DEF Crash, Restart, vars
<1>9. ASSUME NEW t \in Caller, CallStep(t)
      PROVE  \/ CreateDone(t) \/ Update(t) \/ StartSubmit(t) \/ StopCancel(t)
             \/ disk' = disk /\ job' = job
  BY <1>4, <1>9
<1>10. ASSUME NEW t \in Caller, StopCancel(t) PROVE disk' = disk
  BY <1>10 DEF StopCancel
<1> QED
  BY <1>1, <1>2, <1>3, <1>5, <1>6, <1>7, <1>8, <1>9, <1>10 DEF Next

\* An entry of the file: absent, then open, then closed, the last only when the
\* container has no live job.
LEMMA EntryMoves ==
  ASSUME ContractInv, ContractInv', Persistence, [Next]_vars, NEW c \in Serial,
         job' = job
  PROVE  \/ PhaseOf(c)' = PhaseOf(c)
         \/ PhaseOf(c) = "absent" /\ PhaseOf(c)' = "open"
         \/ PhaseOf(c) = "open" /\ PhaseOf(c)' = "closed" /\ WorkOf(c) # "live"
<1> USE DEF ContractInv, Serial
<1>1. CASE disk[c].state = "EXITED"
  BY <1>1, ExitStaysInFile DEF PhaseOf
<1>2. CASE disk[c].state = "NONE"
  <2>1. life[c] = "fresh"
    BY <1>2 DEF Filed
  <2>2. CASE life'[c] = "fresh"
    BY <1>2, <2>2 DEF IInv, Bookkeeping, PhaseOf, Absent
  <2>3. CASE life'[c] # "fresh"
    BY <1>2, <2>1, <2>3, RecordMoves DEF PhaseOf
  <2> QED
    BY <2>2, <2>3
<1>3. CASE disk[c].state \notin {"NONE", "EXITED"}
  <2>1. life[c] # "fresh"
    BY <1>3 DEF IInv, Bookkeeping, Absent
  <2>2. disk'[c].state # "NONE"
    BY <2>1, RecordMoves DEF Filed
  <2>3. ASSUME disk'[c].state = "EXITED" PROVE WorkOf(c) # "live"
    <3>1. \A j \in JobId : job[j].owner = c => ~Live(j)
      BY <2>3 DEF IInv, ExitedHasNoLiveJob, Live
    <3> QED
      BY <3>1 DEF WorkOf, JobsOf
  <2> QED
    BY <1>3, <2>2, <2>3 DEF PhaseOf
<1> QED
  BY <1>1, <1>2, <1>3

\* sbatch has run: the container is open, had no job, and has a live one now.
LEMMA SubmitMoves ==
  ASSUME ContractInv, ContractInv', NEW t \in Caller, StartSubmit(t)
  PROVE  [Contract!Next]_(Contract!contractVars)
<1>1. PICK c \in Container : c = call[t].c /\ Starting(t, c) /\ disk' = disk
  BY DEF ContractInv, IInv, StartSubmit, CallsAreSound, Starting
<1>2. PICK j \in JobId :
        /\ job[j].phase = "none"
        /\ job' = [job EXCEPT ![j] = [owner |-> c, phase |-> "PENDING", result |-> "none"]]
  BY <1>1 DEF StartSubmit
<1>3. /\ job'[j].owner = c /\ job'[j].phase = "PENDING"
      /\ \A k \in JobId : k # j => job'[k] = job[k]
  BY <1>2 DEF ContractInv, IInv, TypeOK
<1>4. job[j].owner = NoContainer
  BY <1>2 DEF ContractInv, IInv, OneJobEach
<1>5. PhaseOf(c) = "open"
  <2>1. disk[c].state # "EXITED" /\ mem[c].state = "CREATED"
    BY <1>1 DEF ContractInv, IInv, StartsAreFresh
  <2>2. life[c] # "fresh"
    BY <1>1, <2>1 DEF ContractInv, IInv, Bookkeeping, Absent
  <2> QED
    BY <1>1, <2>1, <2>2 DEF ContractInv, Filed, PhaseOf
<1>6. WorkOf(c) = "none"
  <2>1. \A k \in JobId : job[k].owner # c
    BY <1>1 DEF ContractInv, IInv, StartsAreFresh, StartSubmit
  <2> QED
    BY <1>1, <2>1, WorkNone
<1>7. WorkOf(c)' = "live"
  BY <1>1, <1>3 DEF WorkOf, JobsOf, Live
<1>8. \A d \in Container : PhaseOf(d)' = PhaseOf(d)
  BY <1>1 DEF PhaseOf
<1>9. ASSUME NEW d \in Container, d # c PROVE WorkOf(d)' = WorkOf(d)
  <2>1. d # NoContainer
    BY IdAssumption
  <2>2. /\ JobsOf(d)' = JobsOf(d)
        /\ \A k \in JobsOf(d) : Live(k)' = Live(k)
    BY <1>3, <1>4, <1>9, <2>1 DEF JobsOf, Live
  <2> QED
    BY <2>2 DEF WorkOf
<1> QED
  BY <1>1, <1>5, <1>6, <1>7, <1>8, <1>9, OneMoves DEF Serial

\* A job starts, winds up, ends or is forgotten: over at some point, for good.
LEMMA JobMoves ==
  ASSUME ContractInv, ContractInv', disk' = disk, NEW j \in JobId,
         \A k \in JobId : k # j => job'[k] = job[k],
         job'[j].owner = job[j].owner, job[j].owner # NoContainer,
         job'[j].phase \in {"PENDING", "RUNNING"} => Live(j)
  PROVE  [Contract!Next]_(Contract!contractVars)
<1>1. PICK c \in Container : c = job[j].owner
  BY DEF ContractInv, IInv, TypeOK, Job
<1>2. WorkOf(c) = IF Live(j) THEN "live" ELSE "over"
  BY <1>1, WorkOfJob DEF ContractInv, IInv
<1>3. WorkOf(c)' = IF Live(j)' THEN "live" ELSE "over"
  <2>1. job'[j].owner = c
    BY <1>1
  <2>2. \A k \in JobId : job'[k].owner = c => k = j
    BY <1>1, <2>1, IdAssumption DEF ContractInv, IInv, OneJobEach
  <2>3. JobsOf(c)' = {j}
    BY <2>1, <2>2 DEF JobsOf
  <2> QED
    BY <2>3 DEF WorkOf
<1>4. Live(j)' => Live(j)
  BY DEF Live
<1>5. \A d \in Container : PhaseOf(d)' = PhaseOf(d)
  BY DEF PhaseOf
<1>6. ASSUME NEW d \in Container, d # c PROVE WorkOf(d)' = WorkOf(d)
  <2>1. /\ JobsOf(d)' = JobsOf(d)
        /\ \A k \in JobsOf(d) : Live(k)' = Live(k)
    BY <1>1, <1>6 DEF JobsOf, Live
  <2> QED
    BY <2>1 DEF WorkOf
<1>7. \/ WorkOf(c)' = WorkOf(c)
      \/ WorkOf(c) = "live" /\ WorkOf(c)' = "over"
  BY <1>2, <1>3, <1>4
<1> QED
  BY <1>1, <1>5, <1>6, <1>7, OneMoves DEF Serial

LEMMA StepSimulation ==
  ASSUME ContractInv, ContractInv', Persistence, [Next]_vars
  PROVE  [Contract!Next]_(Contract!contractVars)
<1>1. CASE disk' = disk /\ job' = job
  BY <1>1 DEF Contract!contractVars, PhaseOf, WorkOf, JobsOf, Live, Serial
<1>2. ASSUME job' = job, NEW c \in Container,
             \A d \in Container : d # c => disk'[d] = disk[d]
      PROVE  [Contract!Next]_(Contract!contractVars)
  <2>1. \A d \in Serial : WorkOf(d)' = WorkOf(d)
    BY <1>2 DEF WorkOf, JobsOf, Live
  <2>2. \A d \in Serial : d # c => PhaseOf(d)' = PhaseOf(d)
    BY <1>2 DEF PhaseOf, Serial
  <2> QED
    BY <1>2, <2>1, <2>2, EntryMoves, OneMoves
<1> QED
  BY <1>1, <1>2, SubmitMoves, JobMoves, StepFrame DEF ContractInv

\* KeepsBatchContract: with the cache file on, commands that get through and one
\* start per container, the service implements the contract for the containers
\* it serves one call at a time, beside containers whose calls overlap, whenever
\* the server dies and whatever slurmctld forgets.
THEOREM KeepsBatchContractCorrect ==
  ASSUME ~SshMayFail, StartOnce, Persistence
  PROVE  Spec => KeepsBatchContract
<1>1. Init => ContractInv
  <2>1. Init => Filed
    BY DEF Init, Filed
  <2> QED
    BY <2>1, InitIInv, DurableInit DEF ContractInv
<1>2. ContractInv /\ [Next]_vars => ContractInv'
  BY StepIInv, DurableStep, FiledStep DEF ContractInv
<1>3. Init => Contract!Init
  <2> SUFFICES ASSUME Init PROVE Contract!Init
    OBVIOUS
  <2>1. \A c \in Container : PhaseOf(c) = "absent"
    BY DEF Init, PhaseOf, Absent
  <2>2. \A c \in Container : WorkOf(c) = "none"
    BY WorkNone, IdAssumption DEF Init, NoJob
  <2> QED
    BY <2>1, <2>2 DEF Contract!Init, Serial
<1>4. ContractInv /\ ContractInv' /\ [Next]_vars => [Contract!Next]_(Contract!contractVars)
  BY StepSimulation
<1> QED
  BY <1>1, <1>2, <1>3, <1>4, PTL DEF Spec, KeepsBatchContract, Contract!Spec

-----------------------------------------------------------------------------
(* The contract of a submission.  A start gets a number or it does not; what  *)
(* the file has afterwards is that number, the one of an earlier start, or,   *)
(* when the reply could not be read, none.                                    *)

\* A record and its entry in the file have different numbers only while a
\* start is about to be filed.
PidsFit(c) ==
  mem[c].pid # disk[c].pid =>
    \E t \in Caller : /\ call[t].c = c
                      /\ call[t].op = "Start"
                      /\ call[t].pc \in {"recorded", "update"}
                      /\ mem[c].pid \in {call[t].job, 0}

\* The steps of a start are no other request's, and it has no job before it has
\* submitted one.
StartsAreStarts ==
  \A t \in Caller :
    /\ call[t].pc \in {"submit", "submitted", "recorded"} => call[t].op = "Start"
    /\ call[t].op = "Start" =>
         /\ call[t].c \in Container
         /\ call[t].pc \in {"submit", "submitted", "recorded", "update", "answer"}
    /\ call[t].pc = "submit" => call[t].job = 0

UnusedHasNoOwner == \A j \in JobId : job[j].phase = "none" => job[j].owner = NoContainer

SubmissionInv ==
  /\ DurableInv
  /\ UnusedHasNoOwner
  /\ StartsAreStarts
  /\ \A c \in Serial : PidsFit(c)

LEMMA SubmissionInit == Init => SubmissionInv
<1> SUFFICES ASSUME Init PROVE SubmissionInv
  OBVIOUS
<1>1. UnusedHasNoOwner
  BY DEF Init, UnusedHasNoOwner, NoJob
<1>2. StartsAreStarts
  BY DEF Init, StartsAreStarts, Idle
<1>3. \A c \in Serial : PidsFit(c)
  BY DEF Init, PidsFit, Serial
<1> QED
  BY <1>1, <1>2, <1>3, DurableInit DEF SubmissionInv

\* A job keeps its owner, and one that was used stays so.
LEMMA OwnersStay ==
  ASSUME TypeOK, [Next]_vars, \A t \in Caller : ~StartSubmit(t)
  PROVE  \A j \in JobId : /\ job'[j].owner = job[j].owner
                          /\ job'[j].phase = "none" => job[j].phase = "none"
<1> USE DEF TypeOK
<1>1. ASSUME NEW t \in Caller, StopCancel(t), NEW j \in JobId
      PROVE  /\ job'[j].owner = job[j].owner
             /\ job'[j].phase = "none" => job[j].phase = "none"
  <2>1. PICK p \in {"ENDED", "COMPLETING"} :
          \/ job' = [job EXCEPT ![call[t].job] = [@ EXCEPT !.phase = p, !.result = "CANCELLED"]]
          \/ job' = job
    BY <1>1 DEF StopCancel
  <2>2. /\ [job[j] EXCEPT !.phase = p, !.result = "CANCELLED"].owner = job[j].owner
        /\ [job[j] EXCEPT !.phase = p, !.result = "CANCELLED"].phase = p
    BY DEF Job
  <2> QED
    BY <2>1, <2>2
<1>2. ASSUME NEW k \in JobId, JobStep(k), NEW j \in JobId
      PROVE  /\ job'[j].owner = job[j].owner
             /\ job'[j].phase = "none" => job[j].phase = "none"
  <2>1. CASE JobFinish(k)
    <3>1. PICK r : job' = [job EXCEPT ![k] = [@ EXCEPT !.phase = "COMPLETING", !.result = r]]
      BY <2>1 DEF JobFinish
    <3> QED
      BY <3>1 DEF Job
  <2>2. CASE JobRun(k) \/ JobEnd(k) \/ JobPurge(k)
    BY <2>2 DEF JobRun, JobEnd, JobPurge, Job
  <2> QED
    BY <1>2, <2>1, <2>2 DEF JobStep
<1>3. ASSUME NEW t \in Caller, CallStep(t), ~StopCancel(t) PROVE job' = job
  BY <1>3
  DEF CallStep, CreateDone, CreateFail, StartFail, StartReplyLost, StartRecordPid,
      StartCommit, StopFail, StopExit, StatusQuery, StatusApply, PanicSacct, Restart,
      Update, Answer
<1>4. ASSUME NEW t \in Caller, NEW c \in Container, CallBegin(t, c) PROVE job' = job
  BY <1>4
  DEF CallBegin, CreateBegin, StartBegin, StopBegin, StatusBegin, PanicUnknown, Restart
<1>5. CASE Crash \/ UNCHANGED vars
  BY <1>5 DEF Crash, Restart, vars
<1> QED
  BY <1>1, <1>2, <1>3, <1>4, <1>5 DEF Next

LEMMA UnusedStep ==
  ASSUME TypeOK, UnusedHasNoOwner, [Next]_vars
  PROVE  UnusedHasNoOwner'
<1>1. ASSUME NEW t \in Caller, StartSubmit(t) PROVE UnusedHasNoOwner'
  BY <1>1 DEF StartSubmit, UnusedHasNoOwner, TypeOK
<1> QED
  BY <1>1, OwnersStay DEF UnusedHasNoOwner

\* What a step of a request that is served does to its slot and to the others.
LEMMA SlotMoves ==
  ASSUME TypeOK, NEW t \in Caller, CallStep(t), ~Restart
  PROVE  /\ \A u \in Caller : u # t => call'[u] = call[u]
         /\ \/ call'[t] = Idle
            \/ call'[t].c = call[t].c /\ call'[t].op = call[t].op
<1>1. CASE CreateFail(t) \/ StopFail(t) \/ Answer(t)
  BY <1>1 DEF CreateFail, StopFail, Answer, Return, TypeOK
<1>2. CASE StartSubmit(t) \/ StatusQuery(t)
  <2>1. PICK r : call' = [call EXCEPT ![t] = r] /\ r.c = call[t].c /\ r.op = call[t].op
    <3>1. CASE StartSubmit(t)
      BY <3>1 DEF StartSubmit, TypeOK, Call
    <3>2. CASE StatusQuery(t)
      BY <3>2 DEF StatusQuery, TypeOK, Call
    <3> QED
      BY <1>2, <3>1, <3>2
  <2> QED
    BY <2>1 DEF TypeOK
<1>3. ASSUME NEW pc, GoTo(t, pc)
      PROVE  /\ \A u \in Caller : u # t => call'[u] = call[u]
             /\ call'[t].c = call[t].c /\ call'[t].op = call[t].op
  BY <1>3 DEF GoTo, TypeOK, Call
<1>4. CASE ~(CreateFail(t) \/ StopFail(t) \/ Answer(t) \/ StartSubmit(t) \/ StatusQuery(t))
  <2>1. PICK pc : GoTo(t, pc)
    BY <1>4
    DEF CallStep, CreateDone, StartFail, StartReplyLost, StartRecordPid, StartCommit,
        StopCancel, StopExit, StatusApply, PanicSacct, Update
  <2> QED
    BY <1>3, <2>1
<1> QED
  BY <1>1, <1>2, <1>4

LEMMA StartsStep ==
  ASSUME TypeOK, StartsAreStarts, [Next]_vars
  PROVE  StartsAreStarts'
<1>1. CASE Restart
  BY <1>1 DEF Restart, StartsAreStarts, Idle
<1>2. CASE UNCHANGED call
  BY <1>2 DEF StartsAreStarts
<1>3. ASSUME NEW t \in Caller, CallStep(t), ~Restart PROVE StartsAreStarts'
  <2>1. \A u \in Caller : u # t => call'[u] = call[u]
    BY <1>3, SlotMoves
  <2> SUFFICES /\ call'[t].pc \in {"submit", "submitted", "recorded"} => call'[t].op = "Start"
               /\ call'[t].op = "Start" =>
                    /\ call'[t].c \in Container
                    /\ call'[t].pc \in {"submit", "submitted", "recorded", "update", "answer"}
               /\ call'[t].pc = "submit" => call'[t].job = 0
    BY <2>1 DEF StartsAreStarts
  <2>2. CASE CreateFail(t) \/ StopFail(t) \/ Answer(t)
    <3>1. call'[t] = Idle
      BY <2>2 DEF CreateFail, StopFail, Answer, Return, TypeOK
    <3> QED
      BY <3>1 DEF Idle
  <2>3. CASE StartSubmit(t)
    BY <2>3 DEF StartSubmit, StartsAreStarts, TypeOK, Call
  <2>4. CASE StatusQuery(t)
    BY <2>4 DEF StatusQuery, StartsAreStarts, TypeOK, Call
  <2>5. ASSUME NEW pc, GoTo(t, pc)
        PROVE  /\ call'[t].c = call[t].c /\ call'[t].op = call[t].op /\ call'[t].pc = pc
               /\ call'[t].job = call[t].job
    BY <2>5 DEF GoTo, TypeOK, Call
  <2>6. CASE CreateDone(t) \/ StopCancel(t) \/ StopExit(t) \/ StatusApply(t) \/ Update(t)
    BY <2>5, <2>6
    DEF CreateDone, StopCancel, StopExit, StatusApply, Update, StartsAreStarts
  <2>7. CASE StartFail(t) \/ StartReplyLost(t) \/ StartRecordPid(t) \/ StartCommit(t)
    BY <2>5, <2>7
    DEF StartFail, StartReplyLost, StartRecordPid, StartCommit, StartsAreStarts
  <2> QED
    BY <1>3, <2>2, <2>3, <2>4, <2>6, <2>7 DEF CallStep, PanicSacct
<1>4. ASSUME NEW t \in Caller, NEW c \in Container, CallBegin(t, c), ~Restart
      PROVE  StartsAreStarts'
  <2>0. mem[c] \in Metadata
    BY DEF TypeOK
  <2>1. PICK op \in Op, pc \in Pc, j \in JobId \cup {0} :
          /\ call' = [call EXCEPT ![t] = Request(op, c, pc, j)]
          /\ \/ op = "Start" /\ pc \in {"submit", "update"} /\ j = 0
             \/ op # "Start" /\ pc \notin {"submit", "submitted", "recorded"}
    <3>1. CASE CreateBegin(t, c)
      BY <3>1 DEF CreateBegin, Op, Pc
    <3>2. CASE StartBegin(t, c)
      BY <3>2 DEF StartBegin, Op, Pc
    <3>3. CASE StopBegin(t, c)
      BY <2>0, <3>3 DEF StopBegin, Op, Pc, Metadata
    <3>4. CASE StatusBegin(t, c)
      BY <2>0, <3>4 DEF StatusBegin, Op, Pc, Metadata
    <3> QED
      BY <1>4, <3>1, <3>2, <3>3, <3>4 DEF CallBegin, PanicUnknown
  <2>2. /\ call'[t].op = op /\ call'[t].c = c /\ call'[t].pc = pc /\ call'[t].job = j
        /\ \A u \in Caller : u # t => call'[u] = call[u]
    BY <2>1 DEF Request, TypeOK
  <2> QED
    BY <2>1, <2>2 DEF StartsAreStarts
<1>5. ASSUME NEW j \in JobId, JobStep(j) PROVE UNCHANGED call
  BY <1>5 DEF JobStep, JobRun, JobFinish, JobEnd, JobPurge
<1> QED
  BY <1>1, <1>2, <1>3, <1>4, <1>5 DEF Next, Crash, vars

\* The numbers of a record and its entry, where the step leaves both alone and
\* no start that is about to be filed goes away.
LEMMA PidsStay ==
  ASSUME NEW c \in Container, PidsFit(c), mem'[c].pid = mem[c].pid,
         disk'[c].pid = disk[c].pid,
         \A t \in Caller :
           call[t].c = c /\ call[t].op = "Start" /\ call[t].pc \in {"recorded", "update"} =>
             /\ call'[t].c = c /\ call'[t].op = "Start"
             /\ call'[t].pc \in {"recorded", "update"} /\ call'[t].job = call[t].job
  PROVE  PidsFit(c)'
  BY DEF PidsFit

LEMMA PidsCallStep ==
  ASSUME Persistence, SubmissionInv, NEW t \in Caller, CallStep(t), ~Restart,
         NEW c \in Serial
  PROVE  PidsFit(c)'
<1>0. TypeOK /\ OneCallEach /\ StartsAreStarts /\ PidsFit(c) /\ c \in Container
  BY DEF SubmissionInv, DurableInv, Serial
<1>1. /\ \A u \in Caller : u # t => call'[u] = call[u]
      /\ c # call[t].c => mem'[c] = mem[c] /\ disk'[c] = disk[c]
  BY <1>0, SlotMoves
  DEF CallStep, CreateDone, CreateFail, StartFail, StartSubmit, StartReplyLost,
      StartRecordPid, StartCommit, StopCancel, StopFail, StopExit, StatusQuery,
      StatusApply, PanicSacct, Update, Answer, SetFailed, SetState, Persist, TypeOK
<1>2. CASE c # call[t].c
  BY <1>0, <1>1, <1>2, PidsStay
<1>3. CASE c = call[t].c /\ (CreateDone(t) \/ Update(t))
  <2>1. disk' = [disk EXCEPT ![c] = mem[c]] /\ mem' = mem
    BY <1>3 DEF CreateDone, Update, Persist
  <2> QED
    BY <1>0, <2>1 DEF PidsFit, TypeOK
<1>4. CASE c = call[t].c /\ ~(CreateDone(t) \/ Update(t))
  <2>1. disk' = disk
    BY <1>4
    DEF CallStep, CreateFail, StartFail, StartSubmit, StartReplyLost, StartRecordPid,
        StartCommit, StopCancel, StopFail, StopExit, StatusQuery, StatusApply,
        PanicSacct, Answer
  <2>2. \A u \in Caller : call[u].c = c => u = t
    BY <1>0, <1>4 DEF OneCallEach
  <2>3. ASSUME NEW pc, GoTo(t, pc)
        PROVE  /\ call'[t].c = c /\ call'[t].op = call[t].op /\ call'[t].pc = pc
               /\ call'[t].job = call[t].job
    BY <1>0, <1>4, <2>3 DEF GoTo, TypeOK, Call
  <2>4. CASE StartRecordPid(t)
    <3>1. mem'[c].pid = call[t].job
      BY <1>0, <1>4, <2>4 DEF StartRecordPid, TypeOK, Metadata
    <3>2. /\ call'[t].c = c /\ call'[t].op = "Start" /\ call'[t].pc = "recorded"
          /\ call'[t].job = call[t].job
      BY <1>0, <2>3, <2>4 DEF StartRecordPid, StartsAreStarts
    <3> QED
      BY <3>1, <3>2 DEF PidsFit
  <2>5. CASE StartReplyLost(t)
    <3>1. mem'[c].pid \in {mem[c].pid, 0}
      BY <1>0, <1>4, <2>5 DEF StartReplyLost, TypeOK, Metadata
    <3>2. /\ call'[t].c = c /\ call'[t].op = "Start" /\ call'[t].pc = "update"
      BY <1>0, <2>3, <2>5 DEF StartReplyLost, StartsAreStarts
    <3>3. mem[c].pid = disk[c].pid
      BY <1>0, <2>2, <2>5 DEF StartReplyLost, PidsFit
    <3> QED
      BY <2>1, <3>1, <3>2, <3>3 DEF PidsFit
  <2>6. CASE StartCommit(t)
    <3>1. mem'[c].pid = mem[c].pid
      BY <1>0, <2>6, SetStateKeepsPid DEF StartCommit
    <3>2. /\ call'[t].c = c /\ call'[t].op = "Start" /\ call'[t].pc = "update"
          /\ call'[t].job = call[t].job
      BY <1>0, <2>3, <2>6 DEF StartCommit, StartsAreStarts
    <3> QED
      BY <1>0, <1>1, <2>1, <2>2, <3>1, <3>2, PidsStay
  <2>7. CASE ~(StartRecordPid(t) \/ StartReplyLost(t) \/ StartCommit(t))
    <3>1. mem'[c].pid = mem[c].pid
      <4>1. CASE StartFail(t) \/ StopExit(t)
        BY <1>0, <4>1, SetStateKeepsPid, SetFailedKeepsPid DEF StartFail, StopExit
      <4>2. CASE StatusApply(t)
        BY <1>0, <4>2 DEF StatusApply, WithAnswer, TypeOK, Metadata
      <4>3. CASE ~(StartFail(t) \/ StopExit(t) \/ StatusApply(t))
        BY <1>4, <2>7, <4>3
        DEF CallStep, CreateFail, StartSubmit, StopCancel, StopFail, StatusQuery,
            PanicSacct, Answer
      <4> QED
        BY <4>1, <4>2, <4>3
    <3>2. call[t].pc \notin {"recorded", "update"}
      BY <1>4, <2>7
      DEF CallStep, CreateFail, StartFail, StartSubmit, StopCancel, StopFail, StopExit,
          StatusQuery, StatusApply, PanicSacct, Answer
    <3> QED
      BY <1>0, <1>1, <2>1, <3>1, <3>2, PidsStay
  <2> QED
    BY <2>4, <2>5, <2>6, <2>7
<1> QED
  BY <1>2, <1>3, <1>4

LEMMA PidsCallBegin ==
  ASSUME Persistence, SubmissionInv, NEW t \in Caller, NEW d \in Container,
         CallBegin(t, d), ~Restart, NEW c \in Serial
  PROVE  PidsFit(c)' /\ disk'[c].pid = disk[c].pid
<1>0. TypeOK /\ WritersCameBefore /\ PidsFit(c) /\ c \in Container
  BY DEF SubmissionInv, DurableInv, Serial
<1>1. /\ \A u \in Caller : u # t => call'[u] = call[u]
      /\ call[t].pc = "idle"
  BY <1>0
  DEF CallBegin, CreateBegin, StartBegin, StopBegin, StatusBegin, PanicUnknown,
      MayBegin, Idle, TypeOK
<1>2. CASE CreateBegin(t, d)
  <2>1. mem'[c].pid = mem[c].pid /\ disk'[c].pid = disk[c].pid
    BY <1>0, <1>2
    DEF CreateBegin, CreateContainerMetadata, Persist, WritersCameBefore, Absent, TypeOK
  <2> QED
    BY <1>0, <1>1, <2>1, PidsStay
<1>3. CASE ~CreateBegin(t, d)
  <2>1. disk' = disk /\ (SetFailed(d) \/ mem' = mem)
    BY <1>3 DEF CallBegin, StartBegin, StopBegin, StatusBegin, PanicUnknown
  <2>2. mem'[c].pid = mem[c].pid
    BY <1>0, <2>1, SetFailedKeepsPid
  <2> QED
    BY <1>0, <1>1, <2>1, <2>2, PidsStay
<1> QED
  BY <1>2, <1>3

LEMMA SubmissionStep ==
  ASSUME Persistence, SubmissionInv, [Next]_vars
  PROVE  SubmissionInv'
<1>1. TypeOK /\ DurableInv /\ UnusedHasNoOwner /\ StartsAreStarts
  BY DEF SubmissionInv, DurableInv
<1>2. \A c \in Serial : PidsFit(c)'
  <2>1. CASE Restart
    BY <2>1 DEF Restart, PidsFit
  <2>2. ASSUME NEW j \in JobId, JobStep(j) PROVE UNCHANGED <<mem, disk, call>>
    BY <2>2 DEF JobStep, JobRun, JobFinish, JobEnd, JobPurge
  <2>3. CASE UNCHANGED <<mem, disk, call>>
    BY <2>3 DEF SubmissionInv, PidsFit
  <2> QED
    BY <2>1, <2>2, <2>3, PidsCallStep, PidsCallBegin DEF Next, Crash, vars
<1> QED
  BY <1>1, <1>2, DurableStep, UnusedStep, StartsStep DEF SubmissionInv

-----------------------------------------------------------------------------
(* Steps as the contract of a submission sees them *)

Unseen(c) ==
  /\ Starts(c)' <=> Starts(c)
  /\ SentFor(c)' = SentFor(c)
  /\ JobsOf(c)' = JobsOf(c)
  /\ disk'[c].pid = disk[c].pid

Begins(c) ==
  /\ ~Starts(c) /\ Starts(c)'
  /\ SentFor(c)' = SentFor(c)
  /\ JobsOf(c)' = JobsOf(c)
  /\ disk'[c].pid = disk[c].pid

Submits(c, j) ==
  /\ Starts(c) /\ Starts(c)'
  /\ SentFor(c) = {} /\ SentFor(c)' = {j}
  /\ \A d \in Serial : j \notin JobsOf(d)
  /\ JobsOf(c)' = JobsOf(c) \cup {j}
  /\ disk'[c].pid = disk[c].pid

Ended(c) ==
  /\ Starts(c) /\ ~Starts(c)'
  /\ SentFor(c)' = {}
  /\ JobsOf(c)' = JobsOf(c)

LEMMA OneStartMoves ==
  ASSUME NEW c \in Container,
         \A d \in Serial \ {c} : Unseen(d),
         \/ c \notin Serial
         \/ Unseen(c)
         \/ Begins(c)
         \/ \E j : Submits(c, j)
         \/ Ended(c) /\ disk'[c].pid \in SentFor(c) \cup {disk[c].pid, 0}
  PROVE  [Submission!Next]_(Submission!submissionVars)
<1>1. CASE c \notin Serial \/ Unseen(c)
  <2>1. \A d \in Serial : Unseen(d)
    BY <1>1
  <2> QED
    BY <2>1 DEF Unseen, Submission!submissionVars
<1> SUFFICES ASSUME c \in Serial
             PROVE  [Submission!Next]_(Submission!submissionVars)
  BY <1>1
<1>2. CASE Begins(c)
  <2>1. Submission!Begin(c)
    BY <1>2 DEF Begins, Unseen, Submission!Begin
  <2> QED
    BY <2>1 DEF Submission!Next
<1>3. ASSUME NEW j, Submits(c, j) PROVE Submission!Submit(c)
  BY <1>3 DEF Submits, Unseen, Submission!Submit
<1>4. CASE Ended(c) /\ disk'[c].pid \in SentFor(c)
  <2>1. Submission!Record(c)
    BY <1>4 DEF Ended, Unseen, Submission!Record
  <2> QED
    BY <2>1 DEF Submission!Next
<1>5. CASE Ended(c) /\ disk'[c].pid \in {disk[c].pid, 0}
  <2>1. PICK T \in SUBSET {c} :
          disk'[c].pid = IF c \in T THEN 0 ELSE disk[c].pid
    <3>1. {c} \in SUBSET {c} /\ c \in {c} /\ {} \in SUBSET {c} /\ c \notin {}
      OBVIOUS
    <3> QED
      BY <1>5, <3>1
  <2>2. Submission!GiveUp({c})
    BY <1>5, <2>1 DEF Ended, Unseen, Submission!GiveUp
  <2>3. {c} \in SUBSET {d \in Serial : Starts(d)}
    BY <1>5 DEF Ended
  <2> QED
    BY <2>2, <2>3 DEF Submission!Next
<1> QED
  BY <1>1, <1>2, <1>3, <1>4, <1>5 DEF Submission!Next

\* The starts of c go on as they are.
LEMMA SameStarts ==
  ASSUME NEW c \in Container,
         \A t \in Caller : /\ StartOf(t, c)' <=> StartOf(t, c)
                           /\ StartOf(t, c) => call'[t].job = call[t].job
  PROVE  (Starts(c)' <=> Starts(c)) /\ SentFor(c)' = SentFor(c)
<1>1. {u \in Caller : StartOf(u, c)}' = {u \in Caller : StartOf(u, c)}
  OBVIOUS
<1> QED
  BY <1>1 DEF Starts, SentFor

LEMMA SameJobs ==
  ASSUME NEW c \in Container, \A j \in JobId : job'[j].owner = job[j].owner
  PROVE  JobsOf(c)' = JobsOf(c)
  BY DEF JobsOf

\* The one start of such a container that is served.
LEMMA SentOfOne ==
  ASSUME OneCallEach, NEW c \in Serial, NEW t \in Caller, StartOf(t, c)
  PROVE  SentFor(c) = {call[t].job} \ {0}
<1>1. {u \in Caller : StartOf(u, c)} = {t}
  BY DEF OneCallEach, StartOf
<1> QED
  BY <1>1 DEF SentFor

\* A slot that goes on with the same piece of work, or had none to do with a
\* start, leaves the starts of every container as they are.
LEMMA SlotUnseen ==
  ASSUME NEW t \in Caller, NEW d \in Container,
         \A u \in Caller : u # t => call'[u] = call[u],
         StartOf(t, d)' <=> StartOf(t, d),
         StartOf(t, d) => call'[t].job = call[t].job
  PROVE  (Starts(d)' <=> Starts(d)) /\ SentFor(d)' = SentFor(d)
<1>1. ASSUME NEW u \in Caller, u # t
      PROVE  /\ StartOf(u, d)' <=> StartOf(u, d)
             /\ StartOf(u, d) => call'[u].job = call[u].job
  BY <1>1 DEF StartOf
<1> QED
  BY <1>1, SameStarts

LEMMA SubmitSeen ==
  ASSUME SubmissionInv, NEW t \in Caller, StartSubmit(t)
  PROVE  [Submission!Next]_(Submission!submissionVars)
<1>0. TypeOK /\ OneCallEach /\ StartsAreStarts /\ UnusedHasNoOwner
  BY DEF SubmissionInv, DurableInv
<1>1. PICK c \in Container : /\ c = call[t].c /\ call[t].op = "Start"
                             /\ call[t].pc = "submit" /\ call[t].job = 0
  BY <1>0 DEF StartSubmit, StartsAreStarts
<1>2. PICK j \in JobId :
        /\ job[j].phase = "none"
        /\ job' = [job EXCEPT ![j] = [owner |-> c, phase |-> "PENDING", result |-> "none"]]
        /\ call' = [call EXCEPT ![t] = [@ EXCEPT !.pc = "submitted", !.job = j]]
  BY <1>1 DEF StartSubmit
<1>3. /\ call'[t].c = c /\ call'[t].op = "Start" /\ call'[t].pc = "submitted"
      /\ call'[t].job = j
      /\ \A u \in Caller : u # t => call'[u] = call[u]
  BY <1>0, <1>1, <1>2 DEF TypeOK, Call
<1>4. /\ job'[j].owner = c /\ \A k \in JobId : k # j => job'[k] = job[k]
      /\ job[j].owner = NoContainer
  BY <1>0, <1>2 DEF TypeOK, UnusedHasNoOwner
<1>5. disk' = disk
  BY DEF StartSubmit
<1>6. ASSUME NEW d \in Serial \ {c} PROVE Unseen(d)
  <2>0. d \in Container
    BY DEF Serial
  <2>1. ~StartOf(t, d) /\ ~StartOf(t, d)'
    BY <1>1, <1>3 DEF StartOf
  <2>2. (Starts(d)' <=> Starts(d)) /\ SentFor(d)' = SentFor(d)
    BY <1>3, <2>0, <2>1, SlotUnseen
  <2>3. JobsOf(d)' = JobsOf(d)
    BY <1>4, <2>0, IdAssumption DEF JobsOf
  <2> QED
    BY <1>5, <2>2, <2>3 DEF Unseen
<1>7. ASSUME c \in Serial PROVE Submits(c, j)
  <2>1. StartOf(t, c) /\ StartOf(t, c)'
    BY <1>1, <1>3 DEF StartOf
  <2>2. Starts(c) /\ Starts(c)' /\ SentFor(c) = {}
    BY <1>0, <1>1, <1>7, <2>1, SentOfOne DEF Starts
  <2>3. SentFor(c)' = {j}
    <3>1. \A u \in Caller : call[u].c = c => u = t
      BY <1>0, <1>1, <1>7 DEF OneCallEach
    <3>2. \A u \in Caller : StartOf(u, c)' <=> u = t
      BY <1>3, <2>1, <3>1 DEF StartOf
    <3>3. {u \in Caller : StartOf(u, c)}' = {t}
      BY <3>2
    <3> QED
      BY <1>3, <3>3, IdAssumption DEF SentFor
  <2>4. \A d \in Serial : j \notin JobsOf(d)
    BY <1>4, IdAssumption DEF JobsOf, Serial
  <2>5. JobsOf(c)' = JobsOf(c) \cup {j}
    BY <1>4, IdAssumption DEF JobsOf
  <2> QED
    BY <1>5, <2>2, <2>3, <2>4, <2>5 DEF Submits
<1> QED
  BY <1>6, <1>7, OneStartMoves

\* A start is filed: the entry gets the number of its job, stays, or loses the
\* one it had.
LEMMA FiledSeen ==
  ASSUME Persistence, SubmissionInv, NEW t \in Caller, Update(t), call[t].op = "Start",
         \A j \in JobId : job'[j].owner = job[j].owner
  PROVE  [Submission!Next]_(Submission!submissionVars)
<1>0. TypeOK /\ OneCallEach /\ StartsAreStarts
  BY DEF SubmissionInv, DurableInv
<1>1. PICK c \in Container : c = call[t].c /\ StartOf(t, c)
  BY <1>0 DEF StartsAreStarts, StartOf, Update
<1>S. \A d \in Serial : d \in Container
  BY DEF Serial
<1>2. /\ disk'[c] = mem[c] /\ \A d \in Container : d # c => disk'[d] = disk[d]
      /\ call'[t].pc = "answer"
      /\ \A u \in Caller : u # t => call'[u] = call[u]
  BY <1>0, <1>1 DEF Update, Persist, GoTo, TypeOK, Call
<1>3. ASSUME NEW d \in Serial \ {c} PROVE Unseen(d)
  <2>1. ~StartOf(t, d) /\ ~StartOf(t, d)'
    BY <1>1, <1>2 DEF StartOf
  <2>2. (Starts(d)' <=> Starts(d)) /\ SentFor(d)' = SentFor(d)
    BY <1>2, <1>S, <2>1, SlotUnseen
  <2> QED
    BY <1>2, <1>S, <2>2, SameJobs DEF Unseen
<1>4. c \in Serial => \A u \in Caller : call[u].c = c => u = t
  BY <1>0, <1>1 DEF OneCallEach
<1>5. ASSUME c \in Serial PROVE Ended(c)
  <2>1. Starts(c) /\ \A u \in Caller : ~StartOf(u, c)'
    BY <1>1, <1>2, <1>4, <1>5 DEF Starts, StartOf
  <2> QED
    BY <2>1, SameJobs DEF Ended, Starts, SentFor
<1>6. ASSUME c \in Serial PROVE disk'[c].pid \in SentFor(c) \cup {disk[c].pid, 0}
  <2>1. mem[c].pid # disk[c].pid => mem[c].pid \in {call[t].job, 0}
    BY <1>4, <1>6 DEF SubmissionInv, PidsFit
  <2>2. SentFor(c) = {call[t].job} \ {0}
    BY <1>0, <1>1, <1>6, SentOfOne
  <2> QED
    BY <1>2, <2>1, <2>2
<1> QED
  BY <1>3, <1>5, <1>6, OneStartMoves

\* Every other step of a request that is served is not seen at all.
LEMMA CallStepSeen ==
  ASSUME Persistence, SubmissionInv, NEW t \in Caller, CallStep(t), ~Restart,
         ~StartSubmit(t), ~(Update(t) /\ call[t].op = "Start"),
         \A j \in JobId : job'[j].owner = job[j].owner,
         NEW d \in Serial
  PROVE  Unseen(d)
<1>0. TypeOK /\ OneCallEach /\ StartsAreStarts /\ PidsFit(d) /\ d \in Container
  BY DEF SubmissionInv, DurableInv, Serial
<1>1. \A u \in Caller : u # t => call'[u] = call[u]
  BY <1>0, SlotMoves
<1>2. (StartOf(t, d)' <=> StartOf(t, d)) /\ (StartOf(t, d) => call'[t].job = call[t].job)
  <2>1. CASE call[t].op # "Start" \/ call[t].pc = "answer"
    <3>1. call[t].pc = "answer" => Answer(t)
      BY DEF CallStep, CreateDone, CreateFail, StartFail, StartSubmit, StartReplyLost,
             StartRecordPid, StartCommit, StopCancel, StopFail, StopExit, StatusQuery,
             StatusApply, PanicSacct, Update
    <3>2. call'[t] = Idle \/ call'[t].op = call[t].op
      BY <1>0, SlotMoves
    <3>3. Answer(t) => call'[t] = Idle
      BY <1>0 DEF Answer, Return, TypeOK
    <3> QED
      BY <2>1, <3>1, <3>2, <3>3 DEF StartOf, Idle
  <2>2. CASE call[t].op = "Start" /\ call[t].pc # "answer"
    <3>1. StartFail(t) \/ StartReplyLost(t) \/ StartRecordPid(t) \/ StartCommit(t)
      BY <1>0, <2>2
      DEF StartsAreStarts, CallStep, CreateDone, CreateFail, StopCancel, StopFail,
          StopExit, StatusQuery, StatusApply, PanicSacct, Answer
    <3>2. PICK pc \in {"recorded", "update"} : GoTo(t, pc)
      BY <3>1 DEF StartFail, StartReplyLost, StartRecordPid, StartCommit
    <3>3. /\ call'[t].c = call[t].c /\ call'[t].op = call[t].op /\ call'[t].pc = pc
          /\ call'[t].job = call[t].job
      BY <1>0, <3>2 DEF GoTo, TypeOK, Call
    <3> QED
      BY <2>2, <3>3 DEF StartOf
  <2> QED
    BY <2>1, <2>2
<1>3. disk'[d].pid = disk[d].pid
  <2>1. CASE CreateDone(t) \/ Update(t)
    <3>1. disk'[d] = disk[d] \/ (d = call[t].c /\ disk'[d] = mem[d])
      BY <1>0, <2>1 DEF CreateDone, Update, Persist, TypeOK
    <3>2. call[t].op # "Start"
      BY <1>0, <2>1 DEF StartsAreStarts, CreateDone
    <3>3. d = call[t].c => mem[d].pid = disk[d].pid
      BY <1>0, <3>2 DEF PidsFit, OneCallEach
    <3> QED
      BY <3>1, <3>3
  <2>2. CASE ~(CreateDone(t) \/ Update(t))
    BY <2>2
    DEF CallStep, CreateFail, StartFail, StartSubmit, StartReplyLost, StartRecordPid,
        StartCommit, StopCancel, StopFail, StopExit, StatusQuery, StatusApply,
        PanicSacct, Answer
  <2> QED
    BY <2>1, <2>2
<1> QED
  BY <1>0, <1>1, <1>2, <1>3, SlotUnseen, SameJobs DEF Unseen

\* A request that comes in is a start, the only one of its container, or is not
\* seen.
LEMMA CallBeginSeen ==
  ASSUME Persistence, SubmissionInv, NEW t \in Caller, NEW c \in Container,
         CallBegin(t, c), ~Restart, job' = job
  PROVE  [Submission!Next]_(Submission!submissionVars)
<1>0. TypeOK
  BY DEF SubmissionInv, DurableInv
<1>1. /\ call[t] = Idle /\ (c \in Serial => \A u \in Caller : call[u].c # c)
      /\ \A u \in Caller : u # t => call'[u] = call[u]
  BY <1>0 DEF CallBegin, CreateBegin, StartBegin, StopBegin, StatusBegin, PanicUnknown,
              MayBegin, TypeOK, Serial
<1>S. \A d \in Serial : d \in Container
  BY DEF Serial
<1>2. \A d \in Serial : disk'[d].pid = disk[d].pid /\ JobsOf(d)' = JobsOf(d)
  BY <1>S, PidsCallBegin, SameJobs
<1>3. \A d \in Container : ~StartOf(t, d)
  BY <1>1 DEF StartOf, Idle
<1>4. CASE StartBegin(t, c)
  <2>1. PICK pc \in {"submit", "update"} : call' = [call EXCEPT ![t] = Request("Start", c, pc, 0)]
    BY <1>4 DEF StartBegin
  <2>2. /\ call'[t].c = c /\ call'[t].op = "Start" /\ call'[t].pc = pc /\ call'[t].job = 0
    BY <1>0, <2>1 DEF Request, TypeOK
  <2>3. ASSUME NEW d \in Serial \ {c} PROVE Unseen(d)
    <3>1. ~StartOf(t, d)'
      BY <2>2 DEF StartOf
    <3>2. (Starts(d)' <=> Starts(d)) /\ SentFor(d)' = SentFor(d)
      BY <1>1, <1>3, <1>S, <3>1, SlotUnseen
    <3> QED
      BY <1>2, <3>2 DEF Unseen
  <2>4. ASSUME c \in Serial PROVE Begins(c)
    <3>1. \A u \in Caller : ~StartOf(u, c)
      BY <1>1, <2>4 DEF StartOf
    <3>2. StartOf(t, c)' /\ \A u \in Caller : u # t => ~StartOf(u, c)'
      BY <1>1, <2>2, <2>4 DEF StartOf
    <3>3. ~Starts(c) /\ Starts(c)' /\ SentFor(c) = {}
      BY <3>1, <3>2 DEF Starts, SentFor
    <3>4. {u \in Caller : StartOf(u, c)}' = {t}
      BY <3>2
    <3>5. SentFor(c)' = {}
      BY <2>2, <3>4 DEF SentFor
    <3> QED
      BY <1>2, <2>4, <3>3, <3>5 DEF Begins
  <2> QED
    BY <2>3, <2>4, OneStartMoves
<1>5. CASE ~StartBegin(t, c)
  <2>1. call'[t].op # "Start"
    <3>1. CASE CreateBegin(t, c)
      BY <1>0, <3>1 DEF CreateBegin, Request, TypeOK
    <3>2. CASE StopBegin(t, c)
      BY <1>0, <3>2 DEF StopBegin, Request, TypeOK
    <3>3. CASE StatusBegin(t, c)
      BY <1>0, <3>3 DEF StatusBegin, Request, TypeOK
    <3> QED
      BY <1>5, <3>1, <3>2, <3>3 DEF CallBegin, PanicUnknown
  <2>2. \A d \in Container : ~StartOf(t, d)'
    BY <1>0, <2>1 DEF StartOf, TypeOK
  <2>3. \A d \in Serial : Unseen(d)
    BY <1>1, <1>2, <1>3, <1>S, <2>2, SlotUnseen DEF Unseen
  <2> QED
    BY <2>3, OneStartMoves
<1> QED
  BY <1>4, <1>5

\* Death of the server gives up the starts that are served.
LEMMA RestartSeen ==
  ASSUME Restart
  PROVE  [Submission!Next]_(Submission!submissionVars)
<1> DEFINE S == {c \in Serial : Starts(c)}
<1>1. disk' = disk /\ job' = job /\ \A t \in Caller, c \in Container : ~StartOf(t, c)'
  BY DEF Restart, StartOf, Idle
<1>2. ASSUME NEW c \in Serial
      PROVE  /\ ~Starts(c)' /\ SentFor(c)' = {} /\ JobsOf(c)' = JobsOf(c)
             /\ c \notin S => SentFor(c) = {}
  <2>1. ~Starts(c)' /\ SentFor(c)' = {}
    BY <1>1 DEF Starts, SentFor, Serial
  <2>2. c \notin S => SentFor(c) = {}
    BY DEF Starts, SentFor
  <2> QED
    BY <1>1, <2>1, <2>2 DEF JobsOf
<1>3. /\ {c \in Serial : Starts(c)}' = {}
      /\ [c \in Serial |-> SentFor(c)]' =
           [c \in Serial |->
              IF c \in S THEN {} ELSE [d \in Serial |-> SentFor(d)][c]]
      /\ UNCHANGED [c \in Serial |-> JobsOf(c)]
  BY <1>2
<1>4. [c \in Serial |-> disk[c].pid]' =
        [c \in Serial |->
           IF c \in {} THEN 0 ELSE [d \in Serial |-> disk[d].pid][c]]
  BY <1>1
<1>5. S \in SUBSET S /\ {} \in SUBSET S
  OBVIOUS
<1> QED
  BY <1>3, <1>4, <1>5 DEF Submission!Next, Submission!GiveUp

LEMMA SubmissionSimulation ==
  ASSUME Persistence, SubmissionInv, [Next]_vars
  PROVE  [Submission!Next]_(Submission!submissionVars)
<1>0. TypeOK
  BY DEF SubmissionInv, DurableInv
<1>1. CASE Restart
  BY <1>1, RestartSeen
<1>2. ASSUME NEW t \in Caller, StartSubmit(t)
      PROVE  [Submission!Next]_(Submission!submissionVars)
  BY <1>2, SubmitSeen
<1>3. CASE \A t \in Caller : ~StartSubmit(t)
  <2>1. \A j \in JobId : job'[j].owner = job[j].owner
    BY <1>0, <1>3, OwnersStay
  <2>2. ASSUME NEW t \in Caller, CallStep(t), ~Restart
        PROVE  [Submission!Next]_(Submission!submissionVars)
    <3>1. CASE Update(t) /\ call[t].op = "Start"
      BY <2>1, <3>1, FiledSeen
    <3>2. CASE ~(Update(t) /\ call[t].op = "Start")
      <4>1. \A d \in Serial : Unseen(d)
        BY <1>3, <2>1, <2>2, <3>2, CallStepSeen
      <4> QED
        BY <4>1 DEF Unseen, Submission!submissionVars
    <3> QED
      BY <3>1, <3>2
  <2>3. ASSUME NEW t \in Caller, NEW c \in Container, CallBegin(t, c), ~Restart
        PROVE  [Submission!Next]_(Submission!submissionVars)
    <3>1. job' = job
      BY <2>3 DEF CallBegin, CreateBegin, StartBegin, StopBegin, StatusBegin, PanicUnknown
    <3> QED
      BY <2>3, <3>1, CallBeginSeen
  <2>4. ASSUME UNCHANGED <<disk, call>>
        PROVE  [Submission!Next]_(Submission!submissionVars)
    <3>1. \A d \in Serial : JobsOf(d)' = JobsOf(d)
      BY <2>1, SameJobs DEF Serial
    <3> QED
      BY <2>4, <3>1 DEF Submission!submissionVars, Starts, StartOf, SentFor
  <2>5. ASSUME NEW j \in JobId, JobStep(j) PROVE UNCHANGED <<disk, call>>
    BY <2>5 DEF JobStep, JobRun, JobFinish, JobEnd, JobPurge
  <2> QED
    BY <1>1, <2>2, <2>3, <2>4, <2>5 DEF Next, Crash, vars
<1> QED
  BY <1>1, <1>2, <1>3

\* SubmitsAsContracted: with the cache file on, what it has of a start is the
\* number of its own job, or no new number, for every container that is served
\* one call at a time: with commands that fail, replies that are lost, second
\* starts, death of the server, and other containers whose calls overlap
\* (adapters/slurm/container.go:84-97, runtime/container.go:113-135).
THEOREM SubmitsAsContractedCorrect ==
  ASSUME Persistence
  PROVE  Spec => SubmitsAsContracted
<1>1. Init => SubmissionInv
  BY SubmissionInit
<1>2. SubmissionInv /\ [Next]_vars => SubmissionInv'
  BY SubmissionStep
<1>3. Init => Submission!Init
  <2> SUFFICES ASSUME Init PROVE Submission!Init
    OBVIOUS
  <2>1. ASSUME NEW c \in Serial
        PROVE  ~Starts(c) /\ SentFor(c) = {} /\ JobsOf(c) = {} /\ disk[c].pid = 0
    <3>0. c \in Container
      BY DEF Serial
    <3>1. \A t \in Caller : ~StartOf(t, c)
      BY DEF Init, StartOf, Idle
    <3>2. JobsOf(c) = {}
      BY <3>0, IdAssumption DEF Init, JobsOf, NoJob
    <3> QED
      BY <3>0, <3>1, <3>2 DEF Init, Starts, SentFor, Absent
  <2> QED
    BY <2>1 DEF Submission!Init
<1>4. SubmissionInv /\ [Next]_vars => [Submission!Next]_(Submission!submissionVars)
  BY SubmissionSimulation
<1> QED
  BY <1>1, <1>2, <1>3, <1>4, PTL DEF Spec, SubmitsAsContracted, Submission!Spec
=============================================================================
