----------------------- MODULE ContainerServiceProofs -----------------------
(***************************************************************************)
(* Proofs about the container half of the service, for every set of        *)
(* containers, request slots and jobs and every setting of the switches.   *)
(***************************************************************************)
EXTENDS ContainerServiceProps, TLAPS

-----------------------------------------------------------------------------
(* Types *)

LEMMA InitType == Init => TypeOK
  BY IdAssumption
  DEF Init, TypeOK, Absent, NoJob, Idle, Metadata, Job, Call, ContainerState,
      JobPhase, JobResult, View, Op, Pc, Life

\* A request record is a call.
LEMMA RequestType ==
  ASSUME NEW op \in Op, NEW c \in Container, NEW pc \in Pc, NEW j \in JobId \cup {0}
  PROVE  Request(op, c, pc, j) \in Call
  BY DEF Request, Call, View

\* Sstatus answers with something the adapter can take.
LEMMA SstatusType ==
  ASSUME TypeOK, NEW j \in JobId \cup {0}
  PROVE  \A o \in Sstatus(j) : o \in View
  BY DEF TypeOK, Sstatus, JobState, View, Job, JobPhase, JobResult

LEMMA RestartType == TypeOK /\ Restart => TypeOK'
  BY DEF TypeOK, Restart, Idle, Absent, Metadata, Call, Op, Pc, View, ContainerState

\* A record of the pool whose fields are written is one.
LEMMA MetadataWrites ==
  ASSUME NEW m \in Metadata, NEW s \in ContainerState, NEW p \in JobId \cup {0},
         NEW e \in {0, 1}
  PROVE  /\ [m EXCEPT !.pid = p] \in Metadata
         /\ [m EXCEPT !.state = s, !.exit = e] \in Metadata
         /\ [m EXCEPT !.state = s, !.exit = e, !.pid = p] \in Metadata
<1>1. [m EXCEPT !.pid = p] \in Metadata
  BY DEF Metadata
<1>2. [m EXCEPT !.state = s, !.exit = e] \in Metadata
  BY DEF Metadata
<1>3. [m EXCEPT !.state = s, !.exit = e, !.pid = p] \in Metadata
  BY DEF Metadata
<1> QED
  BY <1>1, <1>2, <1>3

\* The same of a job that changes its phase and its result.
LEMMA JobWrites ==
  ASSUME NEW r \in Job, NEW p \in JobPhase, NEW s \in JobResult
  PROVE  [r EXCEPT !.phase = p, !.result = s] \in Job
  BY DEF Job

\* What an answer says is something the record can hold.
LEMMA AnswerType ==
  ASSUME NEW m \in Metadata, NEW o
  PROVE  WithAnswer(m, o) \in Metadata
<1>1. ContainerStateOf(o) \in ContainerState
  BY DEF ContainerStateOf, ContainerState
<1>2. m.exit \in {0, 1}
  BY DEF Metadata
<1>3. ExitCodeOf(o, m.exit) \in {0, 1}
  BY <1>2 DEF ExitCodeOf
<1>4. m.pid \in JobId \cup {0}
  BY DEF Metadata
<1> QED
  BY <1>1, <1>3, <1>4, MetadataWrites DEF WithAnswer

\* Writing fields of a record that keep their type keeps the pool's type,
\* whatever container the slot works on.
LEMMA SetStateType ==
  ASSUME TypeOK, NEW c, NEW s \in ContainerState, SetState(c, s)
  PROVE  mem' \in [Container -> Metadata]
<1>1. \A d \in Container : mem[d] \in Metadata
  BY DEF TypeOK
<1>2. ASSUME NEW d \in Container
      PROVE  [mem[d] EXCEPT !.state = s] \in Metadata
  BY <1>1 DEF Metadata
<1> QED
  BY <1>1, <1>2 DEF SetState, TypeOK

LEMMA SetFailedType ==
  ASSUME TypeOK, NEW c, SetFailed(c)
  PROVE  mem' \in [Container -> Metadata]
<1>1. \A d \in Container : mem[d] \in Metadata
  BY DEF TypeOK
<1>2. ASSUME NEW d \in Container
      PROVE  [mem[d] EXCEPT !.state = "EXITED", !.exit = 1] \in Metadata
  BY <1>1 DEF Metadata, ContainerState
<1> QED
  BY <1>1, <1>2 DEF SetFailed, TypeOK

LEMMA GoToType ==
  ASSUME TypeOK, NEW t \in Caller, NEW pc \in Pc, GoTo(t, pc)
  PROVE  call' \in [Caller -> Call]
  BY DEF GoTo, TypeOK, Call

LEMMA CallStepType ==
  ASSUME TypeOK, NEW t \in Caller, CallStep(t)
  PROVE  TypeOK'
<1> USE SetStateType, SetFailedType, GoToType DEF TypeOK
<1> DEFINE c == call[t].c
<1>0. /\ \A d \in Container : mem[d] \in Metadata
      /\ call[t] \in Call
  OBVIOUS
<1>1. CASE CreateDone(t)
  BY <1>1 DEF CreateDone, Persist, Pc, Life
<1>2. CASE CreateFail(t)
  BY <1>2 DEF CreateFail, Return, Idle, Call, Op, Pc, View
<1>3. CASE StartFail(t)
  BY <1>3 DEF StartFail, Pc
<1>4. CASE StartSubmit(t)
  <2>1. PICK j \in JobId :
          /\ job' = [job EXCEPT ![j] = [owner |-> c, phase |-> "PENDING", result |-> "none"]]
          /\ call' = [call EXCEPT ![t] = [@ EXCEPT !.pc = "submitted", !.job = j]]
    BY <1>4 DEF StartSubmit
  <2>2. job' \in [JobId -> Job]
    BY <1>0, <2>1 DEF Job, JobPhase, JobResult, Call
  <2>3. [call[t] EXCEPT !.pc = "submitted", !.job = j] \in Call
    BY <1>0 DEF Call, Pc
  <2>4. call' \in [Caller -> Call]
    BY <2>1, <2>3
  <2> QED
    BY <1>4, <2>2, <2>4 DEF StartSubmit
<1>5. CASE StartReplyLost(t)
  <2>1. PICK p \in {mem[c].pid, 0} :
          mem' = [mem EXCEPT ![c] = [@ EXCEPT !.state = "EXITED", !.exit = 1, !.pid = p]]
    BY <1>5 DEF StartReplyLost
  <2>2. ASSUME c \in Container
        PROVE  [mem[c] EXCEPT !.state = "EXITED", !.exit = 1, !.pid = p] \in Metadata
    <3>1. mem[c] \in Metadata /\ mem[c].pid \in JobId \cup {0}
      BY <1>0, <2>2 DEF Metadata
    <3>2. "EXITED" \in ContainerState
      BY DEF ContainerState
    <3> HIDE DEF TypeOK
    <3> QED
      BY <2>1, <3>1, <3>2, MetadataWrites
  <2>3. mem' \in [Container -> Metadata]
    BY <2>1, <2>2
  <2> QED
    BY <1>5, <2>3 DEF StartReplyLost, Pc
<1>6. CASE StartRecordPid(t)
  <2>1. ASSUME c \in Container
        PROVE  [mem[c] EXCEPT !.pid = call[t].job] \in Metadata
    <3>1. mem[c] \in Metadata /\ call[t].job \in JobId \cup {0}
      BY <1>0, <2>1 DEF Call
    <3> HIDE DEF TypeOK
    <3> QED
      BY <3>1, MetadataWrites DEF ContainerState
  <2>2. mem' \in [Container -> Metadata]
    BY <1>6, <2>1 DEF StartRecordPid
  <2> QED
    BY <1>6, <2>2 DEF StartRecordPid, Pc
<1>7. CASE StartCommit(t)
  BY <1>7 DEF StartCommit, Pc, ContainerState
<1>8. CASE StopCancel(t)
  <2> DEFINE j == call[t].job
             r == [job[j] EXCEPT !.phase = IF job[j].phase = "PENDING"
                                             THEN "ENDED" ELSE "COMPLETING",
                                 !.result = "CANCELLED"]
  <2>1. job' \in [JobId -> Job]
    <3>1. CASE Live(j)
      <4>1. r \in Job
        <5>1. job[j] \in Job
          BY <3>1 DEF Live
        <5> HIDE DEF TypeOK
        <5> QED
          BY <5>1, JobWrites DEF JobPhase, JobResult
      <4>2. job' = [job EXCEPT ![j] = r]
        BY <1>8, <3>1 DEF StopCancel
      <4> QED
        BY <4>1, <4>2
    <3>2. CASE ~Live(j)
      BY <1>8, <3>2 DEF StopCancel
    <3> QED
      BY <3>1, <3>2
  <2> QED
    BY <1>8, <2>1 DEF StopCancel, Pc
<1>9. CASE StopFail(t)
  BY <1>9 DEF StopFail, Return, Idle, Call, Op, Pc, View
<1>10. CASE StopExit(t)
  BY <1>10 DEF StopExit, Pc, ContainerState
<1>11. CASE StatusQuery(t)
  <2>1. PICK o \in Sstatus(call[t].job) :
          call' = [call EXCEPT ![t].pc = "apply", ![t].obs = o]
    BY <1>11 DEF StatusQuery
  <2>2. o \in View
    BY <1>0, <2>1, SstatusType DEF Call
  <2> QED
    BY <1>11, <2>1, <2>2 DEF StatusQuery, Call, Pc
<1>12. CASE StatusApply(t)
  <2>1. ASSUME c \in Container
        PROVE  WithAnswer(mem[c], call[t].obs) \in Metadata
    BY <1>0, <2>1, AnswerType
  <2>2. mem' \in [Container -> Metadata]
    BY <1>12, <2>1 DEF StatusApply
  <2> QED
    BY <1>12, <2>2 DEF StatusApply, Pc
<1>13. CASE PanicSacct(t)
  BY <1>13, RestartType DEF PanicSacct
<1>14. CASE Update(t)
  BY <1>14 DEF Update, Persist, Pc
<1>15. CASE Answer(t)
  BY <1>15 DEF Answer, Return, Idle, Call, Op, Pc, View
<1> QED
  BY <1>1, <1>2, <1>3, <1>4, <1>5, <1>6, <1>7, <1>8, <1>9, <1>10, <1>11, <1>12,
     <1>13, <1>14, <1>15 DEF CallStep

LEMMA CallBeginType ==
  ASSUME TypeOK, NEW t \in Caller, NEW c \in Container, CallBegin(t, c)
  PROVE  TypeOK'
<1> USE RequestType, SetFailedType DEF TypeOK
<1>1. CASE CreateBegin(t, c)
  BY <1>1
  DEF CreateBegin, Persist, Absent, Metadata, ContainerState, Op, Pc, Life,
      CreateContainerMetadata
<1>2. CASE StartBegin(t, c)
  BY <1>2 DEF StartBegin, Op, Pc, Life, CreateCMDFails
<1>3. CASE StopBegin(t, c)
  BY <1>3 DEF StopBegin, Metadata, Op, Pc
<1>4. CASE StatusBegin(t, c)
  <2>1. call' \in [Caller -> Call]
    BY <1>4 DEF StatusBegin, Metadata, Op, Pc, CreateCMDFails
  <2>2. mem' \in [Container -> Metadata]
    BY <1>4 DEF StatusBegin, CreateCMDFails
  <2> QED
    BY <1>4, <2>1, <2>2 DEF StatusBegin, CreateCMDFails
<1>5. CASE PanicUnknown(t, c)
  BY <1>5, RestartType DEF PanicUnknown
<1> QED
  BY <1>1, <1>2, <1>3, <1>4, <1>5 DEF CallBegin

LEMMA OtherStepType ==
  ASSUME TypeOK, Crash \/ (\E j \in JobId : JobStep(j)) \/ UNCHANGED vars
  PROVE  TypeOK'
<1> USE DEF TypeOK
<1>1. CASE Crash
  BY <1>1, RestartType DEF Crash
<1>2. ASSUME NEW j \in JobId, JobStep(j) PROVE TypeOK'
  <2>1. CASE JobFinish(j)
    <3>1. PICK r \in JobResult :
            job' = [job EXCEPT ![j] = [@ EXCEPT !.phase = "COMPLETING", !.result = r]]
      BY <2>1 DEF JobFinish
    <3>2. [job[j] EXCEPT !.phase = "COMPLETING", !.result = r] \in Job
      BY DEF Job, JobPhase
    <3> QED
      BY <2>1, <3>1, <3>2 DEF JobFinish
  <2>2. CASE JobRun(j) \/ JobEnd(j) \/ JobPurge(j)
    BY <2>2 DEF JobRun, JobEnd, JobPurge, Job, JobPhase
  <2> QED
    BY <1>2, <2>1, <2>2 DEF JobStep
<1>3. CASE UNCHANGED vars
  BY <1>3 DEF vars
<1> QED
  BY <1>1, <1>2, <1>3

LEMMA StepType == TypeOK /\ [Next]_vars => TypeOK'
  BY CallStepType, CallBeginType, OtherStepType DEF Next

\* TypeOK: every record of the pool, the cache file, the cluster and the
\* request slots keeps its type in every step of the service.
THEOREM TypeCorrect == Spec => []TypeOK
<1>1. Init => TypeOK
  BY InitType
<1>2. TypeOK /\ [Next]_vars => TypeOK'
  BY StepType
<1> QED
  BY <1>1, <1>2, PTL DEF Spec

-----------------------------------------------------------------------------
(* The cache file.  DiskCoherent is inductive: a handler that has written a  *)
(* record keeps its slot until it has called Update.                         *)

LEMMA DiskInit == Init => DiskCoherent
  BY DEF Init, DiskCoherent

LEMMA DiskCallStep ==
  ASSUME TypeOK, DiskCoherent, NEW t \in Caller, CallStep(t)
  PROVE  DiskCoherent'
<1> SUFFICES ASSUME Persistence, NEW d \in Container, mem'[d] # disk'[d]
             PROVE  UpdatePending(d)'
  BY DEF DiskCoherent
<1> DEFINE c0 == call[t].c
<1>1. mem[d] # disk[d] => UpdatePending(d)
  BY DEF DiskCoherent
<1>2. CASE \/ CreateFail(t) \/ StopFail(t) \/ Answer(t) \/ StartSubmit(t)
           \/ StopCancel(t) \/ StatusQuery(t)
  <2>1. /\ mem' = mem /\ disk' = disk
        /\ call[t].pc \notin {"recorded", "update"}
        /\ \A u \in Caller : u # t => call'[u] = call[u]
    BY <1>2 DEF CreateFail, StopFail, Answer, StartSubmit, StopCancel, StatusQuery,
                Return, GoTo, TypeOK
  <2> QED
    BY <1>1, <2>1 DEF UpdatePending
<1>3. CASE \/ StartFail(t) \/ StartReplyLost(t) \/ StartRecordPid(t) \/ StartCommit(t)
           \/ StopExit(t) \/ StatusApply(t)
  <2>1. /\ disk' = disk
        /\ \A e \in Container : e # c0 => mem'[e] = mem[e]
    BY <1>3 DEF StartFail, StartReplyLost, StartRecordPid, StartCommit, StopExit,
                StatusApply, SetFailed, SetState, TypeOK
  <2>2. /\ call'[t].c = c0 /\ call'[t].pc \in {"recorded", "update"}
        /\ \A u \in Caller : u # t => call'[u] = call[u]
    BY <1>3 DEF StartFail, StartReplyLost, StartRecordPid, StartCommit, StopExit,
                StatusApply, GoTo, TypeOK, Call
  <2> QED
    BY <1>1, <2>1, <2>2 DEF UpdatePending
<1>4. CASE CreateDone(t) \/ Update(t)
  <2>1. /\ mem' = mem
        /\ disk' = [disk EXCEPT ![c0] = mem[c0]]
        /\ \A u \in Caller : u # t => call'[u] = call[u]
    BY <1>4 DEF CreateDone, Update, Persist, GoTo, TypeOK
  <2>2. d # c0 /\ mem[d] # disk[d]
    BY <2>1 DEF TypeOK
  <2> QED
    BY <1>1, <2>1, <2>2 DEF UpdatePending
<1>5. CASE PanicSacct(t)
  BY <1>5 DEF PanicSacct, Restart
<1> QED
  BY <1>2, <1>3, <1>4, <1>5 DEF CallStep

LEMMA DiskCallBegin ==
  ASSUME TypeOK, DiskCoherent, NEW t \in Caller, NEW c \in Container, CallBegin(t, c)
  PROVE  DiskCoherent'
<1> SUFFICES ASSUME Persistence, NEW d \in Container, mem'[d] # disk'[d]
             PROVE  UpdatePending(d)'
  BY DEF DiskCoherent
<1>1. mem[d] # disk[d] => UpdatePending(d)
  BY DEF DiskCoherent
<1>2. CASE PanicUnknown(t, c)
  BY <1>2 DEF PanicUnknown, Restart
<1>3. CASE CreateBegin(t, c) \/ StartBegin(t, c) \/ StopBegin(t, c) \/ StatusBegin(t, c)
  <2>1. /\ call[t].pc = "idle"
        /\ \A u \in Caller : u # t => call'[u] = call[u]
    BY <1>3
    DEF CreateBegin, StartBegin, StopBegin, StatusBegin, MayBegin, Idle, TypeOK,
        CreateContainerMetadata, CreateCMDFails
  <2>2. CASE CreateBegin(t, c)
    BY <1>1, <2>1, <2>2
    DEF CreateBegin, Persist, UpdatePending, TypeOK, CreateContainerMetadata
  <2>3. CASE ~CreateBegin(t, c) /\ mem' = mem
    <3>1. disk' = disk
      BY <1>3, <2>3 DEF StartBegin, StopBegin, StatusBegin, CreateCMDFails
    <3> QED
      BY <1>1, <2>1, <2>3, <3>1 DEF UpdatePending
  <2>4. CASE ~CreateBegin(t, c) /\ mem' # mem
    <3>1. /\ disk' = disk /\ SetFailed(c)
          /\ call'[t].c = c /\ call'[t].pc = "update"
      BY <1>3, <2>4
      DEF StartBegin, StopBegin, StatusBegin, Request, TypeOK, CreateCMDFails
    <3>2. d # c => mem'[d] = mem[d]
      BY <3>1 DEF SetFailed, TypeOK
    <3> QED
      BY <1>1, <2>1, <3>1, <3>2 DEF UpdatePending
  <2> QED
    BY <2>2, <2>3, <2>4
<1> QED
  BY <1>2, <1>3 DEF CallBegin

\* DiskCoherent: whenever the server dies, the state changes that are lost are
\* those of requests still being served (containerStore.Update is the last
\* write of every handler).
THEOREM CacheFollowsPool == Spec => []DiskCoherent
<1>1. TypeOK /\ DiskCoherent /\ [Next]_vars => DiskCoherent'
  <2> SUFFICES ASSUME TypeOK, DiskCoherent, [Next]_vars PROVE DiskCoherent'
    OBVIOUS
  <2>1. CASE Crash
    BY <2>1 DEF Crash, Restart, DiskCoherent
  <2>2. ASSUME NEW j \in JobId, JobStep(j) PROVE DiskCoherent'
    <3>1. UNCHANGED <<mem, disk, call>>
      BY <2>2 DEF JobStep, JobRun, JobFinish, JobEnd, JobPurge
    <3> QED
      BY <3>1 DEF DiskCoherent, UpdatePending
  <2>3. CASE UNCHANGED vars
    BY <2>3 DEF vars, DiskCoherent, UpdatePending
  <2> QED
    BY <2>1, <2>2, <2>3, DiskCallStep, DiskCallBegin DEF Next
<1> QED
  BY <1>1, DiskInit, TypeCorrect, PTL DEF Spec

-----------------------------------------------------------------------------
(* EXITED against later calls: a request that found its container EXITED     *)
(* never gets as far as a write that could take it out.                      *)

LEMMA WritersInit == Init => WritersCameBefore
  BY IdAssumption DEF Init, WritersCameBefore, Idle

LEMMA WritersCallStep ==
  ASSUME TypeOK, WritersCameBefore, NEW t \in Caller, CallStep(t)
  PROVE  WritersCameBefore'
<1> DEFINE c0 == call[t].c
<1>1. CASE PanicSacct(t)
  BY <1>1, IdAssumption DEF PanicSacct, Restart, WritersCameBefore, Idle
<1>2. CASE ~PanicSacct(t)
  <2>1. \A u \in Caller : u # t => call'[u] = call[u]
    BY <1>2
    DEF CallStep, CreateDone, CreateFail, StartFail, StartSubmit, StartReplyLost,
        StartRecordPid, StartCommit, StopCancel, StopFail, StopExit, StatusQuery,
        StatusApply, Update, Answer, GoTo, Return, TypeOK
  <2>2. \/ call'[t] = Idle
        \/ /\ call'[t].c = c0 /\ call'[t].late = call[t].late
           /\ call'[t].pc \in Writing => call[t].pc \in Writing
    <3>1. CASE CreateFail(t) \/ StopFail(t) \/ Answer(t)
      BY <3>1 DEF CreateFail, StopFail, Answer, Return, TypeOK
    <3>2. CASE StartSubmit(t) \/ StatusQuery(t)
      <4>1. call[t].pc \in Writing
        BY <3>2 DEF StartSubmit, StatusQuery, Writing
      <4>2. CASE StartSubmit(t)
        BY <4>1, <4>2 DEF StartSubmit, TypeOK, Call
      <4>3. CASE StatusQuery(t)
        BY <4>1, <4>3 DEF StatusQuery, TypeOK, Call
      <4> QED
        BY <3>2, <4>2, <4>3
    <3>3. ASSUME NEW pc, GoTo(t, pc), pc \in Writing => call[t].pc \in Writing
          PROVE  call'[t].c = c0 /\ call'[t].late = call[t].late
                 /\ (call'[t].pc \in Writing => call[t].pc \in Writing)
      BY <3>3 DEF GoTo, TypeOK, Call
    <3>4. CASE CreateDone(t) \/ StartRecordPid(t) \/ StartCommit(t) \/ StopCancel(t)
               \/ StopExit(t)
      BY <3>3, <3>4
      DEF CreateDone, StartRecordPid, StartCommit, StopCancel, StopExit, Writing
    <3>5. CASE StartFail(t) \/ StartReplyLost(t) \/ StatusApply(t) \/ Update(t)
      BY <3>3, <3>5 DEF StartFail, StartReplyLost, StatusApply, Update, Writing
    <3> QED
      BY <1>2, <3>1, <3>2, <3>4, <3>5 DEF CallStep
  <2>3. \A d \in Container : d # c0 =>
          mem'[d] = mem[d] /\ disk'[d] = disk[d] /\ life'[d] = life[d]
    BY <1>2
    DEF CallStep, CreateDone, CreateFail, StartFail, StartSubmit, StartReplyLost,
        StartRecordPid, StartCommit, StopCancel, StopFail, StopExit, StatusQuery,
        StatusApply, Update, Answer, SetFailed, SetState, Persist, TypeOK
  <2>4. \A d \in Container : life'[d] = life[d] \/ life'[d] # "fresh"
    BY <1>2
    DEF CallStep, CreateDone, CreateFail, StartFail, StartSubmit, StartReplyLost,
        StartRecordPid, StartCommit, StopCancel, StopFail, StopExit, StatusQuery,
        StatusApply, Update, Answer, TypeOK
  <2> QED
    BY <2>1, <2>2, <2>3, <2>4, IdAssumption DEF WritersCameBefore, Idle, Writing
<1> QED
  BY <1>1, <1>2

LEMMA WritersCallBegin ==
  ASSUME TypeOK, WritersCameBefore, NEW t \in Caller, NEW c \in Container, CallBegin(t, c)
  PROVE  WritersCameBefore'
<1>1. CASE PanicUnknown(t, c)
  BY <1>1, IdAssumption DEF PanicUnknown, Restart, WritersCameBefore, Idle
<1>2. CASE ~PanicUnknown(t, c)
  <2>1. \A u \in Caller : u # t => call'[u] = call[u]
    BY <1>2
    DEF CallBegin, CreateBegin, StartBegin, StopBegin, StatusBegin, TypeOK,
        CreateContainerMetadata, CreateCMDFails
  <2>2. /\ call'[t].c = c
        /\ call'[t].pc \in Writing => ~call'[t].late
    <3>1. CASE CreateBegin(t, c)
      BY <3>1 DEF CreateBegin, Request, TypeOK, Writing, CreateContainerMetadata
    <3>2. CASE StartBegin(t, c)
      <4>1. PICK pc \in Pc : call' = [call EXCEPT ![t] = Request("Start", c, pc, 0)]
        BY <3>2 DEF StartBegin, Pc, CreateCMDFails
      <4>2. mem[c].state = "CREATED"
        BY <3>2 DEF StartBegin, StartAllowed, CreateCMDFails
      <4> QED
        BY <4>1, <4>2 DEF Request, TypeOK
    <3>3. CASE StopBegin(t, c)
      BY <3>3 DEF StopBegin, Request, TypeOK, Writing
    <3>4. CASE StatusBegin(t, c)
      BY <3>4 DEF StatusBegin, Request, TypeOK, Writing, CreateCMDFails
    <3> QED
      BY <1>2, <3>1, <3>2, <3>3, <3>4 DEF CallBegin
  <2>3. /\ \A d \in Container : d # c =>
             mem'[d] = mem[d] /\ disk'[d] = disk[d] /\ life'[d] = life[d]
        /\ life'[c] # "fresh"
    BY <1>2 DEF CallBegin, CreateBegin, StartBegin, StopBegin, StatusBegin, SetFailed,
                Persist, TypeOK, WritersCameBefore, Absent, CreateContainerMetadata,
                CreateCMDFails
  <2> QED
    BY <2>1, <2>2, <2>3 DEF WritersCameBefore
<1> QED
  BY <1>1, <1>2

LEMMA WritersStep ==
  ASSUME TypeOK, WritersCameBefore, [Next]_vars
  PROVE  WritersCameBefore'
<1>1. CASE Crash
  BY <1>1, IdAssumption DEF Crash, Restart, WritersCameBefore, Idle, Writing
<1>2. ASSUME NEW j \in JobId, JobStep(j) PROVE WritersCameBefore'
  <2>1. UNCHANGED <<mem, disk, call, life>>
    BY <1>2 DEF JobStep, JobRun, JobFinish, JobEnd, JobPurge
  <2> QED
    BY <2>1 DEF WritersCameBefore
<1>3. CASE UNCHANGED vars
  BY <1>3 DEF vars, WritersCameBefore
<1> QED
  BY <1>1, <1>2, <1>3, WritersCallStep, WritersCallBegin DEF Next

\* The step that ExitStandsAgainstLaterCalls speaks of.
LeavesExit(c) == mem[c].state = "EXITED" /\ mem'[c].state # "EXITED"

LEMMA WrittenAt ==
  ASSUME TypeOK, NEW c \in Container, NEW d, NEW m, mem' = [mem EXCEPT ![d] = m]
  PROVE  mem'[c] = IF d = c THEN m ELSE mem[c]
  BY DEF TypeOK

LEMMA WhoLeavesExit ==
  ASSUME TypeOK, WritersCameBefore, [Next]_vars, NEW c \in Container, LeavesExit(c)
  PROVE  \/ \A t \in Caller : call'[t] = Idle
         \/ \E t \in Caller : /\ call[t].c = c
                              /\ ~call[t].late
                              /\ call'[t] # call[t]
<1>1. CASE Restart
  BY <1>1 DEF Restart
<1>2. ASSUME NEW t \in Caller, CallStep(t), ~Restart
      PROVE  call[t].c = c /\ ~call[t].late /\ call'[t] # call[t]
  <2>1. StartCommit(t) \/ StatusApply(t)
    <3>1. mem[c] \in Metadata /\ mem'[c].state # "EXITED" /\ mem[c].state = "EXITED"
      BY DEF LeavesExit, TypeOK
    <3>2. ~(CreateDone(t) \/ CreateFail(t) \/ StartSubmit(t) \/ StopCancel(t)
            \/ StopFail(t) \/ StatusQuery(t) \/ Update(t) \/ Answer(t))
      BY <3>1
      DEF CreateDone, CreateFail, StartSubmit, StopCancel, StopFail, StatusQuery,
                  Update, Answer
    <3>3. ~StartFail(t)
      <4>1. [mem[c] EXCEPT !.state = "EXITED", !.exit = 1].state = "EXITED"
        BY <3>1 DEF Metadata
      <4> QED
        BY <3>1, <4>1 DEF StartFail, SetFailed, TypeOK
    <3>4. ~StartReplyLost(t)
      <4>1. \A p : [mem[c] EXCEPT !.state = "EXITED", !.exit = 1, !.pid = p].state = "EXITED"
        BY <3>1 DEF Metadata
      <4> QED
        <5> SUFFICES ASSUME StartReplyLost(t) PROVE FALSE
          OBVIOUS
        <5>1. PICK p : mem' = [mem EXCEPT ![call[t].c] =
                                 [@ EXCEPT !.state = "EXITED", !.exit = 1, !.pid = p]]
          BY DEF StartReplyLost
        <5>2. PICK m : /\ mem' = [mem EXCEPT ![call[t].c] = m]
                       /\ call[t].c = c => m.state = "EXITED"
          BY <4>1, <5>1
        <5> QED
          BY <3>1, <5>2, WrittenAt
    <3>5. ~StartRecordPid(t)
      BY <3>1 DEF StartRecordPid, TypeOK, Metadata
    <3>6. ~StopExit(t)
      <4>1. call[t].c = c => [mem[c] EXCEPT !.state = "EXITED"].state = "EXITED"
        BY <3>1 DEF Metadata
      <4> QED
        BY <3>1, <4>1 DEF StopExit, SetState, TypeOK
    <3>7. ~PanicSacct(t)
      BY <1>2 DEF PanicSacct
    <3> QED
      BY <1>2, <3>2, <3>3, <3>4, <3>5, <3>6, <3>7 DEF CallStep
  <2>2. call[t].c = c
    BY <2>1 DEF StartCommit, StatusApply, SetState, TypeOK, LeavesExit
  <2>3. ~call[t].late
    BY <2>1 DEF StartCommit, StatusApply, WritersCameBefore, Writing
  <2>4. call'[t].pc # call[t].pc
    BY <2>1 DEF StartCommit, StatusApply, GoTo, TypeOK, Call
  <2> QED
    BY <2>2, <2>3, <2>4
<1>3. ASSUME NEW t \in Caller, NEW d \in Container, CallBegin(t, d), ~Restart
      PROVE  FALSE
  <2>1. mem[c] \in Metadata /\ mem'[c].state # "EXITED" /\ mem[c].state = "EXITED"
    BY DEF LeavesExit, TypeOK
  <2>2. ~CreateBegin(t, d)
    BY <2>1 DEF CreateBegin, WritersCameBefore, Absent, TypeOK, CreateContainerMetadata
  <2>3. ~SetFailed(d) /\ mem' # mem
    BY <2>1 DEF SetFailed, TypeOK, Metadata
  <2>4. ~StartBegin(t, d) /\ ~StopBegin(t, d) /\ ~StatusBegin(t, d)
    BY <2>3 DEF StartBegin, StopBegin, StatusBegin, CreateCMDFails
  <2> QED
    BY <1>3, <2>2, <2>4 DEF CallBegin, PanicUnknown
<1>4. ASSUME NEW j \in JobId, JobStep(j) PROVE FALSE
  BY <1>4 DEF JobStep, JobRun, JobFinish, JobEnd, JobPurge, LeavesExit
<1>5. CASE UNCHANGED vars
  BY <1>5 DEF vars, LeavesExit
<1> QED
  BY <1>1, <1>2, <1>3, <1>4, <1>5 DEF Next, Crash

\* ExitStandsAgainstLaterCalls: only death of the server, and a request that
\* came in before the container exited (StartContainer past its guards,
\* ContainerStatus past its query), take a container out of EXITED.
THEOREM ExitStands == Spec => ExitStandsAgainstLaterCalls
<1>1. TypeOK /\ WritersCameBefore /\ [Next]_vars => WritersCameBefore'
  BY WritersStep
<1>2. TypeOK /\ WritersCameBefore /\ [Next]_vars =>
        [\A c \in Container :
           mem[c].state = "EXITED" /\ mem'[c].state # "EXITED" =>
             \/ \A t \in Caller : call'[t] = Idle
             \/ \E t \in Caller : /\ call[t].c = c
                                  /\ ~call[t].late
                                  /\ call'[t] # call[t]]_vars
  BY WhoLeavesExit DEF LeavesExit
<1> QED
  BY <1>1, <1>2, WritersInit, TypeCorrect, PTL DEF Spec, ExitStandsAgainstLaterCalls

-----------------------------------------------------------------------------
(* The number of a submitted job                                             *)

\* A step that leaves the record's Pid alone, and the requests that hold a
\* number, leaves the number where it is.
KeepsPids(c) ==
  /\ mem'[c].pid = mem[c].pid
  /\ \A t \in Caller : call[t].pc = "submitted" => call'[t] = call[t]

LEMMA KeptNumber ==
  ASSUME NEW c \in Container, NEW j \in JobId, KeepsPids(c), HasNumber(c, j)
  PROVE  HasNumber(c, j)'
  BY DEF KeepsPids, HasNumber

\* Writing a state or an exit code leaves the Pid alone.
LEMMA SetStateKeepsPid ==
  ASSUME TypeOK, NEW d, NEW s, SetState(d, s), NEW c \in Container
  PROVE  mem'[c].pid = mem[c].pid
  BY DEF SetState, TypeOK, Metadata

LEMMA SetFailedKeepsPid ==
  ASSUME TypeOK, NEW d, SetFailed(d), NEW c \in Container
  PROVE  mem'[c].pid = mem[c].pid
  BY DEF SetFailed, TypeOK, Metadata

\* The step that NumbersAreKept speaks of, and who may take it.
LosesNumber(c, j) == HasNumber(c, j) /\ ~HasNumber(c, j)'

MayLoseNumber(c) ==
  \/ /\ \A t \in Caller : call'[t] = Idle
     /\ Persistence =>
          \/ UpdatePending(c)
          \/ \E t \in Caller : call[t].c = c /\ call[t].pc = "submitted"
  \/ \E t \in Caller : /\ call[t].c = c
                       /\ call[t].pc = "submitted"
                       /\ call'[t] # call[t]

LEMMA RestartLosesNumber ==
  ASSUME TypeOK, DiskCoherent, Restart,
         NEW c \in Container, NEW j \in JobId, LosesNumber(c, j)
  PROVE  MayLoseNumber(c)
<1>1. \A t \in Caller : call'[t] = Idle
  BY DEF Restart
<1>2. CASE mem[c].pid = j /\ Persistence
  <2>1. mem'[c].pid # j /\ mem'[c] = disk[c]
    BY <1>2 DEF Restart, LosesNumber, HasNumber
  <2>2. UpdatePending(c)
    BY <1>2, <2>1 DEF DiskCoherent
  <2> QED
    BY <1>1, <2>2 DEF MayLoseNumber
<1>3. CASE mem[c].pid # j \/ ~Persistence
  BY <1>1, <1>3 DEF MayLoseNumber, LosesNumber, HasNumber
<1> QED
  BY <1>2, <1>3

LEMMA CallStepLosesNumber ==
  ASSUME TypeOK, NEW t \in Caller, CallStep(t), ~Restart,
         NEW c \in Container, NEW j \in JobId, LosesNumber(c, j)
  PROVE  MayLoseNumber(c)
<1>1. CASE StartRecordPid(t) \/ StartReplyLost(t)
  <2>1. /\ call[t].pc = "submitted" /\ call'[t] # call[t]
        /\ \A u \in Caller : u # t => call'[u] = call[u]
    BY <1>1 DEF StartRecordPid, StartReplyLost, GoTo, TypeOK, Call
  <2>2. CASE call[t].c # c
    <3>1. mem'[c] = mem[c]
      BY <1>1, <2>2 DEF StartRecordPid, StartReplyLost, TypeOK
    <3> QED
      BY <2>1, <2>2, <3>1 DEF LosesNumber, HasNumber
  <2> QED
    BY <2>1, <2>2 DEF MayLoseNumber
<1>2. CASE ~(StartRecordPid(t) \/ StartReplyLost(t))
  <2>1. \A u \in Caller : call[u].pc = "submitted" => call'[u] = call[u]
    BY <1>2
    DEF CallStep, CreateDone, CreateFail, StartFail, StartSubmit, StartCommit,
        StopCancel, StopFail, StopExit, StatusQuery, StatusApply, PanicSacct,
        Update, Answer, GoTo, Return, TypeOK
  <2>2. mem'[c].pid = mem[c].pid
    <3>1. CASE StartFail(t) \/ StartCommit(t) \/ StopExit(t)
      BY <3>1, SetStateKeepsPid, SetFailedKeepsPid DEF StartFail, StartCommit, StopExit
    <3>2. CASE StatusApply(t)
      BY <3>2 DEF StatusApply, WithAnswer, TypeOK, Metadata
    <3>3. CASE mem' = mem
      BY <3>3
    <3> QED
      BY <1>2, <3>1, <3>2, <3>3
      DEF CallStep, CreateDone, CreateFail, StartSubmit, StopCancel, StopFail,
          StatusQuery, PanicSacct, Update, Answer
  <2> QED
    BY <2>1, <2>2, KeptNumber DEF KeepsPids, LosesNumber
<1> QED
  BY <1>1, <1>2

LEMMA CallBeginKeepsNumber ==
  ASSUME TypeOK, WritersCameBefore, NEW t \in Caller, NEW d \in Container,
         CallBegin(t, d), ~Restart, NEW c \in Container, NEW j \in JobId
  PROVE  ~LosesNumber(c, j)
<1>1. \A u \in Caller : call[u].pc = "submitted" => call'[u] = call[u]
  BY DEF CallBegin, CreateBegin, StartBegin, StopBegin, StatusBegin, PanicUnknown,
         MayBegin, Idle, TypeOK
<1>2. mem'[c].pid = mem[c].pid
  <2>1. CASE CreateBegin(t, d)
    BY <2>1 DEF CreateBegin, CreateContainerMetadata, WritersCameBefore, Absent, TypeOK
  <2>2. CASE ~CreateBegin(t, d)
    <3>1. SetFailed(d) \/ mem' = mem
      BY <2>2 DEF CallBegin, StartBegin, StopBegin, StatusBegin, PanicUnknown
    <3> QED
      BY <3>1, SetFailedKeepsPid
  <2> QED
    BY <2>1, <2>2
<1> QED
  BY <1>1, <1>2, KeptNumber DEF KeepsPids, LosesNumber

LEMMA WhoLosesNumber ==
  ASSUME TypeOK, DiskCoherent, WritersCameBefore, [Next]_vars,
         NEW c \in Container, NEW j \in JobId, LosesNumber(c, j)
  PROVE  MayLoseNumber(c)
<1>1. CASE Restart
  BY <1>1, RestartLosesNumber
<1>2. ASSUME NEW t \in Caller, CallStep(t), ~Restart PROVE MayLoseNumber(c)
  BY <1>2, CallStepLosesNumber
<1>3. ASSUME NEW t \in Caller, NEW d \in Container, CallBegin(t, d), ~Restart
      PROVE  FALSE
  BY <1>3, CallBeginKeepsNumber
<1>4. ASSUME NEW k \in JobId, JobStep(k) PROVE FALSE
  BY <1>4
  DEF JobStep, JobRun, JobFinish, JobEnd, JobPurge, LosesNumber, HasNumber
<1>5. CASE UNCHANGED vars
  BY <1>5 DEF vars, LosesNumber, HasNumber
<1> QED
  BY <1>1, <1>2, <1>3, <1>4, <1>5 DEF Next, Crash

\* NumbersAreKept: once sbatch has given a number, the service forgets it only
\* when it dies, and with the cache file on only while a request that has yet
\* to call Update is served, or in another start of the same container.
THEOREM NumbersAreKeptCorrect == Spec => NumbersAreKept
<1>1. TypeOK /\ WritersCameBefore /\ [Next]_vars => WritersCameBefore'
  BY WritersStep
<1>2. TypeOK /\ DiskCoherent /\ WritersCameBefore /\ [Next]_vars =>
        [\A c \in Container, j \in JobId :
           (job[j].owner = c /\ HasNumber(c, j) /\ ~HasNumber(c, j)') =>
             \/ /\ \A t \in Caller : call'[t] = Idle
                /\ Persistence =>
                     \/ UpdatePending(c)
                     \/ \E t \in Caller : call[t].c = c /\ call[t].pc = "submitted"
             \/ \E t \in Caller : /\ call[t].c = c
                                  /\ call[t].pc = "submitted"
                                  /\ call'[t] # call[t]]_vars
  BY WhoLosesNumber DEF LosesNumber, MayLoseNumber
<1> QED
  BY <1>1, <1>2, WritersInit, TypeCorrect, CacheFollowsPool, PTL
  DEF Spec, NumbersAreKept
=============================================================================
