------------------------- MODULE ContainerExitProofs -------------------------
(***************************************************************************)
(* The proof that a container which is reported EXITED has no job left.    *)
(***************************************************************************)
EXTENDS ContainerServiceProofs

-----------------------------------------------------------------------------
(* An exited container has nothing left on the cluster.  The property is not *)
(* inductive: that a Pid in the pool is the container's own job, and its     *)
(* only one, and that what a handler has learnt about the end of a job is    *)
(* still true when it writes it down, is the rest of IInv.  Two switches     *)
(* matter.  A lost reply of sbatch leaves a job nobody knows, and a failed   *)
(* query marks a container EXITED whose job runs: hence ~SshMayFail.  A      *)
(* second start makes a second job: hence StartOnce.                         *)

\* manageContainerError closes one record and keeps its Pid.
LEMMA SetFailedEffect ==
  ASSUME TypeOK, NEW c \in Container, SetFailed(c)
  PROVE  /\ mem'[c].state = "EXITED" /\ mem'[c].pid = mem[c].pid
         /\ \A d \in Container : d # c => mem'[d] = mem[d]
<1>1. mem[c] \in Metadata
  BY DEF TypeOK
<1> QED
  BY <1>1 DEF SetFailed, TypeOK, Metadata

LEMMA InitIInv == Init => IInv
<1> SUFFICES ASSUME Init PROVE IInv
  OBVIOUS
<1>1. TypeOK
  BY InitType
<1>2. OneJobEach /\ PidsAreOwn
  BY IdAssumption DEF Init, OneJobEach, PidsAreOwn, Absent, NoJob
<1>3. StartsAreUnique /\ StartsAreFresh
  BY IdAssumption
  DEF Init, StartsAreUnique, StartsAreFresh, Starting, Absent, NoJob, Idle
<1>4. CallsAreSound /\ Bookkeeping
  BY IdAssumption DEF Init, CallsAreSound, Bookkeeping, Absent, Idle
<1>5. ExitedHasNoLiveJob
  BY DEF Init, ExitedHasNoLiveJob, Absent
<1> QED
  BY <1>1, <1>2, <1>3, <1>4, <1>5 DEF IInv

\* CreateContainer.
LEMMA CreateSteps ==
  ASSUME IInv, TypeOK', ~SshMayFail, StartOnce,
         NEW t \in Caller, NEW c \in Container,
         CreateBegin(t, c) \/ CreateDone(t) \/ CreateFail(t)
  PROVE  IInv'
<1> USE DEF IInv, TypeOK, Metadata, Job, Call, Starting, Owns, Live
<1>1. CASE CreateBegin(t, c)
  <2>1. OneJobEach'
    BY <1>1 DEF CreateBegin, OneJobEach, CreateContainerMetadata
  <2>2. StartsAreUnique'
    BY <1>1 DEF CreateBegin, StartsAreUnique, Request, CreateContainerMetadata
  <2>3. StartsAreFresh'
    BY <1>1
    DEF CreateBegin, StartsAreFresh, Persist, Absent, Request, CreateContainerMetadata
  <2>4. PidsAreOwn'
    BY <1>1 DEF CreateBegin, PidsAreOwn, Persist, Absent, CreateContainerMetadata
  <2>5. CallsAreSound'
    BY <1>1
    DEF CreateBegin, CallsAreSound, Bookkeeping, Request, CreateContainerMetadata
  <2>6. Bookkeeping'
    BY <1>1, IdAssumption
    DEF CreateBegin, Bookkeeping, Persist, Request, CreateContainerMetadata
  <2>7. ExitedHasNoLiveJob'
    BY <1>1 DEF CreateBegin, ExitedHasNoLiveJob, Persist, CreateContainerMetadata
  <2> QED
    BY <2>1, <2>2, <2>3, <2>4, <2>5, <2>6, <2>7
<1>2. CASE CreateDone(t)
  <2>1. OneJobEach'
    BY <1>2 DEF CreateDone, OneJobEach
  <2>2. StartsAreUnique'
    BY <1>2 DEF CreateDone, StartsAreUnique, Bookkeeping, GoTo
  <2>3. StartsAreFresh'
    BY <1>2 DEF CreateDone, StartsAreFresh, Bookkeeping, Persist, GoTo
  <2>4. PidsAreOwn'
    BY <1>2 DEF CreateDone, PidsAreOwn, Persist
  <2>5. CallsAreSound'
    BY <1>2 DEF CreateDone, CallsAreSound, GoTo
  <2>6. Bookkeeping'
    BY <1>2 DEF CreateDone, Bookkeeping, Persist, GoTo
  <2>7. ExitedHasNoLiveJob'
    BY <1>2 DEF CreateDone, ExitedHasNoLiveJob, Persist
  <2> QED
    BY <2>1, <2>2, <2>3, <2>4, <2>5, <2>6, <2>7
<1>3. CASE CreateFail(t)
  <2>1. OneJobEach' /\ PidsAreOwn' /\ ExitedHasNoLiveJob'
    BY <1>3 DEF CreateFail, OneJobEach, PidsAreOwn, ExitedHasNoLiveJob
  <2>2. StartsAreUnique'
    BY <1>3 DEF CreateFail, StartsAreUnique, Return, Idle
  <2>3. StartsAreFresh'
    BY <1>3 DEF CreateFail, StartsAreFresh, Return, Idle
  <2>4. CallsAreSound'
    BY <1>3 DEF CreateFail, CallsAreSound, Return, Idle
  <2>5. Bookkeeping'
    BY <1>3 DEF CreateFail, Bookkeeping, Return, Idle
  <2> QED
    BY <2>1, <2>2, <2>3, <2>4, <2>5
<1> QED
  BY <1>1, <1>2, <1>3

\* StartContainer, without StartReplyLost: commands get through here.
LEMMA StartSteps ==
  ASSUME IInv, TypeOK', ~SshMayFail, StartOnce,
         NEW t \in Caller, NEW c \in Container,
         StartBegin(t, c) \/ StartFail(t) \/ StartSubmit(t) \/
         StartRecordPid(t) \/ StartCommit(t)
  PROVE  IInv'
<1> USE DEF IInv, TypeOK, Metadata, Job, Call, Starting, Owns, Live
<1>1. CASE StartBegin(t, c)
  <2>1. /\ call[t].c = NoContainer /\ call[t].pc = "idle"
        /\ life[c] = "made" /\ mem[c].state = "CREATED"
        /\ life' = [life EXCEPT ![c] = "started"]
        /\ disk' = disk /\ job' = job
    BY <1>1 DEF StartBegin, StartAllowed, MayBegin, Idle, CreateCMDFails
  <2>2. CASE c \in NoCreds
    <3>1. /\ mem'[c].state = "EXITED" /\ mem'[c].pid = mem[c].pid
          /\ \A d \in Container : d # c => mem'[d] = mem[d]
      BY <1>1, <2>2, SetFailedEffect DEF StartBegin, CreateCMDFails
    <3>2. call' = [call EXCEPT ![t] = Request("Start", c, "update", 0)]
      BY <1>1, <2>2 DEF StartBegin, CreateCMDFails
    <3>3. OneJobEach'
      BY <2>1 DEF OneJobEach
    <3>4. StartsAreUnique' /\ StartsAreFresh'
      BY <2>1, <2>2, <3>1, <3>2 DEF StartsAreUnique, StartsAreFresh, Request
    <3>5. PidsAreOwn' /\ ExitedHasNoLiveJob'
      BY <2>1, <2>2, <3>1 DEF PidsAreOwn, ExitedHasNoLiveJob, StartsAreUnique
    <3>6. CallsAreSound'
      <4>1. \A d \in Container : mem'[d].pid = mem[d].pid
        BY <3>1
      <4>2. /\ call'[t].c = c /\ call'[t].pc = "update"
            /\ \A u \in Caller : u # t => call'[u] = call[u]
        BY <3>2 DEF Request
      <4>3. CallsAreSound /\ job' = job
        BY <2>1
      <4> HIDE DEF IInv, TypeOK, Metadata, Job, Call
      <4> QED
        BY <4>1, <4>2, <4>3 DEF CallsAreSound
    <3>7. Bookkeeping'
      BY <2>1, <3>1, <3>2, IdAssumption DEF Bookkeeping, Request
    <3> QED
      BY <3>3, <3>4, <3>5, <3>6, <3>7
  <2>3. CASE c \notin NoCreds
    <3>1. mem' = mem
      BY <1>1, <2>3 DEF StartBegin, CreateCMDFails
    <3>2. call' = [call EXCEPT ![t] = Request("Start", c, "submit", 0)]
      BY <1>1, <2>3 DEF StartBegin, CreateCMDFails
    <3>3. OneJobEach' /\ PidsAreOwn' /\ ExitedHasNoLiveJob'
      BY <2>1, <3>1 DEF OneJobEach, PidsAreOwn, ExitedHasNoLiveJob
    <3>4. StartsAreUnique'
      BY <2>1, <2>3, <3>2 DEF StartsAreUnique, Request
    <3>5. StartsAreFresh'
      BY <2>1, <2>3, <3>1, <3>2 DEF StartsAreFresh, StartsAreUnique, PidsAreOwn, Request
    <3>6. CallsAreSound'
      BY <2>1, <3>1, <3>2 DEF CallsAreSound, Request
    <3>7. Bookkeeping'
      BY <2>1, <3>1, <3>2, IdAssumption DEF Bookkeeping, Request
    <3> QED
      BY <3>3, <3>4, <3>5, <3>6, <3>7
  <2> QED
    BY <2>2, <2>3
<1>2. CASE StartFail(t)
  <2>1. OneJobEach'
    BY <1>2 DEF StartFail, OneJobEach
  <2>2. StartsAreUnique'
    BY <1>2 DEF StartFail, StartsAreUnique, GoTo
  <2>3. StartsAreFresh'
    BY <1>2 DEF StartFail, StartsAreUnique, StartsAreFresh, SetFailed, GoTo
  <2>4. PidsAreOwn'
    BY <1>2 DEF StartFail, PidsAreOwn, SetFailed
  <2>5. CallsAreSound'
    BY <1>2 DEF StartFail, CallsAreSound, SetFailed, GoTo
  <2>6. Bookkeeping'
    BY <1>2 DEF StartFail, StartsAreUnique, Bookkeeping, ExitedHasNoLiveJob,
      SetFailed, GoTo
  <2>7. ExitedHasNoLiveJob'
    BY <1>2 DEF StartFail, StartsAreFresh, PidsAreOwn, ExitedHasNoLiveJob,
      SetFailed
  <2> QED
    BY <2>1, <2>2, <2>3, <2>4, <2>5, <2>6, <2>7
<1>3. CASE StartSubmit(t)
  <2> DEFINE c0 == call[t].c
  <2>1. PICK j \in JobId :
          /\ job[j].phase = "none"
          /\ job' = [job EXCEPT ![j] = [owner |-> c0, phase |-> "PENDING",
                                       result |-> "none"]]
          /\ call' = [call EXCEPT ![t] = [@ EXCEPT !.pc = "submitted", !.job = j]]
    BY <1>3 DEF StartSubmit
  <2>2. /\ job'[j].owner = c0 /\ job'[j].phase = "PENDING"
        /\ \A k \in JobId : k # j => job'[k] = job[k]
    BY <2>1
  <2>3. /\ call'[t].c = c0 /\ call'[t].pc = "submitted" /\ call'[t].job = j
        /\ \A u \in Caller : u # t => call'[u] = call[u]
    BY <2>1
  <2>4. /\ call[t].pc = "submit" /\ mem' = mem /\ disk' = disk /\ life' = life
        /\ c0 \in Container /\ c0 # NoContainer
    BY <1>3, IdAssumption DEF StartSubmit, CallsAreSound
  <2>5. job[j].owner = NoContainer
    BY <2>1 DEF OneJobEach
  <2> HIDE DEF TypeOK, Metadata, Job, Call
  <2>5a. Starting(t, c0)
    BY <2>4
  <2>5b. /\ mem[c0].state = "CREATED" /\ mem[c0].pid = 0 /\ disk[c0].pid = 0
        /\ disk[c0].state # "EXITED"
        /\ \A k \in JobId : job[k].owner # c0
    BY <2>4, <2>5a DEF StartsAreFresh
  <2>6. OneJobEach'
    BY <2>2, <2>4, <2>5, <2>5b DEF OneJobEach
  <2>7. StartsAreUnique'
    <3>1. life[c0] = "started" /\ c0 \notin NoCreds
      BY <2>4, <2>5a DEF StartsAreUnique
    <3>2. \A u \in Caller, d \in Container : Starting(u, d)' => Starting(u, d)
      BY <2>3, <2>4
    <3> QED
      BY <2>2, <2>4, <3>1, <3>2 DEF StartsAreUnique
  <2>8. StartsAreFresh'
    <3>1. \A u \in Caller, d \in Container :
            Starting(u, d) /\ u # t => d # c0
      BY <2>4, <2>5a DEF StartsAreUnique
    <3>2. ASSUME NEW u \in Caller, NEW d \in Container, Starting(u, d)'
          PROVE  /\ mem[d].state = "CREATED" /\ mem[d].pid = 0
                 /\ disk[d].state # "EXITED" /\ disk[d].pid = 0
                 /\ call'[u].pc = "submit" => \A k \in JobId : job'[k].owner # d
                 /\ call'[u].pc = "submitted" => (call'[u].job \in JobId /\ job'[call'[u].job].owner = d)
      <4>1. CASE u = t
        BY <2>1, <2>2, <2>3, <2>5b, <3>2, <4>1
      <4>2. CASE u # t
        BY <2>2, <2>3, <2>5, <3>1, <3>2, <4>2, IdAssumption DEF StartsAreFresh
      <4> QED
        BY <4>1, <4>2
    <3> QED
      BY <2>4, <3>2 DEF StartsAreFresh
  <2>9. PidsAreOwn'
    BY <2>2, <2>4, <2>5, IdAssumption DEF PidsAreOwn
  <2>10. CallsAreSound'
    <3>1. \A u \in Caller :
            call[u].pc \in {"query", "apply", "scancel", "cancelled"} =>
              call[u].job \in JobId /\ call[u].job # j
      BY <2>5, IdAssumption DEF CallsAreSound, PidsAreOwn
    <3> QED
      BY <2>2, <2>3, <2>4, <3>1 DEF CallsAreSound
  <2>11. Bookkeeping'
    BY <2>2, <2>3, <2>4 DEF Bookkeeping
  <2>12. ExitedHasNoLiveJob'
    BY <2>2, <2>4, <2>5b DEF ExitedHasNoLiveJob
  <2> QED
    BY <2>6, <2>7, <2>8, <2>9, <2>10, <2>11, <2>12 DEF TypeOK
<1>4. CASE StartRecordPid(t)
  <2>1. OneJobEach' /\ ExitedHasNoLiveJob'
    BY <1>4 DEF StartRecordPid, OneJobEach, ExitedHasNoLiveJob
  <2>2. StartsAreUnique'
    BY <1>4 DEF StartRecordPid, StartsAreUnique, GoTo
  <2>3. StartsAreFresh'
    BY <1>4 DEF StartRecordPid, StartsAreUnique, StartsAreFresh, GoTo
  <2>4. PidsAreOwn'
    BY <1>4 DEF StartRecordPid, StartsAreFresh, PidsAreOwn
  <2>5. CallsAreSound'
    BY <1>4, IdAssumption DEF StartRecordPid, StartsAreFresh, CallsAreSound, GoTo
  <2>6. Bookkeeping'
    <3>1. call[t].c \in Container /\ life[call[t].c] # "fresh"
      BY <1>4 DEF StartRecordPid, CallsAreSound, StartsAreUnique
    <3> QED
      BY <1>4, <3>1 DEF StartRecordPid, GoTo, Bookkeeping
  <2> QED
    BY <2>1, <2>2, <2>3, <2>4, <2>5, <2>6
<1>5. CASE StartCommit(t)
  <2>1. OneJobEach'
    BY <1>5 DEF StartCommit, OneJobEach
  <2>2. StartsAreUnique'
    BY <1>5 DEF StartCommit, StartsAreUnique, GoTo
  <2>3. StartsAreFresh'
    BY <1>5 DEF StartCommit, StartsAreFresh, CallsAreSound, SetState, GoTo
  <2>4. PidsAreOwn'
    BY <1>5 DEF StartCommit, PidsAreOwn, CallsAreSound, SetState
  <2>5. CallsAreSound'
    BY <1>5 DEF StartCommit, CallsAreSound, SetState, GoTo
  <2>6. Bookkeeping'
    <3>1. call[t].c \in Container /\ life[call[t].c] # "fresh"
      BY <1>5 DEF StartCommit, CallsAreSound, Bookkeeping, Absent
    <3> QED
      BY <1>5, <3>1 DEF StartCommit, SetState, GoTo, Bookkeeping
  <2>7. ExitedHasNoLiveJob'
    BY <1>5 DEF StartCommit, ExitedHasNoLiveJob, SetState
  <2> QED
    BY <2>1, <2>2, <2>3, <2>4, <2>5, <2>6, <2>7
<1> QED
  BY <1>1, <1>2, <1>3, <1>4, <1>5

\* StopContainer.
LEMMA StopSteps ==
  ASSUME IInv, TypeOK', ~SshMayFail, StartOnce,
         NEW t \in Caller, NEW c \in Container,
         StopBegin(t, c) \/ StopCancel(t) \/ StopFail(t) \/ StopExit(t)
  PROVE  IInv'
<1> USE DEF IInv, TypeOK, Metadata, Job, Call, Starting, Owns, Live
<1>1. CASE StopBegin(t, c)
  <2>1. OneJobEach' /\ PidsAreOwn' /\ ExitedHasNoLiveJob'
    BY <1>1 DEF StopBegin, OneJobEach, PidsAreOwn, ExitedHasNoLiveJob
  <2>2. StartsAreUnique'
    BY <1>1 DEF StopBegin, StartsAreUnique, Request
  <2>3. StartsAreFresh'
    BY <1>1 DEF StopBegin, StartsAreFresh, Request
  <2>4. CallsAreSound'
    BY <1>1 DEF StopBegin, PidsAreOwn, CallsAreSound, Request
  <2>5. Bookkeeping'
    BY <1>1, IdAssumption DEF StopBegin, Bookkeeping, Request
  <2> QED
    BY <2>1, <2>2, <2>3, <2>4, <2>5
<1>2. CASE StopCancel(t)
  <2>1. OneJobEach' /\ PidsAreOwn' /\ ExitedHasNoLiveJob'
    BY <1>2 DEF StopCancel, OneJobEach, PidsAreOwn, ExitedHasNoLiveJob
  <2>2. StartsAreUnique'
    BY <1>2 DEF StopCancel, StartsAreUnique, GoTo
  <2>3. StartsAreFresh'
    BY <1>2 DEF StopCancel, StartsAreFresh, GoTo
  <2>4. CallsAreSound'
    BY <1>2 DEF StopCancel, CallsAreSound, GoTo
  <2>5. Bookkeeping'
    BY <1>2 DEF StopCancel, Bookkeeping, GoTo
  <2> QED
    BY <2>1, <2>2, <2>3, <2>4, <2>5
<1>3. CASE StopFail(t)
  <2>1. OneJobEach' /\ PidsAreOwn' /\ ExitedHasNoLiveJob'
    BY <1>3 DEF StopFail, OneJobEach, PidsAreOwn, ExitedHasNoLiveJob
  <2>2. StartsAreUnique'
    BY <1>3 DEF StopFail, StartsAreUnique, Return, Idle
  <2>3. StartsAreFresh'
    BY <1>3 DEF StopFail, StartsAreFresh, Return, Idle
  <2>4. CallsAreSound'
    BY <1>3 DEF StopFail, CallsAreSound, Return, Idle
  <2>5. Bookkeeping'
    BY <1>3 DEF StopFail, Bookkeeping, Return, Idle
  <2> QED
    BY <2>1, <2>2, <2>3, <2>4, <2>5
<1>4. CASE StopExit(t)
  <2>1. OneJobEach'
    BY <1>4 DEF StopExit, OneJobEach
  <2>2. StartsAreUnique'
    BY <1>4 DEF StopExit, StartsAreUnique, GoTo
  <2>3. StartsAreFresh'
    BY <1>4 DEF StopExit, StartsAreUnique, StartsAreFresh, PidsAreOwn,
      CallsAreSound, SetState, GoTo
  <2>4. PidsAreOwn'
    BY <1>4 DEF StopExit, PidsAreOwn, SetState
  <2>5. CallsAreSound'
    BY <1>4 DEF StopExit, CallsAreSound, SetState, GoTo
  <2>6. Bookkeeping'
    <3>1. call[t].c \in Container /\ life[call[t].c] # "fresh"
      BY <1>4 DEF StopExit, CallsAreSound, Bookkeeping, Absent
    <3> QED
      BY <1>4, <3>1 DEF StopExit, SetState, GoTo, Bookkeeping
  <2>7. ExitedHasNoLiveJob'
    <3>1. /\ call[t].c \in Container
          /\ Owns(call[t].c, call[t].job) /\ ~Live(call[t].job)
      BY <1>4 DEF StopExit, CallsAreSound, PidsAreOwn
    <3>2. \A k \in JobId : job[k].owner = call[t].c => k = call[t].job
      BY <3>1, IdAssumption DEF OneJobEach
    <3> QED
      BY <1>4, <3>1, <3>2 DEF StopExit, SetState, ExitedHasNoLiveJob
  <2> QED
    BY <2>1, <2>2, <2>3, <2>4, <2>5, <2>6, <2>7
<1> QED
  BY <1>1, <1>2, <1>3, <1>4

\* ContainerStatus.
LEMMA StatusSteps ==
  ASSUME IInv, TypeOK', ~SshMayFail, StartOnce,
         NEW t \in Caller, NEW c \in Container,
         StatusBegin(t, c) \/ StatusQuery(t) \/ StatusApply(t)
  PROVE  IInv'
<1> USE DEF IInv, TypeOK, Metadata, Job, Call, Starting, Owns, Live
<1>1. CASE StatusBegin(t, c)
  <2>1. /\ call[t].c = NoContainer /\ call[t].pc = "idle"
        /\ mem[c].state # "NONE"
        /\ disk' = disk /\ job' = job /\ life' = life
    BY <1>1 DEF StatusBegin, MayBegin, Idle, CreateCMDFails
  <2>2. PICK pc \in {"query", "update"} :
          /\ call' = [call EXCEPT ![t] = Request("Status", c, pc, mem[c].pid)]
          /\ pc = "query" => c \notin NoCreds /\ mem[c].pid # 0
    BY <1>1 DEF StatusBegin, CreateCMDFails
  <2>3. CASE mem' = mem
    <3>1. OneJobEach' /\ PidsAreOwn' /\ ExitedHasNoLiveJob'
      BY <2>1, <2>3 DEF OneJobEach, PidsAreOwn, ExitedHasNoLiveJob
    <3>2. StartsAreUnique' /\ StartsAreFresh'
      BY <2>1, <2>2, <2>3 DEF StartsAreUnique, StartsAreFresh, Request
    <3>3. CallsAreSound'
      BY <2>1, <2>2, <2>3 DEF CallsAreSound, Request
    <3>4. Bookkeeping'
      BY <2>1, <2>2, <2>3, IdAssumption DEF Bookkeeping, Request
    <3> QED
      BY <3>1, <3>2, <3>3, <3>4
  <2>4. CASE c \in NoCreds /\ SetFailed(c)
    <3>1. /\ mem'[c].state = "EXITED" /\ mem'[c].pid = mem[c].pid
          /\ \A d \in Container : d # c => mem'[d] = mem[d]
      BY <2>4, SetFailedEffect
    <3>2. OneJobEach'
      BY <2>1 DEF OneJobEach
    <3>3. StartsAreUnique' /\ StartsAreFresh'
      BY <2>1, <2>2, <2>4, <3>1 DEF StartsAreUnique, StartsAreFresh, Request
    <3>4. PidsAreOwn' /\ ExitedHasNoLiveJob'
      BY <2>1, <2>4, <3>1 DEF PidsAreOwn, ExitedHasNoLiveJob, StartsAreUnique
    <3>5. /\ call'[t].c = c /\ call'[t].pc = pc /\ call'[t].job = mem[c].pid
          /\ \A u \in Caller : u # t => call'[u] = call[u]
      BY <2>2 DEF Request
    <3>6. CallsAreSound'
      <4>1. \A d \in Container : mem'[d].pid = mem[d].pid
        BY <3>1
      <4> QED
        BY <2>1, <2>2, <2>4, <3>5, <4>1 DEF CallsAreSound
    <3>7. Bookkeeping'
      <4>1. life[c] # "fresh"
        BY <2>1 DEF Bookkeeping, Absent
      <4> QED
        BY <2>1, <2>2, <3>1, <3>5, <4>1, IdAssumption DEF Bookkeeping
    <3> QED
      BY <3>2, <3>3, <3>4, <3>6, <3>7
  <2> QED
    BY <1>1, <2>3, <2>4 DEF StatusBegin, CreateCMDFails
<1>2. CASE StatusQuery(t)
  <2>1. PICK o \in Sstatus(call[t].job) :
          call' = [call EXCEPT ![t] = [@ EXCEPT !.pc = "apply", !.obs = o]]
    BY <1>2 DEF StatusQuery
  <2>2. /\ call'[t].c = call[t].c /\ call'[t].job = call[t].job
        /\ call'[t].pc = "apply" /\ call'[t].obs = o
        /\ \A u \in Caller : u # t => call'[u] = call[u]
    BY <2>1
  <2>3. /\ call[t].pc = "query"
        /\ mem' = mem /\ disk' = disk /\ job' = job /\ life' = life
    BY <1>2 DEF StatusQuery
  <2>4. OneJobEach' /\ PidsAreOwn' /\ ExitedHasNoLiveJob'
    BY <2>3 DEF OneJobEach, PidsAreOwn, ExitedHasNoLiveJob
  <2>5. StartsAreUnique' /\ StartsAreFresh'
    <3>1. \A u \in Caller, d \in Container : Starting(u, d)' => Starting(u, d) /\ u # t
      BY <2>2, <2>3
    <3> HIDE DEF TypeOK, Metadata, Job, Call
    <3>2. StartsAreUnique'
      BY <2>3, <3>1 DEF StartsAreUnique
    <3>3. StartsAreFresh'
      BY <2>2, <2>3, <3>1 DEF StartsAreFresh
    <3> QED
      BY <3>2, <3>3
  <2>6. CallsAreSound'
    <3>1. ContainerStateOf(o) = "EXITED" => ~Live(call[t].job)
      BY <2>1 DEF Sstatus, JobState, ContainerStateOf
    <3> QED
      BY <2>2, <2>3, <3>1 DEF CallsAreSound
  <2>7. Bookkeeping'
    <3> HIDE DEF TypeOK, Metadata, Job, Call
    <3> QED
      BY <2>2, <2>3 DEF Bookkeeping
  <2> QED
    BY <2>4, <2>5, <2>6, <2>7
<1>3. CASE StatusApply(t)
  <2>1. OneJobEach'
    BY <1>3 DEF StatusApply, OneJobEach
  <2>2. StartsAreUnique'
    BY <1>3 DEF StatusApply, StartsAreUnique, GoTo
  <2>3. StartsAreFresh'
    BY <1>3 DEF StatusApply, StartsAreUnique, StartsAreFresh, PidsAreOwn,
      CallsAreSound, GoTo
  <2>4. PidsAreOwn'
    BY <1>3 DEF StatusApply, PidsAreOwn, CallsAreSound, WithAnswer
  <2>5. CallsAreSound'
    BY <1>3 DEF StatusApply, CallsAreSound, GoTo, WithAnswer
  <2>6. Bookkeeping'
    BY <1>3 DEF StatusApply, StartsAreUnique, PidsAreOwn, CallsAreSound,
      Bookkeeping, GoTo
  <2>7. ExitedHasNoLiveJob'
    <3>1. /\ call[t].c \in Container
          /\ Owns(call[t].c, call[t].job)
          /\ ContainerStateOf(call[t].obs) = "EXITED" => ~Live(call[t].job)
      BY <1>3 DEF StatusApply, CallsAreSound, PidsAreOwn
    <3>2. \A k \in JobId : job[k].owner = call[t].c => k = call[t].job
      BY <3>1, IdAssumption DEF OneJobEach
    <3> QED
      BY <1>3, <3>1, <3>2 DEF StatusApply, WithAnswer, ExitedHasNoLiveJob
  <2> QED
    BY <2>1, <2>2, <2>3, <2>4, <2>5, <2>6, <2>7
<1> QED
  BY <1>1, <1>2, <1>3

\* The cluster moves its jobs on.
LEMMA ClusterSteps ==
  ASSUME IInv, TypeOK', ~SshMayFail, StartOnce,
         NEW j \in JobId,
         JobRun(j) \/ JobFinish(j) \/ JobEnd(j) \/ JobPurge(j)
  PROVE  IInv'
<1> USE DEF IInv, TypeOK, Metadata, Job, Call, Starting, Owns, Live
<1>1. CASE JobRun(j)
  <2>1. /\ OneJobEach'
        /\ StartsAreUnique'
        /\ StartsAreFresh'
        /\ PidsAreOwn'
        /\ CallsAreSound'
        /\ Bookkeeping'
        /\ ExitedHasNoLiveJob'
    BY <1>1 DEF JobRun, OneJobEach, StartsAreUnique, StartsAreFresh, PidsAreOwn,
      CallsAreSound, Bookkeeping, ExitedHasNoLiveJob
  <2> QED
    BY <2>1
<1>2. CASE JobFinish(j)
  <2>1. PICK r \in JobResult \ {"none"} :
          job' = [job EXCEPT ![j] = [@ EXCEPT !.phase = "COMPLETING", !.result = r]]
    BY <1>2 DEF JobFinish
  <2>2. /\ job[j].phase = "RUNNING" /\ job'[j].phase = "COMPLETING"
        /\ \A k \in JobId : job'[k].owner = job[k].owner
        /\ \A k \in JobId : k # j => job'[k] = job[k]
        /\ mem' = mem /\ disk' = disk /\ call' = call /\ life' = life
    BY <1>2, <2>1 DEF JobFinish
  <2>3. OneJobEach' /\ PidsAreOwn' /\ Bookkeeping'
    <3> HIDE DEF TypeOK, Metadata, Job, Call
    <3>1. OneJobEach'
      BY <2>2 DEF OneJobEach
    <3>2. PidsAreOwn' /\ Bookkeeping'
      BY <2>2 DEF PidsAreOwn, Bookkeeping
    <3> QED
      BY <3>1, <3>2
  <2>4. StartsAreUnique' /\ StartsAreFresh'
    BY <2>2 DEF StartsAreUnique, StartsAreFresh
  <2>5. CallsAreSound' /\ ExitedHasNoLiveJob'
    <3>1. \A k : Live(k)' => Live(k)
      BY <2>2
    <3> QED
      BY <2>2, <3>1 DEF CallsAreSound, ExitedHasNoLiveJob
  <2> QED
    BY <2>3, <2>4, <2>5
<1>3. CASE JobEnd(j)
  <2>1. /\ OneJobEach'
        /\ StartsAreUnique'
        /\ StartsAreFresh'
        /\ PidsAreOwn'
        /\ CallsAreSound'
        /\ Bookkeeping'
        /\ ExitedHasNoLiveJob'
    BY <1>3 DEF JobEnd, OneJobEach, StartsAreUnique, StartsAreFresh, PidsAreOwn,
      CallsAreSound, Bookkeeping, ExitedHasNoLiveJob
  <2> QED
    BY <2>1
<1>4. CASE JobPurge(j)
  <2>1. /\ OneJobEach'
        /\ StartsAreUnique'
        /\ StartsAreFresh'
        /\ PidsAreOwn'
        /\ CallsAreSound'
        /\ Bookkeeping'
        /\ ExitedHasNoLiveJob'
    BY <1>4 DEF JobPurge, OneJobEach, StartsAreUnique, StartsAreFresh, PidsAreOwn,
      CallsAreSound, Bookkeeping, ExitedHasNoLiveJob
  <2> QED
    BY <2>1
<1> QED
  BY <1>1, <1>2, <1>3, <1>4

\* The store and the answer.
LEMMA CommonSteps ==
  ASSUME IInv, TypeOK', ~SshMayFail, StartOnce,
         NEW t \in Caller,
         Update(t) \/ Answer(t)
  PROVE  IInv'
<1> USE DEF IInv, TypeOK, Metadata, Job, Call, Starting, Owns, Live
<1>1. CASE Update(t)
  <2>1. OneJobEach'
    BY <1>1 DEF Update, OneJobEach
  <2>2. StartsAreUnique'
    BY <1>1 DEF Update, StartsAreUnique, GoTo
  <2>3. StartsAreFresh'
    BY <1>1 DEF Update, StartsAreFresh, Persist, GoTo
  <2>4. PidsAreOwn'
    BY <1>1 DEF Update, PidsAreOwn, Persist
  <2>5. CallsAreSound'
    BY <1>1 DEF Update, CallsAreSound, GoTo
  <2>6. Bookkeeping'
    BY <1>1 DEF Update, Bookkeeping, Persist, GoTo
  <2>7. ExitedHasNoLiveJob'
    BY <1>1 DEF Update, ExitedHasNoLiveJob, Persist
  <2> QED
    BY <2>1, <2>2, <2>3, <2>4, <2>5, <2>6, <2>7
<1>2. CASE Answer(t)
  <2>1. OneJobEach' /\ PidsAreOwn' /\ ExitedHasNoLiveJob'
    BY <1>2 DEF Answer, OneJobEach, PidsAreOwn, ExitedHasNoLiveJob
  <2>2. StartsAreUnique'
    BY <1>2 DEF Answer, StartsAreUnique, Return, Idle
  <2>3. StartsAreFresh'
    BY <1>2 DEF Answer, StartsAreFresh, Return, Idle
  <2>4. CallsAreSound'
    BY <1>2 DEF Answer, CallsAreSound, Return, Idle
  <2>5. Bookkeeping'
    BY <1>2 DEF Answer, Bookkeeping, Return, Idle
  <2> QED
    BY <2>1, <2>2, <2>3, <2>4, <2>5
<1> QED
  BY <1>1, <1>2

\* A server that starts again: the pool is what the cache file holds.
LEMMA RestartStep ==
  ASSUME IInv, TypeOK', Restart
  PROVE  IInv'
<1> USE DEF IInv, TypeOK, Metadata, Job, Call, Starting, Owns, Live
<1>1. OneJobEach'
  BY DEF Restart, OneJobEach
<1>2. StartsAreUnique'
  BY DEF Restart, StartsAreUnique, Idle
<1>3. StartsAreFresh'
  BY DEF Restart, StartsAreFresh, Idle, Absent
<1>4. PidsAreOwn'
  BY DEF Restart, PidsAreOwn, Absent
<1>5. CallsAreSound'
  BY DEF Restart, CallsAreSound, Idle
<1>6. Bookkeeping'
  BY DEF Restart, Bookkeeping, Idle
<1>7. ExitedHasNoLiveJob'
  BY DEF Restart, ExitedHasNoLiveJob, Absent
<1> QED
  BY <1>1, <1>2, <1>3, <1>4, <1>5, <1>6, <1>7

LEMMA StepIInv ==
  ASSUME IInv, ~SshMayFail, StartOnce, [Next]_vars
  PROVE  IInv'
<1>1. TypeOK'
  BY StepType DEF IInv
<1>2. ASSUME NEW t \in Caller, CallStep(t)
      PROVE  IInv'
  <2>1. CASE \/ StartFail(t) \/ StartSubmit(t) \/ StartRecordPid(t) \/ StartCommit(t)
             \/ CreateDone(t) \/ CreateFail(t)
    <3>1. call[t].c \in Container
      BY <2>1
      DEF IInv, CallsAreSound, StartFail, StartSubmit, StartRecordPid, StartCommit,
          CreateDone, CreateFail
    <3> QED
      BY <1>1, <2>1, <3>1, StartSteps, CreateSteps
  <2>2. CASE StopCancel(t) \/ StopFail(t) \/ StopExit(t) \/ StatusQuery(t) \/ StatusApply(t)
    <3>1. call[t].c \in Container
      BY <2>2
      DEF IInv, CallsAreSound, StopCancel, StopFail, StopExit, StatusQuery, StatusApply
    <3> QED
      BY <1>1, <2>2, <3>1, StopSteps, StatusSteps
  <2>3. CASE Update(t) \/ Answer(t)
    BY <1>1, <2>3, CommonSteps
  <2>4. CASE PanicSacct(t)
    BY <1>1, <2>4, RestartStep DEF PanicSacct
  <2>5. ~StartReplyLost(t)
    BY DEF StartReplyLost
  <2> QED
    BY <1>2, <2>1, <2>2, <2>3, <2>4, <2>5 DEF CallStep
<1>3. ASSUME NEW t \in Caller, NEW c \in Container, CallBegin(t, c)
      PROVE  IInv'
  <2>1. CASE PanicUnknown(t, c)
    BY <1>1, <2>1, RestartStep DEF PanicUnknown
  <2> QED
    BY <1>1, <1>3, <2>1, CreateSteps, StartSteps, StopSteps, StatusSteps DEF CallBegin
<1>4. ASSUME NEW j \in JobId, JobStep(j)
      PROVE  IInv'
  BY <1>1, <1>4, ClusterSteps DEF JobStep
<1>5. CASE Crash
  BY <1>1, <1>5, RestartStep DEF Crash
<1>6. CASE UNCHANGED vars
  BY <1>1, <1>6
  DEF vars, IInv, OneJobEach, StartsAreUnique, StartsAreFresh, PidsAreOwn, CallsAreSound,
      Bookkeeping, ExitedHasNoLiveJob, Starting, Owns, Live
<1> QED
  BY <1>2, <1>3, <1>4, <1>5, <1>6 DEF Next

\* IInv: when remote commands get through and the kubelet starts a container
\* once, a container gets one job at most, the numbers in the pool and in the
\* cache file are those of its own job, and what a handler has learnt about the
\* end of a job is still true when it writes it down (adapters/slurm/container.go:84-179).
THEOREM RecordsFitJobs ==
  ASSUME ~SshMayFail, StartOnce
  PROVE  Spec => []IInv
<1>1. Init => IInv
  BY InitIInv
<1>2. IInv /\ [Next]_vars => IInv'
  BY StepIInv
<1> QED
  BY <1>1, <1>2, PTL DEF Spec

\* ExitedHasNoLiveJob: in the same setting, a container that the pool or the
\* cache file calls EXITED has no job waiting or running, whatever requests
\* overlap, whenever the server dies and whatever slurmctld forgets.
THEOREM ExitedIsOver ==
  ASSUME ~SshMayFail, StartOnce
  PROVE  Spec => []ExitedHasNoLiveJob
<1>1. IInv => ExitedHasNoLiveJob
  BY DEF IInv
<1> QED
  BY <1>1, RecordsFitJobs, PTL

-----------------------------------------------------------------------------
(* The failures that are reported, in the same setting.  Exit code 1 gets     *)
(* into a record before there is a job, and then there will be none, or from  *)
(* an answer about the record's own job; what the answer said stays true.     *)

\* Job j has failed or was cancelled, or nobody can tell any more.
Failed(j) ==
  \/ job[j].phase = "PURGED"
  \/ job[j].phase \in {"COMPLETING", "ENDED"} /\ job[j].result \in {"FAILED", "CANCELLED"}

\* The same of the record of c and of its entry in the file; a container that
\* may still get a job has no exit code yet.
FailuresFit(c) ==
  /\ mem[c].exit = 1 /\ mem[c].pid # 0 => Failed(mem[c].pid)
  /\ disk[c].exit = 1 /\ disk[c].pid # 0 => Failed(disk[c].pid)
  /\ (c \notin NoCreds /\ life[c] # "started") \/ (\E t \in Caller : Starting(t, c)) =>
       mem[c].exit = 0 /\ disk[c].exit = 0

\* Bad news that is yet to be written is about a job that failed.
NewsIsTrue ==
  \A t \in Caller :
    call[t].pc = "apply" /\ call[t].obs \in {"FAILED", "CANCELLED", "ERROR"} =>
      Failed(call[t].job)

FailInv == NewsIsTrue /\ \A c \in Container : FailuresFit(c)

\* A failed job stays one.
LEMMA FailedStays ==
  ASSUME TypeOK, [Next]_vars, NEW j \in JobId, Failed(j)
  PROVE  Failed(j)'
<1>0. job[j] \in Job /\ job[j].phase \in {"COMPLETING", "ENDED", "PURGED"}
  BY DEF TypeOK, Failed
<1>1. ASSUME NEW k \in JobId, JobStep(k) PROVE Failed(j)'
  <2>1. CASE k # j
    BY <1>1, <2>1
    DEF JobStep, JobRun, JobFinish, JobEnd, JobPurge, Failed, TypeOK
  <2>2. CASE k = j
    <3>1. ~JobRun(j) /\ ~JobFinish(j)
      BY <1>0 DEF JobRun, JobFinish
    <3>2. CASE JobEnd(j)
      <4>1. job' = [job EXCEPT ![j] = [job[j] EXCEPT !.phase = "ENDED"]]
        BY <3>2 DEF JobEnd
      <4>2. job'[j].phase = "ENDED" /\ job'[j].result = job[j].result
        BY <1>0, <4>1 DEF TypeOK, Job
      <4>3. job[j].phase = "COMPLETING"
        BY <3>2 DEF JobEnd
      <4> QED
        BY <4>2, <4>3 DEF Failed
    <3>3. CASE JobPurge(j)
      <4>1. job' = [job EXCEPT ![j] = [job[j] EXCEPT !.phase = "PURGED"]]
        BY <3>3 DEF JobPurge
      <4>2. job'[j].phase = "PURGED"
        BY <1>0, <4>1 DEF TypeOK, Job
      <4> QED
        BY <4>2 DEF Failed
    <3> QED
      BY <1>1, <2>2, <3>1, <3>2, <3>3 DEF JobStep
  <2> QED
    BY <2>1, <2>2
<1>2. ASSUME NEW t \in Caller, StopCancel(t) \/ StartSubmit(t) PROVE job'[j] = job[j]
  BY <1>0, <1>2 DEF StopCancel, StartSubmit, Live, TypeOK
<1>3. ASSUME NEW t \in Caller, CallStep(t), ~StopCancel(t), ~StartSubmit(t)
      PROVE  job' = job
  BY <1>3
  DEF CallStep, CreateDone, CreateFail, StartFail, StartReplyLost, StartRecordPid,
      StartCommit, StopFail, StopExit, StatusQuery, StatusApply, PanicSacct, Restart,
      Update, Answer
<1>4. ASSUME NEW t \in Caller, NEW c \in Container, CallBegin(t, c) PROVE job' = job
  BY <1>4
  DEF CallBegin, CreateBegin, CreateContainerMetadata, StartBegin, StopBegin,
      StatusBegin, PanicUnknown, Restart, CreateCMDFails
<1>5. CASE Crash \/ UNCHANGED vars
  BY <1>5 DEF Crash, Restart, Failed, vars
<1>6. CASE job' = job \/ job'[j] = job[j]
  BY <1>6 DEF Failed
<1> QED
  BY <1>1, <1>2, <1>3, <1>4, <1>5, <1>6 DEF Next

\* What slurmctld says of a job that failed, and what is taken from its silence.
LEMMA NewsStep ==
  ASSUME IInv, NewsIsTrue, ~SshMayFail, [Next]_vars
  PROVE  NewsIsTrue'
<1> SUFFICES ASSUME NEW t \in Caller, call'[t].pc = "apply",
                    call'[t].obs \in {"FAILED", "CANCELLED", "ERROR"}
             PROVE  Failed(call[t].job)'
  BY DEF NewsIsTrue
<1> USE DEF IInv
<1>1. CASE StatusQuery(t)
  <2>1. PICK o \in Sstatus(call[t].job) :
          call' = [call EXCEPT ![t] = [@ EXCEPT !.pc = "apply", !.obs = o]]
    BY <1>1 DEF StatusQuery
  <2>2. /\ call'[t].job = call[t].job /\ call'[t].obs = o /\ job' = job
        /\ call[t].pc = "query"
    <3>1. call[t] \in Call /\ call'[t] = [call[t] EXCEPT !.pc = "apply", !.obs = o]
      BY <2>1 DEF TypeOK
    <3>2. call'[t].job = call[t].job /\ call'[t].obs = o
      BY <3>1 DEF Call
    <3> QED
      BY <1>1, <3>2 DEF StatusQuery
  <2>3. call[t].job \in JobId
    BY <2>2 DEF CallsAreSound, TypeOK, Call
  <2>4. Failed(call[t].job)
    <3>1. o = JobState(call[t].job) \/ job[call[t].job].phase = "PURGED"
      BY <2>1, <2>3 DEF Sstatus
    <3>2. job[call[t].job] \in Job /\ o \in {"FAILED", "CANCELLED", "ERROR"}
      BY <2>2, <2>3 DEF TypeOK
    <3>3. CASE o = JobState(call[t].job)
      <4>1. job[call[t].job].phase = "ENDED"
        BY <3>2, <3>3 DEF JobState, Job, JobPhase
      <4>2. job[call[t].job].result = o
        BY <3>3, <4>1 DEF JobState
      <4> QED
        BY <3>2, <4>1, <4>2 DEF Failed, Job, JobResult
    <3>4. CASE job[call[t].job].phase = "PURGED"
      BY <3>4 DEF Failed
    <3> QED
      BY <3>1, <3>3, <3>4
  <2> QED
    BY <2>2, <2>4 DEF Failed
<1>2. CASE call'[t] = call[t]
  <2>1. PICK j \in JobId : j = call[t].job
    BY <1>2 DEF CallsAreSound, TypeOK, Call
  <2>2. Failed(j)
    BY <1>2, <2>1 DEF NewsIsTrue
  <2>3. Failed(j)'
    BY <2>2, FailedStays
  <2> QED
    BY <1>2, <2>1, <2>3 DEF Failed
<1>3. ASSUME ~StatusQuery(t) PROVE call'[t] = call[t]
  <2>1. ASSUME NEW u \in Caller, CallStep(u), u = t PROVE FALSE
    <3>1. ASSUME NEW pc, GoTo(t, pc) PROVE call'[t].pc = pc
      BY <3>1 DEF GoTo, TypeOK, Call
    <3>2. CASE CreateFail(t) \/ StopFail(t) \/ Answer(t) \/ PanicSacct(t)
      BY <3>2 DEF CreateFail, StopFail, Answer, PanicSacct, Restart, Return, Idle, TypeOK
    <3>3. CASE StartSubmit(t)
      BY <3>3 DEF StartSubmit, TypeOK, Call
    <3> QED
      BY <1>3, <2>1, <3>1, <3>2, <3>3
      DEF CallStep, CreateDone, StartFail, StartReplyLost, StartRecordPid, StartCommit,
          StopCancel, StopExit, StatusApply, Update
  <2>2. ASSUME NEW u \in Caller, CallStep(u), u # t
        PROVE  call'[t] = call[t] \/ call'[t] = Idle
    BY <2>2
    DEF CallStep, CreateDone, CreateFail, StartFail, StartSubmit, StartReplyLost,
        StartRecordPid, StartCommit, StopCancel, StopFail, StopExit, StatusQuery,
        StatusApply, PanicSacct, Restart, Update, Answer, GoTo, Return, TypeOK
  <2>3. ASSUME NEW u \in Caller, NEW c \in Container, CallBegin(u, c)
        PROVE  call'[t] = call[t] \/ call'[t].pc # "apply"
    BY <2>3
    DEF CallBegin, CreateBegin, CreateContainerMetadata, StartBegin, StopBegin,
        StatusBegin, PanicUnknown, Restart, CreateCMDFails, Request, Idle, TypeOK
  <2>4. ASSUME NEW j \in JobId, JobStep(j) PROVE call' = call
    BY <2>4 DEF JobStep, JobRun, JobFinish, JobEnd, JobPurge
  <2>5. CASE Crash
    BY <2>5 DEF Crash, Restart, Idle
  <2> QED
    BY <2>1, <2>2, <2>3, <2>4, <2>5 DEF Next, vars, Idle
<1> QED
  BY <1>1, <1>2, <1>3

\* Where exit code 1 of a record comes from, and what is put into the file.
LEMMA ExitMoves ==
  ASSUME IInv, FailInv, ~SshMayFail, [Next]_vars, NEW c \in Container
  PROVE  /\ disk'[c] \in {disk[c], mem'[c]}
         /\ mem'[c].exit = 1 /\ mem'[c].pid # 0 =>
              \/ mem'[c].pid = mem[c].pid /\ mem[c].exit = 1
              \/ mem'[c] = disk[c]
              \/ \E j \in JobId : mem'[c].pid = j /\ Failed(j)
<1> USE DEF IInv, TypeOK
<1> DEFINE Good == /\ disk'[c] \in {disk[c], mem'[c]}
                   /\ mem'[c].exit = 1 /\ mem'[c].pid # 0 =>
                        \/ mem'[c].pid = mem[c].pid /\ mem[c].exit = 1
                        \/ mem'[c] = disk[c]
                        \/ \E j \in JobId : mem'[c].pid = j /\ Failed(j)
<1>0. mem[c] \in Metadata
  OBVIOUS
<1>1. CASE mem'[c] = mem[c] /\ disk'[c] \in {disk[c], mem'[c]}
  BY <1>1
<1>2. c \in NoCreds => mem[c].pid = 0
  BY DEF PidsAreOwn, StartsAreUnique, Owns
<1>3. CASE Restart
  BY <1>3 DEF Restart, Absent
<1>4. ASSUME NEW t \in Caller, StartFail(t) PROVE Good
  <2>1. call[t].c \in Container /\ mem[call[t].c].pid = 0
    BY <1>4 DEF StartFail, CallsAreSound, StartsAreFresh, Starting
  <2> QED
    BY <1>0, <1>4, <2>1, SetFailedEffect DEF StartFail
<1>5. ASSUME NEW t \in Caller, StartRecordPid(t) PROVE Good
  <2>1. call[t].c \in Container /\ mem[call[t].c].exit = 0
    BY <1>5 DEF StartRecordPid, CallsAreSound, Starting, FailInv, FailuresFit
  <2>2. mem'[c] = mem[c] \/ mem'[c].exit = 0
    BY <1>0, <1>5, <2>1 DEF StartRecordPid, Metadata
  <2>3. disk' = disk
    BY <1>5 DEF StartRecordPid
  <2> HIDE DEF IInv, TypeOK
  <2>4. CASE mem'[c] = mem[c]
    BY <2>3, <2>4
  <2>5. CASE mem'[c].exit = 0
    BY <2>3, <2>5
  <2> QED
    BY <2>2, <2>4, <2>5
<1>6. ASSUME NEW t \in Caller, StartCommit(t) \/ StopExit(t) PROVE Good
  BY <1>0, <1>6 DEF StartCommit, StopExit, SetState, Metadata
<1>7. ASSUME NEW t \in Caller, StatusApply(t) PROVE Good
  <2>1. call[t].c = c => mem[c].pid = call[t].job /\ call[t].job \in JobId
    BY <1>7 DEF StatusApply, CallsAreSound, Call
  <2>2. CASE call[t].c = c
    <3>1. /\ mem'[c].pid = mem[c].pid
          /\ mem'[c].exit = ExitCodeOf(call[t].obs, mem[c].exit)
      BY <1>0, <1>7, <2>2 DEF StatusApply, WithAnswer, Metadata
    <3>2. CASE call[t].obs \in {"FAILED", "CANCELLED", "ERROR"}
      BY <1>7, <2>1, <2>2, <3>1, <3>2 DEF StatusApply, FailInv, NewsIsTrue
    <3>3. CASE call[t].obs \notin {"FAILED", "CANCELLED", "ERROR"}
      BY <1>7, <3>1, <3>3 DEF StatusApply, ExitCodeOf
    <3> QED
      BY <3>2, <3>3
  <2>3. CASE call[t].c # c
    BY <1>7, <2>3 DEF StatusApply
  <2> QED
    BY <2>2, <2>3
<1>8. ASSUME NEW t \in Caller, CallStep(t) PROVE Good
  <2>1. CASE CreateDone(t) \/ Update(t)
    BY <2>1 DEF CreateDone, Update, Persist
  <2>2. CASE CreateFail(t) \/ StartSubmit(t) \/ StopCancel(t) \/ StopFail(t)
             \/ StatusQuery(t) \/ Answer(t)
    BY <2>2 DEF CreateFail, StartSubmit, StopCancel, StopFail, StatusQuery, Answer
  <2> QED
    BY <1>3, <1>4, <1>5, <1>6, <1>7, <1>8, <2>1, <2>2
    DEF CallStep, StartReplyLost, PanicSacct
<1>9. ASSUME NEW t \in Caller, NEW d \in Container, CallBegin(t, d) PROVE Good
  <2>1. CASE CreateBegin(t, d)
    BY <1>0, <2>1 DEF CreateBegin, CreateContainerMetadata, Persist, Absent
  <2>2. CASE StartBegin(t, d) \/ StatusBegin(t, d)
    <3>1. disk' = disk /\ (mem' = mem \/ (d \in NoCreds /\ SetFailed(d)))
      BY <2>2 DEF StartBegin, StatusBegin, CreateCMDFails
    <3>2. CASE d \in NoCreds /\ SetFailed(d)
      BY <1>0, <1>2, <3>1, <3>2, SetFailedEffect
    <3> QED
      BY <3>1, <3>2
  <2>3. CASE StopBegin(t, d)
    BY <2>3 DEF StopBegin
  <2> QED
    BY <1>3, <1>9, <2>1, <2>2, <2>3 DEF CallBegin, PanicUnknown
<1>10. ASSUME NEW j \in JobId, JobStep(j) PROVE UNCHANGED <<mem, disk>>
  BY <1>10 DEF JobStep, JobRun, JobFinish, JobEnd, JobPurge
<1> QED
  BY <1>1, <1>3, <1>8, <1>9, <1>10 DEF Next, Crash, vars

\* A container that may still get a job could get one before, and has no exit
\* code.
LEMMA AwaitingMoves ==
  ASSUME IInv, FailInv, ~SshMayFail, StartOnce, [Next]_vars, NEW c \in Container,
         (c \notin NoCreds /\ life'[c] # "started")
           \/ (\E t \in Caller : call'[t].c = c /\ call'[t].pc \in {"submit", "submitted"})
  PROVE  /\ (c \notin NoCreds /\ life[c] # "started") \/ (\E t \in Caller : Starting(t, c))
         /\ mem'[c].exit \in {0, mem[c].exit, disk[c].exit}
<1> USE DEF IInv, TypeOK
<1>0. mem[c] \in Metadata
  OBVIOUS
<1>1. ASSUME NEW t \in Caller, CallStep(t), ~Restart
      PROVE  /\ life[c] = "started" => life'[c] = "started"
             /\ \A u \in Caller : call'[u].c = c /\ call'[u].pc \in {"submit", "submitted"}
                                    => Starting(u, c)
  <2>1. \A u \in Caller : u # t => call'[u] = call[u]
    BY <1>1
    DEF CallStep, CreateDone, CreateFail, StartFail, StartSubmit, StartReplyLost,
        StartRecordPid, StartCommit, StopCancel, StopFail, StopExit, StatusQuery,
        StatusApply, PanicSacct, Update, Answer, GoTo, Return
  <2>2. CASE StartSubmit(t)
    BY <2>1, <2>2 DEF StartSubmit, Starting, Call
  <2>3. CASE CreateFail(t) \/ StopFail(t) \/ Answer(t)
    BY <2>1, <2>3 DEF CreateFail, StopFail, Answer, Return, Idle, Starting
  <2>4. CASE StatusQuery(t)
    BY <2>1, <2>4 DEF StatusQuery, Starting, Call
  <2>5. CASE CreateDone(t)
    <3>1. life[call[t].c] = "listed" /\ call'[t].pc = "answer"
      BY <2>5 DEF CreateDone, Bookkeeping, GoTo, Call
    <3> QED
      BY <2>1, <2>5, <3>1 DEF CreateDone, Starting
  <2>6. CASE StartFail(t) \/ StartRecordPid(t) \/ StartCommit(t) \/ StopCancel(t)
             \/ StopExit(t) \/ StatusApply(t) \/ Update(t)
    <3>1. call'[t].pc \in {"update", "recorded", "cancelled", "answer"} /\ life' = life
      BY <2>6
      DEF StartFail, StartRecordPid, StartCommit, StopCancel, StopExit, StatusApply,
          Update, GoTo, Call
    <3> QED
      BY <2>1, <3>1 DEF Starting
  <2> QED
    BY <1>1, <2>2, <2>3, <2>4, <2>5, <2>6 DEF CallStep, StartReplyLost, PanicSacct
<1>2. ASSUME NEW t \in Caller, NEW d \in Container, CallBegin(t, d), ~Restart
      PROVE  /\ life[c] = "started" => life'[c] = "started"
             /\ \A u \in Caller : call'[u].c = c /\ call'[u].pc \in {"submit", "submitted"}
                  => Starting(u, c) \/ (c \notin NoCreds /\ life[c] # "started")
  <2>1. CASE CreateBegin(t, d)
    BY <2>1 DEF CreateBegin, CreateContainerMetadata, Request, Starting
  <2>2. CASE StartBegin(t, d)
    <3>1. /\ \A u \in Caller : u # t => call'[u] = call[u]
          /\ call'[t].c = d /\ life' = [life EXCEPT ![d] = "started"]
          /\ d \in NoCreds => call'[t].pc = "update"
          /\ life[d] = "made"
      BY <2>2 DEF StartBegin, StartAllowed, CreateCMDFails, Request
    <3> QED
      BY <3>1 DEF Starting
  <2>3. CASE StopBegin(t, d) \/ StatusBegin(t, d)
    BY <2>3 DEF StopBegin, StatusBegin, CreateCMDFails, Request, Starting
  <2> QED
    BY <1>2, <2>1, <2>2, <2>3 DEF CallBegin, PanicUnknown
<1>3. CASE Restart
  BY <1>3 DEF Restart, Idle, Absent
<1>4. ASSUME NEW j \in JobId, JobStep(j) PROVE UNCHANGED <<mem, disk, call, life>>
  BY <1>4 DEF JobStep, JobRun, JobFinish, JobEnd, JobPurge
<1>5. (c \notin NoCreds /\ life[c] # "started") \/ (\E t \in Caller : Starting(t, c))
  BY <1>1, <1>2, <1>3, <1>4 DEF Next, Crash, vars, Starting
<1>6. /\ mem[c].exit = 0 /\ disk[c].exit = 0 /\ c \notin NoCreds
      /\ \A t \in Caller : call[t].c = c => call[t].pc # "apply"
  <2>1. mem[c].exit = 0 /\ disk[c].exit = 0
    BY <1>5 DEF FailInv, FailuresFit
  <2>2. c \notin NoCreds
    BY <1>5 DEF StartsAreUnique
  <2>3. mem[c].pid = 0
    BY <1>5 DEF StartsAreFresh, StartsAreUnique, PidsAreOwn, Owns
  <2> QED
    BY <2>1, <2>2, <2>3 DEF CallsAreSound
<1>7. mem'[c].exit \in {0, mem[c].exit, disk[c].exit}
  <2>1. ASSUME NEW t \in Caller, StartFail(t) PROVE call[t].c # c
    <3>1. SUFFICES ASSUME call[t].c = c PROVE FALSE
      OBVIOUS
    <3>2. Starting(t, c) /\ life[c] = "started" /\ life' = life
      BY <2>1, <3>1 DEF StartFail, Starting, StartsAreUnique
    <3>3. PICK u \in Caller : call'[u].c = c /\ call'[u].pc \in {"submit", "submitted"}
      BY <3>2
    <3>4. call'[t].pc = "update" /\ \A v \in Caller : v # t => call'[v] = call[v]
      BY <2>1 DEF StartFail, GoTo, Call
    <3>5. u # t /\ Starting(u, c)
      BY <3>3, <3>4 DEF Starting
    <3> QED
      BY <3>2, <3>5 DEF StartsAreUnique
  <2>2. ASSUME NEW t \in Caller, StatusApply(t) PROVE mem'[c] = mem[c]
    BY <1>6, <2>2 DEF StatusApply
  <2>3. ASSUME NEW t \in Caller, CallStep(t) PROVE mem'[c].exit \in {0, mem[c].exit, disk[c].exit}
    <3>1. CASE StartFail(t)
      BY <2>1, <3>1 DEF StartFail, SetFailed
    <3>2. CASE StartRecordPid(t) \/ StartCommit(t) \/ StopExit(t)
      BY <1>0, <3>2 DEF StartRecordPid, StartCommit, StopExit, SetState, Metadata
    <3>3. CASE PanicSacct(t)
      BY <3>3 DEF PanicSacct, Restart, Absent
    <3>4. CASE CreateDone(t) \/ Update(t) \/ CreateFail(t) \/ StartSubmit(t)
               \/ StopCancel(t) \/ StopFail(t) \/ StatusQuery(t) \/ Answer(t)
      BY <3>4
      DEF CreateDone, Update, CreateFail, StartSubmit, StopCancel, StopFail,
          StatusQuery, Answer
    <3> QED
      BY <2>2, <2>3, <3>1, <3>2, <3>3, <3>4 DEF CallStep, StartReplyLost
  <2>4. ASSUME NEW t \in Caller, NEW d \in Container, CallBegin(t, d)
        PROVE  mem'[c].exit \in {0, mem[c].exit, disk[c].exit}
    <3>1. CASE CreateBegin(t, d)
      BY <3>1 DEF CreateBegin, CreateContainerMetadata, Absent
    <3>2. CASE StartBegin(t, d) \/ StatusBegin(t, d)
      BY <1>6, <3>2 DEF StartBegin, StatusBegin, CreateCMDFails, SetFailed
    <3>3. CASE StopBegin(t, d) \/ PanicUnknown(t, d)
      BY <3>3 DEF StopBegin, PanicUnknown, Restart, Absent
    <3> QED
      BY <2>4, <3>1, <3>2, <3>3 DEF CallBegin
  <2>5. CASE Crash
    BY <2>5 DEF Crash, Restart, Absent
  <2> QED
    BY <2>3, <2>4, <2>5, <1>4 DEF Next, vars
<1> QED
  BY <1>5, <1>7

LEMMA FailStep ==
  ASSUME IInv, IInv', FailInv, ~SshMayFail, StartOnce, [Next]_vars
  PROVE  FailInv'
<1>1. NewsIsTrue'
  BY NewsStep DEF FailInv
<1>2. ASSUME NEW c \in Container PROVE FailuresFit(c)'
  <2>1. ASSUME mem'[c].exit = 1, mem'[c].pid # 0 PROVE Failed(mem[c].pid)'
    <3>1. PICK j \in JobId : j = mem'[c].pid /\ Failed(j)
      <4>1. mem'[c].pid \in JobId
        BY <2>1 DEF IInv, TypeOK, Metadata
      <4> QED
        BY <2>1, <4>1, ExitMoves DEF FailInv, FailuresFit
    <3>2. Failed(j)'
      BY <3>1, FailedStays DEF IInv
    <3> QED
      BY <3>1, <3>2 DEF Failed
  <2>2. ASSUME disk'[c].exit = 1, disk'[c].pid # 0 PROVE Failed(disk[c].pid)'
    <3>1. CASE disk'[c] = mem'[c]
      BY <2>1, <2>2, <3>1 DEF Failed
    <3>2. CASE disk'[c] = disk[c]
      <4>1. PICK j \in JobId : j = disk'[c].pid /\ Failed(j)
        BY <2>2, <3>2 DEF IInv, TypeOK, Metadata, FailInv, FailuresFit
      <4>2. Failed(j)'
        BY <4>1, FailedStays DEF IInv
      <4> QED
        BY <4>1, <4>2 DEF Failed
    <3> QED
      BY <3>1, <3>2, ExitMoves
  <2>3. ASSUME (c \notin NoCreds /\ life'[c] # "started")
                 \/ (\E t \in Caller : call'[t].c = c /\ call'[t].pc \in {"submit", "submitted"})
        PROVE  mem'[c].exit = 0 /\ disk'[c].exit = 0
    BY <2>3, AwaitingMoves, ExitMoves DEF FailInv, FailuresFit
  <2> QED
    BY <2>1, <2>2, <2>3 DEF FailuresFit, Starting
<1> QED
  BY <1>1, <1>2 DEF FailInv

LEMMA FailInit == Init => FailInv
  BY DEF Init, FailInv, NewsIsTrue, FailuresFit, Idle, Absent
=============================================================================
