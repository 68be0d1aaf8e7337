-------------------------- MODULE ContainerService --------------------------
(***************************************************************************)
(* The container half of the CRI service when it runs on the Slurm         *)
(* adapter: CreateContainer, StartContainer, StopContainer and             *)
(* ContainerStatus of runtime/container.go, the adapter calls they make    *)
(* (adapters/slurm/container.go, adapters/slurm/cmd/cmd.go), the container *)
(* store with its cache file, and the batch jobs of the cluster.           *)
(*                                                                         *)
(* Every request runs on a goroutine of its own.  A handler fetches the    *)
(* POINTER to the metadata kept in the pool, and the store's lock covers   *)
(* the map only, so handlers of one container read and write the same      *)
(* fields.  A step of this model is the code between two points where      *)
(* another goroutine can usefully get in: a remote command, a lock of the  *)
(* store, the answer.                                                      *)
(*                                                                         *)
(* Covered: overlapping calls, a server that dies at any point and is      *)
(* started again, remote commands that fail or whose reply is lost, a job  *)
(* that slurmctld has forgotten.  Not covered: containers that another CRI *)
(* serves (the remote path returns before any of this code runs), clock    *)
(* values, log files.                                                      *)
(***************************************************************************)
EXTENDS Integers

CONSTANTS
  Container,      \* container identifiers (uuids the service generates)
  Caller,         \* slots for requests being served at the same time
  JobId,          \* identifiers sbatch hands out; 0 is Go's zero Pid: no job
  NoContainer,    \* what an idle slot works on
  NoCreds,        \* containers whose environment has neither key nor password
  Persistence,    \* --enable-pod-persistence: the pool is kept on disk too
  Overlap,        \* containers whose calls may overlap; the others get one at a time
  SshMayFail,     \* a remote command may fail, or its reply be lost or unreadable
  StartOnce,      \* the kubelet starts a container at most once
  MayCrash,       \* the server may die at any time (systemd restarts it)
  MayPurge        \* slurmctld forgets a job some time after its end (MinJobAge)

ASSUME IdAssumption ==
  /\ 0 \notin JobId
  /\ NoContainer \notin Container
  /\ NoCreds \subseteq Container
  /\ Overlap \subseteq Container

ASSUME SwitchAssumption ==
  {Persistence, SshMayFail, StartOnce, MayCrash, MayPurge} \subseteq BOOLEAN

VARIABLES
  mem,    \* containerStore.ContainerPool: the record behind each pointer
  disk,   \* the cache file behind the pool
  job,    \* the cluster's jobs
  call,   \* the requests being served
  life    \* what the kubelet has asked for each container so far

vars == <<mem, disk, job, call, life>>

-----------------------------------------------------------------------------
(* Records *)

ContainerState == {"NONE", "CREATED", "RUNNING", "EXITED"}
JobPhase       == {"none", "PENDING", "RUNNING", "COMPLETING", "ENDED", "PURGED"}
\* TIMEOUT is treated as CANCELLED and NODE_FAIL as FAILED by the adapter, which
\* knows none of Slurm's other final states (OUT_OF_MEMORY, PREEMPTED, DEADLINE,
\* BOOT_FAIL): "UNLISTED".
JobResult      == {"none", "COMPLETED", "FAILED", "CANCELLED", "UNLISTED"}
\* What the adapter can take from scontrol or sacct.
View           == {"none", "PENDING", "RUNNING", "COMPLETING", "COMPLETED",
                   "FAILED", "CANCELLED", "UNLISTED", "SACCT", "ERROR"}
Op             == {"idle", "Create", "Start", "Stop", "Status"}
Pc             == {"idle", "pulling", "submit", "submitted", "recorded", "scancel",
                   "cancelled", "query", "apply", "update", "answer"}
Life           == {"fresh", "listed", "made", "started"}

Metadata == [state : ContainerState, pid : JobId \cup {0}, exit : {0, 1}]
Job      == [owner : Container \cup {NoContainer}, phase : JobPhase, result : JobResult]
\* late is history, not code: the container was EXITED when the call came in.
Call     == [op : Op, c : Container \cup {NoContainer}, pc : Pc,
             job : JobId \cup {0}, obs : View, late : BOOLEAN]

Absent == [state |-> "NONE", pid |-> 0, exit |-> 0]
NoJob  == [owner |-> NoContainer, phase |-> "none", result |-> "none"]
Idle   == [op |-> "idle", c |-> NoContainer, pc |-> "idle", job |-> 0,
           obs |-> "none", late |-> FALSE]

Request(op, c, pc, j) ==
  [op |-> op, c |-> c, pc |-> pc, job |-> j, obs |-> "none",
   late |-> mem[c].state = "EXITED"]

\* A job that still holds or waits for resources.
Live(j) == j \in JobId /\ job[j].phase \in {"PENDING", "RUNNING"}

Init ==
  /\ mem  = [c \in Container |-> Absent]
  /\ disk = [c \in Container |-> Absent]
  /\ job  = [j \in JobId |-> NoJob]
  /\ call = [t \in Caller |-> Idle]
  /\ life = [c \in Container |-> "fresh"]

-----------------------------------------------------------------------------
(* Pieces the handlers share *)

\* A free slot takes a request for c.
MayBegin(t, c) ==
  /\ call[t] = Idle
  /\ c \in Overlap \/ \A u \in Caller : call[u].c # c

GoTo(t, pc) == call' = [call EXCEPT ![t].pc = pc]

\* cm.State = ..., through the shared pointer.
SetState(c, s) == mem' = [mem EXCEPT ![c].state = s]
SetFailed(c)   == mem' = [mem EXCEPT ![c] = [@ EXCEPT !.state = "EXITED", !.exit = 1]]

\* CreateCMD: no client without a key or a password.
CreateCMDFails(c) == c \in NoCreds

\* persist.Put: the disk copy follows the pool when there is one.
Persist(c) == disk' = IF Persistence THEN [disk EXCEPT ![c] = mem'[c]] ELSE disk

\* containerStore.Update(cm), the last write of Start, Stop and Status.
Update(t) ==
  /\ call[t].pc = "update"
  /\ UNCHANGED <<mem, job, life>>
  /\ Persist(call[t].c)
  /\ GoTo(t, "answer")

\* The goroutine ends.
Return(t) == call' = [call EXCEPT ![t] = Idle]

\* The response leaves.
Answer(t) ==
  /\ call[t].pc = "answer"
  /\ Return(t)
  /\ UNCHANGED <<mem, disk, job, life>>

-----------------------------------------------------------------------------
(* CreateContainer *)

\* A record of its own, under a fresh id, added to the pool and the file.
CreateContainerMetadata(c) ==
  /\ mem' = [mem EXCEPT ![c] = [Absent EXCEPT !.state = "CREATED"]]
  /\ Persist(c)

\* The record is in the pool, where every other handler sees it, before the
\* adapter pulls the image on the cluster.
CreateBegin(t, c) ==
  /\ MayBegin(t, c)
  /\ life[c] = "fresh"
  /\ CreateContainerMetadata(c)
  /\ call' = [call EXCEPT ![t] = Request("Create", c, "pulling", 0)]
  /\ life' = [life EXCEPT ![c] = "listed"]
  /\ UNCHANGED job

\* adapter.CreateContainer returned nil: Update, and the kubelet gets the id.
CreateDone(t) ==
  /\ call[t].pc = "pulling"
  /\ life' = [life EXCEPT ![call[t].c] = "made"]
  /\ UNCHANGED <<mem, job>>
  /\ Persist(call[t].c)
  /\ GoTo(t, "answer")

\* adapter.CreateContainer failed: the error goes out, the record stays.
CreateFail(t) ==
  /\ call[t].pc = "pulling"
  /\ Return(t)
  /\ UNCHANGED <<mem, disk, job, life>>

-----------------------------------------------------------------------------
(* StartContainer *)

StartAllowed(c) ==
  /\ mem[c].state = "CREATED"
  /\ life[c] \in IF StartOnce THEN {"made"} ELSE {"made", "started"}

\* The guards on cm.State.  Without credentials CreateCMD fails before
\* anything is sent.
StartBegin(t, c) ==
  /\ MayBegin(t, c)
  /\ StartAllowed(c)
  /\ life' = [life EXCEPT ![c] = "started"]
  /\ \/ /\ CreateCMDFails(c)
        /\ SetFailed(c)
        /\ call' = [call EXCEPT ![t] = Request("Start", c, "update", 0)]
     \/ /\ ~CreateCMDFails(c)
        /\ call' = [call EXCEPT ![t] = Request("Start", c, "submit", 0)]
        /\ UNCHANGED mem
  /\ UNCHANGED <<disk, job>>

\* The script could not be copied, or sbatch refused it: no job.
StartFail(t) ==
  /\ call[t].pc = "submit"
  /\ SetFailed(call[t].c)
  /\ GoTo(t, "update")
  /\ UNCHANGED <<disk, job, life>>

\* Mutant: sbatch is run again when it was slow to answer.
StartSubmitAgain(t) ==
  /\ call[t].pc = "submit"
  /\ \E j \in JobId, pc \in {"submit", "submitted"} :
       /\ job[j].phase = "none"
       /\ job' = [job EXCEPT ![j] = [owner |-> call[t].c, phase |-> "PENDING",
                                     result |-> "none"]]
       /\ call' = [call EXCEPT ![t] = [@ EXCEPT !.pc = pc, !.job = j]]
  /\ UNCHANGED <<mem, disk, life>>

\* sbatch ran on the cluster.
StartSubmit(t) ==
  /\ call[t].pc = "submit"
  /\ \E j \in JobId :
       /\ job[j].phase = "none"
       /\ job' = [job EXCEPT ![j] = [owner |-> call[t].c, phase |-> "PENDING",
                                     result |-> "none"]]
       /\ call' = [call EXCEPT ![t] = [@ EXCEPT !.pc = "submitted", !.job = j]]
  /\ UNCHANGED <<mem, disk, life>>

\* Its reply never arrives, comes with output on stderr, or holds no number
\* (then Pid is set to 0 before the error is returned).
StartReplyLost(t) ==
  /\ SshMayFail
  /\ call[t].pc = "submitted"
  /\ \E p \in {mem[call[t].c].pid, 0} :
       mem' = [mem EXCEPT ![call[t].c] =
                 [@ EXCEPT !.state = "EXITED", !.exit = 1, !.pid = p]]
  /\ GoTo(t, "update")
  /\ UNCHANGED <<disk, job, life>>

\* Mutant: the number sbatch printed is dropped.
StartForgetPid(t) ==
  /\ call[t].pc = "submitted"
  /\ GoTo(t, "recorded")
  /\ UNCHANGED <<mem, disk, job, life>>

\* cm.Pid = pid, the adapter's last assignment.
StartRecordPid(t) ==
  /\ call[t].pc = "submitted"
  /\ mem' = [mem EXCEPT ![call[t].c].pid = call[t].job]
  /\ GoTo(t, "recorded")
  /\ UNCHANGED <<disk, job, life>>

\* Mutant: Update is not called for a container that was started.
StartCommitNoUpdate(t) ==
  /\ call[t].pc = "recorded"
  /\ SetState(call[t].c, "RUNNING")
  /\ GoTo(t, "answer")
  /\ UNCHANGED <<disk, job, life>>

\* cm.State = RUNNING, whatever the state has become since the guard.
StartCommit(t) ==
  /\ call[t].pc = "recorded"
  /\ SetState(call[t].c, "RUNNING")
  /\ GoTo(t, "update")
  /\ UNCHANGED <<disk, job, life>>

-----------------------------------------------------------------------------
(* StopContainer *)

\* Anything but RUNNING is answered at once, and nothing is cancelled.
StopBegin(t, c) ==
  /\ MayBegin(t, c)
  /\ mem[c].state # "NONE"
  /\ LET pc == IF mem[c].state = "RUNNING" THEN "scancel" ELSE "answer"
     IN call' = [call EXCEPT ![t] = Request("Stop", c, pc, mem[c].pid)]
  /\ UNCHANGED <<mem, disk, job, life>>

\* Mutant: a job that still waits is not cancelled.
StopCancelRunningOnly(t) ==
  /\ call[t].pc = "scancel"
  /\ LET j == call[t].job
     IN job' = IF j \in JobId /\ job[j].phase = "RUNNING"
                 THEN [job EXCEPT ![j] = [@ EXCEPT !.phase = "COMPLETING",
                                                   !.result = "CANCELLED"]]
                 ELSE job
  /\ GoTo(t, "cancelled")
  /\ UNCHANGED <<mem, disk, life>>

\* scancel reaches slurmctld.  A waiting job ends, a running one winds up; on
\* any other job the command has no effect.
StopCancel(t) ==
  /\ call[t].pc = "scancel"
  /\ LET j == call[t].job
         next == IF job[j].phase = "PENDING" THEN "ENDED" ELSE "COMPLETING"
     IN job' = IF Live(j)
                 THEN [job EXCEPT ![j] = [@ EXCEPT !.phase = next, !.result = "CANCELLED"]]
                 ELSE job
  /\ GoTo(t, "cancelled")
  /\ UNCHANGED <<mem, disk, life>>

\* scancel (or CreateCMD) failed, or printed to stderr: the error is returned
\* and the state stays.
StopFail(t) ==
  /\ \/ call[t].pc = "scancel" /\ (SshMayFail \/ ~Live(call[t].job))
     \/ call[t].pc = "cancelled" /\ SshMayFail
  /\ Return(t)
  /\ UNCHANGED <<mem, disk, job, life>>

StopExit(t) ==
  /\ call[t].pc = "cancelled"
  /\ SetState(call[t].c, "EXITED")
  /\ GoTo(t, "update")
  /\ UNCHANGED <<disk, job, life>>

-----------------------------------------------------------------------------
(* ContainerStatus *)

\* Mutant: an EXITED container is asked about like any other.
StatusBeginUnguarded(t, c) ==
  /\ MayBegin(t, c)
  /\ mem[c].state # "NONE"
  /\ LET pc == IF ~CreateCMDFails(c) /\ mem[c].pid # 0 THEN "query" ELSE "update"
     IN call' = [call EXCEPT ![t] = Request("Status", c, pc, mem[c].pid)]
  /\ IF CreateCMDFails(c) THEN SetFailed(c) ELSE UNCHANGED mem
  /\ UNCHANGED <<disk, job, life>>

\* An EXITED container is not asked about again; nor is one without a Pid.
\* A container without credentials fails in CreateCMD and is marked EXITED.
StatusBegin(t, c) ==
  /\ MayBegin(t, c)
  /\ mem[c].state # "NONE"
  /\ LET asks  == mem[c].state # "EXITED"
         pc    == IF asks /\ ~CreateCMDFails(c) /\ mem[c].pid # 0
                    THEN "query" ELSE "update"
     IN /\ call' = [call EXCEPT ![t] = Request("Status", c, pc, mem[c].pid)]
        /\ IF asks /\ CreateCMDFails(c) THEN SetFailed(c) ELSE UNCHANGED mem
  /\ UNCHANGED <<disk, job, life>>

\* JobState as scontrol prints it: COMPLETING hides the result to come.
JobState(j) == IF job[j].phase = "ENDED" THEN job[j].result ELSE job[j].phase

\* Sstatus: scontrol, and sacct when scontrol fails.  A readable sacct line is
\* "SACCT" (its JobState is a date), an unreadable one or a second failure is
\* "ERROR".
Sstatus(j) ==
  LET known == j \in JobId /\ job[j].phase # "PURGED"
  IN (IF known THEN {JobState(j)} ELSE {})
       \cup (IF SshMayFail \/ ~known THEN {"SACCT", "ERROR"} ELSE {})

StatusQuery(t) ==
  /\ call[t].pc = "query"
  /\ \E o \in Sstatus(call[t].job) :
       call' = [call EXCEPT ![t] = [@ EXCEPT !.pc = "apply", !.obs = o]]
  /\ UNCHANGED <<mem, disk, job, life>>

\* Mutants: COMPLETED is missing from the mapping; an exit code that does not
\* parse becomes -1; a job that winds up counts as failed.
ContainerStateWithoutCompleted(o) ==
  CASE o = "RUNNING"                                         -> "RUNNING"
    [] o \in {"COMPLETING", "CANCELLED", "FAILED", "ERROR"} -> "EXITED"
    [] OTHER                                                 -> "CREATED"
ExitCodeUnparsed(o, old) ==
  IF o \in {"COMPLETED", "COMPLETING"} THEN -1
  ELSE IF o \in {"CANCELLED", "FAILED", "ERROR"} THEN 1 ELSE old
ExitCodeOfCompletingFails(o, old) ==
  IF o = "COMPLETED" THEN 0
  ELSE IF o \in {"COMPLETING", "CANCELLED", "FAILED", "ERROR"} THEN 1 ELSE old

\* The adapter's mapping of JobState, where every state it does not list is
\* CREATED, and manageContainerError.  The exit code scontrol prints ("0:0")
\* never parses, so status.ExitCode is 0.
ContainerStateOf(o) ==
  CASE o = "RUNNING" -> "RUNNING"
    [] o \in {"COMPLETED", "COMPLETING", "CANCELLED", "FAILED", "ERROR"} -> "EXITED"
    [] OTHER -> "CREATED"
ExitCodeOf(o, old) ==
  CASE o \in {"COMPLETED", "COMPLETING"}       -> 0
    [] o \in {"CANCELLED", "FAILED", "ERROR"}  -> 1
    [] OTHER                                   -> old

WithAnswer(cm, o) ==
  [cm EXCEPT !.state = ContainerStateOf(o), !.exit = ExitCodeOf(o, cm.exit)]

\* Mutant: the record is changed and never handed to Update.
StatusApplyNoUpdate(t) ==
  /\ call[t].pc = "apply"
  /\ mem' = [mem EXCEPT ![call[t].c] = WithAnswer(@, call[t].obs)]
  /\ GoTo(t, "answer")
  /\ UNCHANGED <<disk, job, life>>

\* The answer is written to the record as it is NOW.
StatusApply(t) ==
  /\ call[t].pc = "apply"
  /\ mem' = [mem EXCEPT ![call[t].c] = WithAnswer(@, call[t].obs)]
  /\ GoTo(t, "update")
  /\ UNCHANGED <<disk, job, life>>

-----------------------------------------------------------------------------
(* The process *)

\* Death and restart: NewContainerStorage loads the cache file, if any; the
\* requests being served are gone.
Restart ==
  /\ mem'  = IF Persistence THEN disk ELSE [c \in Container |-> Absent]
  /\ call' = [t \in Caller |-> Idle]
  /\ UNCHANGED <<disk, job, life>>

Crash == MayCrash /\ Restart

\* ContainerStatus of an id the pool does not hold dereferences nil.
PanicUnknown(t, c) ==
  /\ MayBegin(t, c)
  /\ life[c] # "fresh"
  /\ mem[c].state = "NONE"
  /\ Restart

\* parseAcctStatus indexes the fields of an empty sacct answer.
PanicSacct(t) ==
  /\ call[t].pc = "query"
  /\ SshMayFail \/ job[call[t].job].phase = "PURGED"
  /\ Restart

-----------------------------------------------------------------------------
(* The cluster *)

JobRun(j) ==
  /\ job[j].phase = "PENDING"
  /\ job' = [job EXCEPT ![j].phase = "RUNNING"]
  /\ UNCHANGED <<mem, disk, call, life>>

\* A job ends by itself, at its time limit or by an operator's hand.
JobFinish(j) ==
  /\ job[j].phase = "RUNNING"
  /\ \E r \in JobResult \ {"none"} :
       job' = [job EXCEPT ![j] = [@ EXCEPT !.phase = "COMPLETING", !.result = r]]
  /\ UNCHANGED <<mem, disk, call, life>>

JobEnd(j) ==
  /\ job[j].phase = "COMPLETING"
  /\ job' = [job EXCEPT ![j].phase = "ENDED"]
  /\ UNCHANGED <<mem, disk, call, life>>

JobPurge(j) ==
  /\ MayPurge
  /\ job[j].phase = "ENDED"
  /\ job' = [job EXCEPT ![j].phase = "PURGED"]
  /\ UNCHANGED <<mem, disk, call, life>>

-----------------------------------------------------------------------------
CallStep(t) ==
  \/ CreateDone(t) \/ CreateFail(t)
  \/ StartFail(t) \/ StartSubmit(t) \/ StartReplyLost(t)
  \/ StartRecordPid(t) \/ StartCommit(t)
  \/ StopCancel(t) \/ StopFail(t) \/ StopExit(t)
  \/ StatusQuery(t) \/ StatusApply(t) \/ PanicSacct(t)
  \/ Update(t) \/ Answer(t)

CallBegin(t, c) ==
  \/ CreateBegin(t, c) \/ StartBegin(t, c) \/ StopBegin(t, c)
  \/ StatusBegin(t, c) \/ PanicUnknown(t, c)

JobStep(j) == JobRun(j) \/ JobFinish(j) \/ JobEnd(j) \/ JobPurge(j)

Next ==
  \/ \E t \in Caller : CallStep(t)
  \/ \E t \in Caller, c \in Container : CallBegin(t, c)
  \/ \E j \in JobId : JobStep(j)
  \/ Crash

Spec == Init /\ [][Next]_vars

(* Fairness.  The Go scheduler runs every goroutine to its end.  The kubelet  *)
(* keeps asking for the status of a container, and every request gets a      *)
(* goroutine of its own, so a poll cannot be kept out by other requests:     *)
(* strong, because here it waits for one of a fixed number of slots.  Jobs   *)
(* start and end by themselves (the partition has a time limit).             *)
GoroutinesRun == \A t \in Caller : WF_vars(CallStep(t))
KubeletPolls  == \A c \in Container : SF_vars(\E t \in Caller : StatusBegin(t, c))
JobsEnd       == \A j \in JobId : WF_vars(JobRun(j) \/ JobFinish(j) \/ JobEnd(j))

FairSpec == Spec /\ GoroutinesRun /\ KubeletPolls /\ JobsEnd

\* The server does not die for ever: one that dies before every Update can
\* report nothing.
SettledSpec == FairSpec /\ <>[][~Crash]_vars
=============================================================================
