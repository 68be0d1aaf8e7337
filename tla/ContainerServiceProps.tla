------------------------ MODULE ContainerServiceProps ------------------------
(***************************************************************************)
(* What the container half of the service promises, and the invariant that *)
(* carries the proof of the strongest of these promises.                   *)
(***************************************************************************)
EXTENDS ContainerService

-----------------------------------------------------------------------------
(* Properties *)

\* Every variable keeps its type: no handler leaves a record half built.
TypeOK ==
  /\ mem  \in [Container -> Metadata]
  /\ disk \in [Container -> Metadata]
  /\ job  \in [JobId -> Job]
  /\ call \in [Caller -> Call]
  /\ life \in [Container -> Life]

\* A handler that has written c's record and has yet to call Update.
UpdatePending(c) ==
  \E t \in Caller : call[t].c = c /\ call[t].pc \in {"recorded", "update"}

\* Death of the server loses a state change only while the request that made
\* it is still being served: whenever pool and cache file differ on a
\* container, some handler is on its way to containerStore.Update
\* (runtime/container.go:121-135, 167-169, 229-234).
DiskCoherent ==
  Persistence => \A c \in Container : mem[c] # disk[c] => UpdatePending(c)

\* A container reported EXITED has nothing left on the cluster: no job of it
\* waits or runs, neither by the pool's record nor by the one a restart would
\* load (StartContainer's error branch, StopContainer, ContainerStatus).
ExitedHasNoLiveJob ==
  \A c \in Container :
    "EXITED" \in {mem[c].state, disk[c].state} =>
      \A j \in JobId : job[j].owner = c => ~Live(j)

\* Only a request that came in BEFORE the container exited, and death of the
\* server, take a container out of EXITED.  (Such a request does: it writes the
\* answer or the RUNNING it owes over whatever the record holds by then.)
ExitStandsAgainstLaterCalls ==
  [][\A c \in Container :
       mem[c].state = "EXITED" /\ mem'[c].state # "EXITED" =>
         \/ \A t \in Caller : call'[t] = Idle
         \/ \E t \in Caller : /\ call[t].c = c
                              /\ ~call[t].late
                              /\ call'[t] # call[t]]_vars

\* The containers that are served one call at a time.
Serial == Container \ Overlap

\* An exit of a container served one call at a time is final once it reached
\* the cache file: no later request, failed command or death of the server
\* undoes it, whatever overlaps on other containers.
DurableExit ==
  [][\A c \in Serial :
       disk[c].state = "EXITED" => disk'[c].state = "EXITED"]_vars

\* The service takes to exit code 1 for job j.
FailsFor(c, j) ==
  /\ mem'[c].exit = 1 /\ mem'[c].pid = j
  /\ ~(mem[c].exit = 1 /\ mem[c].pid = j)

\* Exit code 1 is given to a container with a job when that job is over, and
\* failed or was cancelled.  One false failure is left: sacct cannot be read
\* about a job slurmctld has forgotten, whatever its end was.  Even that one
\* does not touch an exit the cache file has, of a container served one call at
\* a time: a success on record stays one, however late a poll comes
\* (adapters/slurm/container.go:149-179, manageContainerError).
FailureIsRealOrForgotten ==
  [][\A c \in Container, j \in JobId :
       FailsFor(c, j) =>
         \/ /\ job[j].phase \in {"COMPLETING", "ENDED"}
            /\ job[j].result \in {"FAILED", "CANCELLED"}
         \/ /\ job[j].phase = "PURGED"
            /\ c \in Serial => disk[c].state # "EXITED"]_vars

\* The service has the number of job j as the one of c, in c's record or in a
\* start that is about to record it.
HasNumber(c, j) ==
  \/ mem[c].pid = j
  \/ \E t \in Caller : call[t].c = c /\ call[t].pc = "submitted" /\ call[t].job = j

\* The number of a submitted job is lost only with the server, and with the
\* cache file on only while a request that has yet to call Update is served, or
\* by a start of the same container that has submitted too: its number takes
\* the place of the first, or its reply is lost (container.go:113-118, 132,
\* adapters/slurm/container.go:91-95).
NumbersAreKept ==
  [][\A c \in Container, j \in JobId :
       (job[j].owner = c /\ HasNumber(c, j) /\ ~HasNumber(c, j)') =>
         \/ /\ \A t \in Caller : call'[t] = Idle
            /\ Persistence =>
                 \/ UpdatePending(c)
                 \/ \E t \in Caller : call[t].c = c /\ call[t].pc = "submitted"
         \/ \E t \in Caller : /\ call[t].c = c
                              /\ call[t].pc = "submitted"
                              /\ call'[t] # call[t]]_vars

\* Once a container has a job it is reported EXITED sooner or later and from
\* then on, where commands get through and the server settles: the poll of the
\* job's end cannot be lost for good behind answers that were taken earlier and
\* are applied later, nor behind a restart.  What is never reported is a job
\* whose final state the adapter does not list, and one that slurmctld forgot,
\* or whose number died with the server, before the container was EXITED.
JobIsEventuallyReported ==
  \A c \in Container, j \in JobId :
    job[j].owner = c ~>
      \/ [](mem[c].state = "EXITED")
      \/ job[j].result = "UNLISTED"
      \/ /\ mem[c].state # "EXITED"
         /\ job[j].phase = "PURGED" \/ ~HasNumber(c, j)

-----------------------------------------------------------------------------
(* The contract: phase is what the cache file says, work is what the cluster *)
(* holds for the container.                                                  *)

JobsOf(c) == {j \in JobId : job[j].owner = c}

PhaseOf(c) ==
  CASE disk[c].state = "NONE"   -> "absent"
    [] disk[c].state = "EXITED" -> "closed"
    [] OTHER                    -> "open"

WorkOf(c) ==
  CASE JobsOf(c) = {}                -> "none"
    [] \E j \in JobsOf(c) : Live(j)  -> "live"
    [] OTHER                         -> "over"

Contract == INSTANCE BatchContract
  WITH Container <- Serial,
       phase     <- [c \in Serial |-> PhaseOf(c)],
       work      <- [c \in Serial |-> WorkOf(c)]

\* With the cache file on and commands that get through, the service keeps the
\* batch contract for the containers it serves one call at a time, beside
\* containers whose calls overlap and whenever the server dies.
KeepsBatchContract == Contract!Spec

\* A start of c is served; it is over when Update has written its record.
StartOf(t, c) == call[t].c = c /\ call[t].op = "Start" /\ call[t].pc # "answer"
Starts(c)     == \E t \in Caller : StartOf(t, c)

\* The job a start of c that is served has submitted.
SentFor(c) == {call[t].job : t \in {u \in Caller : StartOf(u, c)}} \ {0}

Submission == INSTANCE SubmissionContract
  WITH Container <- Serial,
       starting  <- {c \in Serial : Starts(c)},
       sent      <- [c \in Serial |-> SentFor(c)],
       jobs      <- [c \in Serial |-> JobsOf(c)],
       number    <- [c \in Serial |-> disk[c].pid]

\* With the cache file on, what it has of a start is its own job's number or,
\* when a command failed, a reply was lost or the server died before Update, no
\* new number: for the containers served one call at a time, beside others
\* whose calls overlap (cmd.go:115-195, adapters/slurm/container.go:84-97).
SubmitsAsContracted == Submission!Spec

-----------------------------------------------------------------------------
(* What the repository says and the code does not do: TLC refutes it.        *)

\* A container that was started is EXITED when StopContainer has answered
\* (slurm_test.go:161-163 "Container must be cancelled").
StoppedIsCancelled ==
  \A t \in Caller :
    (call[t].op = "Stop" /\ call[t].pc = "answer" /\ mem[call[t].c].pid # 0)
      => mem[call[t].c].state = "EXITED"

-----------------------------------------------------------------------------
(* The invariant behind ExitStandsAgainstLaterCalls                          *)

\* Where a handler can still write a state other than EXITED.
Writing == {"submit", "submitted", "recorded", "query", "apply"}

\* A request that can still write came in before the exit; a container nobody
\* asked for has no record and no request.
WritersCameBefore ==
  /\ \A t \in Caller : call[t].pc \in Writing => ~call[t].late
  /\ \A t \in Caller : call[t].c \in Container => life[call[t].c] # "fresh"
  /\ \A c \in Container : life[c] = "fresh" => mem[c] = Absent /\ disk[c] = Absent

-----------------------------------------------------------------------------
(* The inductive invariant behind ExitedHasNoLiveJob                         *)

Owns(c, j) == j \in JobId /\ job[j].owner = c

\* A StartContainer past its guards that has not recorded its job.
Starting(t, c) == call[t].c = c /\ call[t].pc \in {"submit", "submitted"}

\* Jobs are handed out to somebody, and one to a container.
OneJobEach ==
  /\ \A j \in JobId : job[j].phase = "none" <=> job[j].owner = NoContainer
  /\ \A j, k \in JobId :
       job[j].owner = job[k].owner /\ job[j].owner # NoContainer => j = k

\* Only a started container, and one with credentials, has a job or a start
\* under way; there is one start at most.
StartsAreUnique ==
  /\ \A c \in Container :
       (life[c] # "started" \/ c \in NoCreds) =>
         /\ \A j \in JobId : job[j].owner # c
         /\ \A t \in Caller : ~Starting(t, c)
  /\ \A c \in Container, t, u \in Caller :
       Starting(t, c) /\ Starting(u, c) => t = u

\* A container with credentials cannot be EXITED before it is started.  While
\* a start is under way its container is CREATED without a Pid, and has no job
\* but the one just submitted.
StartsAreFresh ==
  /\ \A c \in Container :
       life[c] # "started" /\ c \notin NoCreds =>
         mem[c].state # "EXITED" /\ disk[c].state # "EXITED"
  /\ \A t \in Caller, c \in Container :
       Starting(t, c) =>
         /\ mem[c].state = "CREATED" /\ mem[c].pid = 0
         /\ disk[c].state # "EXITED" /\ disk[c].pid = 0
         /\ call[t].pc = "submit" => \A j \in JobId : job[j].owner # c
         /\ call[t].pc = "submitted" => Owns(c, call[t].job)

\* A recorded Pid is the container's own job; RUNNING has a Pid.
PidsAreOwn ==
  \A c \in Container :
    /\ mem[c].pid # 0  => Owns(c, mem[c].pid)
    /\ disk[c].pid # 0 => Owns(c, disk[c].pid)
    /\ mem[c].state = "RUNNING"  => mem[c].pid # 0
    /\ disk[c].state = "RUNNING" => disk[c].pid # 0
    /\ disk[c].pid # 0 => mem[c].pid = disk[c].pid \/ ~Persistence

\* A handler between two remote commands works on the recorded job, and what
\* it has learnt about the end of that job is still true.
CallsAreSound ==
  \A t \in Caller :
    /\ call[t].pc \in {"query", "apply", "scancel", "cancelled"} =>
         /\ call[t].c \in Container
         /\ call[t].job # 0
         /\ mem[call[t].c].pid = call[t].job
    /\ call[t].pc \in {"recorded", "update", "pulling", "submit", "submitted"} =>
         call[t].c \in Container
    /\ call[t].pc = "recorded" => mem[call[t].c].pid # 0
    /\ call[t].pc = "cancelled" => ~Live(call[t].job)
    /\ (call[t].pc = "apply" /\ ContainerStateOf(call[t].obs) = "EXITED")
         => ~Live(call[t].job)

\* An idle slot works on nothing; a fresh container has no record, and one
\* request creates it.
Bookkeeping ==
  /\ \A t \in Caller : call[t].c = NoContainer <=> call[t].pc = "idle"
  /\ \A c \in Container : life[c] = "fresh" => mem[c] = Absent /\ disk[c] = Absent
  /\ \A t \in Caller : call[t].pc = "pulling" => life[call[t].c] = "listed"
  /\ \A t, u \in Caller :
       call[t].pc = "pulling" /\ call[u].pc = "pulling" /\ call[t].c = call[u].c => t = u
  /\ ~Persistence => disk = [c \in Container |-> Absent]

IInv ==
  /\ TypeOK
  /\ OneJobEach
  /\ StartsAreUnique
  /\ StartsAreFresh
  /\ PidsAreOwn
  /\ CallsAreSound
  /\ Bookkeeping
  /\ ExitedHasNoLiveJob
=============================================================================
