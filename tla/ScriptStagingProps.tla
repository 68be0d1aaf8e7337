------------------------ MODULE ScriptStagingProps ------------------------
(* What the staging of scripts promises, and the invariants of its proofs. *)
EXTENDS ScriptStaging

\* Every variable keeps its type: scripts hold the text of containers only, and
\* recorded numbers are those of jobs.
TypeOK ==
  /\ clock \in Second /\ spaced \in BOOLEAN /\ faults \in Nat
  /\ tmp \in [Kind \X Second -> Text]
  /\ remote \in [Container -> [Kind -> Text]]
  /\ job \in Seq(Job)
  /\ image \in SUBSET Container /\ troubled \in SUBSET Container
  /\ pid \in [Container -> 0..Len(job)]
  /\ phase \in [Container -> Phase]
  /\ call \in [Container -> Call]

\* However requests overlap and share files, a success is one, unless a command
\* of the container's own has failed: a start that is answered with success has
\* recorded a job that runs in the container's own directory and runs its
\* command, and a creation has left its image on the cluster (O_APPEND,
\* cmd.go:334-417; of scripts with the text of others, Atoi refuses the reply,
\* container.go:91).
SuccessHasRun ==
  \A c \in Container \ troubled :
    /\ phase[c] = "started" =>
         /\ pid[c] \in DOMAIN job
         /\ job[pid[c]].dir = c /\ Holds(job[pid[c]].runs, c)
    /\ phase[c] \in {"created", "started"} => c \in image

\* No two containers record one job, so that a StopContainer or a status query
\* of one is not about the job another one counts as its own (parseJobId reads
\* the reply to this container's command, cmd.go:190-194).
NumbersAreUnshared ==
  \A c, d \in Container : (pid[c] # 0 /\ pid[c] = pid[d]) => c = d

\* Where requests come one at a time and in seconds of their own, every job is
\* one container's alone, runs its command once and with nobody else's
\* variables, and a started container has recorded such a job of its own, also
\* when death of the server has cut an earlier start of it.
SpacedIsOwn ==
  spaced =>
    /\ \A j \in DOMAIN job :
         job[j].runs = <<job[j].dir>> /\ job[j].env = {job[j].dir}
    /\ \A c \in Container : pid[c] # 0 => job[pid[c]].dir = c
-----------------------------------------------------------------------------
(* The contract ContainerService relies on where it takes a submission to be *)
(* one step, and implements itself with what it makes of the number.         *)

\* A start of the container is served, and nobody shares its files.
Starts(c) == spaced /\ call[c].pc # "idle" /\ call[c].kind # "pullimage"

\* A job that runs the container's command once and with its own variables.
IsOwnJob(j, c) == job[j] = [dir |-> c, runs |-> <<c>>, env |-> {c}]

\* What the contract sees of a container: the number its start has read, the
\* jobs that are its own, and the number recorded for it.
SentFor(c)   == IF Starts(c) THEN {call[c].out} \ {0} ELSE {}
OwnJobs(c)   == {j \in DOMAIN job : spaced /\ IsOwnJob(j, c)}
NumberFor(c) == IF spaced THEN pid[c] ELSE 0

Submission == INSTANCE SubmissionContract
  WITH starting <- {c \in Container : Starts(c)},
       sent     <- [c \in Container |-> SentFor(c)],
       jobs     <- [c \in Container |-> OwnJobs(c)],
       number   <- [c \in Container |-> NumberFor(c)]

\* Where requests come one at a time and in seconds of their own, the files,
\* the copies and the shell on the cluster make a start what the container
\* half takes it to be: one job at most, the container's own, whose number is
\* recorded or, when a command fails or the server dies, is not (cmd.go:115-195).
SubmitsAsContracted == Submission!Spec
=============================================================================
