--------------------------- MODULE ScriptStaging ---------------------------
(***************************************************************************)
(* How the scripts of a container get to the cluster, and what runs there: *)
(* PullImageScript when the image is built in the cluster, and batchScript *)
(* and Sbatch when the container is started (adapters/slurm/cmd/cmd.go,    *)
(* common/file/file.go).                                                   *)
(*                                                                         *)
(* Every script is first written to a file of the service's own host.  Its *)
(* name is made of the kind of the script and the second of the clock, it  *)
(* is opened for append, and nobody removes it: containers served in one   *)
(* second share it.  A file is therefore the sequence of the containers    *)
(* whose text is in it.                                                    *)
(*                                                                         *)
(* Covered: overlapping requests for different containers, a clock that    *)
(* may or may not move between two steps, commands that fail, death of the *)
(* server between any two steps and the start that is then made again.     *)
(* Not covered: headers and command lines, and the reconfiguration file in *)
(* front of the commands of an image script.                               *)
(***************************************************************************)
EXTENDS Integers, Sequences

CONSTANTS
  Container,    \* containers
  Prerun,       \* those whose environment has a CLUSTER_CONFIG
  LastSecond,   \* bound: the clock stops here,
  LastSpaced,   \* or here where requests come in seconds of their own
  MaxFaults       \* bound: commands fail and the server dies this often

ASSUME StagingAssumption ==
  /\ Prerun \subseteq Container
  /\ LastSecond \in Nat /\ LastSpaced \in Nat /\ MaxFaults \in Nat

VARIABLES
  clock,     \* time.Now(), in seconds
  spaced,    \* the setting: requests come one at a time and in seconds of their own
  tmp,       \* the files under /tmp, by kind and second
  remote,    \* each container's scripts in its directory on the cluster
  job,       \* the jobs of the cluster, numbered as they were submitted
  image,     \* the containers whose image is on the cluster
  pid,       \* ContainerMetadata.Pid
  phase,     \* what has become of each container
  call,      \* the request that is served for each container
  troubled,  \* history: the containers one of whose commands failed
  faults     \* how often a command has failed or death of the server cut requests

vars == <<clock, spaced, tmp, remote, job, image, pid, phase, call, troubled, faults>>

-----------------------------------------------------------------------------
Kind   == {"pullimage", "prerun", "batch", "run"}
Second == 0..(LastSecond + LastSpaced)
Phase  == {"new", "created", "started", "failed"}
Pc     == {"idle", "build", "copy", "exec"}
Text   == Seq(Container)
Job    == [dir : Container, runs : Text, env : SUBSET Container]
\* file: the second in the name of the file just written.  next: the part of
\* the script that runs next.  out: the first job number printed.  by: the part
\* that printed it, or the last part that pulled its image.
Call   == [pc : Pc, kind : Kind, file : Second, next : Nat \ {0}, out : Nat, by : Nat]

Idle == [pc |-> "idle", kind |-> "run", file |-> 0, next |-> 1, out |-> 0, by |-> 0]
Holds(text, c) == \E i \in DOMAIN text : text[i] = c

Init ==
  /\ clock = 0
  /\ spaced \in BOOLEAN
  /\ tmp = [f \in Kind \X Second |-> <<>>]
  /\ remote = [c \in Container |-> [k \in Kind |-> <<>>]]
  /\ job = <<>>
  /\ image = {}
  /\ pid = [c \in Container |-> 0]
  /\ phase = [c \in Container |-> "new"]
  /\ call = [c \in Container |-> Idle]
  /\ troubled = {}
  /\ faults = 0

Tick ==
  /\ clock < IF spaced THEN LastSpaced ELSE LastSecond
  /\ clock' = clock + 1
  /\ UNCHANGED <<spaced, tmp, remote, job, image, pid, phase, call, troubled, faults>>

-----------------------------------------------------------------------------
(* Pieces the steps share *)

\* One request for a container at a time; where they are spaced, one at all,
\* and no script has been written in this second.
MayBegin(c) ==
  /\ call[c] = Idle
  /\ spaced => /\ \A d \in Container : call[d] = Idle
               /\ \A k \in Kind : tmp[<<k, clock>>] = <<>>

Goes(c, pc, kind) == call' = [call EXCEPT ![c] = [@ EXCEPT !.pc = pc, !.kind = kind]]

\* The request is over and leaves the container in phase p.
Ends(c, p) ==
  /\ call'  = [call EXCEPT ![c] = Idle]
  /\ phase' = [phase EXCEPT ![c] = p]

Fault == faults < MaxFaults /\ faults' = faults + 1
Troubles(c) == Fault /\ troubled' = troubled \cup {c}

\* Mutant: the name has no time in it.
GenerateTmpFileUnstamped(kind) == <<kind, 0>>
\* The name of the file a script of this kind is written to now.
GenerateTmpFile(kind) == <<kind, clock>>

\* Mutant: the file is opened with O_TRUNC.
WrittenTruncated(text, c) == <<c>>
\* What a file holds after c's text was written to it (O_APPEND).
Written(text, c) == Append(text, c)

-----------------------------------------------------------------------------
(* CreateContainer with the builder in the cluster, and StartContainer *)

CreateContainer(c) ==
  /\ phase[c] = "new"
  /\ MayBegin(c)
  /\ Goes(c, "build", "pullimage")
  /\ UNCHANGED <<clock, spaced, tmp, remote, job, image, pid, phase, troubled, faults>>

StartContainer(c) ==
  /\ phase[c] = "created"
  /\ MayBegin(c)
  /\ Goes(c, "build", IF c \in Prerun THEN "prerun" ELSE "batch")
  /\ UNCHANGED <<clock, spaced, tmp, remote, job, image, pid, phase, troubled, faults>>

\* buildPreRunScript, buildSbatch, buildRunScript, and the like of it at the
\* head of PullImageScript.
Build(c) ==
  /\ call[c].pc = "build"
  /\ LET f == GenerateTmpFile(call[c].kind)
     IN /\ tmp'  = [tmp EXCEPT ![f] = Written(@, c)]
        /\ call' = [call EXCEPT ![c] = [@ EXCEPT !.pc = "copy", !.file = f[2]]]
  /\ UNCHANGED <<clock, spaced, remote, job, image, pid, phase, troubled, faults>>

\* CopyTo puts the file, as it is by now, under the container's directory.
CopyTo(c) ==
  /\ call[c].pc = "copy"
  /\ LET k == call[c].kind
     IN /\ remote' = [remote EXCEPT ![c][k] = tmp[<<k, call[c].file>>]]
        /\ CASE k = "prerun" -> Goes(c, "build", "batch")
             [] k = "batch"  -> Goes(c, "build", "run")
             [] OTHER        -> Goes(c, "exec", k)
  /\ UNCHANGED <<clock, spaced, tmp, job, image, pid, phase, troubled, faults>>

\* The file cannot be written or copied.
StageFail(c) ==
  /\ call[c].pc \in {"build", "copy"}
  /\ Ends(c, "failed")
  /\ Troubles(c)
  /\ UNCHANGED <<clock, spaced, tmp, remote, job, image, pid>>

-----------------------------------------------------------------------------
(* The script on the cluster.  One with the text of several containers goes  *)
(* through them in turn.  The directories of run scripts are relative to the *)
(* home directory, so that only the first part's cd finds its own, and the   *)
(* other parts submit the first one's batch.sh again.                        *)

Script(c) == remote[c][call[c].kind]
Running(c, kind) == call[c].pc = "exec" /\ call[c].kind = kind
More(c)   == call[c].next <= Len(Script(c))

\* Whose variables the shell has when the next part's sbatch runs: those of
\* the parts so far, and of the prerun script they sourced.
Environment(c) ==
  LET parts == {Script(c)[i] : i \in 1..call[c].next}
      prerun == remote[Script(c)[1]]["prerun"]
  IN parts \cup IF parts \cap Prerun = {} THEN {} ELSE {d \in Container : Holds(prerun, d)}

Submit(c) ==
  LET dir == Script(c)[1]
  IN /\ Running(c, "run")
     /\ More(c)
     /\ job' = Append(job, [dir |-> dir, runs |-> remote[dir]["batch"], env |-> Environment(c)])
     /\ call' = [call EXCEPT ![c] =
                   [call[c] EXCEPT !.next = @ + 1,
                                   !.out = IF @ = 0 THEN Len(job) + 1 ELSE @,
                                   !.by = IF @ = 0 THEN call[c].next ELSE @]]
     /\ UNCHANGED <<clock, spaced, tmp, remote, image, pid, phase, troubled, faults>>

\* The paths of image scripts are absolute.
Pull(c) ==
  /\ Running(c, "pullimage")
  /\ More(c)
  /\ image' = image \cup {Script(c)[call[c].next]}
  /\ call' = [call EXCEPT ![c] = [call[c] EXCEPT !.next = @ + 1, !.by = call[c].next]]
  /\ UNCHANGED <<clock, spaced, tmp, remote, job, pid, phase, troubled, faults>>

\* sbatch or singularity refuses; the shell goes on with the next line, which
\* after a pull is its stat: it passes when part of the image is there, as this
\* pull or an earlier one has left it.  The image counts as missing.
PartFail(c) ==
  /\ call[c].pc = "exec"
  /\ More(c)
  /\ \E part \in {call[c].by} \cup IF call[c].kind = "pullimage" THEN {call[c].next} ELSE {} :
       call' = [call EXCEPT ![c] = [call[c] EXCEPT !.next = @ + 1, !.by = part]]
  /\ Troubles(c)
  /\ UNCHANGED <<clock, spaced, tmp, remote, job, image, pid, phase>>

\* The command counts as failed, whatever it has done: the reply is lost.
ExecFail(c) ==
  /\ call[c].pc = "exec"
  /\ Ends(c, "failed")
  /\ Troubles(c)
  /\ UNCHANGED <<clock, spaced, tmp, remote, job, image, pid>>

\* The command ends as its last part does.
LastPart(c) == ~More(c) /\ call[c].by = Len(Script(c))

PullDone(c) ==
  /\ Running(c, "pullimage")
  /\ LastPart(c)
  /\ Ends(c, "created")
  /\ UNCHANGED <<clock, spaced, tmp, remote, job, image, pid, troubled, faults>>

\* Mutant: the number is not taken from the reply but is that of the newest job.
NumberOfNewest(c) == Len(job)
\* Mutant: it is that of the next job.
NumberOfNext(c) == call[c].out + 1
\* parseJobId: what follows the first "Submitted batch job".
ParseJobId(c) == call[c].out

\* Nothing was printed after the number.
SubmitDone(c) ==
  /\ Running(c, "run")
  /\ LastPart(c)
  /\ pid' = [pid EXCEPT ![c] = ParseJobId(c)]
  /\ Ends(c, "started")
  /\ UNCHANGED <<clock, spaced, tmp, remote, job, image, troubled, faults>>

\* The last part's stat or sbatch has failed; there is no number, or Atoi
\* refuses it for what the other parts have printed after it.
ScriptFails(c) ==
  /\ call[c].pc = "exec"
  /\ ~More(c) /\ ~LastPart(c)
  /\ Ends(c, "failed")
  /\ UNCHANGED <<clock, spaced, tmp, remote, job, image, pid, troubled, faults>>

-----------------------------------------------------------------------------
\* Death and restart.  Nobody has the identifier of a container whose creation
\* was cut; one whose start was cut is CREATED, and may be started again.
Crash ==
  LET cut == {c \in Container : call[c] # Idle}
  IN /\ IF cut = {} THEN UNCHANGED faults ELSE Fault
     /\ phase' = [c \in Container |->
                    IF c \in cut /\ phase[c] = "new" THEN "failed" ELSE phase[c]]
     /\ call'  = [c \in Container |-> Idle]
     /\ UNCHANGED <<clock, spaced, tmp, remote, job, image, pid, troubled>>

Step(c) ==
  \/ CreateContainer(c) \/ StartContainer(c)
  \/ Build(c) \/ CopyTo(c) \/ StageFail(c)
  \/ Submit(c) \/ Pull(c) \/ PartFail(c) \/ ExecFail(c)
  \/ PullDone(c) \/ SubmitDone(c) \/ ScriptFails(c)

Next == Tick \/ Crash \/ \E c \in Container : Step(c)

Spec == Init /\ [][Next]_vars
=============================================================================
