------------------------- MODULE SubmissionContract -------------------------
(***************************************************************************)
(* What a start is to the rest of the service: while it is served it gives *)
(* the cluster one job at most, which is its container's alone, and what   *)
(* it records in the end is the number of that job.  Scripts, commands and *)
(* replies do not appear.  A container may be started again when a start   *)
(* of it was given up; the job of that one may still be there.             *)
(***************************************************************************)
CONSTANT Container

VARIABLES
  starting,   \* the containers a start of which is served
  sent,       \* the job such a start has given to the cluster, as a set
  jobs,       \* the jobs each container has given to the cluster so far
  number      \* the number recorded for each container, or 0

submissionVars == <<starting, sent, jobs, number>>

Init ==
  /\ starting = {}
  /\ sent   = [c \in Container |-> {}]
  /\ jobs   = [c \in Container |-> {}]
  /\ number = [c \in Container |-> 0]

Begin(c) ==
  /\ c \notin starting
  /\ starting' = starting \cup {c}
  /\ UNCHANGED <<sent, jobs, number>>

\* A number nobody has had.
Submit(c) ==
  /\ c \in starting
  /\ sent[c] = {}
  /\ \E j \in sent'[c] :
       /\ \A d \in Container : j \notin jobs[d]
       /\ sent' = [sent EXCEPT ![c] = {j}]
       /\ jobs' = [jobs EXCEPT ![c] = @ \cup {j}]
  /\ UNCHANGED <<starting, number>>

Record(c) ==
  /\ c \in starting
  /\ \E j \in sent[c] : number' = [number EXCEPT ![c] = j]
  /\ starting' = starting \ {c}
  /\ sent' = [sent EXCEPT ![c] = {}]
  /\ UNCHANGED jobs

\* The starts of these are over without a number: a command has failed, or the
\* server has died.  A reply that cannot be read takes an earlier number away.
GiveUp(S) ==
  /\ S \subseteq starting
  /\ starting' = starting \ S
  /\ sent' = [c \in Container |-> IF c \in S THEN {} ELSE sent[c]]
  /\ \E T \in SUBSET S :
       number' = [c \in Container |-> IF c \in T THEN 0 ELSE number[c]]
  /\ UNCHANGED jobs

Next ==
  \/ \E c \in Container : Begin(c) \/ Submit(c) \/ Record(c)
  \/ \E S \in SUBSET starting : GiveUp(S)

Spec == Init /\ [][Next]_submissionVars
=============================================================================
