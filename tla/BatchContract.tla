---------------------------- MODULE BatchContract ----------------------------
(***************************************************************************)
(* What the kubelet may rely on when a container is a batch job, seen from *)
(* the cache file: a container is accepted once, gives at most one job to  *)
(* the cluster, is closed for good, and is closed only when no job of it   *)
(* waits or runs.  Neither time, nor requests, nor the server's memory     *)
(* appear: a server that dies and comes back takes no step here.           *)
(***************************************************************************)
CONSTANT Container

VARIABLES
  phase,   \* absent, open, closed
  work     \* the container's job: none yet, live, over

contractVars == <<phase, work>>

Init ==
  /\ phase = [c \in Container |-> "absent"]
  /\ work  = [c \in Container |-> "none"]

Accept(c) ==
  /\ phase[c] = "absent"
  /\ phase' = [phase EXCEPT ![c] = "open"]
  /\ UNCHANGED work

Submit(c) ==
  /\ phase[c] = "open"
  /\ work[c] = "none"
  /\ work' = [work EXCEPT ![c] = "live"]
  /\ UNCHANGED phase

Finish(c) ==
  /\ work[c] = "live"
  /\ work' = [work EXCEPT ![c] = "over"]
  /\ UNCHANGED phase

Close(c) ==
  /\ phase[c] = "open"
  /\ work[c] # "live"
  /\ phase' = [phase EXCEPT ![c] = "closed"]
  /\ UNCHANGED work

Next == \E c \in Container : Accept(c) \/ Submit(c) \/ Finish(c) \/ Close(c)

Spec == Init /\ [][Next]_contractVars
=============================================================================
