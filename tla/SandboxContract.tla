-------------------------- MODULE SandboxContract --------------------------
(***************************************************************************)
(* What the service is to the kubelet about the sandbox of a pod.  One is  *)
(* set up, and runs or is given up.  The kubelet is told that it is READY  *)
(* only by a query that found it before it was stopped, and, once it runs, *)
(* attached to the pod network; the answer of a query that is overtaken by *)
(* a stop may still make it READY, a query after the stop never does.  Its *)
(* containers are added one by one and stay with it.  The end of the       *)
(* server takes every sandbox with it.  Records, the cache file and the    *)
(* steps of the network set-up do not appear.                              *)
(***************************************************************************)
CONSTANTS Pod, Container

VARIABLES
  state,      \* of each pod: "none", "running" (RunPodSandbox), "up", "stopped"
  attached,   \* the pods whose sandbox is attached to the pod network
  ready,      \* the pods whose sandbox is called READY
  asked,      \* the pods whose sandbox a query has found fit to be called READY
  members     \* the containers of each pod's sandbox

sandboxVars == <<state, attached, ready, asked, members>>

Init ==
  /\ state    = [p \in Pod |-> "none"]
  /\ attached = {}
  /\ ready    = {}
  /\ asked    = {}
  /\ members  = [p \in Pod |-> {}]

\* The pod's sandbox is in state s from now on, with nothing of an earlier one.
Fresh(p, s) ==
  /\ state'    = [state EXCEPT ![p] = s]
  /\ attached' = attached \ {p}
  /\ ready'    = ready \ {p}
  /\ asked'    = asked \ {p}
  /\ members'  = [members EXCEPT ![p] = {}]

\* RunPodSandbox of a pod that has a sandbox replaces it.
Run(p) == state[p] # "running" /\ Fresh(p, "running")

\* The set-up attaches the sandbox, or detaches it again when a step fails.
Wire(p) ==
  /\ state[p] = "running"
  /\ attached' \in {attached \cup {p}, attached \ {p}}
  /\ UNCHANGED <<state, ready, asked, members>>

Accept(p) ==
  /\ state[p] = "running"
  /\ state' = [state EXCEPT ![p] = "up"]
  /\ p \in ready \cup asked => p \in attached
  /\ UNCHANGED <<attached, ready, asked, members>>

GiveUp(p) == state[p] = "running" /\ Fresh(p, "none")

\* The kubelet may ask while the sandbox is still being set up.
Ask(p) ==
  /\ \/ state[p] = "running"
     \/ state[p] = "up" /\ p \in attached
  /\ asked' = asked \cup {p}
  /\ UNCHANGED <<state, attached, ready, members>>

\* A query is answered; others may be under way.
Report(p) ==
  /\ p \in asked
  /\ ready' = ready \cup {p}
  /\ asked' \in {asked, asked \ {p}}
  /\ UNCHANGED <<state, attached, members>>

Add(p, c) ==
  /\ state[p] \in {"up", "stopped"}
  /\ members' = [members EXCEPT ![p] = @ \cup {c}]
  /\ UNCHANGED <<state, attached, ready, asked>>

\* StopPodSandbox says NOTREADY first, and again when it is repeated.
Down(p) ==
  /\ state[p] \in {"up", "stopped"}
  /\ ready' = ready \ {p}
  /\ UNCHANGED <<state, attached, asked, members>>

\* From here on no query finds it fit to be called READY.
Stop(p) ==
  /\ state[p] = "up"
  /\ state' = [state EXCEPT ![p] = "stopped"]
  /\ UNCHANGED <<attached, ready, asked, members>>

\* RemovePodSandbox refuses a sandbox that is READY when the request comes in; one
\* that was never asked about is not.
Remove(p) == state[p] \in {"up", "stopped"} /\ Fresh(p, "none")

LoseAll ==
  /\ state'    = [p \in Pod |-> "none"]
  /\ attached' = {}
  /\ ready'    = {}
  /\ asked'    = {}
  /\ members'  = [p \in Pod |-> {}]

Next ==
  \/ \E p \in Pod :
       \/ Run(p) \/ Wire(p) \/ Accept(p) \/ GiveUp(p) \/ Ask(p)
       \/ Report(p) \/ Down(p) \/ Stop(p) \/ Remove(p) \/ \E c \in Container : Add(p, c)
  \/ LoseAll

Spec == Init /\ [][Next]_sandboxVars
=============================================================================
