--------------------------- MODULE RemoteRouting ---------------------------
(***************************************************************************)
(* Which runtime serves a request: the remote part of every handler for    *)
(* sandboxes and containers (runtime/sandbox.go, runtime/container.go) and *)
(* runtime/remote/, composed with the life of the process: requests come   *)
(* while the gRPC server serves, and the end of the process cuts them.     *)
(*                                                                         *)
(* A request about an identifier goes where the runtime handler recorded   *)
(* for it says.  A restarted server has no sandbox, and has containers     *)
(* only with --enable-pod-persistence; a request about an identifier       *)
(* without a record goes where the empty handler does.                     *)
(*                                                                         *)
(* A pod has one sandbox and one container here, so a pod stands for both  *)
(* identifiers.  Of the half that this service serves itself there is the  *)
(* record and the job; ContainerService and PodSandboxService have the     *)
(* rest.  Not covered: images, whose runtime is part of their name, and a  *)
(* restart with other endpoints.                                           *)
(***************************************************************************)
EXTENDS ServiceLifecycle

CONSTANTS
  Pod,      \* pods
  Class,    \* the names endpoints may have
  Caller    \* slots for requests being served at the same time

Multicri == "multicri"   \* MulticriRuntimeHandler
Default  == "default"
Nobody   == "nobody"     \* no runtime, no record, no pod
Empty    == ""           \* a pod without runtimeClassName

ASSUME ClassAssumption == Class \cap {Multicri, Nobody, Empty} = {}
ASSUME PodAssumption   == Nobody \notin Pod

VARIABLES
  endpoint,     \* the setting: the names of --remote-runtime-endpoints
  persistence,  \* the setting: --enable-pod-persistence
  sandbox,      \* SandboxPool: the handler in the record of each pod
  container,    \* ContainerPool
  there,        \* what the runtimes have: Slurm stands behind Multicri
  submitted,    \* the pods for which a job was submitted
  call,         \* the requests being served
  told,         \* history: the pods whose known sandbox the service said is stopped
  forgotten     \* history: the pods whose record the service has lost

routing == <<endpoint, persistence, sandbox, container, there, submitted, call,
             told, forgotten>>
vars == <<process, routing>>

-----------------------------------------------------------------------------
Handler   == Class \cup {Multicri, Empty}
Runtime   == Class \cup {Multicri}
OfSandbox == {"run", "stop", "remove"}
OfContainer == {"create", "start", "stopcontainer", "removecontainer", "status"}
Op == OfSandbox \cup OfContainer

\* credentials: the record has an image, and an environment with the
\* credentials of the cluster.
ContainerMetadata ==
  [handler : Handler \cup {Nobody}, credentials : BOOLEAN,
   state : {"created", "running", "exited"}]
Absent == [handler |-> Nobody, credentials |-> FALSE, state |-> "created"]

Held == [runtime   : Runtime \cup {Nobody},
         sandbox   : {"none", "ready", "stopped", "removed"},
         container : {"none", "created", "running", "exited", "removed"}]
NotHeld == [runtime |-> Nobody, sandbox |-> "none", container |-> "none"]

\* known: the handler found the record it looked for.
Call == [op : Op, pod : Pod \cup {Nobody}, pc : {"idle", "remote", "reply", "local"},
         handler : Handler, known : BOOLEAN]
Idle == [op |-> "run", pod |-> Nobody, pc |-> "idle", handler |-> Empty, known |-> FALSE]

RoutingInit ==
  /\ endpoint \in SUBSET Class
  /\ persistence \in BOOLEAN
  /\ sandbox = [p \in Pod |-> Nobody]
  /\ container = [p \in Pod |-> Absent]
  /\ there = [p \in Pod |-> NotHeld]
  /\ submitted = {}
  /\ call = [t \in Caller |-> Idle]
  /\ told = {}
  /\ forgotten = {}

Init == ProcessInit /\ RoutingInit

-----------------------------------------------------------------------------
(* remote.RemoteCRIConfiguration *)

\* Mutant: the name is taken as it comes.
GetRemoteRuntimeUnchecked(h) == IF h = Multicri \/ endpoint = {} THEN Multicri ELSE h
\* Multicri: no remote runtime.  Nobody: the error "not found".
GetRemoteRuntime(h) ==
  LET name == IF h = Empty THEN Default ELSE h
  IN CASE h = Multicri \/ endpoint = {} -> Multicri
       [] name \in endpoint             -> name
       [] OTHER                         -> Nobody

\* Mutant: the records of a server without a remote runtime are its own.
MulticriRuntimeNameEmpty == Empty
MulticriRuntimeName == IF Default \in endpoint THEN Multicri ELSE Empty

\* The pods in the answers of ListPodSandbox and ListContainers: first those of
\* the own store, then those of the remote runtimes.
LocalSandboxes   == {p \in Pod : sandbox[p] = MulticriRuntimeName}
LocalContainers  == {p \in Pod : container[p].handler = MulticriRuntimeName}
RemoteSandboxes  == {p \in Pod : /\ there[p].runtime \in endpoint
                                 /\ there[p].sandbox \in {"ready", "stopped"}}
RemoteContainers == {p \in Pod : /\ there[p].runtime \in endpoint
                                 /\ there[p].container \notin {"none", "removed"}}

-----------------------------------------------------------------------------
(* A request comes in: the handler looks for the record, and asks for the  *)
(* runtime.                                                                *)

\* Mutant: the error of every remote call is dropped.
DropsErrorAlways(op) == TRUE
\* StartContainer and StopContainer look at the response only.
DropsError(op) == op \in {"start", "stopcontainer"}

Begin(t, op, p, h, known) ==
  LET r == GetRemoteRuntime(h)
      pc == CASE r = Multicri -> "local"
              [] r = Nobody   -> IF DropsError(op) THEN "local" ELSE "idle"
              [] OTHER        -> "remote"
  IN call' = [call EXCEPT ![t] =
        IF pc = "idle" THEN Idle
        ELSE [op |-> op, pod |-> p, pc |-> pc, handler |-> h, known |-> known]]

Return(t) == call' = [call EXCEPT ![t] = Idle]

\* RunPodSandbox for a pod that no runtime has.
ReceiveRun(t, p, h) ==
  /\ call[t] = Idle
  /\ grpc = "on"
  /\ there[p] = NotHeld
  /\ \A u \in Caller : call[u].pod # p
  /\ Begin(t, "run", p, h, FALSE)
  /\ UNCHANGED <<process, endpoint, persistence, sandbox, container, there, submitted,
                 told, forgotten>>

\* CreateContainer and StartContainer return when there is no record.
Receive(t, op, p) ==
  LET h == IF op \in {"stop", "remove", "create"} THEN sandbox[p] ELSE container[p].handler
  IN /\ call[t] = Idle
     /\ grpc = "on"
     /\ there[p] # NotHeld
     /\ op \in {"create", "start"} => h # Nobody
     /\ Begin(t, op, p, IF h = Nobody THEN Empty ELSE h, h # Nobody)
     /\ UNCHANGED <<process, endpoint, persistence, sandbox, container, there, submitted,
                    told, forgotten>>

-----------------------------------------------------------------------------
(* The remote runtime *)

\* What the request does where it is understood.
Effect(op, r, s) ==
  CASE op = "run"    -> [runtime |-> r, sandbox |-> "ready", container |-> "none"]
    [] op = "stop"   -> [s EXCEPT !.sandbox = IF @ = "ready" THEN "stopped" ELSE @,
                                  !.container = IF @ = "running" THEN "exited" ELSE @]
    [] op = "remove" -> [s EXCEPT !.sandbox = "removed",
                                  !.container = IF @ = "none" THEN @ ELSE "removed"]
    [] op = "create" -> [s EXCEPT !.container = "created"]
    [] op = "start"  -> [s EXCEPT !.container = "running"]
    [] op = "stopcontainer"   -> [s EXCEPT !.container = IF @ = "running" THEN "exited" ELSE @]
    [] op = "removecontainer" -> [s EXCEPT !.container = IF @ = "none" THEN @ ELSE "removed"]
    [] OTHER -> s

Understood(op, r, s) ==
  \/ op = "run" /\ s = NotHeld
  \/ /\ op # "run" /\ s.runtime = r
     /\ op = "create" => s.sandbox = "ready" /\ s.container = "none"
     /\ op = "start"  => s.container = "created"
     /\ op = "status" => s.container \notin {"none", "removed"}

Target(t) == GetRemoteRuntime(call[t].handler)

\* The request goes on as it does after an error of the remote runtime.
AfterError(t) ==
  IF DropsError(call[t].op) THEN call' = [call EXCEPT ![t].pc = "local"] ELSE Return(t)

\* It does as asked, and answers.
RemoteAnswers(t) ==
  /\ call[t].pc = "remote"
  /\ LET p == call[t].pod
     IN /\ Understood(call[t].op, Target(t), there[p])
        /\ there' = [there EXCEPT ![p] = Effect(call[t].op, Target(t), @)]
  /\ call' = [call EXCEPT ![t].pc = "reply"]
  /\ UNCHANGED <<process, endpoint, persistence, sandbox, container, submitted, told,
                 forgotten>>

\* It does as asked, and the answer is lost.
RemoteReplyLost(t) ==
  /\ call[t].pc = "remote"
  /\ LET p == call[t].pod
     IN /\ Understood(call[t].op, Target(t), there[p])
        /\ there' = [there EXCEPT ![p] = Effect(call[t].op, Target(t), @)]
        /\ forgotten' = IF call[t].op = "run" THEN forgotten \cup {p} ELSE forgotten
  /\ AfterError(t)
  /\ UNCHANGED <<process, endpoint, persistence, sandbox, container, submitted, told>>

\* Stopping and removing what it does not have is no error.
RemoteUnaware(t) ==
  /\ call[t].pc = "remote"
  /\ call[t].op \in {"stop", "remove", "stopcontainer", "removecontainer"}
  /\ there[call[t].pod].runtime # Target(t)
  /\ call' = [call EXCEPT ![t].pc = "reply"]
  /\ UNCHANGED <<process, endpoint, persistence, sandbox, container, there, submitted,
                 told, forgotten>>

\* It cannot be reached, or refuses.
RemoteFails(t) ==
  /\ call[t].pc = "remote"
  /\ AfterError(t)
  /\ UNCHANGED <<process, endpoint, persistence, sandbox, container, there, submitted,
                 told, forgotten>>

-----------------------------------------------------------------------------
(* What the handlers do with the answer of the remote runtime *)

Answered(t, op) == call[t].pc = "reply" /\ call[t].op = op

\* The new container's record has the sandbox's handler.  Mutant: it has none.
ContainerOfNobody(h, credentials) ==
  [handler |-> Empty, credentials |-> credentials, state |-> "created"]
ContainerOf(h, credentials) ==
  [handler |-> h, credentials |-> credentials, state |-> "created"]

\* The sandbox's identifier is the remote runtime's.
RunAnswered(t) ==
  /\ Answered(t, "run")
  /\ sandbox' = [sandbox EXCEPT ![call[t].pod] = call[t].handler]
  /\ Return(t)
  /\ UNCHANGED <<process, endpoint, persistence, container, there, submitted, told, forgotten>>

\* Mutant: the record of a remote container is made like any other.
RemoteContainerWithEnvironment(h) == ContainerOf(h, TRUE)
\* The record of a remote container has neither environment nor image.
RemoteContainer(h) == ContainerOf(h, FALSE)

\* The sandbox that was looked up is written back.
CreateAnswered(t) ==
  /\ Answered(t, "create")
  /\ container' = [container EXCEPT ![call[t].pod] = RemoteContainer(call[t].handler)]
  /\ sandbox' = [sandbox EXCEPT ![call[t].pod] = call[t].handler]
  /\ Return(t)
  /\ UNCHANGED <<process, endpoint, persistence, there, submitted, told, forgotten>>

\* The response is passed on.
PassedOn(t) ==
  /\ \E op \in {"start", "stopcontainer", "status"} : Answered(t, op)
  /\ Return(t)
  /\ UNCHANGED <<process, endpoint, persistence, sandbox, container, there, submitted, told,
                 forgotten>>

\* The container is taken off the list of the sandbox its record names.
RemoveContainerAnswered(t) ==
  /\ Answered(t, "removecontainer")
  /\ call[t].known
  /\ Return(t)
  /\ UNCHANGED <<process, endpoint, persistence, sandbox, container, there, submitted, told,
                 forgotten>>

StopAnswered(t) ==
  LET p == call[t].pod
  IN /\ Answered(t, "stop")
     /\ IF call[t].known
        THEN /\ sandbox' = [sandbox EXCEPT ![p] = call[t].handler]
             /\ told' = told \cup {p}
        ELSE UNCHANGED <<sandbox, told>>
     /\ Return(t)
     /\ UNCHANGED <<process, endpoint, persistence, container, there, submitted, forgotten>>

\* Without a record the empty identifier is removed, which is in no pool.
RemoveAnswered(t) ==
  /\ Answered(t, "remove")
  /\ sandbox' = IF call[t].known THEN [sandbox EXCEPT ![call[t].pod] = Nobody] ELSE sandbox
  /\ Return(t)
  /\ UNCHANGED <<process, endpoint, persistence, container, there, submitted, told, forgotten>>

-----------------------------------------------------------------------------
(* What this service does itself: there is no remote runtime, or the error *)
(* of the remote runtime was dropped.                                      *)

Locally(t, op) == call[t].pc = "local" /\ call[t].op = op

\* What is done here changes the pods that are here.
Becomes(p, s) ==
  there' = IF there[p].runtime = Multicri THEN [there EXCEPT ![p] = s] ELSE there

RunLocally(t) ==
  LET p == call[t].pod
  IN /\ Locally(t, "run")
     /\ sandbox' = [sandbox EXCEPT ![p] = call[t].handler]
     /\ there' = [there EXCEPT ![p] = Effect("run", Multicri, @)]
     /\ Return(t)
     /\ UNCHANGED <<process, endpoint, persistence, container, submitted, told, forgotten>>

CreateLocally(t) ==
  LET p == call[t].pod
  IN /\ Locally(t, "create")
     /\ there[p].container = "none"
     /\ container' = [container EXCEPT ![p] = ContainerOf(call[t].handler, TRUE)]
     /\ sandbox' = [sandbox EXCEPT ![p] = call[t].handler]
     /\ Becomes(p, [there[p] EXCEPT !.container = "created"])
     /\ Return(t)
     /\ UNCHANGED <<process, endpoint, persistence, submitted, told, forgotten>>

\* CreateCMD makes no client without credentials; else the job is submitted.
StartLocally(t) ==
  LET p == call[t].pod
  IN /\ Locally(t, "start")
     /\ container[p].state = "created"
     /\ container[p].credentials
     /\ submitted' = submitted \cup {p}
     /\ Becomes(p, [there[p] EXCEPT !.container = "running"])
     /\ container' = [container EXCEPT ![p].state = "running"]
     /\ Return(t)
     /\ UNCHANGED <<process, endpoint, persistence, sandbox, told, forgotten>>

StartFails(t) ==
  /\ Locally(t, "start")
  /\ container[call[t].pod].state = "created"
  /\ container' = [container EXCEPT ![call[t].pod].state = "exited"]
  /\ Return(t)
  /\ UNCHANGED <<process, endpoint, persistence, sandbox, there, submitted, told, forgotten>>

StopContainerLocally(t) ==
  LET p == call[t].pod
  IN /\ Locally(t, "stopcontainer")
     /\ call[t].known /\ container[p].state = "running"
     /\ container' = [container EXCEPT ![p].state = "exited"]
     /\ Becomes(p, [there[p] EXCEPT !.container = "exited"])
     /\ Return(t)
     /\ UNCHANGED <<process, endpoint, persistence, sandbox, submitted, told, forgotten>>

StopLocally(t) ==
  LET p == call[t].pod
  IN /\ Locally(t, "stop")
     /\ call[t].known
     /\ sandbox' = [sandbox EXCEPT ![p] = call[t].handler]
     /\ told' = told \cup {p}
     /\ Becomes(p, [there[p] EXCEPT !.sandbox = IF @ = "ready" THEN "stopped" ELSE @])
     /\ Return(t)
     /\ UNCHANGED <<process, endpoint, persistence, container, submitted, forgotten>>

RemoveLocally(t) ==
  LET p == call[t].pod
  IN /\ Locally(t, "remove")
     /\ call[t].known
     /\ sandbox' = [sandbox EXCEPT ![p] = Nobody]
     /\ Becomes(p, [there[p] EXCEPT !.sandbox = "removed"])
     /\ Return(t)
     /\ UNCHANGED <<process, endpoint, persistence, container, submitted, told, forgotten>>

\* An error or an answer, and nothing has changed: StopContainer of a container
\* that is not RUNNING, RemoveContainer, which fails in ReopenContainerLog, a
\* status query, whatever has no record or fails.
NothingLocally(t) ==
  /\ call[t].pc = "local"
  /\ call[t].op = "status" => call[t].known
  /\ Return(t)
  /\ UNCHANGED <<process, endpoint, persistence, sandbox, container, there, submitted, told,
                 forgotten>>

-----------------------------------------------------------------------------
(* The end of the process *)

\* Requests under way are cut.  LoadAll of the next process keeps no sandbox,
\* and containers where their file is kept.
Forget ==
  /\ call' = [t \in Caller |-> Idle]
  /\ sandbox' = [p \in Pod |-> Nobody]
  /\ container' = IF persistence THEN container ELSE [p \in Pod |-> Absent]
  /\ forgotten' = forgotten \cup {p \in Pod : there[p].sandbox \in {"ready", "stopped"}}
  /\ UNCHANGED <<endpoint, persistence, there, submitted, told>>

Process ==
  /\ ProcessNext
  /\ IF main # "down" /\ main' = "down" THEN Forget ELSE UNCHANGED routing

\* RemoveContainer and ContainerStatus of an unknown identifier dereference nil.
Panics(t) ==
  /\ ~call[t].known
  /\ Answered(t, "removecontainer") \/ Locally(t, "status")
  /\ Dies
  /\ Forget

Answer(t) ==
  \/ RunAnswered(t) \/ CreateAnswered(t) \/ PassedOn(t) \/ RemoveContainerAnswered(t)
  \/ StopAnswered(t) \/ RemoveAnswered(t)

Local(t) ==
  \/ RunLocally(t) \/ CreateLocally(t) \/ StartLocally(t) \/ StartFails(t)
  \/ StopContainerLocally(t) \/ StopLocally(t) \/ RemoveLocally(t) \/ NothingLocally(t)

Step(t) ==
  \/ \E p \in Pod, h \in Handler : ReceiveRun(t, p, h)
  \/ \E p \in Pod, op \in Op \ {"run"} : Receive(t, op, p)
  \/ RemoteAnswers(t) \/ RemoteReplyLost(t) \/ RemoteUnaware(t) \/ RemoteFails(t)
  \/ Answer(t) \/ Local(t) \/ Panics(t)

Next == Process \/ \E t \in Caller : Step(t)

Spec == Init /\ [][Next]_vars /\ ProcessFairness
=============================================================================
