------------------------- MODULE RemoteRoutingProps -------------------------
(* What routing and the life of the process promise. *)
EXTENDS RemoteRouting

\* The types of the variables of the process.
ProcessTypeOK ==
  /\ main \in Main /\ stream \in Server /\ grpc \in Server
  /\ streamClosed \in BOOLEAN /\ grpcStopped \in BOOLEAN
  /\ interrupt \in {"armed", "stop", "stopgrpc", "spent"}
  /\ chain \in BOOLEAN /\ rules \in Seq(1..NumRules) /\ rule \in 1..NumRules
  /\ errors \in Nat

\* Every variable keeps its type.
TypeOK ==
  /\ ProcessTypeOK
  /\ endpoint \in SUBSET Class /\ persistence \in BOOLEAN
  /\ sandbox \in [Pod -> Handler \cup {Nobody}]
  /\ container \in [Pod -> ContainerMetadata]
  /\ there \in [Pod -> Held]
  /\ submitted \in SUBSET Pod /\ told \in SUBSET Pod /\ forgotten \in SUBSET Pod
  /\ call \in [Caller -> Call]

-----------------------------------------------------------------------------
\* No job is submitted to the cluster for a pod of another runtime.  A start
\* whose remote error was dropped goes on as a start of this service's own
\* (container.go:108-120), and only the empty environment of the record that
\* CreateContainer made stops it (container.go:90, cmd.go:89-98).
NoJobForRemote == \A p \in submitted : there[p].runtime = Multicri

\* Requests go to the runtime that has what they are about: by the record of
\* the sandbox and by that of the container, which outlives the other one's, and
\* a sandbox some runtime has is without a record only when the record was lost
\* with a reply or with the process, or is about to be made
\* (remote/runtime.go:113).
RequestsGoHome ==
  \A p \in Pod :
    /\ sandbox[p] # Nobody => GetRemoteRuntime(sandbox[p]) = there[p].runtime
    /\ container[p].handler # Nobody =>
         GetRemoteRuntime(container[p].handler) = there[p].runtime
    /\ there[p].sandbox \in {"ready", "stopped"} /\ sandbox[p] = Nobody =>
         \/ p \in forgotten
         \/ \E t \in Caller : call[t].pod = p /\ Answered(t, "run")

\* With a default runtime, the kubelet finds every sandbox and container that
\* the service remembers or another runtime has exactly once in the listings,
\* which join the own store with the answers of all remote runtimes
\* (MulticriRuntimeName, store/sandbox.go:154); and never twice without one.
ListedOnce ==
  \A p \in Pod :
    /\ p \notin LocalSandboxes \cap RemoteSandboxes
    /\ p \notin LocalContainers \cap RemoteContainers
    /\ Default \in endpoint =>
         /\ sandbox[p] # Nobody /\ there[p].sandbox # "removed" =>
              p \in LocalSandboxes \cup RemoteSandboxes
         /\ container[p].handler # Nobody /\ there[p].container # "removed" =>
              p \in LocalContainers \cup RemoteContainers

\* ListContainers looks into the image of every record it lists, and the record
\* of a remote container has none: no such record is ever listed as the
\* service's own, or the process would end (store/container.go:176-190).
ListedHaveImage == \A p \in LocalContainers : container[p].credentials

\* A sandbox the service knew and said is stopped is stopped, whoever has it
\* and however remote calls fail (sandbox.go:94-118).  Nothing of the kind holds
\* of StopContainer, which drops the error (container.go:149).
ToldStopped == \A p \in told : there[p].sandbox \in {"stopped", "removed"}

-----------------------------------------------------------------------------
\* While requests are served all rules are in place, also when earlier starts
\* were cut or failed between two rules; and unless iptables -C has failed for a
\* reason of its own, they are there once and in the order of the code, in
\* which FORWARD is gone through (iptables.go:39-59).
RulesInOrder ==
  /\ PodNetwork /\ grpc = "on" => \A r \in 1..NumRules : Present(r)
  /\ errors = 0 => \A i \in DOMAIN rules : rules[i] = i

\* "Stop the whole multi-cri service if any of the critical service exits"
\* (service.go:216): when one of the servers has ended, or the interrupt handler
\* has begun, also before a server serves, the process comes to its end.
EitherEndsBoth ==
  (stream = "ended" \/ grpc = "ended" \/ interrupt # "armed") ~> main = "down"
=============================================================================
