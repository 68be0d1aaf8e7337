-------------------------- MODULE ServiceLifecycle --------------------------
(***************************************************************************)
(* The life of the process: main.go, and NewMulticriService, Run and Stop  *)
(* of runtime/service.go, with the packet filter rules that are put in     *)
(* place on the way (network/iptables.go).                                 *)
(*                                                                         *)
(* Three goroutines end the service together: the main one, the streaming  *)
(* server and the gRPC server, and the interrupt handler that main.go puts *)
(* around Run calls Stop a second time.  The rules outlive the process.    *)
(*                                                                         *)
(* Of the libraries this takes: a server that is closed before it serves   *)
(* returns from Serve at once; the interrupt handler runs Stop once, and   *)
(* leaves the process to Run; nobody else changes the rules.               *)
(***************************************************************************)
EXTENDS Integers, Sequences

CONSTANTS
  PodNetwork,   \* --enable-pod-network
  MaxErrors     \* bound: iptables -C fails for a reason of its own this often

ASSUME ProcessAssumption == PodNetwork \in BOOLEAN /\ MaxErrors \in Nat

VARIABLES
  main,          \* what the main goroutine does next
  stream,        \* the streaming server
  grpc,          \* the gRPC server
  streamClosed,  \* its Stop has been called
  grpcStopped,   \* its Stop has been called
  interrupt,     \* the interrupt handler
  chain,         \* the kernel has the target CNI
  rules,         \* the rules of the service in FORWARD, in their order
  rule,          \* the rule EnsureCNIIPTableRules is at
  errors         \* how often iptables -C has failed for a reason of its own

filter  == <<chain, rules, rule, errors>>
servers == <<stream, grpc, streamClosed, grpcStopped, interrupt>>
process == <<main, servers, filter>>

-----------------------------------------------------------------------------
Main   == {"down", "stores", "remotes", "target", "rules", "create", "run", "listen",
           "select", "stop", "stopgrpc", "wait"}
Server == {"off", "starting", "on", "ended"}
NumRules == 4

ProcessInit ==
  /\ main = "down"
  /\ stream = "off" /\ grpc = "off"
  /\ streamClosed = FALSE /\ grpcStopped = FALSE /\ interrupt = "armed"
  /\ chain = FALSE /\ rules = <<>> /\ rule = 1 /\ errors = 0

\* The process is over, whatever it was doing, and so are its goroutines.
Ends ==
  /\ main' = "down"
  /\ stream' = "off" /\ grpc' = "off"
  /\ streamClosed' = FALSE /\ grpcStopped' = FALSE /\ interrupt' = "armed"
  /\ rule' = 1
  /\ UNCHANGED <<chain, rules, errors>>

Goes(from, to) == main = from /\ main' = to

-----------------------------------------------------------------------------
(* NewMulticriService *)

Launch == Goes("down", "stores") /\ UNCHANGED <<servers, filter>>

\* Adapter, cgroup, the three stores.
LoadStores == Goes("stores", "remotes") /\ UNCHANGED <<servers, filter>>

\* LoadRemoteRuntimeConfiguration: the connections are made when first used.
LoadRemotes ==
  /\ Goes("remotes", IF PodNetwork THEN "target" ELSE "create")
  /\ UNCHANGED <<servers, filter>>

\* iptables -N; that the chain is there already is no error.
AddTarget ==
  /\ Goes("target", "rules")
  /\ chain' = TRUE
  /\ UNCHANGED <<servers, rules, rule, errors>>

Present(r) == \E i \in DOMAIN rules : rules[i] = r

\* Mutant: the rule goes to the head of the chain (-I).
CreateRuleFirst(r) == rules' = <<r>> \o rules
\* iptables -A.
CreateRule(r) == rules' = Append(rules, r)

\* On to the next rule, or to the servers after the last.
NextRule ==
  IF rule = NumRules THEN main' = "create" /\ rule' = 1
                     ELSE main' = "rules"  /\ rule' = rule + 1

\* iptables -C finds the rule.
RuleThere ==
  /\ main = "rules"
  /\ Present(rule)
  /\ NextRule
  /\ UNCHANGED <<servers, chain, rules, errors>>

\* It does not, or fails for a reason of its own, which counts as not there.
RuleCreated ==
  /\ main = "rules"
  /\ IF Present(rule) THEN errors < MaxErrors /\ errors' = errors + 1
                      ELSE UNCHANGED errors
  /\ CreateRule(rule)
  /\ NextRule
  /\ UNCHANGED <<servers, chain>>

CreateServers == Goes("create", "run") /\ UNCHANGED <<servers, filter>>

\* A step fails and klog.Exitf ends the process.
SetupFails ==
  /\ main \in {"stores", "remotes", "target", "rules", "create"}
  /\ Ends

-----------------------------------------------------------------------------
(* Run *)

RunStream ==
  /\ Goes("run", "listen")
  /\ stream' = "starting"
  /\ UNCHANGED <<grpc, streamClosed, grpcStopped, interrupt, filter>>

Listen ==
  /\ Goes("listen", "select")
  /\ grpc' = "starting"
  /\ UNCHANGED <<stream, streamClosed, grpcStopped, interrupt, filter>>

\* The socket cannot be unlinked or listened on.
ListenFails == main = "listen" /\ Ends

\* Mutant: Run waits for the gRPC server only.
SelectGrpcOnly ==
  /\ grpc = "ended"
  /\ Goes("select", "stop")
  /\ UNCHANGED <<servers, filter>>

Select ==
  /\ "ended" \in {stream, grpc}
  /\ Goes("select", "stop")
  /\ UNCHANGED <<servers, filter>>

StopStream ==
  /\ Goes("stop", "stopgrpc")
  /\ streamClosed' = TRUE
  /\ UNCHANGED <<stream, grpc, grpcStopped, interrupt, filter>>

StopGrpc ==
  /\ Goes("stopgrpc", "wait")
  /\ grpcStopped' = TRUE
  /\ UNCHANGED <<stream, grpc, streamClosed, interrupt, filter>>

RunReturns ==
  /\ main = "wait"
  /\ stream = "ended" /\ grpc = "ended"
  /\ Ends

MainStep ==
  \/ RunStream \/ Listen \/ ListenFails
  \/ Select \/ StopStream \/ StopGrpc \/ RunReturns

-----------------------------------------------------------------------------
(* The goroutines of the servers *)

StreamServe ==
  /\ stream = "starting"
  /\ stream' = IF streamClosed THEN "ended" ELSE "on"
  /\ UNCHANGED <<main, grpc, streamClosed, grpcStopped, interrupt, filter>>

StreamReturns ==
  /\ stream = "on" /\ streamClosed
  /\ stream' = "ended"
  /\ UNCHANGED <<main, grpc, streamClosed, grpcStopped, interrupt, filter>>

\* Its port is taken, or accepting a connection fails.
StreamFails ==
  /\ stream \in {"starting", "on"}
  /\ stream' = "ended"
  /\ UNCHANGED <<main, grpc, streamClosed, grpcStopped, interrupt, filter>>

GrpcServe ==
  /\ grpc = "starting"
  /\ grpc' = IF grpcStopped THEN "ended" ELSE "on"
  /\ UNCHANGED <<main, stream, streamClosed, grpcStopped, interrupt, filter>>

GrpcReturns ==
  /\ grpc = "on" /\ grpcStopped
  /\ grpc' = "ended"
  /\ UNCHANGED <<main, stream, streamClosed, grpcStopped, interrupt, filter>>

GrpcFails ==
  /\ grpc \in {"starting", "on"}
  /\ grpc' = "ended"
  /\ UNCHANGED <<main, stream, streamClosed, grpcStopped, interrupt, filter>>

-----------------------------------------------------------------------------
(* Signals *)

\* A signal while Run is under way.
Signal ==
  /\ main \in {"run", "listen", "select", "stop", "stopgrpc", "wait"}
  /\ interrupt = "armed"
  /\ interrupt' = "stop"
  /\ UNCHANGED <<main, stream, grpc, streamClosed, grpcStopped, filter>>

InterruptStopsStream ==
  /\ interrupt = "stop"
  /\ interrupt' = "stopgrpc"
  /\ streamClosed' = TRUE
  /\ UNCHANGED <<main, stream, grpc, grpcStopped, filter>>

InterruptStopsGrpc ==
  /\ interrupt = "stopgrpc"
  /\ interrupt' = "spent"
  /\ grpcStopped' = TRUE
  /\ UNCHANGED <<main, stream, grpc, streamClosed, filter>>

\* Death: a signal that is not handled, a panic, a crash of the node.
Dies == main # "down" /\ Ends

-----------------------------------------------------------------------------
StreamStep    == StreamServe \/ StreamReturns \/ StreamFails
GrpcStep      == GrpcServe \/ GrpcReturns \/ GrpcFails
InterruptStep == InterruptStopsStream \/ InterruptStopsGrpc

ProcessNext ==
  \/ Launch \/ LoadStores \/ LoadRemotes
  \/ AddTarget \/ RuleThere \/ RuleCreated \/ CreateServers \/ SetupFails
  \/ MainStep \/ StreamStep \/ GrpcStep
  \/ Signal \/ InterruptStep
  \/ Dies

\* A goroutine that can go on does so; that a server fails, that a signal comes
\* and that the process is started is up to others.
ProcessFairness ==
  /\ WF_process(MainStep)
  /\ WF_process(StreamServe \/ StreamReturns)
  /\ WF_process(GrpcServe \/ GrpcReturns)
  /\ WF_process(InterruptStep)

ProcessSpec == ProcessInit /\ [][ProcessNext]_process /\ ProcessFairness
=============================================================================
