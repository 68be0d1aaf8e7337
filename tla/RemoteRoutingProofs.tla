------------------------- MODULE RemoteRoutingProofs -------------------------
(***************************************************************************)
(* Proofs about routing and the life of the process, for every set of      *)
(* pods, endpoint names and request slots.                                 *)
(***************************************************************************)
EXTENDS RemoteRoutingProps, TLAPS

-----------------------------------------------------------------------------
(* Types *)

\* The types of routing, apart from those of the process.
RoutingTypeOK ==
  /\ endpoint \in SUBSET Class /\ persistence \in BOOLEAN
  /\ sandbox \in [Pod -> Handler \cup {Nobody}]
  /\ container \in [Pod -> ContainerMetadata]
  /\ there \in [Pod -> Held]
  /\ submitted \in SUBSET Pod /\ told \in SUBSET Pod /\ forgotten \in SUBSET Pod
  /\ call \in [Caller -> Call]

LEMMA TypeParts == TypeOK <=> ProcessTypeOK /\ RoutingTypeOK
  BY DEF TypeOK, RoutingTypeOK

LEMMA IdleType == Idle \in Call
  BY DEF Idle, Call, Op, OfSandbox, OfContainer, Handler

LEMMA NothingType == Absent \in ContainerMetadata /\ NotHeld \in Held
  BY DEF ContainerMetadata, Absent, Held, NotHeld

LEMMA EndsType == ProcessTypeOK /\ Ends => ProcessTypeOK'
<1> SUFFICES ASSUME ProcessTypeOK, Ends PROVE ProcessTypeOK'
  OBVIOUS
<1>1. main' \in Main /\ stream' \in Server /\ grpc' \in Server
  BY DEF Ends, Main, Server
<1>2. streamClosed' \in BOOLEAN /\ grpcStopped' \in BOOLEAN
  BY DEF Ends
<1>3. interrupt' \in {"armed", "stop", "stopgrpc", "spent"}
  BY DEF Ends
<1>4. chain' \in BOOLEAN /\ rules' \in Seq(1..NumRules) /\ errors' \in Nat
  BY DEF Ends, ProcessTypeOK
<1>5. rule' \in 1..NumRules
  BY DEF Ends, NumRules
<1> QED
  BY <1>1, <1>2, <1>3, <1>4, <1>5 DEF ProcessTypeOK

LEMMA InitType == Init => TypeOK
<1>1. ProcessInit => ProcessTypeOK
  <2> SUFFICES ASSUME ProcessInit PROVE ProcessTypeOK
    OBVIOUS
  <2>1. main \in Main /\ stream \in Server /\ grpc \in Server
    BY DEF ProcessInit, Main, Server
  <2>2. streamClosed \in BOOLEAN /\ grpcStopped \in BOOLEAN
    BY DEF ProcessInit
  <2>3. interrupt \in {"armed", "stop", "stopgrpc", "spent"}
    BY DEF ProcessInit
  <2>4. chain \in BOOLEAN /\ errors \in Nat
    BY DEF ProcessInit
  <2>6. <<>> \in Seq(1..NumRules) /\ rules = <<>>
    BY DEF ProcessInit
  <2>5. rule \in 1..NumRules
    BY DEF ProcessInit, NumRules
  <2> QED
    BY <2>1, <2>2, <2>3, <2>4, <2>5, <2>6 DEF ProcessTypeOK
<1>2. RoutingInit => RoutingTypeOK
  BY IdleType, NothingType DEF RoutingInit, RoutingTypeOK
<1> QED
  BY <1>1, <1>2, TypeParts DEF Init

LEMMA ProcessType == ProcessTypeOK /\ ProcessNext => ProcessTypeOK'
<1> SUFFICES ASSUME ProcessTypeOK, ProcessNext PROVE ProcessTypeOK'
  OBVIOUS
<1> USE DEF ProcessTypeOK, Main, Server, NumRules, Goes, servers, filter
<1>1. CASE Launch \/ LoadStores \/ AddTarget \/ CreateServers
  BY <1>1 DEF Launch, LoadStores, AddTarget, CreateServers
<1>2. CASE LoadRemotes
  BY <1>2 DEF LoadRemotes
<1>3. CASE RuleThere \/ RuleCreated
  <2>1. rules' \in Seq(1..NumRules) /\ errors' \in Nat
    <3>1. CASE RuleThere
      BY <3>1 DEF RuleThere
    <3>2. CASE RuleCreated
      BY <3>2 DEF RuleCreated, CreateRule
    <3> QED
      BY <1>3, <3>1, <3>2
  <2>2. main' \in Main /\ rule' \in 1..NumRules
    BY <1>3 DEF RuleThere, RuleCreated, NextRule
  <2> QED
    BY <1>3, <2>1, <2>2 DEF RuleThere, RuleCreated
<1>4. CASE SetupFails \/ ListenFails \/ RunReturns \/ Dies
  BY <1>4, EndsType DEF SetupFails, ListenFails, RunReturns, Dies
<1>5. CASE RunStream \/ Listen \/ Select \/ StopStream \/ StopGrpc
  BY <1>5 DEF RunStream, Listen, Select, StopStream, StopGrpc
<1>6. CASE StreamStep \/ GrpcStep
  BY <1>6 DEF StreamStep, StreamServe, StreamReturns, StreamFails, GrpcStep, GrpcServe,
              GrpcReturns, GrpcFails
<1>7. CASE Signal \/ InterruptStep
  BY <1>7 DEF Signal, InterruptStep, InterruptStopsStream, InterruptStopsGrpc
<1> QED
  BY <1>1, <1>2, <1>3, <1>4, <1>5, <1>6, <1>7 DEF ProcessNext, MainStep

\* What GetRemoteRuntime makes of a handler and a set of endpoints.
RuntimeAt(ep, h) ==
  LET name == IF h = Empty THEN Default ELSE h
  IN CASE h = Multicri \/ ep = {} -> Multicri
       [] name \in ep             -> name
       [] OTHER                   -> Nobody

LEMMA RuntimeNow == \A h : GetRemoteRuntime(h) = RuntimeAt(endpoint, h)
  BY DEF GetRemoteRuntime, RuntimeAt

LEMMA RuntimeType ==
  ASSUME NEW ep \in SUBSET Class, NEW h \in Handler
  PROVE  /\ RuntimeAt(ep, h) \in ep \cup {Multicri, Nobody}
         /\ Multicri \notin ep /\ Nobody \notin ep /\ Empty \notin ep
         /\ Multicri # Nobody
  BY ClassAssumption DEF RuntimeAt, Handler, Multicri, Nobody, Empty, Default

LEMMA BeginType ==
  ASSUME RoutingTypeOK, NEW t \in Caller, NEW op \in Op, NEW p \in Pod, NEW h \in Handler,
         NEW known \in BOOLEAN, Begin(t, op, p, h, known)
  PROVE  call' \in [Caller -> Call]
<1> DEFINE r == GetRemoteRuntime(h)
           pc == CASE r = Multicri -> "local"
                   [] r = Nobody   -> IF DropsError(op) THEN "local" ELSE "idle"
                   [] OTHER        -> "remote"
           c == [op |-> op, pod |-> p, pc |-> pc, handler |-> h, known |-> known]
<1>1. pc \in {"idle", "remote", "reply", "local"}
  OBVIOUS
<1>2. c \in Call
  BY <1>1 DEF Call
<1>3. call' = [call EXCEPT ![t] = IF pc = "idle" THEN Idle ELSE c]
  BY DEF Begin
<1> HIDE DEF c, pc
<1> QED
  BY <1>2, <1>3, IdleType DEF RoutingTypeOK

LEMMA EffectType ==
  ASSUME NEW op \in Op, NEW r \in Runtime \cup {Nobody}, NEW s \in Held
  PROVE  Effect(op, r, s) \in Held
<1> USE DEF Held, Runtime
<1>1. CASE op = "run"
  BY <1>1 DEF Effect
<1>2. CASE op = "stop"
  BY <1>2 DEF Effect
<1>3. CASE op = "remove"
  BY <1>3 DEF Effect
<1>4. CASE op \in {"create", "start"}
  BY <1>4 DEF Effect
<1>5. CASE op \in {"stopcontainer", "removecontainer"}
  BY <1>5 DEF Effect
<1>6. CASE op = "status"
  BY <1>6 DEF Effect
<1> QED
  BY <1>1, <1>2, <1>3, <1>4, <1>5, <1>6 DEF Op, OfSandbox, OfContainer

\* A request under way is about a pod.
CallsHavePods == \A t \in Caller : call[t].pc # "idle" => call[t].pod \in Pod

LEMMA BeginPods ==
  ASSUME RoutingTypeOK, CallsHavePods, NEW t \in Caller, NEW op, NEW p \in Pod, NEW h,
         NEW known, Begin(t, op, p, h, known)
  PROVE  CallsHavePods'
  BY DEF Begin, RoutingTypeOK, CallsHavePods, Idle

LEMMA ReturnType ==
  ASSUME RoutingTypeOK, CallsHavePods, NEW t \in Caller, Return(t)
  PROVE  call' \in [Caller -> Call] /\ CallsHavePods'
  BY IdleType DEF Return, RoutingTypeOK, CallsHavePods, Idle

LEMMA MoveType ==
  ASSUME RoutingTypeOK, CallsHavePods, NEW t \in Caller, call[t].pc # "idle",
         NEW pc \in {"reply", "local"}, call' = [call EXCEPT ![t].pc = pc]
  PROVE  call' \in [Caller -> Call] /\ CallsHavePods'
<1>1. [call[t] EXCEPT !.pc = pc] \in Call
  BY DEF RoutingTypeOK, Call
<1>2. call' = [call EXCEPT ![t] = [call[t] EXCEPT !.pc = pc]]
  OBVIOUS
<1> QED
  BY <1>1, <1>2 DEF RoutingTypeOK, CallsHavePods, Call

LEMMA AfterErrorType ==
  ASSUME RoutingTypeOK, CallsHavePods, NEW t \in Caller, call[t].pc # "idle", AfterError(t)
  PROVE  call' \in [Caller -> Call] /\ CallsHavePods'
  BY ReturnType, MoveType DEF AfterError

LEMMA ForgetType ==
  ASSUME RoutingTypeOK, CallsHavePods, Forget
  PROVE  RoutingTypeOK' /\ CallsHavePods'
<1>1. call' \in [Caller -> Call] /\ CallsHavePods'
  BY IdleType DEF Forget, CallsHavePods, Idle
<1>2. container' \in [Pod -> ContainerMetadata]
  BY NothingType DEF Forget, RoutingTypeOK
<1> QED
  BY <1>1, <1>2 DEF Forget, RoutingTypeOK

LEMMA TargetType ==
  ASSUME RoutingTypeOK, NEW t \in Caller
  PROVE  Target(t) \in Runtime \cup {Nobody}
<1>1. call[t].handler \in Handler /\ endpoint \in SUBSET Class
  BY DEF RoutingTypeOK, Call
<1> QED
  BY <1>1, RuntimeType, RuntimeNow DEF Target, Runtime

LEMMA RemoteType ==
  ASSUME RoutingTypeOK, CallsHavePods, NEW t \in Caller,
         RemoteAnswers(t) \/ RemoteReplyLost(t) \/ RemoteUnaware(t) \/ RemoteFails(t)
  PROVE  RoutingTypeOK' /\ CallsHavePods'
<1>1. call[t].pc # "idle" /\ call[t].pod \in Pod /\ call[t].op \in Op
  BY DEF RemoteAnswers, RemoteReplyLost, RemoteUnaware, RemoteFails, RoutingTypeOK, Call,
         CallsHavePods
<1>2. call' \in [Caller -> Call] /\ CallsHavePods'
  BY <1>1, MoveType, AfterErrorType
  DEF RemoteAnswers, RemoteReplyLost, RemoteUnaware, RemoteFails
<1>3. Effect(call[t].op, Target(t), there[call[t].pod]) \in Held
  BY <1>1, TargetType, EffectType DEF RoutingTypeOK
<1>4. there' \in [Pod -> Held]
  BY <1>1, <1>3 DEF RemoteAnswers, RemoteReplyLost, RemoteUnaware, RemoteFails, RoutingTypeOK
<1> QED
  BY <1>1, <1>2, <1>4
  DEF RemoteAnswers, RemoteReplyLost, RemoteUnaware, RemoteFails, RoutingTypeOK

LEMMA ReceiveType ==
  ASSUME RoutingTypeOK, CallsHavePods, NEW t \in Caller,
         \/ \E p \in Pod, h \in Handler : ReceiveRun(t, p, h)
         \/ \E p \in Pod, op \in Op \ {"run"} : Receive(t, op, p)
  PROVE  RoutingTypeOK' /\ CallsHavePods'
<1>1. CASE \E p \in Pod, h \in Handler : ReceiveRun(t, p, h)
  <2>1. PICK p \in Pod, h \in Handler : ReceiveRun(t, p, h)
    BY <1>1
  <2>2. "run" \in Op
    BY DEF Op, OfSandbox
  <2>3. call' \in [Caller -> Call] /\ CallsHavePods'
    BY <2>1, <2>2, BeginType, BeginPods DEF ReceiveRun
  <2> QED
    BY <2>1, <2>3 DEF ReceiveRun, RoutingTypeOK
<1>2. CASE \E p \in Pod, op \in Op \ {"run"} : Receive(t, op, p)
  <2>1. PICK p \in Pod, op \in Op \ {"run"} : Receive(t, op, p)
    BY <1>2
  <2> DEFINE h == IF op \in {"stop", "remove", "create"} THEN sandbox[p]
                  ELSE container[p].handler
             g == IF h = Nobody THEN Empty ELSE h
             known == (h # Nobody)
  <2>2. g \in Handler /\ known \in BOOLEAN
    BY DEF RoutingTypeOK, ContainerMetadata, Handler
  <2>3. Begin(t, op, p, g, known)
    BY <2>1 DEF Receive
  <2> HIDE DEF g, known
  <2>4. call' \in [Caller -> Call] /\ CallsHavePods'
    BY <2>2, <2>3, BeginType, BeginPods
  <2> QED
    BY <2>1, <2>4 DEF Receive, RoutingTypeOK
<1> QED
  BY <1>1, <1>2

\* The fields of a record of a container.
LEMMA ContainerType ==
  /\ \A h \in Handler, c \in BOOLEAN : ContainerOf(h, c) \in ContainerMetadata
  /\ \A h \in Handler : RemoteContainer(h) \in ContainerMetadata
  BY DEF ContainerMetadata, ContainerOf, RemoteContainer

LEMMA AnswerType ==
  ASSUME RoutingTypeOK, CallsHavePods, NEW t \in Caller, Answer(t)
  PROVE  RoutingTypeOK' /\ CallsHavePods'
<1>1. call[t].pod \in Pod /\ call[t].handler \in Handler /\ Return(t)
  BY DEF RoutingTypeOK, Call, CallsHavePods, Answer, Answered, RunAnswered, CreateAnswered,
         PassedOn, RemoveContainerAnswered, StopAnswered, RemoveAnswered
<1>2. call' \in [Caller -> Call] /\ CallsHavePods'
  BY <1>1, ReturnType
<1>3. CASE CreateAnswered(t)
  BY <1>1, <1>2, <1>3, ContainerType DEF CreateAnswered, RoutingTypeOK
<1>4. CASE StopAnswered(t)
  BY <1>1, <1>2, <1>4 DEF StopAnswered, RoutingTypeOK
<1>5. CASE RunAnswered(t) \/ RemoveAnswered(t)
  BY <1>1, <1>2, <1>5 DEF RunAnswered, RemoveAnswered, RoutingTypeOK
<1>6. CASE PassedOn(t) \/ RemoveContainerAnswered(t)
  BY <1>1, <1>2, <1>6 DEF PassedOn, RemoveContainerAnswered, RoutingTypeOK
<1> QED
  BY <1>3, <1>4, <1>5, <1>6 DEF Answer

LEMMA BecomesType ==
  ASSUME RoutingTypeOK, NEW p \in Pod, NEW s \in Held, Becomes(p, s)
  PROVE  there' \in [Pod -> Held]
  BY DEF RoutingTypeOK, Becomes

LEMMA LocalType ==
  ASSUME RoutingTypeOK, CallsHavePods, NEW t \in Caller, Local(t)
  PROVE  RoutingTypeOK' /\ CallsHavePods'
<1> DEFINE p == call[t].pod
<1>1. p \in Pod /\ call[t].handler \in Handler /\ Return(t)
  BY DEF RoutingTypeOK, Call, CallsHavePods, Local, Locally, RunLocally, CreateLocally,
         StartLocally, StartFails, StopContainerLocally, StopLocally, RemoveLocally,
         NothingLocally
<1>2. call' \in [Caller -> Call] /\ CallsHavePods'
  BY <1>1, ReturnType
<1>3. \A s \in {"none", "created", "running", "exited", "removed"} :
        [there[p] EXCEPT !.container = s] \in Held
  BY <1>1 DEF RoutingTypeOK, Held
<1>4. \A s \in {"none", "ready", "stopped", "removed"} :
        [there[p] EXCEPT !.sandbox = s] \in Held
  BY <1>1 DEF RoutingTypeOK, Held
<1>5. \A s \in {"created", "running", "exited"} :
        [container[p] EXCEPT !.state = s] \in ContainerMetadata
  BY <1>1 DEF RoutingTypeOK, ContainerMetadata
<1>6. CASE RunLocally(t)
  <2>1. Effect("run", Multicri, there[p]) \in Held
    BY <1>1, EffectType DEF RoutingTypeOK, Op, OfSandbox, Runtime
  <2> QED
    BY <1>1, <1>2, <1>6, <2>1 DEF RunLocally, RoutingTypeOK
<1>7. CASE CreateLocally(t)
  <2>1. there' \in [Pod -> Held]
    BY <1>1, <1>3, <1>7, BecomesType DEF CreateLocally
  <2>2. container' \in [Pod -> ContainerMetadata]
    BY <1>1, <1>7, ContainerType DEF CreateLocally, RoutingTypeOK
  <2> QED
    BY <1>1, <1>2, <1>7, <2>1, <2>2 DEF CreateLocally, RoutingTypeOK
<1>8. CASE StartLocally(t) \/ StopContainerLocally(t) \/ StartFails(t)
  <2>1. there' \in [Pod -> Held]
    BY <1>1, <1>3, <1>8, BecomesType
    DEF StartLocally, StopContainerLocally, StartFails, RoutingTypeOK
  <2>2. container' \in [Pod -> ContainerMetadata]
    BY <1>1, <1>5, <1>8 DEF StartLocally, StopContainerLocally, StartFails, RoutingTypeOK
  <2> QED
    BY <1>1, <1>2, <1>8, <2>1, <2>2
    DEF StartLocally, StopContainerLocally, StartFails, RoutingTypeOK
<1>9. CASE StopLocally(t) \/ RemoveLocally(t)
  <2>1. there[p].sandbox \in {"none", "ready", "stopped", "removed"}
    BY <1>1 DEF RoutingTypeOK, Held
  <2>2. there' \in [Pod -> Held]
    BY <1>1, <1>4, <1>9, <2>1, BecomesType DEF StopLocally, RemoveLocally
  <2> QED
    BY <1>1, <1>2, <1>9, <2>2 DEF StopLocally, RemoveLocally, RoutingTypeOK
<1>10. CASE NothingLocally(t)
  BY <1>2, <1>10 DEF NothingLocally, RoutingTypeOK
<1> QED
  BY <1>6, <1>7, <1>8, <1>9, <1>10 DEF Local

\* What every request does keeps the types of routing.
LEMMA StepType ==
  ASSUME RoutingTypeOK, CallsHavePods, NEW t \in Caller, Step(t)
  PROVE  RoutingTypeOK' /\ CallsHavePods'
  BY ReceiveType, RemoteType, AnswerType, LocalType, ForgetType DEF Step, Panics

\* What a request leaves of the process.
LEMMA StepProcess ==
  ASSUME NEW t \in Caller, Step(t)
  PROVE  UNCHANGED process \/ Dies
<1>1. CASE \/ \E p \in Pod, h \in Handler : ReceiveRun(t, p, h)
           \/ \E p \in Pod, op \in Op \ {"run"} : Receive(t, op, p)
  BY <1>1 DEF ReceiveRun, Receive
<1>2. CASE RemoteAnswers(t) \/ RemoteReplyLost(t) \/ RemoteUnaware(t) \/ RemoteFails(t)
  BY <1>2 DEF RemoteAnswers, RemoteReplyLost, RemoteUnaware, RemoteFails
<1>3. CASE Answer(t)
  BY <1>3 DEF Answer, RunAnswered, CreateAnswered, PassedOn, RemoveContainerAnswered,
              StopAnswered, RemoveAnswered
<1>4. CASE Local(t)
  BY <1>4 DEF Local, RunLocally, CreateLocally, StartLocally, StartFails,
              StopContainerLocally, StopLocally, RemoveLocally, NothingLocally
<1> QED
  BY <1>1, <1>2, <1>3, <1>4 DEF Step, Panics

LEMMA SameProcessType == ProcessTypeOK /\ UNCHANGED process => ProcessTypeOK'
  BY DEF ProcessTypeOK, process, servers, filter

LEMMA SameRoutingType ==
  RoutingTypeOK /\ CallsHavePods /\ UNCHANGED routing => RoutingTypeOK' /\ CallsHavePods'
  BY DEF RoutingTypeOK, CallsHavePods, routing

\* Every variable keeps its type, and requests are about pods.
THEOREM RoutingTypeCorrect == Spec => [](TypeOK /\ CallsHavePods)
<1>1. Init => TypeOK /\ CallsHavePods
  BY InitType DEF Init, RoutingInit, CallsHavePods, Idle
<1>2. TypeOK /\ CallsHavePods /\ [Next]_vars => (TypeOK /\ CallsHavePods)'
  <2> SUFFICES ASSUME ProcessTypeOK, RoutingTypeOK, CallsHavePods, [Next]_vars
               PROVE  ProcessTypeOK' /\ RoutingTypeOK' /\ CallsHavePods'
    BY TypeParts DEF TypeOK, ProcessTypeOK, RoutingTypeOK
  <2>1. CASE Process
    BY <2>1, ProcessType, ForgetType, SameRoutingType DEF Process
  <2>2. CASE \E t \in Caller : Step(t)
    BY <2>2, StepType, StepProcess, SameProcessType, EndsType DEF Dies
  <2>3. CASE UNCHANGED vars
    BY <2>3, SameProcessType, SameRoutingType DEF vars
  <2> QED
    BY <2>1, <2>2, <2>3 DEF Next
<1> QED
  BY <1>1, <1>2, PTL DEF Spec

-----------------------------------------------------------------------------
(* The rules of the packet filter: what is in place up to the rule that is *)
(* next, also after starts that were cut, and what a serving gRPC server   *)
(* says about the steps of NewMulticriService.                             *)

Started == {"create", "run", "listen", "select", "stop", "stopgrpc", "wait"}

RulesInv ==
  /\ main = "rules" => \A r \in 1..NumRules : r < rule => Present(r)
  /\ main # "rules" => rule = 1
  /\ PodNetwork /\ main \in Started => \A r \in 1..NumRules : Present(r)
  /\ grpc # "off" => main \in {"select", "stop", "stopgrpc", "wait"}
  /\ errors = 0 => \A i \in DOMAIN rules : rules[i] = i

LEMMA SameRules == UNCHANGED rules => \A r : Present(r) <=> Present(r)'
  BY DEF Present

LEMMA SameRulesInv == RulesInv /\ UNCHANGED process => RulesInv'
  BY SameRules DEF RulesInv, process, servers, filter

LEMMA EndsRules == RulesInv /\ Ends => RulesInv'
  BY DEF RulesInv, Ends, Started

\* A rule that is created is there, at the end, and the others are still there.
LEMMA CreatedRules ==
  ASSUME rules \in Seq(1..NumRules), NEW r \in 1..NumRules, CreateRule(r)
  PROVE  /\ Present(r)'
         /\ \A q : Present(q) => Present(q)'
         /\ DOMAIN rules = 1..Len(rules) /\ DOMAIN rules' = 1..(Len(rules) + 1)
         /\ rules'[Len(rules) + 1] = r
         /\ \A i \in 1..Len(rules) : rules'[i] = rules[i]
         /\ Len(rules) \in Nat
<1>1. rules' = Append(rules, r) /\ Len(rules) \in Nat /\ DOMAIN rules = 1..Len(rules)
  BY DEF CreateRule
<1>2. DOMAIN rules' = 1..(Len(rules) + 1)
  BY <1>1
<1>3. rules'[Len(rules) + 1] = r
  BY <1>1
<1>4. \A i \in 1..Len(rules) : rules'[i] = rules[i]
  BY <1>1
<1>5. Len(rules) + 1 \in DOMAIN rules' /\ \A i \in DOMAIN rules : i \in DOMAIN rules'
  BY <1>1, <1>2
<1>6. Present(r)'
  BY <1>3, <1>5 DEF Present
<1>7. \A q : Present(q) => Present(q)'
  BY <1>1, <1>4, <1>5 DEF Present
<1> QED
  BY <1>1, <1>2, <1>3, <1>4, <1>6, <1>7

\* The step to the next rule, or to the servers.
LEMMA NextRuleRules ==
  ASSUME ProcessTypeOK, RulesInv, main = "rules", NextRule, UNCHANGED grpc,
         \A r \in 1..NumRules : Present(r) => Present(r)',
         \E r : r = rule /\ Present(r)'
  PROVE  /\ main' = "rules" => \A r \in 1..NumRules : r < rule' => Present(r)'
         /\ main' # "rules" => rule' = 1
         /\ PodNetwork /\ main' \in Started => \A r \in 1..NumRules : Present(r)'
         /\ grpc' # "off" => main' \in {"select", "stop", "stopgrpc", "wait"}
<1>1. rule \in 1..4 /\ \A r \in 1..NumRules : r < rule => Present(r)
  BY DEF RulesInv, ProcessTypeOK, NumRules
<1>2. \A r \in 1..NumRules : r <= rule => Present(r)'
  BY <1>1 DEF NumRules
<1>3. grpc = "off"
  BY DEF RulesInv
<1>4. CASE rule = NumRules
  BY <1>1, <1>2, <1>3, <1>4 DEF NextRule, NumRules
<1>5. CASE rule # NumRules
  BY <1>1, <1>2, <1>3, <1>5 DEF NextRule, NumRules, Started
<1> QED
  BY <1>4, <1>5

LEMMA RulesStep ==
  ASSUME ProcessTypeOK, RulesInv, ProcessNext
  PROVE  RulesInv'
<1> USE DEF Goes, servers, filter, Started
<1>1. CASE Launch \/ LoadStores \/ AddTarget
  BY <1>1, SameRules DEF Launch, LoadStores, AddTarget, RulesInv
<1>2. CASE LoadRemotes
  BY <1>2, SameRules DEF LoadRemotes, RulesInv
<1>3. CASE RuleThere
  <2>1. \A r : Present(r) <=> Present(r)'
    BY <1>3, SameRules DEF RuleThere
  <2>2. \E r : r = rule /\ Present(r)'
    BY <1>3, <2>1 DEF RuleThere
  <2>3. errors' = 0 => \A i \in DOMAIN rules' : rules'[i] = i
    BY <1>3 DEF RuleThere, RulesInv
  <2> QED
    BY <1>3, <2>1, <2>2, <2>3, NextRuleRules DEF RuleThere, RulesInv
<1>4. CASE RuleCreated
  <2>1. PICK r \in 1..NumRules : r = rule
    BY DEF ProcessTypeOK
  <2>2. rules \in Seq(1..NumRules) /\ CreateRule(r) /\ errors \in Nat
    BY <1>4, <2>1 DEF RuleCreated, ProcessTypeOK
  <2>3. errors' = 0 => \A i \in DOMAIN rules' : rules'[i] = i
    <3> SUFFICES ASSUME errors' = 0 PROVE \A i \in DOMAIN rules' : rules'[i] = i
      OBVIOUS
    <3>1. errors = 0 /\ ~Present(r)
      BY <1>4, <2>1, <2>2 DEF RuleCreated
    <3>2. \A i \in 1..Len(rules) : rules[i] = i
      BY <2>2, <3>1, CreatedRules DEF RulesInv
    <3>3. \A q \in 1..NumRules : q < r => Present(q)
      BY <1>4, <2>1 DEF RuleCreated, RulesInv
    <3>4. Len(rules) \in Nat /\ DOMAIN rules = 1..Len(rules)
      BY <2>2
    <3>5. r > Len(rules)
      BY <2>1, <3>1, <3>2, <3>4 DEF Present, NumRules
    <3>6. r <= Len(rules) + 1
      <4> SUFFICES ASSUME r > Len(rules) + 1 PROVE FALSE
        BY <3>4 DEF NumRules
      <4>1. Len(rules) + 1 \in 1..NumRules
        BY <3>4 DEF NumRules
      <4>2. PICK i \in DOMAIN rules : rules[i] = Len(rules) + 1
        BY <4>1, <3>3 DEF Present
      <4> QED
        BY <4>2, <3>2, <3>4
    <3> QED
      BY <2>2, <3>2, <3>4, <3>5, <3>6, CreatedRules DEF NumRules
  <2>4. \E q : q = rule /\ Present(q)'
    BY <2>1, <2>2, CreatedRules
  <2>5. \A q \in 1..NumRules : Present(q) => Present(q)'
    BY <2>2, CreatedRules
  <2>6. main = "rules" /\ NextRule /\ UNCHANGED grpc
    BY <1>4 DEF RuleCreated
  <2> QED
    BY <2>3, <2>4, <2>5, <2>6, NextRuleRules DEF RulesInv
<1>5. CASE SetupFails \/ ListenFails \/ RunReturns \/ Dies
  BY <1>5, EndsRules DEF SetupFails, ListenFails, RunReturns, Dies
<1>6. CASE CreateServers \/ RunStream \/ Listen \/ Select \/ StopStream \/ StopGrpc
  BY <1>6, SameRules DEF CreateServers, RunStream, Listen, Select, StopStream, StopGrpc, RulesInv
<1>7. CASE StreamStep \/ GrpcStep
  BY <1>7, SameRules
  DEF StreamStep, StreamServe, StreamReturns, StreamFails, GrpcStep, GrpcServe, GrpcReturns,
      GrpcFails, RulesInv
<1>8. CASE Signal \/ InterruptStep
  BY <1>8, SameRules
  DEF Signal, InterruptStep, InterruptStopsStream, InterruptStopsGrpc, RulesInv
<1> QED
  BY <1>1, <1>2, <1>3, <1>4, <1>5, <1>6, <1>7, <1>8 DEF ProcessNext, MainStep

\* While requests are served the packet filter is in place, after any number of
\* starts cut anywhere, and without a failing iptables -C in its order.
THEOREM RulesInOrderCorrect == Spec => []RulesInOrder
<1>1. Init => RulesInv
  BY DEF Init, ProcessInit, RulesInv, Started
<1>2. TypeOK /\ RulesInv /\ [Next]_vars => RulesInv'
  BY RulesStep, StepProcess, SameRulesInv, EndsRules, TypeParts
  DEF Next, Process, Dies, vars
<1>3. RulesInv => RulesInOrder
  BY DEF RulesInv, RulesInOrder, Started
<1> QED
  BY <1>1, <1>2, <1>3, RoutingTypeCorrect, PTL DEF Spec
=============================================================================
