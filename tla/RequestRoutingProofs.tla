------------------------ MODULE RequestRoutingProofs ------------------------
(***************************************************************************)
(* Proofs of what routing promises, for every set of pods and endpoint     *)
(* names, any number of requests at the same time and any end of the       *)
(* process.                                                                *)
(*                                                                         *)
(* RouteInv relates each pod's records to the runtime that has the pod,    *)
(* and each request under way to the pod it is about.  A step of a request *)
(* changes its own pod only, and what the runtimes have goes one way, so   *)
(* that what another request has seen of the pod stays true.               *)
(***************************************************************************)
EXTENDS RemoteRoutingProofs

-----------------------------------------------------------------------------
(* The invariant *)

\* The records of a pod name the runtime that has it.
RecordsSound(p) ==
  /\ sandbox[p] # Nobody =>
       /\ there[p].runtime # Nobody
       /\ RuntimeAt(endpoint, sandbox[p]) = there[p].runtime
  /\ container[p].handler # Nobody =>
       /\ there[p].runtime # Nobody
       /\ RuntimeAt(endpoint, container[p].handler) = there[p].runtime
       /\ container[p].credentials <=> there[p].runtime = Multicri
       /\ there[p].container # "none"
  /\ container[p].handler = Nobody => ~container[p].credentials

AboutToBeRecorded(p) ==
  \E t \in Caller : call[t].pod = p /\ call[t].pc = "reply" /\ call[t].op = "run"

PodSound(p) ==
  /\ there[p].runtime = Nobody => there[p] = NotHeld
  /\ there[p].runtime # Nobody => there[p].sandbox # "none"
  /\ RecordsSound(p)
  /\ there[p].sandbox \in {"ready", "stopped"} /\ sandbox[p] = Nobody =>
       p \in forgotten \/ AboutToBeRecorded(p)
  /\ p \in submitted => there[p].runtime = Multicri
  /\ p \in told => there[p].sandbox \in {"stopped", "removed"}

\* A request to run a pod has the pod to itself until a runtime has it.
HasPod(t) == call[t].pc \in {"remote", "local"} /\ call[t].op = "run"

\* What a request c is about is where c goes, and what its answer says is so; s
\* is what the runtimes have of the pod, and ep the endpoints.
AboutSound(c, s, ep) ==
  /\ c.pc = "idle" <=> c.pod = Nobody
  /\ c.pc \in {"remote", "reply"} => RuntimeAt(ep, c.handler) \in ep
  /\ c.pc = "local" /\ ~DropsError(c.op) => RuntimeAt(ep, c.handler) = Multicri
  /\ c.pc \in {"remote", "local"} /\ c.op = "run" => s = NotHeld
  /\ c.pc = "reply" /\ c.op = "run" => s.runtime = RuntimeAt(ep, c.handler)
  /\ c.pc # "idle" /\ c.op # "run" =>
       /\ s.runtime # Nobody
       /\ c.op \in {"create", "start"} => c.known
       /\ c.known => s.runtime = RuntimeAt(ep, c.handler)
  /\ c.pc = "reply" /\ c.known =>
       /\ c.op = "create" => s.container # "none"
       /\ c.op = "stop"   => s.sandbox \in {"stopped", "removed"}
       /\ c.op = "remove" => s.sandbox = "removed"

CallSound(t) ==
  /\ AboutSound(call[t], there[call[t].pod], endpoint)
  /\ HasPod(t) => \A u \in Caller : call[u].pod = call[t].pod => u = t

RouteInv == (\A p \in Pod : PodSound(p)) /\ \A t \in Caller : CallSound(t)

-----------------------------------------------------------------------------
(* Frames *)

\* What the runtimes have of a pod goes one way.
Forward(s, s2) ==
  /\ s.runtime # Nobody => s2.runtime = s.runtime
  /\ s.container # "none" => s2.container # "none"
  /\ s.sandbox \in {"stopped", "removed"} => s2.sandbox \in {"stopped", "removed"}
  /\ s.sandbox = "removed" => s2.sandbox = "removed"

\* A step of request t changes pod p only.
ChangesOnly(t, p) ==
  /\ endpoint' = endpoint
  /\ \A u \in Caller \ {t} : call'[u] = call[u]
  /\ call'[t].pod \in {Nobody, p}
  /\ \A q \in Pod \ {p} :
       /\ there'[q] = there[q] /\ sandbox'[q] = sandbox[q] /\ container'[q] = container[q]
       /\ q \in submitted' <=> q \in submitted
       /\ q \in told' <=> q \in told
       /\ q \in forgotten => q \in forgotten'

\* Another request's view of a pod stays true while the pod goes forward.
LEMMA ForwardSound ==
  ASSUME NEW c, NEW s, NEW s2, NEW ep \in SUBSET Class, AboutSound(c, s, ep), Forward(s, s2),
         c.pc \in {"remote", "local"} /\ c.op = "run" => s2 = s
  PROVE  AboutSound(c, s2, ep)
<1>1. Nobody \notin ep
  BY ClassAssumption
<1> QED
  BY <1>1 DEF AboutSound, Forward

LEMMA PodFrame ==
  ASSUME NEW t \in Caller, NEW p \in Pod, call[t].pod = p, ChangesOnly(t, p),
         NEW q \in Pod, q # p, PodSound(q)
  PROVE  PodSound(q)'
<1>1. AboutToBeRecorded(q) => AboutToBeRecorded(q)'
  <2> SUFFICES ASSUME AboutToBeRecorded(q) PROVE AboutToBeRecorded(q)'
    OBVIOUS
  <2>1. PICK u \in Caller : call[u].pod = q /\ call[u].pc = "reply" /\ call[u].op = "run"
    BY DEF AboutToBeRecorded
  <2>2. call'[u] = call[u]
    BY <2>1 DEF ChangesOnly
  <2> QED
    BY <2>1, <2>2 DEF AboutToBeRecorded
<1>2. RecordsSound(q)'
  BY DEF RecordsSound, PodSound, ChangesOnly
<1> QED
  BY <1>1, <1>2 DEF PodSound, ChangesOnly

LEMMA CallFrame ==
  ASSUME NEW t \in Caller, NEW p \in Pod, call[t].pod = p, ChangesOnly(t, p),
         Forward(there[p], there'[p]), RoutingTypeOK, CallsHavePods,
         NEW u \in Caller, u # t, CallSound(u)
  PROVE  CallSound(u)'
<1>1. PICK c, q : c = call[u] /\ q = c.pod
  OBVIOUS
<1>2. call'[u] = c /\ endpoint' = endpoint
  BY <1>1 DEF ChangesOnly
<1>3. CASE c.pc = "idle"
  <2>1. AboutSound(c, there'[q], endpoint)
    BY <1>1, <1>3 DEF CallSound, AboutSound
  <2>2. ~HasPod(u)'
    BY <1>2, <1>3 DEF HasPod
  <2> QED
    BY <1>1, <1>2, <2>1, <2>2 DEF CallSound
<1>4. CASE c.pc # "idle"
  <2>1. q \in Pod
    BY <1>1, <1>4 DEF CallsHavePods
  <2>2. c.pc \in {"remote", "local"} /\ c.op = "run" => q # p
    BY <1>1 DEF CallSound, HasPod
  <2>3. Forward(there[q], there'[q])
    BY <2>1 DEF ChangesOnly, Forward
  <2>4. AboutSound(c, there'[q], endpoint)
    BY <1>1, <2>1, <2>2, <2>3, ForwardSound DEF CallSound, ChangesOnly, RoutingTypeOK
  <2>5. HasPod(u)' => \A w \in Caller : call'[w].pod = q => w = u
    BY <1>1, <1>2, <2>1, <2>2, PodAssumption DEF CallSound, HasPod, ChangesOnly
  <2> QED
    BY <1>1, <1>2, <2>4, <2>5 DEF CallSound
<1> QED
  BY <1>3, <1>4

\* What is left to show of a step.
LEMMA StepFrame ==
  ASSUME NEW t \in Caller, NEW p \in Pod, call[t].pod = p, ChangesOnly(t, p),
         Forward(there[p], there'[p]), RoutingTypeOK, CallsHavePods, RouteInv,
         PodSound(p)', CallSound(t)'
  PROVE  RouteInv'
  BY PodFrame, CallFrame DEF RouteInv

LEMMA IdleSound == ASSUME NEW t \in Caller, call'[t] = Idle PROVE CallSound(t)'
  BY DEF CallSound, HasPod, AboutSound, Idle

\* Other requests that are about to record the pod still are.
LEMMA StillAbout ==
  ASSUME NEW t \in Caller, NEW p \in Pod, ChangesOnly(t, p), AboutToBeRecorded(p),
         ~(call[t].pc = "reply" /\ call[t].op = "run")
  PROVE  AboutToBeRecorded(p)'
<1>1. PICK u \in Caller : call[u].pod = p /\ call[u].pc = "reply" /\ call[u].op = "run"
  BY DEF AboutToBeRecorded
<1>2. call'[u] = call[u]
  BY <1>1 DEF ChangesOnly
<1> QED
  BY <1>1, <1>2 DEF AboutToBeRecorded

LEMMA ReturnFrame ==
  ASSUME RoutingTypeOK, NEW t \in Caller, Return(t)
  PROVE  /\ call'[t] = Idle /\ Idle.pod = Nobody
         /\ \A u \in Caller \ {t} : call'[u] = call[u]
  BY DEF Return, RoutingTypeOK, Idle

LEMMA MoveFrame ==
  ASSUME RoutingTypeOK, NEW t \in Caller, NEW pc, call' = [call EXCEPT ![t].pc = pc]
  PROVE  /\ call'[t].pc = pc
         /\ call'[t].pod = call[t].pod /\ call'[t].op = call[t].op
         /\ call'[t].handler = call[t].handler /\ call'[t].known = call[t].known
         /\ \A u \in Caller \ {t} : call'[u] = call[u]
<1>1. call' = [call EXCEPT ![t] = [call[t] EXCEPT !.pc = pc]]
  OBVIOUS
<1>2. call[t] \in Call
  BY DEF RoutingTypeOK
<1>3. call'[t] = [call[t] EXCEPT !.pc = pc]
  BY <1>1 DEF RoutingTypeOK
<1> QED
  BY <1>1, <1>2, <1>3 DEF RoutingTypeOK, Call

\* After an error a request is over, or goes on as if there were no remote runtime.
LEMMA AfterErrorSound ==
  ASSUME RoutingTypeOK, NEW t \in Caller, NEW p \in Pod, call[t].pod = p,
         call[t].pc = "remote", CallSound(t), AfterError(t), endpoint' = endpoint,
         Forward(there[p], there'[p])
  PROVE  /\ CallSound(t)' /\ call'[t].pod \in {Nobody, p}
         /\ \A u \in Caller \ {t} : call'[u] = call[u]
<1>1. CASE ~DropsError(call[t].op)
  BY <1>1, ReturnFrame, IdleSound DEF AfterError
<1>2. CASE DropsError(call[t].op)
  <2>1. call' = [call EXCEPT ![t].pc = "local"]
    BY <1>2 DEF AfterError
  <2>2. /\ call'[t].pc = "local" /\ call'[t].pod = p /\ call'[t].op = call[t].op
        /\ call'[t].handler = call[t].handler /\ call'[t].known = call[t].known
        /\ \A u \in Caller \ {t} : call'[u] = call[u]
    BY <2>1, MoveFrame
  <2>3. call[t].op # "run"
    BY <1>2 DEF DropsError
  <2>4. AboutSound(call'[t], there'[p], endpoint)
    BY <1>2, <2>2, <2>3 DEF CallSound, AboutSound, Forward
  <2>5. ~HasPod(t)'
    BY <2>2, <2>3 DEF HasPod
  <2> QED
    BY <2>2, <2>4, <2>5 DEF CallSound
<1> QED
  BY <1>1, <1>2

LEMMA EffectForward ==
  ASSUME NEW op \in Op, NEW r, NEW s \in Held, Understood(op, r, s)
  PROVE  /\ Forward(s, Effect(op, r, s))
         /\ Effect(op, r, s).runtime = r
         /\ op = "run" =>
              s = NotHeld /\ Effect(op, r, s).sandbox = "ready"
         /\ op # "run" => s.runtime = r
         /\ s.sandbox # "none" => Effect(op, r, s).sandbox # "none"
         /\ op # "run" /\ Effect(op, r, s).sandbox \in {"ready", "stopped"} =>
              s.sandbox \in {"none", "ready", "stopped"}
         /\ op = "create" => Effect(op, r, s).container # "none"
         /\ op = "stop" /\ s.sandbox # "none" =>
              Effect(op, r, s).sandbox \in {"stopped", "removed"}
         /\ op = "remove" => Effect(op, r, s).sandbox = "removed"
<1> USE DEF Held, Understood, Forward
<1>1. CASE op = "run"
  BY <1>1 DEF Effect, NotHeld
<1>2. CASE op = "stop"
  BY <1>2 DEF Effect
<1>3. CASE op = "remove"
  BY <1>3 DEF Effect
<1>4. CASE op \in {"create", "start"}
  BY <1>4 DEF Effect
<1>5. CASE op \in {"stopcontainer", "removecontainer"}
  BY <1>5 DEF Effect
<1>6. CASE op = "status"
  BY <1>6 DEF Effect
<1> QED
  BY <1>1, <1>2, <1>3, <1>4, <1>5, <1>6 DEF Op, OfSandbox, OfContainer

\* Where a request that is with a remote runtime goes.
LEMMA RemoteTarget ==
  ASSUME RoutingTypeOK, NEW t \in Caller, CallSound(t), call[t].pc = "remote"
  PROVE  /\ Target(t) = RuntimeAt(endpoint, call[t].handler)
         /\ Target(t) \in endpoint /\ Target(t) # Nobody /\ Target(t) # Multicri
<1>1. Target(t) = RuntimeAt(endpoint, call[t].handler)
  BY RuntimeNow DEF Target
<1>2. Target(t) \in endpoint
  BY <1>1 DEF CallSound, AboutSound
<1> QED
  BY <1>1, <1>2, ClassAssumption DEF RoutingTypeOK

\* A pod after a remote runtime did as it was asked.
LEMMA EffectPod ==
  ASSUME RoutingTypeOK, NEW t \in Caller, NEW p \in Pod, call[t].pod = p,
         call[t].pc = "remote", CallSound(t), PodSound(p), ChangesOnly(t, p),
         Understood(call[t].op, Target(t), there[p]),
         there'[p] = Effect(call[t].op, Target(t), there[p]),
         sandbox'[p] = sandbox[p], container'[p] = container[p],
         p \in submitted' <=> p \in submitted, p \in told' <=> p \in told,
         p \in forgotten => p \in forgotten',
         call[t].op = "run" => p \in forgotten' \/ AboutToBeRecorded(p)'
  PROVE  PodSound(p)' /\ Forward(there[p], there'[p])
<1> DEFINE s == there[p]
           s2 == there'[p]
           op == call[t].op
           r == Target(t)
<1>1. s \in Held /\ op \in Op
  BY DEF RoutingTypeOK, Call
<1>2. Understood(op, r, s) /\ s2 = Effect(op, r, s)
  BY <1>1
<1>3. r # Nobody /\ r # Multicri
  BY <1>1, RemoteTarget
<1>4. endpoint' = endpoint
  BY DEF ChangesOnly
<1>5. Forward(s, s2) /\ s2.runtime = r
  BY <1>1, <1>2, EffectForward
<1>6. s2.sandbox # "none"
  BY <1>1, <1>2, <1>3, EffectForward DEF PodSound
<1>7. s.runtime = Nobody => s = NotHeld /\ op = "run"
  BY <1>1, <1>2, <1>3, EffectForward DEF PodSound
<1>8. RecordsSound(p)'
  <2>1. RecordsSound(p)
    BY DEF PodSound
  <2>2. /\ s.runtime # Nobody => there'[p].runtime = s.runtime
        /\ s.container # "none" => there'[p].container # "none"
    BY <1>5 DEF Forward
  <2> QED
    BY <1>3, <1>4, <2>1, <2>2 DEF RecordsSound
<1>9. there'[p].sandbox \in {"ready", "stopped"} /\ sandbox'[p] = Nobody =>
        p \in forgotten' \/ AboutToBeRecorded(p)'
  <2>1. CASE op = "run"
    BY <1>1, <2>1
  <2>2. CASE op # "run"
    <3> SUFFICES ASSUME s2.sandbox \in {"ready", "stopped"}, sandbox[p] = Nobody
                 PROVE  p \in forgotten' \/ AboutToBeRecorded(p)'
      BY <1>1
    <3>1. s.sandbox \in {"ready", "stopped"}
      BY <1>1, <1>2, <1>3, <2>2, EffectForward DEF PodSound
    <3>2. CASE p \in forgotten
      BY <3>2
    <3>3. CASE AboutToBeRecorded(p)
      BY <3>3, StillAbout
    <3> QED
      BY <1>1, <3>1, <3>2, <3>3 DEF PodSound
  <2> QED
    BY <2>1, <2>2
<1>10. p \in submitted => s2.runtime = Multicri
  <2>1. Nobody # Multicri
    BY DEF Nobody, Multicri
  <2>2. p \in submitted => s.runtime = Multicri
    BY <1>1 DEF PodSound
  <2> QED
    BY <1>5, <2>1, <2>2 DEF Forward
<1>11. p \in told => s2.sandbox \in {"stopped", "removed"}
  BY <1>1, <1>5 DEF PodSound, Forward
<1> QED
  BY <1>1, <1>3, <1>5, <1>6, <1>8, <1>9, <1>10, <1>11 DEF PodSound

-----------------------------------------------------------------------------
(* The steps of a request *)

LEMMA RemoteAnswersRoute ==
  ASSUME RoutingTypeOK, CallsHavePods, RouteInv, NEW t \in Caller, RemoteAnswers(t)
  PROVE  RouteInv'
<1>1. PICK p \in Pod : call[t].pod = p
  BY DEF RemoteAnswers, CallsHavePods
<1> DEFINE s == there[p]
           op == call[t].op
           r == Target(t)
<1>2. /\ call[t].pc = "remote" /\ PodSound(p) /\ CallSound(t)
      /\ s \in Held /\ op \in Op
  BY DEF RemoteAnswers, RouteInv, RoutingTypeOK, Call
<1>3. /\ Understood(op, r, s)
      /\ there' = [there EXCEPT ![p] = Effect(op, r, s)]
  BY <1>1 DEF RemoteAnswers
<1>4. /\ call'[t].pc = "reply" /\ call'[t].pod = p /\ call'[t].op = op
      /\ call'[t].handler = call[t].handler /\ call'[t].known = call[t].known
      /\ \A u \in Caller \ {t} : call'[u] = call[u]
  BY <1>1, MoveFrame DEF RemoteAnswers
<1>5. there'[p] = Effect(op, r, s)
  BY <1>3 DEF RoutingTypeOK
<1>6. ChangesOnly(t, p)
  BY <1>3, <1>4 DEF ChangesOnly, RemoteAnswers, RoutingTypeOK
<1>7. op = "run" => AboutToBeRecorded(p)'
  BY <1>4 DEF AboutToBeRecorded
<1>8. PodSound(p)' /\ Forward(there[p], there'[p])
  BY <1>1, <1>2, <1>3, <1>5, <1>6, <1>7, EffectPod DEF RemoteAnswers
<1>9. CallSound(t)'
  <2>1. r = RuntimeAt(endpoint, call[t].handler) /\ r \in endpoint /\ r # Nobody
    BY <1>2, RemoteTarget
  <2>2. AboutSound(call[t], s, endpoint)
    BY <1>1, <1>2 DEF CallSound
  <2>3. there'[p].runtime = r
    BY <1>2, <1>3, <1>5, EffectForward
  <2>4. op # "run" => s.sandbox # "none"
    BY <1>2, <1>3, <2>1, EffectForward DEF PodSound
  <2>5. /\ op = "create" => there'[p].container # "none"
        /\ op = "stop"   => there'[p].sandbox \in {"stopped", "removed"}
        /\ op = "remove" => there'[p].sandbox = "removed"
    BY <1>2, <1>3, <1>5, <2>4, EffectForward
  <2>6. AboutSound(call'[t], there'[p], endpoint)
    BY <1>2, <1>4, <2>1, <2>2, <2>3, <2>5, <1>1, PodAssumption DEF AboutSound
  <2>7. ~HasPod(t)' /\ endpoint' = endpoint
    BY <1>4, <1>6 DEF HasPod, ChangesOnly
  <2> QED
    BY <1>4, <2>6, <2>7 DEF CallSound
<1> QED
  BY <1>1, <1>6, <1>8, <1>9, StepFrame

LEMMA RemoteReplyLostRoute ==
  ASSUME RoutingTypeOK, CallsHavePods, RouteInv, NEW t \in Caller, RemoteReplyLost(t)
  PROVE  RouteInv'
<1>1. PICK p \in Pod : call[t].pod = p
  BY DEF RemoteReplyLost, CallsHavePods
<1> DEFINE s == there[p]
           op == call[t].op
           r == Target(t)
<1>2. /\ call[t].pc = "remote" /\ PodSound(p) /\ CallSound(t)
      /\ s \in Held /\ op \in Op
  BY DEF RemoteReplyLost, RouteInv, RoutingTypeOK, Call
<1>3. /\ Understood(op, r, s)
      /\ there' = [there EXCEPT ![p] = Effect(op, r, s)]
      /\ forgotten' = IF op = "run" THEN forgotten \cup {p} ELSE forgotten
      /\ AfterError(t) /\ endpoint' = endpoint
  BY <1>1 DEF RemoteReplyLost
<1>4. there'[p] = Effect(op, r, s) /\ Forward(s, there'[p])
  BY <1>2, <1>3, EffectForward DEF RoutingTypeOK
<1>5. /\ CallSound(t)' /\ call'[t].pod \in {Nobody, p}
      /\ \A u \in Caller \ {t} : call'[u] = call[u]
  BY <1>1, <1>2, <1>3, <1>4, AfterErrorSound
<1>6. ChangesOnly(t, p)
  BY <1>3, <1>5 DEF ChangesOnly, RemoteReplyLost, RoutingTypeOK
<1>7. PodSound(p)'
  BY <1>1, <1>2, <1>3, <1>4, <1>6, EffectPod DEF RemoteReplyLost
<1> QED
  BY <1>1, <1>4, <1>5, <1>6, <1>7, StepFrame

\* A step that changes nothing but its own request.
LEMMA OnlyCall ==
  ASSUME RoutingTypeOK, CallsHavePods, RouteInv, NEW t \in Caller, NEW p \in Pod,
         call[t].pod = p, ChangesOnly(t, p), CallSound(t)',
         ~(call[t].pc = "reply" /\ call[t].op = "run"),
         UNCHANGED <<there, sandbox, container, submitted, told, forgotten>>
  PROVE  RouteInv'
<1>1. Forward(there[p], there'[p]) /\ endpoint' = endpoint
  BY DEF Forward, ChangesOnly
<1>2. AboutToBeRecorded(p) => AboutToBeRecorded(p)'
  BY StillAbout
<1>3. PodSound(p)'
  BY <1>1, <1>2 DEF RouteInv, PodSound, RecordsSound
<1> QED
  BY <1>1, <1>3, StepFrame

LEMMA RemoteUnawareRoute ==
  ASSUME RoutingTypeOK, CallsHavePods, RouteInv, NEW t \in Caller, RemoteUnaware(t)
  PROVE  RouteInv'
<1>1. PICK p \in Pod : call[t].pod = p
  BY DEF RemoteUnaware, CallsHavePods
<1>2. call[t].pc = "remote" /\ CallSound(t) /\ AboutSound(call[t], there[p], endpoint)
  BY <1>1 DEF RemoteUnaware, RouteInv, CallSound
<1>3. /\ call'[t].pc = "reply" /\ call'[t].pod = p /\ call'[t].op = call[t].op
      /\ call'[t].handler = call[t].handler /\ call'[t].known = call[t].known
      /\ \A u \in Caller \ {t} : call'[u] = call[u]
  BY <1>1, MoveFrame DEF RemoteUnaware
<1>4. call[t].op \notin {"run", "create", "start"} /\ there[p].runtime # Target(t)
  BY <1>1 DEF RemoteUnaware
<1>5. ~call[t].known
  BY <1>2, <1>4, RemoteTarget DEF AboutSound
<1>6. AboutSound(call'[t], there'[p], endpoint') /\ ~HasPod(t)'
  BY <1>1, <1>2, <1>3, <1>4, <1>5 DEF AboutSound, HasPod, RemoteUnaware
<1>7. CallSound(t)'
  BY <1>3, <1>6 DEF CallSound
<1>8. ChangesOnly(t, p)
  BY <1>3 DEF ChangesOnly, RemoteUnaware
<1> QED
  BY <1>1, <1>2, <1>7, <1>8, OnlyCall DEF RemoteUnaware

LEMMA RemoteFailsRoute ==
  ASSUME RoutingTypeOK, CallsHavePods, RouteInv, NEW t \in Caller, RemoteFails(t)
  PROVE  RouteInv'
<1>1. PICK p \in Pod : call[t].pod = p
  BY DEF RemoteFails, CallsHavePods
<1>2. call[t].pc = "remote" /\ CallSound(t) /\ Forward(there[p], there'[p])
  BY DEF RemoteFails, RouteInv, Forward
<1>3. /\ CallSound(t)' /\ call'[t].pod \in {Nobody, p}
      /\ \A u \in Caller \ {t} : call'[u] = call[u]
  BY <1>1, <1>2, AfterErrorSound DEF RemoteFails
<1>4. ChangesOnly(t, p)
  BY <1>3 DEF ChangesOnly, RemoteFails
<1> QED
  BY <1>1, <1>2, <1>3, <1>4, OnlyCall DEF RemoteFails

\* What Begin makes of a request.
LEMMA BeginFrame ==
  ASSUME RoutingTypeOK, NEW t \in Caller, NEW op \in Op, NEW p \in Pod, NEW h \in Handler,
         NEW known \in BOOLEAN, Begin(t, op, p, h, known)
  PROVE  /\ \A u \in Caller \ {t} : call'[u] = call[u]
         /\ \/ call'[t] = Idle
            \/ /\ call'[t].op = op /\ call'[t].pod = p
               /\ call'[t].handler = h /\ call'[t].known = known
               /\ \/ call'[t].pc = "local" /\ RuntimeAt(endpoint, h) = Multicri
                  \/ call'[t].pc = "local" /\ DropsError(op)
                  \/ call'[t].pc = "remote" /\ RuntimeAt(endpoint, h) \in endpoint
<1> DEFINE r == GetRemoteRuntime(h)
           pc == CASE r = Multicri -> "local"
                   [] r = Nobody   -> IF DropsError(op) THEN "local" ELSE "idle"
                   [] OTHER        -> "remote"
           c == [op |-> op, pod |-> p, pc |-> pc, handler |-> h, known |-> known]
<1>1. call'[t] = IF pc = "idle" THEN Idle ELSE c
  BY DEF Begin, RoutingTypeOK
<1>2. \A u \in Caller \ {t} : call'[u] = call[u]
  BY DEF Begin, RoutingTypeOK
<1>3. r = RuntimeAt(endpoint, h) /\ r \in endpoint \cup {Multicri, Nobody}
  BY RuntimeNow, RuntimeType DEF RoutingTypeOK
<1>4. \/ pc = "idle"
      \/ pc = "local" /\ (r = Multicri \/ DropsError(op))
      \/ pc = "remote" /\ r \in endpoint
  <2>0. Multicri \notin endpoint /\ Nobody \notin endpoint /\ Multicri # Nobody
    BY RuntimeType DEF RoutingTypeOK
  <2>1. r = Multicri => pc = "local"
    BY <2>0
  <2>2. r \in endpoint => pc = "remote"
    BY <2>0
  <2>3. r = Nobody => pc = IF DropsError(op) THEN "local" ELSE "idle"
    BY <2>0
  <2> HIDE DEF pc
  <2> QED
    BY <1>3, <2>1, <2>2, <2>3
<1> HIDE DEF pc, r
<1>5. c.op = op /\ c.pod = p /\ c.handler = h /\ c.known = known /\ c.pc = pc
  OBVIOUS
<1> HIDE DEF c
<1>6. CASE pc = "idle"
  BY <1>1, <1>2, <1>6
<1>7. CASE pc # "idle"
  <2>1. call'[t] = c
    BY <1>1, <1>7
  <2> QED
    BY <1>2, <1>3, <1>4, <1>5, <1>7, <2>1
<1> QED
  BY <1>6, <1>7

LEMMA ReceiveFrame ==
  ASSUME NEW t \in Caller, RouteInv, RoutingTypeOK, CallsHavePods, call[t] = Idle,
         \A u \in Caller \ {t} : call'[u] = call[u],
         UNCHANGED <<endpoint, sandbox, container, there, submitted, told, forgotten>>,
         CallSound(t)',
         \A u \in Caller \ {t} : HasPod(u) => call[u].pod # call'[t].pod
  PROVE  RouteInv'
<1>1. ASSUME NEW p \in Pod PROVE PodSound(p)'
  <2>1. AboutToBeRecorded(p) => AboutToBeRecorded(p)'
    <3> SUFFICES ASSUME AboutToBeRecorded(p) PROVE AboutToBeRecorded(p)'
      OBVIOUS
    <3>1. PICK u \in Caller : call[u].pod = p /\ call[u].pc = "reply" /\ call[u].op = "run"
      BY DEF AboutToBeRecorded
    <3>2. call'[u] = call[u]
      BY <3>1 DEF Idle
    <3> QED
      BY <3>1, <3>2 DEF AboutToBeRecorded
  <2>2. PodSound(p)
    BY DEF RouteInv
  <2> QED
    BY <2>1, <2>2 DEF PodSound, RecordsSound
<1>2. ASSUME NEW u \in Caller, u # t PROVE CallSound(u)'
  <2>1. CallSound(u) /\ call'[u] = call[u] /\ there' = there /\ endpoint' = endpoint
    BY <1>2 DEF RouteInv
  <2>2. AboutSound(call'[u], there'[call'[u].pod], endpoint')
    BY <2>1 DEF CallSound
  <2>3. HasPod(u)' => \A w \in Caller : call'[w].pod = call'[u].pod => w = u
    BY <1>2, <2>1 DEF CallSound, HasPod
  <2> QED
    BY <2>2, <2>3 DEF CallSound
<1> QED
  BY <1>1, <1>2 DEF RouteInv

LEMMA ReceiveRunRoute ==
  ASSUME RoutingTypeOK, CallsHavePods, RouteInv, NEW t \in Caller, NEW p \in Pod,
         NEW h \in Handler, ReceiveRun(t, p, h)
  PROVE  RouteInv'
<1>1. /\ call[t] = Idle /\ there[p] = NotHeld /\ \A u \in Caller : call[u].pod # p
      /\ Begin(t, "run", p, h, FALSE)
      /\ UNCHANGED <<endpoint, sandbox, container, there, submitted, told, forgotten>>
  BY DEF ReceiveRun
<1>2. \A u \in Caller \ {t} : HasPod(u) => call[u].pod \in Pod
  BY DEF HasPod, CallsHavePods
<1>3. \A u \in Caller \ {t} : call'[u] = call[u]
  BY <1>1, BeginFrame DEF Op, OfSandbox
<1>4. CASE call'[t] = Idle
  <2>1. \A u \in Caller \ {t} : HasPod(u) => call[u].pod # call'[t].pod
    BY <1>2, <1>4, PodAssumption DEF Idle
  <2> QED
    BY <1>1, <1>3, <1>4, <2>1, IdleSound, ReceiveFrame
<1>5. CASE call'[t] # Idle
  <2>1. /\ call'[t].op = "run" /\ call'[t].pod = p /\ call'[t].handler = h
        /\ call'[t].known = FALSE
        /\ \/ call'[t].pc = "local" /\ RuntimeAt(endpoint, h) = Multicri
           \/ call'[t].pc = "remote" /\ RuntimeAt(endpoint, h) \in endpoint
    BY <1>1, <1>5, BeginFrame DEF Op, OfSandbox, DropsError
  <2>2. AboutSound(call'[t], there'[p], endpoint')
    BY <1>1, <2>1, PodAssumption DEF AboutSound
  <2>3. \A u \in Caller : call'[u].pod = call'[t].pod => u = t
    BY <1>1, <1>3, <2>1
  <2>4. CallSound(t)'
    BY <2>1, <2>2, <2>3 DEF CallSound
  <2> QED
    BY <1>1, <1>3, <2>1, <2>4, ReceiveFrame
<1> QED
  BY <1>4, <1>5

LEMMA ReceiveRoute ==
  ASSUME RoutingTypeOK, CallsHavePods, RouteInv, NEW t \in Caller, NEW p \in Pod,
         NEW op \in Op \ {"run"}, Receive(t, op, p)
  PROVE  RouteInv'
<1> DEFINE h == IF op \in {"stop", "remove", "create"} THEN sandbox[p]
                ELSE container[p].handler
           g == IF h = Nobody THEN Empty ELSE h
           known == (h # Nobody)
<1>1. /\ call[t] = Idle /\ there[p] # NotHeld /\ (op \in {"create", "start"} => known)
      /\ Begin(t, op, p, g, known)
      /\ UNCHANGED <<endpoint, sandbox, container, there, submitted, told, forgotten>>
  BY DEF Receive
<1>2. g \in Handler /\ known \in BOOLEAN
  BY DEF RoutingTypeOK, ContainerMetadata, Handler
<1>3. known => g = h /\ there[p].runtime = RuntimeAt(endpoint, h)
  BY DEF RouteInv, PodSound, RecordsSound
<1>4. there[p].runtime # Nobody
  BY <1>1 DEF RouteInv, PodSound
<1> HIDE DEF known, g, h
<1>5. \A u \in Caller \ {t} : call'[u] = call[u]
  BY <1>1, <1>2, BeginFrame
<1>6. CASE call'[t] = Idle
  <2>1. \A u \in Caller \ {t} : HasPod(u) => call[u].pod # call'[t].pod
    BY <1>6, PodAssumption DEF Idle, HasPod, CallsHavePods
  <2> QED
    BY <1>1, <1>5, <1>6, <2>1, IdleSound, ReceiveFrame
<1>7. CASE call'[t] # Idle
  <2>1. /\ call'[t].op = op /\ call'[t].pod = p /\ call'[t].handler = g
        /\ call'[t].known = known
        /\ \/ call'[t].pc = "local" /\ (RuntimeAt(endpoint, g) = Multicri \/ DropsError(op))
           \/ call'[t].pc = "remote" /\ RuntimeAt(endpoint, g) \in endpoint
    BY <1>1, <1>2, <1>7, BeginFrame
  <2>2. AboutSound(call'[t], there'[p], endpoint') /\ ~HasPod(t)'
    BY <1>1, <1>3, <1>4, <2>1, PodAssumption DEF AboutSound, HasPod
  <2>3. CallSound(t)'
    BY <2>1, <2>2 DEF CallSound
  <2>4. \A u \in Caller \ {t} : HasPod(u) => call[u].pod # p
    BY <1>1 DEF RouteInv, CallSound, HasPod, AboutSound
  <2> QED
    BY <1>1, <1>5, <2>1, <2>3, <2>4, ReceiveFrame
<1> QED
  BY <1>6, <1>7

\* A request that returns leaves its pod to what is said of the pod.
LEMMA ReturnRoute ==
  ASSUME RoutingTypeOK, CallsHavePods, RouteInv, NEW t \in Caller, NEW p \in Pod,
         call[t].pod = p, Return(t), ChangesOnly(t, p), Forward(there[p], there'[p]),
         PodSound(p)'
  PROVE  RouteInv'
  BY ReturnFrame, IdleSound, StepFrame

LEMMA AnswerRoute ==
  ASSUME RoutingTypeOK, CallsHavePods, RouteInv, NEW t \in Caller, Answer(t)
  PROVE  RouteInv'
<1>1. PICK p \in Pod : call[t].pod = p
  BY DEF Answer, Answered, RunAnswered, CreateAnswered, PassedOn, RemoveContainerAnswered,
         StopAnswered, RemoveAnswered, CallsHavePods
<1> DEFINE s == there[p]
           h == call[t].handler
<1>2. /\ call[t].pc = "reply" /\ Return(t)
      /\ UNCHANGED <<endpoint, there, submitted, forgotten>>
  BY DEF Answer, Answered, RunAnswered, CreateAnswered, PassedOn, RemoveContainerAnswered,
         StopAnswered, RemoveAnswered
<1>3. /\ AboutSound(call[t], s, endpoint) /\ PodSound(p) /\ h \in Handler /\ h # Nobody
      /\ s \in Held
  BY <1>1, ClassAssumption
  DEF RouteInv, CallSound, RoutingTypeOK, Call, Handler, Nobody, Multicri, Empty
<1>4. RuntimeAt(endpoint, h) \in endpoint /\ Nobody \notin endpoint /\ Multicri \notin endpoint
  BY <1>2, <1>3, ClassAssumption DEF AboutSound, RoutingTypeOK
<1>5. Forward(there[p], there'[p])
  BY <1>2 DEF Forward
<1>6. \A u \in Caller \ {t} : call'[u] = call[u]
  BY <1>2, ReturnFrame
<1>7. call'[t].pod = Nobody
  BY <1>2, ReturnFrame
<1>8. CASE RunAnswered(t)
  <2>1. ChangesOnly(t, p) /\ sandbox'[p] = h /\ UNCHANGED <<container, told>>
    BY <1>1, <1>2, <1>6, <1>7, <1>8 DEF ChangesOnly, RunAnswered, RoutingTypeOK
  <2>2. s.runtime = RuntimeAt(endpoint, h)
    BY <1>2, <1>3, <1>8 DEF AboutSound, RunAnswered, Answered
  <2>3. RecordsSound(p)'
    BY <1>2, <1>3, <1>4, <2>1, <2>2 DEF PodSound, RecordsSound
  <2>4. PodSound(p)'
    BY <1>2, <1>3, <2>1, <2>3 DEF PodSound
  <2> QED
    BY <1>1, <1>2, <1>5, <2>1, <2>4, ReturnRoute
<1>9. CASE CreateAnswered(t)
  <2>1. /\ ChangesOnly(t, p) /\ sandbox'[p] = h /\ told' = told
        /\ container'[p] = RemoteContainer(h)
    BY <1>1, <1>2, <1>6, <1>7, <1>9 DEF ChangesOnly, CreateAnswered, RoutingTypeOK
  <2>2. s.runtime = RuntimeAt(endpoint, h) /\ s.container # "none"
    BY <1>2, <1>3, <1>9 DEF AboutSound, CreateAnswered, Answered
  <2>3. container'[p].handler = h /\ container'[p].credentials = FALSE
    BY <2>1 DEF RemoteContainer, ContainerOf
  <2>4. RecordsSound(p)'
    BY <1>2, <1>3, <1>4, <2>1, <2>2, <2>3 DEF RecordsSound
  <2>5. PodSound(p)'
    BY <1>2, <1>3, <2>1, <2>4 DEF PodSound
  <2> QED
    BY <1>1, <1>2, <1>5, <2>1, <2>5, ReturnRoute
<1>10. CASE PassedOn(t) \/ RemoveContainerAnswered(t)
  <2>1. ChangesOnly(t, p) /\ UNCHANGED <<sandbox, container, told>>
    BY <1>1, <1>2, <1>6, <1>7, <1>10 DEF ChangesOnly, PassedOn, RemoveContainerAnswered
  <2>2. call[t].op # "run"
    BY <1>10 DEF PassedOn, RemoveContainerAnswered, Answered
  <2> QED
    BY <1>1, <1>2, <2>1, <2>2, ReturnFrame, IdleSound, OnlyCall
<1>11. CASE StopAnswered(t) /\ call[t].known
  <2>1. /\ ChangesOnly(t, p) /\ sandbox'[p] = h /\ container' = container
        /\ told' = told \cup {p}
    BY <1>1, <1>2, <1>6, <1>7, <1>11 DEF ChangesOnly, StopAnswered, RoutingTypeOK
  <2>2. s.runtime = RuntimeAt(endpoint, h) /\ s.sandbox \in {"stopped", "removed"}
    BY <1>2, <1>3, <1>11 DEF AboutSound, StopAnswered, Answered
  <2>3. RecordsSound(p)'
    BY <1>2, <1>3, <1>4, <2>1, <2>2 DEF PodSound, RecordsSound
  <2>4. PodSound(p)'
    BY <1>2, <1>3, <2>1, <2>2, <2>3 DEF PodSound
  <2> QED
    BY <1>1, <1>2, <1>5, <2>1, <2>4, ReturnRoute
<1>12. CASE RemoveAnswered(t) /\ call[t].known
  <2>1. ChangesOnly(t, p) /\ sandbox'[p] = Nobody /\ UNCHANGED <<container, told>>
    BY <1>1, <1>2, <1>6, <1>7, <1>12 DEF ChangesOnly, RemoveAnswered, RoutingTypeOK
  <2>2. s.sandbox = "removed"
    BY <1>2, <1>3, <1>12 DEF AboutSound, RemoveAnswered, Answered
  <2>3. RecordsSound(p)'
    BY <1>2, <1>3, <2>1 DEF PodSound, RecordsSound
  <2>4. PodSound(p)'
    BY <1>2, <1>3, <2>1, <2>2, <2>3 DEF PodSound
  <2> QED
    BY <1>1, <1>2, <1>5, <2>1, <2>4, ReturnRoute
<1>13. CASE (StopAnswered(t) \/ RemoveAnswered(t)) /\ ~call[t].known
  <2>1. ChangesOnly(t, p) /\ UNCHANGED <<sandbox, container, told>>
    BY <1>1, <1>2, <1>6, <1>7, <1>13 DEF ChangesOnly, StopAnswered, RemoveAnswered
  <2>2. call[t].op # "run"
    BY <1>13 DEF StopAnswered, RemoveAnswered, Answered
  <2> QED
    BY <1>1, <1>2, <2>1, <2>2, ReturnFrame, IdleSound, OnlyCall
<1> QED
  BY <1>8, <1>9, <1>10, <1>11, <1>12, <1>13 DEF Answer

\* What a service does itself to what the runtimes have.
LEMMA LocalContainerForward ==
  ASSUME RoutingTypeOK, NEW p \in Pod, NEW c \in {"created", "running", "exited"},
         Becomes(p, [there[p] EXCEPT !.container = c])
  PROVE  /\ \A q \in Pod \ {p} : there'[q] = there[q]
         /\ Forward(there[p], there'[p])
         /\ there'[p].runtime = there[p].runtime /\ there'[p].sandbox = there[p].sandbox
         /\ there[p].runtime = Multicri => there'[p].container = c
         /\ there[p].runtime # Multicri => there'[p] = there[p]
<1>1. there[p] \in Held
  BY DEF RoutingTypeOK
<1> DEFINE s == [there[p] EXCEPT !.container = c]
<1>2. s.runtime = there[p].runtime /\ s.sandbox = there[p].sandbox /\ s.container = c
  BY <1>1 DEF Held
<1>3. there' = IF there[p].runtime = Multicri THEN [there EXCEPT ![p] = s] ELSE there
  BY DEF Becomes
<1> HIDE DEF s
<1> QED
  BY <1>2, <1>3 DEF RoutingTypeOK, Forward

LEMMA LocalSandboxForward ==
  ASSUME RoutingTypeOK, NEW p \in Pod, NEW b \in {"stopped", "removed"},
         there[p].sandbox = "removed" => b = "removed",
         Becomes(p, [there[p] EXCEPT !.sandbox = b])
  PROVE  /\ \A q \in Pod \ {p} : there'[q] = there[q]
         /\ Forward(there[p], there'[p])
         /\ there'[p].runtime = there[p].runtime /\ there'[p].container = there[p].container
         /\ there[p].runtime = Multicri => there'[p].sandbox = b
<1>1. there[p] \in Held
  BY DEF RoutingTypeOK
<1> DEFINE s == [there[p] EXCEPT !.sandbox = b]
<1>2. s.runtime = there[p].runtime /\ s.container = there[p].container /\ s.sandbox = b
  BY <1>1 DEF Held
<1>3. there' = IF there[p].runtime = Multicri THEN [there EXCEPT ![p] = s] ELSE there
  BY DEF Becomes
<1> HIDE DEF s
<1> QED
  BY <1>2, <1>3 DEF RoutingTypeOK, Forward

LEMMA LocalRoute ==
  ASSUME RoutingTypeOK, CallsHavePods, RouteInv, NEW t \in Caller, Local(t)
  PROVE  RouteInv'
<1>1. PICK p \in Pod : call[t].pod = p
  BY DEF Local, Locally, RunLocally, CreateLocally, StartLocally, StartFails,
         StopContainerLocally, StopLocally, RemoveLocally, NothingLocally, CallsHavePods
<1> DEFINE s == there[p]
           h == call[t].handler
<1>2. call[t].pc = "local" /\ Return(t) /\ UNCHANGED <<endpoint, forgotten>>
  BY DEF Local, Locally, RunLocally, CreateLocally, StartLocally, StartFails,
         StopContainerLocally, StopLocally, RemoveLocally, NothingLocally
<1>3. /\ AboutSound(call[t], s, endpoint) /\ PodSound(p) /\ h \in Handler /\ h # Nobody
      /\ s \in Held
  BY <1>1, ClassAssumption
  DEF RouteInv, CallSound, RoutingTypeOK, Call, Handler, Nobody, Multicri, Empty
<1>4. Multicri # Nobody
  BY DEF Multicri, Nobody
<1>5. /\ \A u \in Caller \ {t} : call'[u] = call[u]
      /\ call'[t].pod = Nobody
  BY <1>2, ReturnFrame
<1>6. CASE RunLocally(t)
  <2>1. /\ sandbox'[p] = h /\ UNCHANGED <<container, submitted, told>>
        /\ there'[p] = Effect("run", Multicri, s) /\ ChangesOnly(t, p)
    BY <1>1, <1>2, <1>5, <1>6 DEF RunLocally, RoutingTypeOK, ChangesOnly
  <2>2. s = NotHeld /\ RuntimeAt(endpoint, h) = Multicri
    BY <1>2, <1>3, <1>6 DEF AboutSound, RunLocally, Locally, DropsError
  <2>3. there'[p].runtime = Multicri /\ there'[p].sandbox = "ready"
    BY <2>1 DEF Effect
  <2>4. /\ sandbox[p] = Nobody /\ container[p].handler = Nobody
        /\ p \notin submitted /\ p \notin told
    BY <1>3, <1>4, <2>2 DEF PodSound, RecordsSound, NotHeld
  <2>5. Forward(s, there'[p])
    BY <2>2 DEF Forward, NotHeld
  <2>6. RecordsSound(p)'
    BY <1>2, <1>3, <1>4, <2>1, <2>2, <2>3, <2>4 DEF PodSound, RecordsSound
  <2>7. PodSound(p)'
    BY <1>3, <1>4, <2>1, <2>3, <2>4, <2>6 DEF PodSound
  <2> QED
    BY <1>1, <1>2, <2>1, <2>5, <2>7, ReturnRoute
<1>7. CASE CreateLocally(t)
  <2>1. /\ sandbox'[p] = h /\ UNCHANGED <<submitted, told>> /\ s.container = "none"
        /\ container' = [container EXCEPT ![p] = ContainerOf(h, TRUE)]
        /\ sandbox' = [sandbox EXCEPT ![p] = h]
        /\ Becomes(p, [s EXCEPT !.container = "created"])
    BY <1>1, <1>7 DEF CreateLocally, RoutingTypeOK
  <2>2. s.runtime = Multicri /\ RuntimeAt(endpoint, h) = Multicri
    BY <1>2, <1>3, <1>7 DEF AboutSound, CreateLocally, Locally, DropsError
  <2>4. /\ \A q \in Pod \ {p} : there'[q] = there[q]
        /\ Forward(s, there'[p]) /\ there'[p].container = "created"
        /\ there'[p].runtime = Multicri /\ there'[p].sandbox = s.sandbox
    BY <2>1, <2>2, LocalContainerForward
  <2>5. ChangesOnly(t, p)
    BY <1>2, <1>5, <2>1, <2>4 DEF ChangesOnly, RoutingTypeOK
  <2>6. container'[p].handler = h /\ container'[p].credentials = TRUE
    BY <2>1 DEF ContainerOf, RoutingTypeOK
  <2>7. RecordsSound(p)'
    BY <1>2, <1>3, <1>4, <2>1, <2>2, <2>4, <2>6 DEF RecordsSound
  <2>8. PodSound(p)'
    BY <1>2, <1>3, <1>4, <2>1, <2>2, <2>4, <2>7 DEF PodSound
  <2> QED
    BY <1>1, <1>2, <2>4, <2>5, <2>8, ReturnRoute
<1>8. CASE StartLocally(t)
  <2>1. /\ UNCHANGED <<sandbox, told>> /\ container[p].credentials
        /\ submitted' = submitted \cup {p}
        /\ container' = [container EXCEPT ![p].state = "running"]
        /\ Becomes(p, [s EXCEPT !.container = "running"])
    BY <1>1, <1>8 DEF StartLocally
  <2>2. s.runtime = Multicri
    BY <1>3, <2>1 DEF PodSound, RecordsSound
  <2>4. /\ \A q \in Pod \ {p} : there'[q] = there[q]
        /\ Forward(s, there'[p]) /\ there'[p].container = "running"
        /\ there'[p].runtime = Multicri /\ there'[p].sandbox = s.sandbox
    BY <2>1, <2>2, LocalContainerForward
  <2>5. /\ ChangesOnly(t, p)
        /\ container'[p].handler = container[p].handler
        /\ container'[p].credentials = container[p].credentials
    BY <1>2, <1>5, <2>1, <2>4 DEF ChangesOnly, RoutingTypeOK, ContainerMetadata
  <2>6. RecordsSound(p)'
    BY <1>2, <1>3, <1>4, <2>1, <2>2, <2>4, <2>5 DEF PodSound, RecordsSound
  <2>7. call[t].op # "run"
    BY <1>8 DEF StartLocally, Locally
  <2>8. AboutToBeRecorded(p) => AboutToBeRecorded(p)'
    BY <2>5, <2>7, StillAbout
  <2>9. PodSound(p)'
    BY <1>2, <1>3, <1>4, <2>1, <2>2, <2>4, <2>6, <2>8 DEF PodSound
  <2> QED
    BY <1>1, <1>2, <2>4, <2>5, <2>9, ReturnRoute
<1>9. CASE StopContainerLocally(t) \/ StartFails(t)
  <2>1. /\ UNCHANGED <<sandbox, told, submitted>>
        /\ container' = [container EXCEPT ![p].state = "exited"]
        /\ call[t].op # "run"
    BY <1>1, <1>9 DEF StopContainerLocally, StartFails, Locally
  <2>3. /\ \A q \in Pod \ {p} : there'[q] = there[q]
        /\ Forward(s, there'[p])
        /\ there'[p].runtime = s.runtime /\ there'[p].sandbox = s.sandbox
        /\ s.runtime = Nobody => there'[p] = s
    <3>1. CASE StopContainerLocally(t)
      BY <1>1, <1>4, <3>1, LocalContainerForward DEF StopContainerLocally
    <3>2. CASE StartFails(t)
      BY <3>2 DEF StartFails, Forward
    <3> QED
      BY <1>9, <3>1, <3>2
  <2>5. /\ ChangesOnly(t, p)
        /\ container'[p].handler = container[p].handler
        /\ container'[p].credentials = container[p].credentials
    BY <1>2, <1>5, <2>1, <2>3 DEF ChangesOnly, RoutingTypeOK, ContainerMetadata
  <2>6. RecordsSound(p)'
    BY <1>2, <1>3, <2>1, <2>3, <2>5 DEF PodSound, RecordsSound, Forward
  <2>7. AboutToBeRecorded(p) => AboutToBeRecorded(p)'
    BY <2>1, <2>5, StillAbout
  <2>8. PodSound(p)'
    BY <1>2, <1>3, <2>1, <2>3, <2>6, <2>7 DEF PodSound
  <2> QED
    BY <1>1, <1>2, <2>3, <2>5, <2>8, ReturnRoute
<1>10. CASE StopLocally(t)
  <2> DEFINE b == IF s.sandbox = "ready" THEN "stopped" ELSE s.sandbox
  <2>1. /\ sandbox' = [sandbox EXCEPT ![p] = h] /\ UNCHANGED <<container, submitted>>
        /\ told' = told \cup {p} /\ Becomes(p, [s EXCEPT !.sandbox = b])
    BY <1>1, <1>10 DEF StopLocally
  <2>2. s.runtime = Multicri /\ RuntimeAt(endpoint, h) = Multicri
    BY <1>2, <1>3, <1>10 DEF AboutSound, StopLocally, Locally, DropsError
  <2>3. b \in {"stopped", "removed"}
    BY <1>3, <1>4, <2>2 DEF PodSound, Held
  <2> HIDE DEF b
  <2>4. s.sandbox = "removed" => b = "removed"
    BY DEF b
  <2>5. /\ \A q \in Pod \ {p} : there'[q] = there[q]
        /\ Forward(s, there'[p]) /\ there'[p].sandbox = b
        /\ there'[p].runtime = Multicri /\ there'[p].container = s.container
    BY <2>1, <2>2, <2>3, <2>4, LocalSandboxForward
  <2>6. ChangesOnly(t, p) /\ sandbox'[p] = h
    BY <1>2, <1>5, <2>1, <2>5 DEF ChangesOnly, RoutingTypeOK
  <2>7. RecordsSound(p)'
    BY <1>2, <1>3, <1>4, <2>1, <2>2, <2>5, <2>6 DEF PodSound, RecordsSound
  <2>8. PodSound(p)'
    BY <1>2, <1>3, <1>4, <2>1, <2>2, <2>3, <2>5, <2>6, <2>7 DEF PodSound
  <2> QED
    BY <1>1, <1>2, <2>5, <2>6, <2>8, ReturnRoute
<1>11. CASE RemoveLocally(t)
  <2>1. /\ sandbox' = [sandbox EXCEPT ![p] = Nobody]
        /\ UNCHANGED <<container, submitted, told>>
        /\ Becomes(p, [s EXCEPT !.sandbox = "removed"])
    BY <1>1, <1>11 DEF RemoveLocally
  <2>2. s.runtime = Multicri
    BY <1>2, <1>3, <1>11 DEF AboutSound, RemoveLocally, Locally, DropsError
  <2>4. /\ \A q \in Pod \ {p} : there'[q] = there[q]
        /\ Forward(s, there'[p]) /\ there'[p].sandbox = "removed"
        /\ there'[p].runtime = Multicri /\ there'[p].container = s.container
    BY <2>1, <2>2, LocalSandboxForward
  <2>5. ChangesOnly(t, p) /\ sandbox'[p] = Nobody
    BY <1>2, <1>5, <2>1, <2>4 DEF ChangesOnly, RoutingTypeOK
  <2>6. RecordsSound(p)'
    BY <1>2, <1>3, <1>4, <2>1, <2>2, <2>4, <2>5 DEF PodSound, RecordsSound
  <2>7. PodSound(p)'
    BY <1>2, <1>3, <1>4, <2>1, <2>2, <2>4, <2>5, <2>6 DEF PodSound
  <2> QED
    BY <1>1, <1>2, <2>4, <2>5, <2>7, ReturnRoute
<1>12. CASE NothingLocally(t)
  <2>1. UNCHANGED <<endpoint, there, sandbox, container, submitted, told, forgotten>>
    BY <1>12 DEF NothingLocally
  <2>2. ChangesOnly(t, p)
    BY <1>5, <2>1 DEF ChangesOnly
  <2>3. ~(call[t].pc = "reply" /\ call[t].op = "run")
    BY <1>2
  <2> QED
    BY <1>1, <1>2, <2>1, <2>2, <2>3, ReturnFrame, IdleSound, OnlyCall
<1> QED
  BY <1>6, <1>7, <1>8, <1>9, <1>10, <1>11, <1>12 DEF Local

-----------------------------------------------------------------------------
(* The end of the process, and the theorems *)

LEMMA ForgetRoute ==
  ASSUME RoutingTypeOK, CallsHavePods, RouteInv, Forget
  PROVE  RouteInv'
<1>1. /\ \A t \in Caller : call'[t] = Idle
      /\ \A p \in Pod : /\ sandbox'[p] = Nobody
                        /\ container'[p] \in {container[p], Absent}
                        /\ there[p].sandbox \in {"ready", "stopped"} => p \in forgotten'
      /\ UNCHANGED <<endpoint, there, submitted, told>>
  BY DEF Forget, RoutingTypeOK
<1>2. \A t \in Caller : CallSound(t)'
  BY <1>1, IdleSound
<1>3. ASSUME NEW p \in Pod PROVE PodSound(p)'
  <2>1. PodSound(p)
    BY DEF RouteInv
  <2>2. RecordsSound(p)'
    BY <1>1, <2>1 DEF PodSound, RecordsSound, Absent
  <2> QED
    BY <1>1, <2>1, <2>2 DEF PodSound
<1> QED
  BY <1>2, <1>3 DEF RouteInv

LEMMA SameRoute == RouteInv /\ UNCHANGED routing => RouteInv'
<1> SUFFICES ASSUME RouteInv, UNCHANGED routing PROVE RouteInv'
  OBVIOUS
<1>1. \A p \in Pod : PodSound(p)'
  BY DEF RouteInv, PodSound, RecordsSound, AboutToBeRecorded, routing
<1>2. \A t \in Caller : CallSound(t)'
  BY DEF RouteInv, CallSound, HasPod, routing
<1> QED
  BY <1>1, <1>2 DEF RouteInv

LEMMA RouteStep ==
  ASSUME RoutingTypeOK, CallsHavePods, RouteInv, [Next]_vars
  PROVE  RouteInv'
<1>1. CASE Process
  BY <1>1, ForgetRoute, SameRoute DEF Process
<1>2. ASSUME NEW t \in Caller, Step(t) PROVE RouteInv'
  BY <1>2, ReceiveRunRoute, ReceiveRoute, RemoteAnswersRoute, RemoteReplyLostRoute,
     RemoteUnawareRoute, RemoteFailsRoute, AnswerRoute, LocalRoute, ForgetRoute
  DEF Step, Panics
<1>3. CASE UNCHANGED vars
  BY <1>3, SameRoute DEF vars
<1> QED
  BY <1>1, <1>2, <1>3 DEF Next

LEMMA InitRoute == Init => RouteInv
<1> SUFFICES ASSUME RoutingInit PROVE RouteInv
  BY DEF Init
<1>1. \A p \in Pod : PodSound(p)
  BY DEF RoutingInit, PodSound, RecordsSound, NotHeld, Absent
<1>2. \A t \in Caller : CallSound(t)
  BY DEF RoutingInit, CallSound, HasPod, AboutSound, Idle
<1> QED
  BY <1>1, <1>2 DEF RouteInv

LEMMA RouteInvariant == Spec => [](TypeOK /\ RouteInv)
<1>1. TypeOK /\ CallsHavePods /\ RouteInv /\ [Next]_vars => RouteInv'
  BY RouteStep, TypeParts
<1> QED
  BY <1>1, InitRoute, RoutingTypeCorrect, PTL DEF Spec

\* No job is submitted for a pod another runtime has: of all that stands in the
\* way, the empty environment of the record is what the proof needs.
THEOREM NoJobForRemoteCorrect == Spec => []NoJobForRemote
<1>1. TypeOK /\ RouteInv => NoJobForRemote
  BY DEF TypeOK, RouteInv, PodSound, NoJobForRemote
<1> QED
  BY <1>1, RouteInvariant, PTL

\* Records name the runtime that has the pod, and a sandbox without a record was
\* lost with a reply or with the process.
THEOREM RequestsGoHomeCorrect == Spec => []RequestsGoHome
<1>1. RouteInv => RequestsGoHome
  BY RuntimeNow DEF RouteInv, PodSound, RecordsSound, RequestsGoHome, AboutToBeRecorded,
                    Answered
<1> QED
  BY <1>1, RouteInvariant, PTL

\* The handler the listings take for the service's own is not of another runtime.
LEMMA OwnName ==
  ASSUME TypeOK
  PROVE  /\ RuntimeAt(endpoint, MulticriRuntimeName) \in {Multicri, Nobody}
         /\ MulticriRuntimeName # Nobody
         /\ Multicri \notin endpoint /\ Nobody \notin endpoint
<1>1. endpoint \in SUBSET Class /\ Multicri \notin endpoint /\ Nobody \notin endpoint
  BY ClassAssumption DEF TypeOK
<1>2. RuntimeAt(endpoint, Multicri) = Multicri
  BY <1>1 DEF RuntimeAt, Multicri, Empty
<1>3. Default \notin endpoint => RuntimeAt(endpoint, Empty) \in {Multicri, Nobody}
  BY <1>1 DEF RuntimeAt, Multicri, Empty
<1> QED
  BY <1>1, <1>2, <1>3 DEF MulticriRuntimeName, Multicri, Empty, Nobody

\* With other runtimes, only one handler is the service's own.
LEMMA OwnHandler ==
  ASSUME NEW ep \in SUBSET Class, NEW h, ep # {}, RuntimeAt(ep, h) # Nobody
  PROVE  RuntimeAt(ep, h) \in ep \/ (RuntimeAt(ep, h) = Multicri /\ h = Multicri)
<1>1. CASE h = Multicri
  BY <1>1, ClassAssumption DEF RuntimeAt, Multicri, Empty
<1>2. CASE h # Multicri
  BY <1>2 DEF RuntimeAt
<1> QED
  BY <1>1, <1>2

\* A record of this service's own container has the image the listing looks into.
THEOREM ListedHaveImageCorrect == Spec => []ListedHaveImage
<1>1. TypeOK /\ RouteInv => ListedHaveImage
  BY OwnName DEF ListedHaveImage, LocalContainers, RouteInv, PodSound, RecordsSound
<1> QED
  BY <1>1, RouteInvariant, PTL

\* The listings leave nothing out that is remembered, and name nothing twice.
THEOREM ListedOnceCorrect == Spec => []ListedOnce
<1>1. TypeOK /\ RouteInv => ListedOnce
  <2> SUFFICES ASSUME TypeOK, RouteInv, NEW p \in Pod
               PROVE  /\ p \notin LocalSandboxes \cap RemoteSandboxes
                      /\ p \notin LocalContainers \cap RemoteContainers
                      /\ Default \in endpoint =>
                           /\ sandbox[p] # Nobody /\ there[p].sandbox # "removed" =>
                                p \in LocalSandboxes \cup RemoteSandboxes
                           /\ container[p].handler # Nobody
                                /\ there[p].container # "removed" =>
                                p \in LocalContainers \cup RemoteContainers
    BY DEF ListedOnce
  <2>1. PodSound(p) /\ RecordsSound(p) /\ there[p] \in Held /\ endpoint \in SUBSET Class
    BY DEF RouteInv, PodSound, TypeOK
  <2>2. p \notin LocalSandboxes \cap RemoteSandboxes
    BY <2>1, OwnName DEF LocalSandboxes, RemoteSandboxes, RecordsSound
  <2>3. p \notin LocalContainers \cap RemoteContainers
    BY <2>1, OwnName DEF LocalContainers, RemoteContainers, RecordsSound
  <2>4. ASSUME Default \in endpoint, sandbox[p] # Nobody, there[p].sandbox # "removed"
        PROVE  p \in LocalSandboxes \cup RemoteSandboxes
    <3>1. there[p].sandbox \in {"ready", "stopped"}
      BY <2>1, <2>4 DEF PodSound, RecordsSound, Held
    <3>2. there[p].runtime \in endpoint \/ sandbox[p] = Multicri
      BY <2>1, <2>4, OwnHandler DEF RecordsSound
    <3> QED
      BY <2>4, <3>1, <3>2 DEF LocalSandboxes, RemoteSandboxes, MulticriRuntimeName
  <2>5. ASSUME Default \in endpoint, container[p].handler # Nobody,
               there[p].container # "removed"
        PROVE  p \in LocalContainers \cup RemoteContainers
    <3>1. there[p].container \notin {"none", "removed"}
      BY <2>1, <2>5 DEF RecordsSound
    <3>2. there[p].runtime \in endpoint \/ container[p].handler = Multicri
      BY <2>1, <2>5, OwnHandler DEF RecordsSound
    <3> QED
      BY <2>5, <3>1, <3>2 DEF LocalContainers, RemoteContainers, MulticriRuntimeName
  <2> QED
    BY <2>2, <2>3, <2>4, <2>5
<1> QED
  BY <1>1, RouteInvariant, PTL

\* What the service said is stopped is stopped, whoever has it.
THEOREM ToldStoppedCorrect == Spec => []ToldStopped
<1>1. TypeOK /\ RouteInv => ToldStopped
  BY DEF TypeOK, RouteInv, PodSound, ToldStopped
<1> QED
  BY <1>1, RouteInvariant, PTL
=============================================================================
