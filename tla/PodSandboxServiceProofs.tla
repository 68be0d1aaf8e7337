----------------------- MODULE PodSandboxServiceProofs -----------------------
(***************************************************************************)
(* Proofs about the sandbox half of the service, for any number of pods,   *)
(* records, containers and requests, with overlapping calls, a set-up that *)
(* fails at any step, and death of the server at any time.                 *)
(***************************************************************************)
EXTENDS PodSandboxServiceProps, TLAPS

-----------------------------------------------------------------------------
(* The invariant *)

\* The requests of RunPodSandbox.
RunPc == {"namespace", "attach", "address", "files", "commit", "undo"}
Runs(t) == call[t].pc \in RunPc

\* The slots without a call of a pod: status queries, and no request at all.
QueryPc == {"idle", "asked", "seen"}

\* A request works on a record of its pod, a status query on one that was used.
CallsAreKnown ==
  \A t \in Caller :
    IF call[t].pc = "idle" THEN call[t] = Idle
    ELSE IF call[t].pc \in QueryPc
    THEN /\ call[t].pod = Nobody /\ call[t].rec \in Record
         /\ rec[call[t].rec].pod # Nobody
    ELSE /\ call[t].pod \in Pod /\ call[t].rec \in Record
         /\ rec[call[t].rec].pod = call[t].pod
         /\ call[t].pc = "append" => call[t].c \in Container

\* A pod's key leads to a record of the pod, and unused records have none.
PoolIsKnown ==
  /\ \A p \in Pod : pool[p] # Nobody => rec[pool[p]].pod = p
  /\ \A r \in Record : fate[r] = "unused" => rec[r].pod = Nobody

\* No code assigns NetNSPath.
NoPath ==
  /\ \A r \in Record : ~rec[r].nspath
  /\ \A p \in Pod : ~file[p].nspath

\* Every RunPodSandbox has a record of its own, which stays its own.
RunsAreAlone ==
  /\ \A t, u \in Caller : Runs(t) /\ Runs(u) /\ call[t].rec = call[u].rec => t = u
  /\ \A t \in Caller : Runs(t) => fate[call[t].rec] \in {"running", "replaced"}

KnownInv == TypeOK /\ CallsAreKnown /\ PoolIsKnown /\ NoPath /\ RunsAreAlone

\* What a request of RunPodSandbox has of the network.
HasNetwork(t) ==
  /\ call[t].pc = "undo" =>
       /\ "namespace" \notin net[call[t].rec]
       /\ rec[call[t].rec].ip => "attachment" \notin net[call[t].rec]
  /\ call[t].pc = "address" => "attachment" \in net[call[t].rec]

\* The record's set-up is past the address, and it is attached to the network if
\* it is up or can still come up.
Wired(r) ==
  /\ fate[r] = "up" => "attachment" \in net[r]
  /\ \A t \in Caller :
       call[t].rec = r =>
         /\ call[t].pc \notin {"namespace", "attach", "address"}
         /\ call[t].pc \in {"files", "commit"} => "attachment" \in net[r]

\* The record has an address, or, where the address decides, is called READY or
\* is going to be.
Told(r) == rec[r].ip \/ (PodNetwork /\ (rec[r].ready \/ Seen(r)))

NetworkInv ==
  /\ FailedRunCleansUp
  /\ \A t \in Caller : HasNetwork(t)
  /\ \A r \in Record : Told(r) => Wired(r)

Accepted == {"running", "up", "stopped"}

\* A pod whose calls do not overlap has one at a time, on the record of its key,
\* which is the one that was accepted; and no address once that is stopped, or is
\* being stopped.
Alone(p) ==
  /\ \A t, u \in Caller : call[t].pod = p /\ call[u].pod = p => t = u
  /\ \A t \in Caller :
       call[t].pod = p => /\ pool[p] = call[t].rec
                          /\ call[t].pc = "stopped" => ~rec[call[t].rec].ip
  /\ \A r \in Record :
       rec[r].pod = p =>
         /\ pool[p] = r <=> fate[r] \in Accepted
         /\ fate[r] = "running" => \E t \in Caller : Runs(t) /\ call[t].rec = r
         /\ fate[r] = "stopped" => ~rec[r].ip

SerialInv == \A p \in Pod \ Overlap : Alone(p)

-----------------------------------------------------------------------------
(* Frames: what steps of a kind leave alone *)

\* No record gets another pod, or a path.
PodsStay ==
  \A r \in Record : rec'[r].pod = rec[r].pod /\ rec'[r].nspath = rec[r].nspath

LEMMA IdleType == Idle \in Call /\ Blank \in SandboxMetadata
  BY DEF Idle, Call, Pc, Blank, SandboxMetadata

\* A request that is being served works on a record of its pod.
LEMMA Served ==
  ASSUME KnownInv, NEW t \in Caller, call[t].pc \notin {"idle", "asked", "seen"}
  PROVE  /\ call[t].pod \in Pod /\ call[t].rec \in Record
         /\ call[t].rec # Nobody /\ call[t].pod # Nobody
         /\ rec[call[t].rec].pod = call[t].pod
         /\ fate[call[t].rec] # "unused"
         /\ call[t].pc = "append" => call[t].c \in Container
  BY NameAssumption DEF KnownInv, CallsAreKnown, PoolIsKnown, QueryPc

\* The requests after one of them has gone on.
LEMMA GoFrame ==
  ASSUME TypeOK, NEW t \in Caller, NEW q \in Pc, GoTo(t, q)
  PROVE  /\ call' \in [Caller -> Call]
         /\ call'[t].pc = q /\ call'[t].pod = call[t].pod
         /\ call'[t].rec = call[t].rec /\ call'[t].c = call[t].c
         /\ \A u \in Caller \ {t} : call'[u] = call[u]
  BY DEF TypeOK, GoTo, Call

\* The requests after one of them has been answered.
LEMMA ReturnFrame ==
  ASSUME TypeOK, NEW t \in Caller, Return(t)
  PROVE  /\ call' \in [Caller -> Call]
         /\ call'[t] = Idle
         /\ \A u \in Caller \ {t} : call'[u] = call[u]
  BY IdleType DEF TypeOK, Return

\* A RunPodSandbox goes on.
LEMMA GoKeeps ==
  ASSUME KnownInv, NEW t \in Caller, NEW q \in RunPc, Runs(t), GoTo(t, q), PodsStay,
         UNCHANGED <<pool, fate>>
  PROVE  CallsAreKnown' /\ PoolIsKnown' /\ RunsAreAlone' /\ call' \in [Caller -> Call]
<1> /\ q \in Pc /\ q \notin QueryPc /\ q # "append"
    /\ call[t].pc \notin {"idle", "asked", "seen"}
  BY DEF RunPc, Pc, Runs, QueryPc
<1>1. /\ call' \in [Caller -> Call]
      /\ call'[t].pc = q /\ call'[t].pod = call[t].pod
      /\ call'[t].rec = call[t].rec /\ call'[t].c = call[t].c
      /\ \A u \in Caller \ {t} : call'[u] = call[u]
  BY GoFrame DEF KnownInv
<1>2. CallsAreKnown'
  <2>1. call[t].pod \in Pod /\ call[t].rec \in Record /\ rec[call[t].rec].pod = call[t].pod
    BY Served
  <2> QED
    BY <1>1, <2>1 DEF KnownInv, CallsAreKnown, PodsStay, QueryPc
<1>3. PoolIsKnown'
  BY DEF KnownInv, TypeOK, PoolIsKnown, PodsStay
<1>4. RunsAreAlone'
  BY <1>1 DEF KnownInv, RunsAreAlone, Runs
<1> QED
  BY <1>1, <1>2, <1>3, <1>4

\* What a request may have done by the time it is answered: it has put its
\* record under its pod's key, or taken the key out, and has marked its record,
\* one that a RunPodSandbox works on only when it is that RunPodSandbox.
Answering(t) ==
  /\ Return(t)
  /\ PodsStay
  /\ \A p \in Pod :
       \/ pool'[p] \in {pool[p], Nobody}
       \/ p = call[t].pod /\ pool'[p] = call[t].rec
  /\ \A r \in Record :
       fate'[r] # fate[r] =>
         /\ r = call[t].rec /\ fate'[r] # "unused"
         /\ (Runs(t) \/ fate[r] \notin {"running", "replaced"})

LEMMA AnswerKeeps ==
  ASSUME KnownInv, NEW t \in Caller, call[t].pc \notin {"idle", "asked", "seen"},
         Answering(t)
  PROVE  CallsAreKnown' /\ PoolIsKnown' /\ RunsAreAlone' /\ call' \in [Caller -> Call]
<1>1. /\ call' \in [Caller -> Call]
      /\ call'[t] = Idle
      /\ \A u \in Caller \ {t} : call'[u] = call[u]
  BY ReturnFrame DEF KnownInv, Answering
<1>2. CallsAreKnown'
  BY <1>1 DEF KnownInv, CallsAreKnown, Answering, PodsStay, Idle
<1>3. PoolIsKnown'
  BY Served DEF KnownInv, TypeOK, PoolIsKnown, Answering, PodsStay
<1>4. RunsAreAlone'
  <2>1. \A u \in Caller : Runs(u)' => u # t /\ Runs(u) /\ call'[u].rec = call[u].rec
    BY <1>1 DEF Runs, Idle, RunPc
  <2>2. ASSUME NEW u \in Caller, Runs(u)'
        PROVE  fate'[call'[u].rec] \in {"running", "replaced"}
    <3>1. u # t /\ Runs(u) /\ call'[u].rec = call[u].rec
      BY <2>1, <2>2
    <3>2. call[u].rec \in Record /\ fate[call[u].rec] \in {"running", "replaced"}
      BY <3>1, Served DEF KnownInv, RunsAreAlone, Runs, RunPc
    <3>3. fate'[call[u].rec] = fate[call[u].rec]
      BY <3>1, <3>2 DEF KnownInv, RunsAreAlone, Answering
    <3> QED
      BY <3>1, <3>2, <3>3
  <2> QED
    BY <2>1, <2>2 DEF KnownInv, RunsAreAlone
<1> QED
  BY <1>1, <1>2, <1>3, <1>4

\* A request other than RunPodSandbox begins, on the record of the pod's key.
Beginning(t, p, q, c) ==
  /\ call[t] = Idle
  /\ pool[p] # Nobody
  /\ call' = [call EXCEPT ![t] = [pc |-> q, pod |-> p, rec |-> pool[p], c |-> c]]
  /\ PodsStay
  /\ UNCHANGED <<pool, fate>>

LEMMA BeginFrame ==
  ASSUME TypeOK, NEW t \in Caller, NEW p \in Pod, NEW q \in Pc,
         NEW c \in Container \cup {Nobody}, Beginning(t, p, q, c)
  PROVE  /\ call' \in [Caller -> Call]
         /\ call'[t].pc = q /\ call'[t].pod = p /\ call'[t].rec = pool[p]
         /\ call'[t].c = c
         /\ \A u \in Caller \ {t} : call'[u] = call[u]
  BY DEF TypeOK, Beginning, Call

LEMMA BeginKeeps ==
  ASSUME KnownInv, NEW t \in Caller, NEW p \in Pod, NEW q \in {"stopping", "drop", "append"},
         NEW c \in Container \cup {Nobody}, Beginning(t, p, q, c),
         q = "append" => c \in Container
  PROVE  CallsAreKnown' /\ PoolIsKnown' /\ RunsAreAlone' /\ call' \in [Caller -> Call]
<1> q \in Pc /\ q \notin QueryPc /\ q \notin RunPc
  BY DEF RunPc, Pc, QueryPc
<1>1. /\ call' \in [Caller -> Call]
      /\ call'[t].pc = q /\ call'[t].pod = p /\ call'[t].rec = pool[p]
      /\ call'[t].c = c
      /\ \A u \in Caller \ {t} : call'[u] = call[u]
  BY BeginFrame DEF KnownInv
<1>2. pool[p] \in Record /\ rec[pool[p]].pod = p
  BY DEF KnownInv, TypeOK, PoolIsKnown, Beginning
<1>3. CallsAreKnown'
  BY <1>1, <1>2 DEF KnownInv, CallsAreKnown, Beginning, PodsStay
<1>4. PoolIsKnown'
  BY DEF KnownInv, TypeOK, PoolIsKnown, Beginning, PodsStay
<1>5. RunsAreAlone'
  BY <1>1 DEF KnownInv, RunsAreAlone, Runs, Beginning
<1> QED
  BY <1>1, <1>3, <1>4, <1>5

-----------------------------------------------------------------------------
(* The store *)

\* No record of the pool or the file has a path.
RecordsType ==
  /\ rec' \in [Record -> SandboxMetadata]
  /\ \A r \in Record : ~rec'[r].nspath

LEMMA PutType ==
  ASSUME KnownInv, NEW p \in Pod, NEW r \in Record, RecordsType, Put(p, r)
  PROVE  /\ pool' \in [Pod -> Record \cup {Nobody}]
         /\ file' \in [Pod -> SandboxMetadata]
         /\ \A q \in Pod : ~file'[q].nspath
  BY DEF KnownInv, TypeOK, NoPath, RecordsType, Put

LEMMA DeleteType ==
  ASSUME KnownInv, NEW p \in Pod, Delete(p)
  PROVE  /\ pool' \in [Pod -> Record \cup {Nobody}]
         /\ file' \in [Pod -> SandboxMetadata]
         /\ \A q \in Pod : ~file'[q].nspath
  BY IdleType DEF KnownInv, TypeOK, NoPath, Delete, Blank

LEMMA MarkedType ==
  ASSUME TypeOK, NEW r \in Record, NEW f \in Fate, Marked(r, f)
  PROVE  /\ fate' \in [Record -> Fate]
         /\ fate'[r] = f
         /\ \A q \in Record \ {r} : fate'[q] = fate[q]
  BY DEF TypeOK, Marked

\* A record is written: its pod stays, and it gets no path.
LEMMA RecordWritten ==
  ASSUME KnownInv, NEW r \in Record, NEW m \in SandboxMetadata,
         rec' = [rec EXCEPT ![r] = m], m.pod = rec[r].pod, ~m.nspath
  PROVE  /\ RecordsType /\ PodsStay
         /\ rec'[r] = m
         /\ \A q \in Record \ {r} : rec'[q] = rec[q]
<1>1. rec \in [Record -> SandboxMetadata] /\ \A q \in Record : ~rec[q].nspath
  BY DEF KnownInv, TypeOK, NoPath
<1>2. rec'[r] = m /\ \A q \in Record \ {r} : rec'[q] = rec[q]
  BY <1>1
<1>3. rec' \in [Record -> SandboxMetadata]
  BY <1>1
<1>4. \A q \in Record : /\ rec'[q].pod = rec[q].pod
                        /\ ~rec'[q].nspath
                        /\ rec'[q].nspath = rec[q].nspath
  <2> SUFFICES ASSUME NEW q \in Record
               PROVE  /\ rec'[q].pod = rec[q].pod
                      /\ ~rec'[q].nspath /\ rec'[q].nspath = rec[q].nspath
    OBVIOUS
  <2>1. CASE q = r
    <3>1. m.nspath \in BOOLEAN /\ rec[r].nspath \in BOOLEAN
      BY <1>1 DEF SandboxMetadata
    <3> QED
      BY <1>1, <1>2, <2>1, <3>1
  <2>2. CASE q # r
    BY <1>1, <1>2, <2>2
  <2> QED
    BY <2>1, <2>2
<1> QED
  BY <1>2, <1>3, <1>4 DEF RecordsType, PodsStay

\* The fields of a record, after the writes of the set-up, a status and a stop.
LEMMA AddressWritten ==
  ASSUME NEW m \in SandboxMetadata, NEW n, n = [m EXCEPT !.ip = TRUE]
  PROVE  n \in SandboxMetadata /\ n.pod = m.pod /\ n.nspath = m.nspath
  BY DEF SandboxMetadata

LEMMA ReadyWritten ==
  ASSUME NEW m \in SandboxMetadata, NEW n, n = [m EXCEPT !.ready = TRUE]
  PROVE  /\ n \in SandboxMetadata /\ n.pod = m.pod /\ n.nspath = m.nspath
         /\ n.ip = m.ip /\ n.ready /\ n = [m EXCEPT !.ready = n.ready]
         /\ n.containers = m.containers
<1>1. /\ n \in SandboxMetadata /\ n.pod = m.pod /\ n.nspath = m.nspath
      /\ n.ip = m.ip /\ n.ready = TRUE /\ n.containers = m.containers
  BY DEF SandboxMetadata
<1> QED
  BY <1>1

LEMMA StopWritten ==
  ASSUME NEW m \in SandboxMetadata, NEW n, n = [m EXCEPT !.ready = FALSE]
  PROVE  /\ n \in SandboxMetadata /\ n.pod = m.pod /\ n.nspath = m.nspath
         /\ n.ip = m.ip /\ ~n.ready /\ n.containers = m.containers
  BY DEF SandboxMetadata

LEMMA ClearWritten ==
  ASSUME NEW m \in SandboxMetadata, NEW n, n = [m EXCEPT !.ip = FALSE]
  PROVE  /\ n \in SandboxMetadata /\ n.pod = m.pod /\ n.nspath = m.nspath
         /\ ~n.ip /\ n.ready = m.ready /\ n.containers = m.containers
  BY DEF SandboxMetadata

\* Nothing has happened to the records.
LEMMA SameRecords ==
  ASSUME KnownInv, UNCHANGED rec
  PROVE  RecordsType /\ PodsStay
  BY DEF KnownInv, TypeOK, NoPath, RecordsType, PodsStay

-----------------------------------------------------------------------------
(* KnownInv: one lemma for each kind of step *)

LEMMA InitKnown == Init => KnownInv
<1> SUFFICES ASSUME Init PROVE KnownInv
  OBVIOUS
<1>1. TypeOK
  BY IdleType DEF Init, TypeOK, Fate
<1>2. CallsAreKnown /\ RunsAreAlone
  BY DEF Init, CallsAreKnown, RunsAreAlone, Runs, RunPc, Idle
<1>3. PoolIsKnown /\ NoPath
  BY DEF Init, PoolIsKnown, NoPath, Blank
<1> QED
  BY <1>1, <1>2, <1>3 DEF KnownInv

\* What the deferred clean-up leaves of the namespace and of the attachment.
LEMMA TakenDownLeaves ==
  ASSUME NEW held \in SUBSET Resource,
         NEW thing \in {"namespace", "attachment"}, NEW remains \in {"stuck", "dangling"},
         NEW left \in TakenDown(held, thing, remains)
  PROVE  /\ left \in SUBSET Resource /\ thing \notin left
         /\ \A x \in {"namespace", "attachment"} : x # thing => (x \in left <=> x \in held)
  BY DEF TakenDown, Resource

LEMMA RemovedLeaves ==
  ASSUME NEW held \in SUBSET Resource, NEW left \in NamespaceRemoved(held)
  PROVE  /\ left \in SUBSET Resource /\ "namespace" \notin left
         /\ "attachment" \in left <=> "attachment" \in held
<1>1. left \in TakenDown(held, "namespace", "stuck")
  BY DEF NamespaceRemoved
<1> QED
  BY <1>1, TakenDownLeaves

LEMMA TornDownLeaves ==
  ASSUME NEW held \in SUBSET Resource, NEW left \in TornDown(held)
  PROVE  left \in SUBSET Resource /\ "attachment" \notin left
<1>1. left \in TakenDown(held, "attachment", "dangling")
  BY DEF TornDown
<1> QED
  BY <1>1, TakenDownLeaves

\* The network of a record after each failure of its set-up.
LEMMA FailLeaves ==
  ASSUME KnownInv, NEW t \in Caller, NEW r \in Record, r = call[t].rec,
         RunAttachFail(t) \/ RunAddressFail(t) \/ RunFilesFail(t)
  PROVE  /\ net' \in [Record -> SUBSET Resource]
         /\ \A q \in Record \ {r} : net'[q] = net[q]
         /\ "namespace" \notin net'[r]
         /\ call[t].pc = "files" => "attachment" \notin net'[r]
<1>1. net \in [Record -> SUBSET Resource]
  BY DEF KnownInv, TypeOK
<1>2. CASE RunAttachFail(t) \/ RunAddressFail(t)
  <2>1. PICK held \in NamespaceRemoved(net[r]) : net' = [net EXCEPT ![r] = held]
    BY <1>2 DEF RunAttachFail, RunAddressFail
  <2>2. held \in SUBSET Resource /\ "namespace" \notin held
    BY <1>1, RemovedLeaves
  <2>3. call[t].pc # "files"
    BY <1>2 DEF RunAttachFail, RunAddressFail
  <2> QED
    BY <1>1, <2>1, <2>2, <2>3
<1>3. CASE RunFilesFail(t)
  <2>1. PICK left \in TornDown(net[r]) :
          \E held \in NamespaceRemoved(left) : net' = [net EXCEPT ![r] = held]
    BY <1>3 DEF RunFilesFail
  <2>2. left \in SUBSET Resource /\ "attachment" \notin left
    BY <1>1, TornDownLeaves
  <2>4. PICK held \in NamespaceRemoved(left) : net' = [net EXCEPT ![r] = held]
    BY <2>1
  <2>3. held \in SUBSET Resource /\ "namespace" \notin held /\ "attachment" \notin held
    BY <2>2, RemovedLeaves
  <2> QED
    BY <1>1, <2>3, <2>4
<1> QED
  BY <1>2, <1>3

\* The steps of the network set-up.
SetUp(t) ==
  \/ RunNamespace(t) \/ RunAttach(t) \/ RunAttachFail(t)
  \/ RunAddress(t) \/ RunAddressFail(t) \/ RunFiles(t) \/ RunFilesFail(t)

LEMMA SetUpFrame ==
  ASSUME KnownInv, NEW t \in Caller, SetUp(t)
  PROVE  /\ Runs(t) /\ \E q \in RunPc : GoTo(t, q)
         /\ RecordsType /\ PodsStay
         /\ net' \in [Record -> SUBSET Resource] /\ etc' \in BOOLEAN
         /\ \A r \in Record \ {call[t].rec} : rec'[r] = rec[r] /\ net'[r] = net[r]
         /\ UNCHANGED <<pool, file, fate>>
<1> USE DEF RunPc, Runs
<1>0. call[t].pc \notin {"idle", "asked", "seen"}
  BY DEF SetUp, RunNamespace, RunAttach, RunAttachFail, RunAddress, RunAddressFail,
         RunFiles, RunFilesFail
<1>1. CASE RunNamespace(t)
  <2>1. net' \in [Record -> SUBSET Resource]
        /\ \A r \in Record \ {call[t].rec} : net'[r] = net[r]
    BY <1>1 DEF RunNamespace, KnownInv, TypeOK, Resource
  <2> QED
    BY <1>1, <2>1, SameRecords DEF RunNamespace, KnownInv, TypeOK
<1>2. CASE RunAttach(t)
  <2>1. net' \in [Record -> SUBSET Resource]
        /\ \A r \in Record \ {call[t].rec} : net'[r] = net[r]
    BY <1>2 DEF RunAttach, KnownInv, TypeOK, Resource
  <2> QED
    BY <1>2, <2>1, SameRecords DEF RunAttach, KnownInv, TypeOK
<1>3. CASE RunAttachFail(t)
  <2>1. net' \in [Record -> SUBSET Resource]
        /\ \A r \in Record \ {call[t].rec} : net'[r] = net[r]
    BY <1>3, <1>0, Served, FailLeaves
  <2> QED
    BY <1>3, <2>1, SameRecords DEF RunAttachFail, KnownInv, TypeOK
<1>4. CASE RunAddress(t)
  <2>1. RecordsType /\ PodsStay
        /\ \A r \in Record \ {call[t].rec} : rec'[r] = rec[r]
    <3>1. /\ call[t].rec \in Record /\ rec[call[t].rec] \in SandboxMetadata
          /\ ~rec[call[t].rec].nspath
      BY <1>0, Served DEF KnownInv, TypeOK, NoPath
    <3>2. PICK n : n = [rec[call[t].rec] EXCEPT !.ip = TRUE]
      OBVIOUS
    <3>3. rec' = [rec EXCEPT ![call[t].rec] = n]
      BY <1>4, <3>2 DEF RunAddress
    <3>4. n \in SandboxMetadata /\ n.pod = rec[call[t].rec].pod /\ ~n.nspath
      BY <3>1, <3>2, AddressWritten
    <3> QED
      BY <3>1, <3>3, <3>4, RecordWritten
  <2> QED
    BY <1>4, <2>1 DEF RunAddress, KnownInv, TypeOK
<1>5. CASE RunAddressFail(t)
  <2>1. net' \in [Record -> SUBSET Resource]
        /\ \A r \in Record \ {call[t].rec} : net'[r] = net[r]
    BY <1>5, <1>0, Served, FailLeaves
  <2> QED
    BY <1>5, <2>1, SameRecords DEF RunAddressFail, KnownInv, TypeOK
<1>6. CASE RunFiles(t)
  BY <1>6, SameRecords DEF RunFiles, KnownInv, TypeOK
<1>7. CASE RunFilesFail(t)
  <2>1. net' \in [Record -> SUBSET Resource]
        /\ \A r \in Record \ {call[t].rec} : net'[r] = net[r]
    BY <1>7, <1>0, Served, FailLeaves
  <2> QED
    BY <1>7, <2>1, SameRecords DEF RunFilesFail, KnownInv, TypeOK
<1> QED
  BY <1>1, <1>2, <1>3, <1>4, <1>5, <1>6, <1>7 DEF SetUp

LEMMA SetUpReady ==
  ASSUME KnownInv, NEW t \in Caller, SetUp(t)
  PROVE  \A r \in Record : /\ rec'[r].ready = rec[r].ready
                          /\ rec'[r].containers = rec[r].containers
<1>1. CASE RunAddress(t)
  <2>1. rec' = [rec EXCEPT ![call[t].rec] = [rec[call[t].rec] EXCEPT !.ip = TRUE]]
    BY <1>1 DEF RunAddress
  <2> QED
    BY <2>1 DEF KnownInv, TypeOK, SandboxMetadata
<1>2. CASE ~RunAddress(t)
  BY <1>2 DEF SetUp, RunNamespace, RunAttach, RunAttachFail, RunAddressFail,
              RunFiles, RunFilesFail
<1> QED
  BY <1>1, <1>2

LEMMA SetUpKnown ==
  ASSUME KnownInv, NEW t \in Caller, SetUp(t)
  PROVE  KnownInv'
<1>1. PICK q \in RunPc : GoTo(t, q)
  BY SetUpFrame
<1>2. /\ Runs(t) /\ RecordsType /\ PodsStay
      /\ net' \in [Record -> SUBSET Resource] /\ etc' \in BOOLEAN
      /\ UNCHANGED <<pool, file, fate>>
  BY SetUpFrame
<1>3. CallsAreKnown' /\ PoolIsKnown' /\ RunsAreAlone' /\ call' \in [Caller -> Call]
  BY <1>1, <1>2, GoKeeps
<1>4. TypeOK' /\ NoPath'
  BY <1>2, <1>3 DEF KnownInv, TypeOK, NoPath, RecordsType
<1> QED
  BY <1>3, <1>4 DEF KnownInv

\* The steps that answer a request.
Answer(t) ==
  \/ RunUndo(t) \/ RunCommit(t) \/ StopCommit(t) \/ RemoveCommit(t)
  \/ AppendFail(t) \/ AppendCommit(t)

\* The store and the history after an answer.
StoreType ==
  /\ pool' \in [Pod -> Record \cup {Nobody}]
  /\ file' \in [Pod -> SandboxMetadata]
  /\ \A p \in Pod : ~file'[p].nspath
  /\ fate' \in [Record -> Fate]

LEMMA AppendFrame ==
  ASSUME KnownInv, NEW t \in Caller, AppendCommit(t)
  PROVE  /\ RecordsType /\ PodsStay
         /\ \A r \in Record \ {call[t].rec} : rec'[r] = rec[r]
         /\ rec'[call[t].rec].ip = rec[call[t].rec].ip
         /\ rec'[call[t].rec].ready = rec[call[t].rec].ready
<1> DEFINE r == call[t].rec
<1>1. r \in Record /\ call[t].c \in Container /\ rec[r] \in SandboxMetadata
  BY Served DEF AppendCommit, KnownInv, TypeOK
<1>2. rec' = [rec EXCEPT ![r].containers = rec[r].containers \cup {call[t].c}]
  BY DEF AppendCommit
<1> HIDE DEF r
<1>3. /\ rec' \in [Record -> SandboxMetadata]
      /\ \A q \in Record \ {r} : rec'[q] = rec[q]
      /\ rec'[r].ip = rec[r].ip /\ rec'[r].ready = rec[r].ready
      /\ rec'[r].pod = rec[r].pod /\ rec'[r].nspath = rec[r].nspath
  BY <1>1, <1>2 DEF KnownInv, TypeOK, SandboxMetadata
<1> QED
  BY <1>1, <1>3 DEF RecordsType, PodsStay, KnownInv, NoPath, r

LEMMA AnswerFrame ==
  ASSUME KnownInv, NEW t \in Caller, Answer(t)
  PROVE  /\ call[t].pc \notin {"idle", "asked", "seen"}
         /\ Answering(t) /\ RecordsType /\ StoreType
         /\ UNCHANGED <<net, etc>>
         /\ \A r \in Record \ {call[t].rec} : rec'[r] = rec[r]
         /\ \A r \in Record : rec'[r].ip = rec[r].ip /\ rec'[r].ready = rec[r].ready
<1> DEFINE r == call[t].rec
           p == call[t].pod
<1>0. call[t].pc \notin {"idle", "asked", "seen"}
  BY DEF Answer, RunUndo, RunCommit, StopCommit, RemoveCommit, AppendFail, AppendCommit
<1>a. r \in Record /\ p \in Pod /\ fate[r] # "unused" /\ rec[r].pod = p
  BY <1>0, Served
<1> HIDE DEF r, p
<1>1. CASE RunUndo(t)
  <2>1. Delete(p) /\ Marked(r, "failed") /\ Return(t) /\ Runs(t)
        /\ UNCHANGED <<rec, net, etc>>
    BY <1>1 DEF RunUndo, Runs, RunPc, r, p
  <2>2. /\ fate' \in [Record -> Fate] /\ fate'[r] = "failed"
        /\ \A q \in Record \ {r} : fate'[q] = fate[q]
    BY <2>1, <1>a, MarkedType DEF KnownInv, Fate
  <2>3. Answering(t)
    BY <2>1, <2>2, <1>a, SameRecords DEF Answering, Delete, KnownInv, TypeOK, r
  <2> QED
    BY <2>1, <2>2, <2>3, <1>0, <1>a, SameRecords, DeleteType DEF StoreType
<1>2. CASE RunCommit(t)
  <2>1. Put(p, r) /\ Marked(r, "up") /\ Return(t) /\ Runs(t)
        /\ UNCHANGED <<rec, net, etc>>
    BY <1>2 DEF RunCommit, Runs, RunPc, r, p
  <2>2. /\ fate' \in [Record -> Fate] /\ fate'[r] = "up"
        /\ \A q \in Record \ {r} : fate'[q] = fate[q]
    BY <2>1, <1>a, MarkedType DEF KnownInv, Fate
  <2>3. Answering(t)
    BY <2>1, <2>2, <1>a, SameRecords DEF Answering, Put, KnownInv, TypeOK, r, p
  <2> QED
    BY <2>1, <2>2, <2>3, <1>0, <1>a, SameRecords, PutType DEF StoreType
<1>3. CASE StopCommit(t)
  <2>1. Put(p, r) /\ Return(t) /\ UNCHANGED <<rec, net, etc>>
        /\ IF fate[r] = "up" THEN Marked(r, "stopped") ELSE UNCHANGED fate
    BY <1>3 DEF StopCommit, r, p
  <2>2. /\ fate' \in [Record -> Fate]
        /\ fate'[r] = IF fate[r] = "up" THEN "stopped" ELSE fate[r]
        /\ \A q \in Record \ {r} : fate'[q] = fate[q]
    BY <2>1, <1>a, MarkedType DEF KnownInv, TypeOK, Fate
  <2>3. Answering(t)
    BY <2>1, <2>2, <1>a, SameRecords DEF Answering, Put, KnownInv, TypeOK, r, p
  <2> QED
    BY <2>1, <2>2, <2>3, <1>0, <1>a, SameRecords, PutType DEF StoreType
<1>4. CASE RemoveCommit(t)
  <2>1. Delete(p) /\ Return(t) /\ UNCHANGED <<rec, net, etc>>
        /\ IF fate[r] \in {"up", "stopped"} THEN Marked(r, "removed") ELSE UNCHANGED fate
    BY <1>4 DEF RemoveCommit, r, p
  <2>2. /\ fate' \in [Record -> Fate]
        /\ fate'[r] = IF fate[r] \in {"up", "stopped"} THEN "removed" ELSE fate[r]
        /\ \A q \in Record \ {r} : fate'[q] = fate[q]
    BY <2>1, <1>a, MarkedType DEF KnownInv, TypeOK, Fate
  <2>3. Answering(t)
    BY <2>1, <2>2, <1>a, SameRecords DEF Answering, Delete, KnownInv, TypeOK, r
  <2> QED
    BY <2>1, <2>2, <2>3, <1>0, <1>a, SameRecords, DeleteType DEF StoreType
<1>5. CASE AppendFail(t)
  BY <1>5, <1>0, SameRecords
     DEF AppendFail, Answering, StoreType, KnownInv, TypeOK, NoPath
<1>6. CASE AppendCommit(t)
  <2>1. Put(p, r) /\ Return(t) /\ UNCHANGED <<net, etc, fate>>
    BY <1>6 DEF AppendCommit, r, p
  <2>2. /\ RecordsType /\ PodsStay
        /\ \A q \in Record \ {r} : rec'[q] = rec[q]
        /\ rec'[r].ip = rec[r].ip /\ rec'[r].ready = rec[r].ready
    BY <1>6, AppendFrame DEF r
  <2>3. Answering(t)
    BY <2>1, <2>2, <1>a DEF Answering, Put, KnownInv, TypeOK, r, p
  <2>4. StoreType
    BY <2>1, <2>2, <1>a, PutType DEF StoreType, KnownInv, TypeOK
  <2> QED
    BY <2>1, <2>2, <2>3, <2>4, <1>0, <1>a DEF r
<1> QED
  BY <1>1, <1>2, <1>3, <1>4, <1>5, <1>6 DEF Answer

LEMMA AnswerKnown ==
  ASSUME KnownInv, NEW t \in Caller, Answer(t)
  PROVE  KnownInv'
<1>1. /\ call[t].pc \notin {"idle", "asked", "seen"}
      /\ Answering(t) /\ RecordsType /\ StoreType
      /\ UNCHANGED <<net, etc>>
  BY AnswerFrame
<1>2. CallsAreKnown' /\ PoolIsKnown' /\ RunsAreAlone' /\ call' \in [Caller -> Call]
  BY <1>1, AnswerKeeps
<1>3. TypeOK' /\ NoPath'
  BY <1>1, <1>2 DEF KnownInv, TypeOK, NoPath, RecordsType, StoreType
<1> QED
  BY <1>2, <1>3 DEF KnownInv

LEMMA IdleBegins ==
  ASSUME NEW q \in Pc, NEW p \in Pod, NEW r \in Record
  PROVE  [Idle EXCEPT !.pc = q, !.pod = p, !.rec = r]
           = [pc |-> q, pod |-> p, rec |-> r, c |-> Nobody]
<1> DEFINE a == [Idle EXCEPT !.pc = q, !.pod = p, !.rec = r]
           b == [pc |-> q, pod |-> p, rec |-> r, c |-> Nobody]
<1>1. a \in Call /\ a.pc = q /\ a.pod = p /\ a.rec = r /\ a.c = Nobody
  BY DEF Idle, Call
<1> HIDE DEF a
<1>2. a = [pc |-> a.pc, pod |-> a.pod, rec |-> a.rec, c |-> a.c]
  BY <1>1 DEF Call
<1>3. [pc |-> a.pc, pod |-> a.pod, rec |-> a.rec, c |-> a.c] = b
  BY <1>1
<1> HIDE DEF b
<1> QED
  BY <1>2, <1>3 DEF a, b

\* A stop calls the record under the pod's key NOTREADY.
LEMMA StopBeginFrame ==
  ASSUME KnownInv, NEW t \in Caller, NEW p \in Pod, StopBegin(t, p)
  PROVE  /\ Beginning(t, p, "stopping", Nobody) /\ MayBegin(t, p)
         /\ RecordsType /\ UNCHANGED <<pool, file, net, etc, fate>>
         /\ ~rec'[pool[p]].ready
         /\ rec'[pool[p]].containers = rec[pool[p]].containers
         /\ \A r \in Record : rec'[r].ip = rec[r].ip
         /\ \A r \in Record \ {pool[p]} : rec'[r] = rec[r]
<1>1. pool[p] \in Record /\ rec[pool[p]] \in SandboxMetadata
  BY DEF StopBegin, KnownInv, TypeOK
<1>2. /\ rec' \in [Record -> SandboxMetadata]
      /\ \A r \in Record \ {pool[p]} : rec'[r] = rec[r]
      /\ ~rec'[pool[p]].ready /\ rec'[pool[p]].ip = rec[pool[p]].ip
      /\ rec'[pool[p]].containers = rec[pool[p]].containers
      /\ rec'[pool[p]].pod = rec[pool[p]].pod
      /\ rec'[pool[p]].nspath = rec[pool[p]].nspath
  <2>1. PICK n : n = [rec[pool[p]] EXCEPT !.ready = FALSE]
    OBVIOUS
  <2>2. rec' = [rec EXCEPT ![pool[p]] = n]
    BY <2>1 DEF StopBegin
  <2>3. /\ n \in SandboxMetadata /\ n.pod = rec[pool[p]].pod
        /\ n.nspath = rec[pool[p]].nspath /\ n.ip = rec[pool[p]].ip /\ ~n.ready
        /\ n.containers = rec[pool[p]].containers
    BY <1>1, <2>1, StopWritten
  <2> QED
    BY <1>1, <2>2, <2>3 DEF KnownInv, TypeOK
<1>3. RecordsType /\ PodsStay
  BY <1>1, <1>2 DEF RecordsType, PodsStay, KnownInv, NoPath
<1>4. call' = [call EXCEPT ![t] = [pc |-> "stopping", pod |-> p, rec |-> pool[p],
                                   c |-> Nobody]]
  BY <1>1, IdleBegins DEF StopBegin, Pc
<1> QED
  BY <1>2, <1>3, <1>4 DEF StopBegin, MayBegin, Beginning

\* Then it clears the record's address.
LEMMA StopClearFrame ==
  ASSUME KnownInv, NEW t \in Caller, StopClear(t)
  PROVE  /\ call[t].pc = "stopping" /\ call[t].rec \in Record
         /\ RecordsType /\ PodsStay /\ UNCHANGED <<pool, file, net, etc, fate>>
         /\ ~rec'[call[t].rec].ip
         /\ \A r \in Record : /\ rec'[r].ip => rec[r].ip
                              /\ rec'[r].ready = rec[r].ready
                              /\ rec'[r].containers = rec[r].containers
         /\ \A r \in Record \ {call[t].rec} : rec'[r] = rec[r]
         /\ call' \in [Caller -> Call]
         /\ call'[t].pc = "stopped" /\ call'[t].pod = call[t].pod
         /\ call'[t].rec = call[t].rec
         /\ \A u \in Caller \ {t} : call'[u] = call[u]
<1>0. call[t].pc = "stopping"
  BY DEF StopClear
<1>1. PICK s \in Record : s = call[t].rec
  BY <1>0, Served
<1>2. /\ call' \in [Caller -> Call]
      /\ call'[t].pc = "stopped" /\ call'[t].pod = call[t].pod
      /\ call'[t].rec = call[t].rec
      /\ \A u \in Caller \ {t} : call'[u] = call[u]
  BY GoFrame DEF StopClear, KnownInv, Pc
<1>3. rec[s] \in SandboxMetadata /\ ~rec[s].nspath
  BY DEF KnownInv, TypeOK, NoPath
<1>4. PICK n : n = [rec[s] EXCEPT !.ip = FALSE]
  OBVIOUS
<1>5. rec' = [rec EXCEPT ![s] = n]
  BY <1>1, <1>4 DEF StopClear
<1>6. /\ n \in SandboxMetadata /\ n.pod = rec[s].pod /\ ~n.nspath
      /\ ~n.ip /\ n.ready = rec[s].ready /\ n.containers = rec[s].containers
  BY <1>3, <1>4, ClearWritten
<1>7. /\ RecordsType /\ PodsStay
      /\ rec'[s] = n
      /\ \A r \in Record \ {s} : rec'[r] = rec[r]
  BY <1>5, <1>6, RecordWritten
<1>8. \A r \in Record : /\ rec'[r].ip => rec[r].ip
                        /\ rec'[r].ready = rec[r].ready
                        /\ rec'[r].containers = rec[r].containers
  BY <1>6, <1>7
<1> QED
  BY <1>0, <1>1, <1>2, <1>6, <1>7, <1>8 DEF StopClear

LEMMA StopClearKnown ==
  ASSUME KnownInv, NEW t \in Caller, StopClear(t)
  PROVE  KnownInv'
<1>1. /\ call[t].pc = "stopping"
      /\ RecordsType /\ PodsStay /\ UNCHANGED <<pool, file, net, etc, fate>>
      /\ call' \in [Caller -> Call]
      /\ call'[t].pc = "stopped" /\ call'[t].pod = call[t].pod
      /\ call'[t].rec = call[t].rec
      /\ \A u \in Caller \ {t} : call'[u] = call[u]
  BY StopClearFrame
<1>2. TypeOK' /\ NoPath'
  BY <1>1 DEF KnownInv, TypeOK, NoPath, RecordsType
<1>3. CallsAreKnown'
  BY <1>1 DEF KnownInv, CallsAreKnown, QueryPc, PodsStay
<1>4. PoolIsKnown'
  BY <1>1 DEF KnownInv, TypeOK, PoolIsKnown, PodsStay
<1>5. RunsAreAlone'
  BY <1>1 DEF KnownInv, RunsAreAlone, Runs, RunPc
<1> QED
  BY <1>2, <1>3, <1>4, <1>5 DEF KnownInv

LEMMA RemoveBeginFrame ==
  ASSUME KnownInv, NEW t \in Caller, NEW p \in Pod, RemoveBegin(t, p)
  PROVE  /\ Beginning(t, p, "drop", Nobody) /\ MayBegin(t, p)
         /\ RecordsType /\ UNCHANGED <<pool, rec, file, net, etc, fate>>
<1>1. call' = [call EXCEPT ![t] = [pc |-> "drop", pod |-> p, rec |-> pool[p],
                                   c |-> Nobody]]
  <2>1. pool[p] \in Record /\ "drop" \in Pc
    BY DEF RemoveBegin, KnownInv, TypeOK, Pc
  <2> QED
    BY <2>1, IdleBegins DEF RemoveBegin
<1> QED
  BY <1>1, SameRecords DEF RemoveBegin, MayBegin, Beginning

LEMMA AppendBeginFrame ==
  ASSUME KnownInv, NEW t \in Caller, NEW p \in Pod, NEW c \in Container,
         AppendBegin(t, p, c)
  PROVE  /\ Beginning(t, p, "append", c) /\ MayBegin(t, p)
         /\ RecordsType /\ UNCHANGED <<pool, rec, file, net, etc, fate>>
  BY SameRecords DEF AppendBegin, MayBegin, Beginning

\* A request that begins, and what it finds.
LEMMA BeginKnown ==
  ASSUME KnownInv, NEW t \in Caller, NEW p \in Pod,
         \/ StopBegin(t, p) \/ RemoveBegin(t, p)
         \/ \E c \in Container : AppendBegin(t, p, c)
  PROVE  KnownInv'
<1>1. PICK q \in {"stopping", "drop", "append"}, c \in Container \cup {Nobody} :
        /\ Beginning(t, p, q, c) /\ (q = "append" => c \in Container)
        /\ RecordsType /\ UNCHANGED <<pool, file, net, etc, fate>>
  BY StopBeginFrame, RemoveBeginFrame, AppendBeginFrame
<1>2. CallsAreKnown' /\ PoolIsKnown' /\ RunsAreAlone' /\ call' \in [Caller -> Call]
  BY <1>1, BeginKeeps
<1>3. TypeOK' /\ NoPath'
  BY <1>1, <1>2 DEF KnownInv, TypeOK, NoPath, RecordsType
<1> QED
  BY <1>2, <1>3 DEF KnownInv

\* A RunPodSandbox takes an unused record for its pod.
RunBegun(t, p, r) ==
  /\ MayBegin(t, p)
  /\ fate[r] = "unused"
  /\ CreateSandboxMetadata(p, r)
  /\ call' = [call EXCEPT ![t] = [Idle EXCEPT !.pc = FirstStep(p),
                                             !.pod = p, !.rec = r]]
  /\ fate' = [q \in Record |-> CASE q = r       -> "running"
                                 [] q = pool[p] -> "replaced"
                                 [] OTHER       -> fate[q]]
  /\ UNCHANGED <<net, etc>>

LEMMA RunBeginFrame ==
  ASSUME KnownInv, NEW t \in Caller, NEW p \in Pod, NEW r \in Record, RunBegun(t, p, r)
  PROVE  /\ call[t] = Idle /\ MayBegin(t, p)
         /\ fate[r] = "unused" /\ rec[r].pod = Nobody /\ Put(p, r)
         /\ \A q \in Pod : pool[q] # r
         /\ \A u \in Caller : call[u].rec # r
         /\ RecordsType /\ StoreType /\ UNCHANGED <<net, etc>>
         /\ rec'[r].pod = p /\ ~rec'[r].ip /\ ~rec'[r].ready
         /\ \A q \in Record \ {r} : rec'[q] = rec[q]
         /\ fate'[r] = "running"
         /\ \A q \in Record \ {r} :
              fate'[q] = IF q = pool[p] THEN "replaced" ELSE fate[q]
         /\ call' \in [Caller -> Call]
         /\ call'[t].pc \in {"namespace", "files", "commit"}
         /\ call'[t].pod = p /\ call'[t].rec = r
         /\ \A u \in Caller \ {t} : call'[u] = call[u]
<1>1. fate[r] = "unused" /\ rec[r].pod = Nobody
  BY DEF RunBegun, KnownInv, PoolIsKnown
<1>2. \A q \in Pod : pool[q] # r
  BY <1>1, NameAssumption DEF KnownInv, PoolIsKnown
<1>3. \A u \in Caller : call[u].rec # r
  BY <1>1, NameAssumption DEF KnownInv, CallsAreKnown, QueryPc, Idle
<1>4. /\ rec' \in [Record -> SandboxMetadata]
      /\ \A q \in Record \ {r} : rec'[q] = rec[q]
      /\ rec'[r] = [pod |-> p, ready |-> FALSE, ip |-> FALSE, nspath |-> FALSE,
                    containers |-> {}]
  BY DEF RunBegun, CreateSandboxMetadata, KnownInv, TypeOK, SandboxMetadata, Blank
<1>5. RecordsType
  BY <1>4 DEF RecordsType, KnownInv, NoPath
<1>6. /\ fate' \in [Record -> Fate] /\ fate'[r] = "running"
      /\ \A q \in Record \ {r} : fate'[q] = IF q = pool[p] THEN "replaced" ELSE fate[q]
  <2>1. r # pool[p]
    BY <1>2
  <2>2. fate'[r] = "running"
    BY <2>1 DEF RunBegun
  <2>3. ASSUME NEW q \in Record \ {r}
        PROVE  fate'[q] = IF q = pool[p] THEN "replaced" ELSE fate[q]
    BY DEF RunBegun
  <2>4. fate' \in [Record -> Fate]
    <3>1. \A q \in Record : fate'[q] \in Fate
      BY <2>2, <2>3 DEF KnownInv, TypeOK, Fate
    <3> QED
      BY <3>1 DEF RunBegun
  <2> QED
    BY <2>2, <2>3, <2>4
<1>7. Put(p, r)
  BY DEF RunBegun, CreateSandboxMetadata
<1>8. StoreType
  BY <1>5, <1>6, <1>7, PutType DEF StoreType
<1>9. /\ call' \in [Caller -> Call]
      /\ call'[t].pc \in {"namespace", "files", "commit"}
      /\ call'[t].pod = p /\ call'[t].rec = r
      /\ \A u \in Caller \ {t} : call'[u] = call[u]
  <2>1. FirstStep(p) \in {"namespace", "files", "commit"} /\ FirstStep(p) \in Pc
    BY DEF FirstStep, Pc
  <2>2. call' = [call EXCEPT ![t] = [pc |-> FirstStep(p), pod |-> p, rec |-> r,
                                     c |-> Nobody]]
    BY <2>1, IdleBegins DEF RunBegun
  <2> QED
    BY <2>1, <2>2 DEF KnownInv, TypeOK, Call
<1> QED
  BY <1>1, <1>2, <1>3, <1>4, <1>5, <1>6, <1>7, <1>8, <1>9 DEF RunBegun, MayBegin

LEMMA RunBeginIs ==
  ASSUME NEW t \in Caller, NEW p \in Pod, RunBegin(t, p)
  PROVE  \E r \in Record : RunBegun(t, p, r)
  BY DEF RunBegun, RunBegin

LEMMA RunBeginKnown ==
  ASSUME KnownInv, NEW t \in Caller, NEW p \in Pod, RunBegin(t, p)
  PROVE  KnownInv'
<1>1. PICK r \in Record : RunBegun(t, p, r)
  BY RunBeginIs
<1>2. /\ call[t] = Idle
      /\ fate[r] = "unused" /\ rec[r].pod = Nobody /\ Put(p, r)
      /\ \A q \in Pod : pool[q] # r
      /\ \A u \in Caller : call[u].rec # r
      /\ RecordsType /\ StoreType /\ UNCHANGED <<net, etc>>
      /\ rec'[r].pod = p
      /\ \A q \in Record \ {r} : rec'[q] = rec[q]
      /\ fate'[r] = "running"
      /\ \A q \in Record \ {r} : fate'[q] = IF q = pool[p] THEN "replaced" ELSE fate[q]
      /\ call' \in [Caller -> Call]
      /\ call'[t].pc \in {"namespace", "files", "commit"}
      /\ call'[t].pod = p /\ call'[t].rec = r
      /\ \A u \in Caller \ {t} : call'[u] = call[u]
  BY <1>1, RunBeginFrame
<1>3. TypeOK' /\ NoPath'
  BY <1>2 DEF KnownInv, TypeOK, NoPath, RecordsType, StoreType
<1>4. CallsAreKnown'
  BY <1>2 DEF KnownInv, CallsAreKnown, QueryPc
<1>5. PoolIsKnown'
  BY <1>2 DEF KnownInv, TypeOK, PoolIsKnown, Put
<1>6. RunsAreAlone'
  <2>1. \A u \in Caller \ {t} : call'[u] = call[u] /\ call[u].rec # r
    BY <1>2
  <2>2. \A u \in Caller \ {t} : Runs(u) => fate'[call[u].rec] \in {"running", "replaced"}
    BY <1>2, Served DEF KnownInv, RunsAreAlone, Runs, RunPc
  <2> QED
    BY <1>2, <2>1, <2>2 DEF KnownInv, RunsAreAlone, Runs
<1> QED
  BY <1>3, <1>4, <1>5, <1>6 DEF KnownInv

\* The steps of a status query.
Query(t) ==
  (\E p \in Pod : StatusBegin(t, p)) \/ StatusRead(t) \/ StatusReady(t)

\* A query comes in, reads the address, or calls the record READY.
LEMMA StatusBeginFrame ==
  ASSUME KnownInv, NEW t \in Caller, NEW p \in Pod, StatusBegin(t, p)
  PROVE  /\ call[t] = Idle /\ pool[p] \in Record
         /\ rec[pool[p]].pod # Nobody
         /\ call' \in [Caller -> Call]
         /\ call'[t].pc = "asked" /\ call'[t].pod = Nobody /\ call'[t].rec = pool[p]
         /\ \A u \in Caller \ {t} : call'[u] = call[u]
         /\ UNCHANGED <<pool, rec, file, net, etc, fate>>
<1>1. pool[p] \in Record /\ rec[pool[p]].pod # Nobody
  BY NameAssumption DEF StatusBegin, KnownInv, TypeOK, PoolIsKnown
<1>2. PICK q : q = [Idle EXCEPT !.pc = "asked", !.rec = pool[p]]
  OBVIOUS
<1>3. q \in Call /\ q.pc = "asked" /\ q.pod = Nobody /\ q.rec = pool[p]
  BY <1>1, <1>2 DEF Idle, Call, Pc
<1>4. call' = [call EXCEPT ![t] = q]
  BY <1>2 DEF StatusBegin
<1> QED
  BY <1>1, <1>3, <1>4 DEF StatusBegin, KnownInv, TypeOK

LEMMA StatusReadFrame ==
  ASSUME KnownInv, NEW t \in Caller, StatusRead(t)
  PROVE  /\ call[t].pc = "asked" /\ call[t].pod = Nobody /\ call[t].rec \in Record
         /\ rec[call[t].rec].pod # Nobody
         /\ call' \in [Caller -> Call]
         /\ \/ call'[t] = Idle
            \/ /\ call'[t].pc = "seen" /\ call'[t].pod = Nobody
               /\ call'[t].rec = call[t].rec
               /\ rec[call[t].rec].ip \/ ~PodNetwork
         /\ \A u \in Caller \ {t} : call'[u] = call[u]
         /\ UNCHANGED <<pool, rec, file, net, etc, fate>>
<1>1. /\ call[t].pc = "asked" /\ call[t].pod = Nobody /\ call[t].rec \in Record
      /\ rec[call[t].rec].pod # Nobody
  BY DEF StatusRead, KnownInv, CallsAreKnown, QueryPc
<1>2. CASE Return(t)
  BY <1>1, <1>2, ReturnFrame DEF StatusRead, KnownInv
<1>3. CASE GoTo(t, "seen") /\ (rec[call[t].rec].ip \/ ~PodNetwork)
  BY <1>1, <1>3, GoFrame DEF StatusRead, KnownInv, Pc
<1> QED
  BY <1>2, <1>3 DEF StatusRead

LEMMA StatusReadyFrame ==
  ASSUME KnownInv, NEW t \in Caller, StatusReady(t)
  PROVE  /\ call[t].pc = "seen" /\ call[t].rec \in Record
         /\ call'[t] = Idle /\ call' \in [Caller -> Call]
         /\ \A u \in Caller \ {t} : call'[u] = call[u]
         /\ RecordsType /\ PodsStay
         /\ \A r \in Record : /\ rec'[r] = [rec[r] EXCEPT !.ready = rec'[r].ready]
                              /\ rec'[r].ip = rec[r].ip
         /\ \A r \in Record \ {call[t].rec} : rec'[r] = rec[r]
         /\ rec'[call[t].rec].ready
         /\ rec'[call[t].rec].containers = rec[call[t].rec].containers
         /\ UNCHANGED <<pool, file, net, etc, fate>>
<1>1. call[t].pc = "seen" /\ call[t].rec \in Record
  BY DEF StatusReady, KnownInv, CallsAreKnown, QueryPc
<1>2. PICK s \in Record : s = call[t].rec
  BY <1>1
<1>3. rec[s] \in SandboxMetadata /\ ~rec[s].nspath
  BY DEF KnownInv, TypeOK, NoPath
<1>4. PICK n : n = [rec[s] EXCEPT !.ready = TRUE]
  OBVIOUS
<1>5. rec' = [rec EXCEPT ![s] = n]
  BY <1>2, <1>4 DEF StatusReady
<1>6. /\ n \in SandboxMetadata /\ n.pod = rec[s].pod /\ n.nspath = rec[s].nspath
      /\ n.ip = rec[s].ip /\ n.ready /\ n = [rec[s] EXCEPT !.ready = n.ready]
      /\ n.containers = rec[s].containers
  BY <1>3, <1>4, ReadyWritten
<1>7. /\ RecordsType /\ PodsStay
      /\ rec'[s] = n
      /\ \A r \in Record \ {s} : rec'[r] = rec[r]
  BY <1>3, <1>5, <1>6, RecordWritten
<1>8. ASSUME NEW r \in Record
      PROVE  rec'[r] = [rec[r] EXCEPT !.ready = rec'[r].ready] /\ rec'[r].ip = rec[r].ip
  <2>1. CASE r = s
    BY <1>6, <1>7, <2>1
  <2>2. CASE r # s
    <3>1. rec[r] \in SandboxMetadata /\ rec'[r] = rec[r]
      BY <1>7, <2>2 DEF KnownInv, TypeOK
    <3>2. rec[r] = [rec[r] EXCEPT !.ready = rec[r].ready]
      BY <3>1 DEF SandboxMetadata
    <3> QED
      BY <3>1, <3>2
  <2> QED
    BY <2>1, <2>2
<1>9. call'[t] = Idle /\ call' \in [Caller -> Call] /\ \A u \in Caller \ {t} : call'[u] = call[u]
  BY ReturnFrame DEF StatusReady, KnownInv
<1> QED
  BY <1>1, <1>2, <1>6, <1>7, <1>8, <1>9 DEF StatusReady

\* What they have in common: the slot is that of no pod, and only READY is
\* written, of a record whose address a query had read.
LEMMA QueryFrame ==
  ASSUME KnownInv, NEW t \in Caller, Query(t)
  PROVE  /\ call[t].pc \in QueryPc /\ call'[t].pc \in QueryPc
         /\ call[t].pod = Nobody /\ call'[t].pod = Nobody
         /\ \/ call'[t] = Idle
            \/ /\ call'[t].pc # "idle" /\ call'[t].rec \in Record
               /\ rec[call'[t].rec].pod # Nobody
         /\ call' \in [Caller -> Call]
         /\ \A u \in Caller \ {t} : call'[u] = call[u]
         /\ RecordsType /\ PodsStay
         /\ \A r \in Record : rec'[r].ip = rec[r].ip
         /\ \A r \in Record : rec'[r].ready => rec[r].ready \/ Seen(r)
         /\ \A r \in Record : Seen(r)' => Seen(r) \/ rec[r].ip \/ ~PodNetwork
         /\ UNCHANGED <<pool, file, net, etc, fate>>
<1>1. CASE \E p \in Pod : StatusBegin(t, p)
  <2>1. \A r \in Record : Seen(r)' => Seen(r)
    BY <1>1, StatusBeginFrame DEF Seen
  <2> QED
    BY <1>1, <2>1, StatusBeginFrame, SameRecords DEF Idle, QueryPc
<1>2. CASE StatusRead(t)
  <2>1. ASSUME NEW r \in Record, Seen(r)'
        PROVE  Seen(r) \/ rec[r].ip \/ ~PodNetwork
    BY <1>2, <2>1, StatusReadFrame DEF Seen, Idle
  <2> QED
    BY <1>2, <2>1, StatusReadFrame, SameRecords DEF Idle, QueryPc
<1>3. CASE StatusReady(t)
  <2>1. /\ call[t].pc = "seen" /\ call[t].rec \in Record
        /\ call'[t] = Idle /\ call' \in [Caller -> Call]
        /\ \A u \in Caller \ {t} : call'[u] = call[u]
        /\ RecordsType /\ PodsStay
        /\ \A r \in Record : rec'[r].ip = rec[r].ip
        /\ \A r \in Record \ {call[t].rec} : rec'[r] = rec[r]
        /\ UNCHANGED <<pool, file, net, etc, fate>>
    BY <1>3, StatusReadyFrame
  <2>2. \A r \in Record : Seen(r)' => Seen(r)
    BY <2>1 DEF Seen, Idle
  <2>3. \A r \in Record : rec'[r].ready => rec[r].ready \/ Seen(r)
    BY <2>1 DEF Seen
  <2>4. call[t].pod = Nobody
    BY <2>1 DEF KnownInv, CallsAreKnown, QueryPc
  <2> QED
    BY <2>1, <2>2, <2>3, <2>4 DEF Idle, QueryPc
<1> QED
  BY <1>1, <1>2, <1>3 DEF Query

LEMMA QueryKnown ==
  ASSUME KnownInv, NEW t \in Caller, Query(t)
  PROVE  KnownInv'
<1>1. /\ call[t].pc \in QueryPc /\ call'[t].pc \in QueryPc
      /\ call'[t].pod = Nobody
      /\ \/ call'[t] = Idle
         \/ /\ call'[t].pc # "idle" /\ call'[t].rec \in Record
            /\ rec[call'[t].rec].pod # Nobody
      /\ call' \in [Caller -> Call]
      /\ \A u \in Caller \ {t} : call'[u] = call[u]
      /\ RecordsType /\ PodsStay
      /\ UNCHANGED <<pool, file, net, etc, fate>>
  BY QueryFrame
<1>2. TypeOK' /\ NoPath'
  BY <1>1 DEF KnownInv, TypeOK, NoPath, RecordsType
<1>3. CallsAreKnown'
  BY <1>1 DEF KnownInv, CallsAreKnown, QueryPc, Idle, PodsStay
<1>4. PoolIsKnown'
  BY <1>1 DEF KnownInv, TypeOK, PoolIsKnown, PodsStay
<1>5. RunsAreAlone'
  BY <1>1 DEF KnownInv, RunsAreAlone, Runs, RunPc, QueryPc
<1> QED
  BY <1>2, <1>3, <1>4, <1>5 DEF KnownInv

\* A restarted server has nothing: no record has a path.
LEMMA RestartFrame ==
  ASSUME KnownInv, Restart
  PROVE  /\ \A p \in Pod : pool'[p] = Nobody /\ file'[p] = Blank
         /\ \A t \in Caller : call'[t] = Idle
         /\ \A r \in Record :
              fate'[r] = CASE fate[r] = "running"           -> "cut"
                           [] fate[r] \in {"up", "stopped"} -> "lost"
                           [] OTHER                         -> fate[r]
         /\ StoreType /\ call' \in [Caller -> Call] /\ UNCHANGED <<rec, net, etc>>
<1>1. \A p \in Pod : ~Loaded(p)
  BY DEF KnownInv, NoPath, Loaded
<1>2. /\ \A p \in Pod : pool'[p] = Nobody /\ file'[p] = Blank
      /\ pool' \in [Pod -> Record \cup {Nobody}] /\ file' \in [Pod -> SandboxMetadata]
  BY <1>1, IdleType DEF Restart
<1>3. \A r \in Record : r \notin {pool'[p] : p \in Pod}
  BY <1>2, NameAssumption
<1>4. ASSUME NEW r \in Record
      PROVE  fate'[r] = CASE fate[r] = "running"           -> "cut"
                          [] fate[r] \in {"up", "stopped"} -> "lost"
                          [] OTHER                         -> fate[r]
  BY <1>3 DEF Restart
<1>5. fate' \in [Record -> Fate]
  <2>1. \A r \in Record : fate'[r] \in Fate
    BY <1>4 DEF KnownInv, TypeOK, Fate
  <2> QED
    BY <2>1 DEF Restart
<1>6. \A p \in Pod : ~file'[p].nspath
  BY <1>2 DEF Blank
<1> QED
  BY <1>2, <1>4, <1>5, <1>6, IdleType DEF Restart, StoreType

LEMMA RestartKnown ==
  ASSUME KnownInv, Restart
  PROVE  KnownInv'
<1>1. /\ \A p \in Pod : pool'[p] = Nobody
      /\ \A t \in Caller : call'[t] = Idle
      /\ \A r \in Record : fate'[r] = "unused" => fate[r] = "unused"
      /\ StoreType /\ call' \in [Caller -> Call] /\ UNCHANGED <<rec, net, etc>>
  BY RestartFrame
<1>2. TypeOK' /\ NoPath'
  BY <1>1 DEF KnownInv, TypeOK, NoPath, StoreType
<1>3. CallsAreKnown' /\ PoolIsKnown' /\ RunsAreAlone'
  BY <1>1 DEF KnownInv, CallsAreKnown, PoolIsKnown, RunsAreAlone, Runs, RunPc, Idle
<1> QED
  BY <1>2, <1>3 DEF KnownInv

\* The kinds of steps.
LEMMA StepIs ==
  ASSUME Next
  PROVE  \/ \E t \in Caller : SetUp(t)
         \/ \E t \in Caller : Answer(t)
         \/ \E t \in Caller, p \in Pod, r \in Record : RunBegun(t, p, r)
         \/ \E t \in Caller, p \in Pod : StopBegin(t, p)
         \/ \E t \in Caller, p \in Pod : RemoveBegin(t, p)
         \/ \E t \in Caller, p \in Pod, c \in Container : AppendBegin(t, p, c)
         \/ \E t \in Caller : StopClear(t)
         \/ \E t \in Caller : Query(t)
         \/ Restart
<1>1. CASE \E t \in Caller : CallStep(t)
  BY <1>1 DEF CallStep, SetUp, Answer, Query, PanicNamespace
<1>2. CASE \E t \in Caller, p \in Pod : CallBegin(t, p)
  BY <1>2, RunBeginIs DEF CallBegin, Query
<1> QED
  BY <1>1, <1>2 DEF Next, Crash

LEMMA NextKnown ==
  ASSUME KnownInv, [Next]_vars
  PROVE  KnownInv'
<1>1. CASE Next
  <2>1. \A t \in Caller, p \in Pod, r \in Record : RunBegun(t, p, r) => RunBegin(t, p)
    BY DEF RunBegun, RunBegin
  <2> QED
    BY <1>1, <2>1, StepIs, SetUpKnown, AnswerKnown, RunBeginKnown, BeginKnown,
       StopClearKnown, QueryKnown, RestartKnown
<1>2. CASE UNCHANGED vars
  BY <1>2 DEF vars, KnownInv, TypeOK, CallsAreKnown, PoolIsKnown, NoPath, RunsAreAlone,
              Runs, QueryPc
<1> QED
  BY <1>1, <1>2

\* Every variable keeps its type, requests and records belong together, and every
\* RunPodSandbox has a record of its own.
THEOREM SandboxTypeCorrect == Spec => []KnownInv /\ []TypeOK
<1>1. KnownInv => TypeOK
  BY DEF KnownInv
<1> QED
  BY <1>1, InitKnown, NextKnown, PTL DEF Spec

-----------------------------------------------------------------------------
(* The network *)

LEMMA SetUpOwn ==
  ASSUME KnownInv, NetworkInv, NEW t \in Caller, SetUp(t)
  PROVE  HasNetwork(t)'
<1>0. Runs(t) /\ fate[call[t].rec] \in {"running", "replaced"}
  BY SetUpFrame DEF KnownInv, RunsAreAlone
<1>r. PICK r \in Record : r = call[t].rec
  BY <1>0, Served DEF Runs, RunPc
<1>g. ASSUME NEW q \in Pc, GoTo(t, q)
      PROVE  call'[t].pc = q /\ call'[t].rec = r
  BY <1>g, <1>r, GoFrame DEF KnownInv
<1>1. CASE RunNamespace(t)
  <2>1. call'[t].pc = "attach"
    BY <1>1, <1>g DEF RunNamespace, Pc
  <2> QED
    BY <2>1 DEF HasNetwork
<1>2. CASE RunAttach(t)
  <2>1. call'[t].pc = "address" /\ call'[t].rec = r
    BY <1>2, <1>g DEF RunAttach, Pc
  <2>2. "attachment" \in net'[r]
    BY <1>2, <1>r DEF RunAttach, KnownInv, TypeOK
  <2> QED
    BY <2>1, <2>2 DEF HasNetwork
<1>3. CASE RunAttachFail(t) \/ RunAddressFail(t) \/ RunFilesFail(t)
  <2>1. call'[t].pc = "undo" /\ call'[t].rec = r /\ rec' = rec
    BY <1>3, <1>g DEF RunAttachFail, RunAddressFail, RunFilesFail, Pc
  <2>2. /\ "namespace" \notin net'[r]
        /\ call[t].pc = "files" => "attachment" \notin net'[r]
    BY <1>3, <1>r, FailLeaves
  <2>3. call[t].pc \in {"attach", "address", "files"}
    BY <1>3 DEF RunAttachFail, RunAddressFail, RunFilesFail
  <2>4. rec[r].ip => call[t].pc = "files"
    BY <1>r, <2>3 DEF NetworkInv, Told, Wired
  <2> QED
    BY <2>1, <2>2, <2>4 DEF HasNetwork
<1>4. CASE RunAddress(t)
  <2>1. call'[t].pc = "files"
    BY <1>4, <1>g DEF RunAddress, Pc
  <2> QED
    BY <2>1 DEF HasNetwork
<1>5. CASE RunFiles(t)
  <2>1. call'[t].pc = "commit"
    BY <1>5, <1>g DEF RunFiles, Pc
  <2> QED
    BY <2>1 DEF HasNetwork
<1> QED
  BY <1>1, <1>2, <1>3, <1>4, <1>5 DEF SetUp

\* A record whose set-up is past the address stays so.
LEMMA SetUpWired ==
  ASSUME KnownInv, NetworkInv, NEW t \in Caller, SetUp(t), NEW r \in Record, Told(r)'
  PROVE  Wired(r)'
<1>1. /\ Runs(t) /\ fate' = fate
      /\ \A q \in Record \ {call[t].rec} : rec'[q] = rec[q] /\ net'[q] = net[q]
  BY SetUpFrame
<1>2. PICK n \in RunPc : GoTo(t, n)
  BY SetUpFrame
<1>3. /\ call'[t].pc = n /\ call'[t].rec = call[t].rec
      /\ \A u \in Caller \ {t} : call'[u] = call[u]
  BY <1>2, GoFrame DEF KnownInv, RunPc, Pc
<1>4. Seen(r)' <=> Seen(r)
  BY <1>1, <1>3 DEF Seen, Runs, RunPc
<1>5. CASE r # call[t].rec
  <2>1. Told(r)
    BY <1>1, <1>4, <1>5 DEF Told
  <2>2. Wired(r)
    BY <2>1 DEF NetworkInv
  <2> QED
    BY <1>1, <1>3, <1>5, <2>2 DEF Wired
<1>6. CASE r = call[t].rec
  <2>1. fate[r] # "up"
    BY <1>1, <1>6 DEF KnownInv, RunsAreAlone
  <2>2. \A u \in Caller : u # t /\ call[u].rec = r => ~Runs(u)
    BY <1>1, <1>6 DEF KnownInv, RunsAreAlone
  <2>3. CASE RunAddress(t)
    <3>1. call'[t].pc = "files" /\ call[t].pc = "address" /\ net' = net
      BY <2>3, GoFrame DEF RunAddress, KnownInv, Pc
    <3>2. "attachment" \in net[r]
      BY <1>6, <3>1 DEF NetworkInv, HasNetwork
    <3> QED
      BY <1>1, <1>3, <2>1, <2>2, <3>1, <3>2 DEF Wired, Runs, RunPc
  <2>4. CASE ~RunAddress(t)
    <3>1. rec' = rec
      BY <2>4 DEF SetUp, RunNamespace, RunAttach, RunAttachFail, RunAddressFail, RunFiles,
                  RunFilesFail
    <3>2. Told(r)
      BY <1>4, <3>1 DEF Told
    <3>3. Wired(r)
      BY <3>2 DEF NetworkInv
    <3>4. call[t].pc \notin {"namespace", "attach", "address"}
      BY <1>6, <3>3 DEF Wired
    <3>5. CASE RunFiles(t)
      <4>1. call'[t].pc = "commit" /\ call[t].pc = "files" /\ net' = net
        BY <3>5, GoFrame DEF RunFiles, KnownInv, Pc
      <4> QED
        BY <1>1, <1>3, <1>6, <3>3, <4>1 DEF Wired
    <3>6. CASE RunFilesFail(t)
      <4>1. call'[t].pc = "undo"
        BY <3>6, GoFrame DEF RunFilesFail, KnownInv, Pc
      <4> QED
        BY <1>1, <1>3, <2>1, <2>2, <4>1 DEF Wired, Runs, RunPc
    <3> QED
      BY <2>4, <3>4, <3>5, <3>6
         DEF SetUp, RunNamespace, RunAttach, RunAttachFail, RunAddressFail
  <2> QED
    BY <2>3, <2>4
<1> QED
  BY <1>5, <1>6

LEMMA SetUpNetwork ==
  ASSUME KnownInv, NetworkInv, NEW t \in Caller, SetUp(t)
  PROVE  NetworkInv'
<1>1. /\ Runs(t) /\ \E q \in RunPc : GoTo(t, q)
      /\ \A r \in Record \ {call[t].rec} : rec'[r] = rec[r] /\ net'[r] = net[r]
      /\ fate' = fate
  BY SetUpFrame
<1>2. fate[call[t].rec] \in {"running", "replaced"}
  BY <1>1 DEF KnownInv, RunsAreAlone
<1>3. FailedRunCleansUp'
  BY <1>1, <1>2 DEF NetworkInv, FailedRunCleansUp
<1>4. \A r \in Record : Told(r)' => Wired(r)'
  BY SetUpWired
<1>5. ASSUME NEW u \in Caller
      PROVE  HasNetwork(u)'
  <2>1. CASE u = t
    BY <2>1, SetUpOwn
  <2>2. CASE u # t
    <3>1. call'[u] = call[u]
      BY <1>1, <2>2, GoFrame DEF KnownInv, RunPc, Pc
    <3>2. CASE Runs(u)
      <4>1. call[u].rec \in Record /\ call[u].rec # call[t].rec
        BY <1>1, <2>2, <3>2, Served DEF KnownInv, RunsAreAlone, Runs, RunPc
      <4> QED
        BY <1>1, <3>1, <4>1 DEF NetworkInv, HasNetwork
    <3>3. CASE ~Runs(u)
      BY <3>1, <3>3 DEF HasNetwork, Runs, RunPc
    <3> QED
      BY <3>2, <3>3
  <2> QED
    BY <2>1, <2>2
<1> QED
  BY <1>3, <1>4, <1>5 DEF NetworkInv

\* Requests that do not touch the network: a record gets no address and is not
\* promised READY, and one that becomes a failed or a running one is that of a
\* RunPodSandbox which ends here.
LEMMA QuietNetwork ==
  ASSUME KnownInv, NetworkInv, UNCHANGED net,
         \A r \in Record : rec'[r].ip => rec[r].ip,
         \A r \in Record : Told(r)' => Told(r),
         \A t \in Caller : Runs(t)' => \/ call'[t].pc = call[t].pc
                                          /\ call'[t].rec = call[t].rec
                                       \/ /\ call'[t].pc \in {"namespace", "files", "commit"}
                                          /\ \A r \in Record : call'[t].rec = r => ~Told(r)',
         \A r \in Record :
           /\ fate'[r] = "failed" => \/ fate[r] = "failed"
                                     \/ \E t \in Caller : call[t].pc = "undo" /\ call[t].rec = r
           /\ fate'[r] = "up" => \/ fate[r] = "up"
                                 \/ \E t \in Caller : call[t].pc = "commit" /\ call[t].rec = r
  PROVE  NetworkInv'
<1>1. FailedRunCleansUp'
  <2> SUFFICES ASSUME NEW r \in Record, fate'[r] = "failed"
               PROVE  /\ "namespace" \notin net[r]
                      /\ rec'[r].ip => "attachment" \notin net[r]
    BY DEF FailedRunCleansUp
  <2> QED
    BY DEF NetworkInv, FailedRunCleansUp, HasNetwork
<1>2. ASSUME NEW r \in Record, Told(r)'
      PROVE  Wired(r)'
  <2>1. Wired(r)
    BY <1>2 DEF NetworkInv
  <2>2. fate'[r] = "up" => "attachment" \in net[r]
    BY <2>1 DEF Wired
  <2>3. ASSUME NEW t \in Caller, call'[t].rec = r
        PROVE  /\ call'[t].pc \notin {"namespace", "attach", "address"}
               /\ call'[t].pc \in {"files", "commit"} => "attachment" \in net[r]
    <3>1. CASE ~Runs(t)'
      BY <3>1 DEF Runs, RunPc
    <3>2. CASE call'[t].pc = call[t].pc /\ call'[t].rec = call[t].rec
      BY <2>1, <2>3, <3>2 DEF Wired
    <3> QED
      BY <1>2, <2>3, <3>1, <3>2
  <2> QED
    BY <2>2, <2>3 DEF Wired
<1>3. ASSUME NEW t \in Caller
      PROVE  HasNetwork(t)'
  <2>1. CASE ~Runs(t)'
    BY <2>1 DEF HasNetwork, Runs, RunPc
  <2>2. CASE call'[t].pc = call[t].pc /\ call'[t].rec = call[t].rec /\ Runs(t)
    <3>1. call[t].rec \in Record
      BY <2>2, Served DEF Runs, RunPc
    <3> QED
      BY <2>2, <3>1 DEF NetworkInv, HasNetwork
  <2>3. CASE call'[t].pc \in {"namespace", "files", "commit"}
    BY <2>3 DEF HasNetwork
  <2> QED
    BY <2>1, <2>2, <2>3 DEF Runs
<1> QED
  BY <1>1, <1>2, <1>3 DEF NetworkInv

\* A step of a request that is no status query promises nothing.
LEMMA SeenStays ==
  ASSUME NEW t \in Caller, call[t].pc # "seen", call'[t].pc # "seen",
         \A u \in Caller \ {t} : call'[u] = call[u]
  PROVE  \A r : Seen(r)' <=> Seen(r)
  BY DEF Seen

\* What each answer has done to the store and to the history.
LEMMA AnswerDoes ==
  ASSUME KnownInv, NEW t \in Caller, Answer(t), NEW r, NEW p,
         r = call[t].rec, p = call[t].pod
  PROVE  /\ \A q \in Record : q # r => fate'[q] = fate[q]
         /\ \/ /\ call[t].pc = "undo" /\ Delete(p)
               /\ fate'[r] = "failed" /\ rec' = rec
            \/ /\ call[t].pc = "commit" /\ Put(p, r)
               /\ fate'[r] = "up" /\ rec' = rec
            \/ /\ call[t].pc = "stopped" /\ Put(p, r)
               /\ fate'[r] = IF fate[r] = "up" THEN "stopped" ELSE fate[r]
               /\ rec' = rec
            \/ /\ call[t].pc = "drop" /\ Delete(p)
               /\ fate'[r] = IF fate[r] \in {"up", "stopped"} THEN "removed" ELSE fate[r]
               /\ rec' = rec
            \/ /\ call[t].pc = "append"
               /\ fate'[r] = fate[r]
               /\ Put(p, r) \/ UNCHANGED <<pool, file, rec>>
<1>0. call[t].pc \notin {"idle", "asked", "seen"}
  BY AnswerFrame
<1>a. r \in Record
  BY <1>0, Served
<1>1. CASE RunUndo(t)
  BY <1>1, <1>a, MarkedType DEF RunUndo, KnownInv, Fate
<1>2. CASE RunCommit(t)
  BY <1>2, <1>a, MarkedType DEF RunCommit, KnownInv, Fate
<1>3. CASE StopCommit(t)
  BY <1>3, <1>a, MarkedType DEF StopCommit, KnownInv, Fate
<1>4. CASE RemoveCommit(t)
  BY <1>4, <1>a, MarkedType DEF RemoveCommit, KnownInv, Fate
<1>5. CASE AppendFail(t)
  BY <1>5 DEF AppendFail
<1>6. CASE AppendCommit(t)
  BY <1>6 DEF AppendCommit
<1> QED
  BY <1>1, <1>2, <1>3, <1>4, <1>5, <1>6 DEF Answer

LEMMA AnswerNetwork ==
  ASSUME KnownInv, NetworkInv, NEW t \in Caller, Answer(t)
  PROVE  NetworkInv'
<1>1. /\ Return(t) /\ UNCHANGED net /\ call[t].pc # "seen"
      /\ \A r \in Record : rec'[r].ip = rec[r].ip /\ rec'[r].ready = rec[r].ready
  BY AnswerFrame DEF Answering
<1>2. call'[t] = Idle /\ \A u \in Caller \ {t} : call'[u] = call[u]
  BY <1>1, ReturnFrame DEF KnownInv
<1>3. \A u \in Caller : Runs(u)' => call'[u].pc = call[u].pc /\ call'[u].rec = call[u].rec
  BY <1>2 DEF Runs, RunPc, Idle
<1>4. \A r \in Record :
        /\ fate'[r] = "failed" => \/ fate[r] = "failed"
                                  \/ call[t].pc = "undo" /\ call[t].rec = r
        /\ fate'[r] = "up" => \/ fate[r] = "up"
                              \/ call[t].pc = "commit" /\ call[t].rec = r
  BY AnswerDoes
<1>5. \A r \in Record : Told(r)' => Told(r)
  BY <1>1, <1>2, SeenStays DEF Told, Idle
<1> QED
  BY <1>1, <1>3, <1>4, <1>5, QuietNetwork

LEMMA BeginNetwork ==
  ASSUME KnownInv, NetworkInv, NEW t \in Caller, NEW p \in Pod,
         \/ StopBegin(t, p) \/ RemoveBegin(t, p)
         \/ \E c \in Container : AppendBegin(t, p, c)
  PROVE  NetworkInv'
<1>1. PICK q \in {"stopping", "drop", "append"}, c \in Container \cup {Nobody} :
        /\ Beginning(t, p, q, c)
        /\ UNCHANGED <<net, fate>>
        /\ \A r \in Record : /\ rec'[r].ip = rec[r].ip
                             /\ rec'[r].ready => rec[r].ready
  BY StopBeginFrame, RemoveBeginFrame, AppendBeginFrame
<1>2. /\ call[t] = Idle /\ call'[t].pc = q
      /\ \A u \in Caller \ {t} : call'[u] = call[u]
  <2>1. TypeOK /\ q \in Pc
    BY DEF KnownInv, Pc
  <2>2. call[t] = Idle
    BY <1>1 DEF Beginning
  <2> QED
    BY <1>1, <2>1, <2>2, BeginFrame
<1>3. \A u \in Caller : Runs(u)' => call'[u].pc = call[u].pc /\ call'[u].rec = call[u].rec
  BY <1>2 DEF Runs, RunPc
<1>4. \A r \in Record : Told(r)' => Told(r)
  BY <1>1, <1>2, SeenStays DEF Told, Idle
<1> QED
  BY <1>1, <1>3, <1>4, QuietNetwork

LEMMA StopClearNetwork ==
  ASSUME KnownInv, NetworkInv, NEW t \in Caller, StopClear(t)
  PROVE  NetworkInv'
<1>1. /\ call[t].pc = "stopping" /\ call'[t].pc = "stopped"
      /\ UNCHANGED <<net, fate>>
      /\ \A r \in Record : rec'[r].ip => rec[r].ip
      /\ \A r \in Record : rec'[r].ready = rec[r].ready
      /\ \A u \in Caller \ {t} : call'[u] = call[u]
  BY StopClearFrame
<1>2. \A u \in Caller : Runs(u)' => call'[u].pc = call[u].pc /\ call'[u].rec = call[u].rec
  BY <1>1 DEF Runs, RunPc
<1>3. \A r \in Record : Told(r)' => Told(r)
  BY <1>1, SeenStays DEF Told
<1> QED
  BY <1>1, <1>2, <1>3, QuietNetwork

LEMMA RunBeginNetwork ==
  ASSUME KnownInv, NetworkInv, NEW t \in Caller, NEW p \in Pod, NEW r \in Record,
         RunBegun(t, p, r)
  PROVE  NetworkInv'
<1>1. /\ UNCHANGED net /\ call[t] = Idle
      /\ ~rec'[r].ip /\ ~rec'[r].ready
      /\ \A q \in Record \ {r} : rec'[q] = rec[q]
      /\ \A u \in Caller : call[u].rec # r
      /\ fate'[r] = "running"
      /\ \A q \in Record \ {r} : fate'[q] = IF q = pool[p] THEN "replaced" ELSE fate[q]
      /\ call'[t].pc \in {"namespace", "files", "commit"} /\ call'[t].rec = r
      /\ \A u \in Caller \ {t} : call'[u] = call[u]
  BY RunBeginFrame
<1>2. \A q \in Record : rec'[q].ip => rec[q].ip
  BY <1>1
<1>3. \A q : Seen(q)' <=> Seen(q)
  BY <1>1, SeenStays DEF Idle
<1>4. ~Told(r)'
  BY <1>1, <1>3 DEF Told, Seen
<1>5. \A q \in Record : Told(q)' => Told(q)
  BY <1>1, <1>3, <1>4 DEF Told
<1>6. \A u \in Caller : Runs(u)' => \/ call'[u].pc = call[u].pc
                                       /\ call'[u].rec = call[u].rec
                                    \/ /\ call'[u].pc \in {"namespace", "files", "commit"}
                                       /\ \A q \in Record : call'[u].rec = q => ~Told(q)'
  BY <1>1, <1>4
<1>7. \A q \in Record : /\ fate'[q] = "failed" => fate[q] = "failed"
                        /\ fate'[q] = "up" => fate[q] = "up"
  BY <1>1
<1> QED
  BY <1>1, <1>2, <1>5, <1>6, <1>7, QuietNetwork

LEMMA QueryNetwork ==
  ASSUME KnownInv, NetworkInv, NEW t \in Caller, Query(t)
  PROVE  NetworkInv'
<1>1. /\ call'[t].pc \in QueryPc
      /\ \A u \in Caller \ {t} : call'[u] = call[u]
      /\ \A r \in Record : rec'[r].ip = rec[r].ip
      /\ \A r \in Record : rec'[r].ready => rec[r].ready \/ Seen(r)
      /\ \A r \in Record : Seen(r)' => Seen(r) \/ rec[r].ip \/ ~PodNetwork
      /\ UNCHANGED <<net, fate>>
  BY QueryFrame
<1>2. \A u \in Caller : Runs(u)' => call'[u].pc = call[u].pc /\ call'[u].rec = call[u].rec
  BY <1>1 DEF Runs, RunPc, QueryPc
<1>3. \A r \in Record : Told(r)' => Told(r)
  BY <1>1 DEF Told
<1> QED
  BY <1>1, <1>2, <1>3, QuietNetwork

LEMMA RestartNetwork ==
  ASSUME KnownInv, NetworkInv, Restart
  PROVE  NetworkInv'
<1>1. /\ \A t \in Caller : call'[t] = Idle
      /\ \A r \in Record : /\ fate'[r] = "failed" => fate[r] = "failed"
                           /\ fate'[r] = "up" => fate[r] = "up"
      /\ UNCHANGED <<rec, net>>
  BY RestartFrame
<1>2. \A t \in Caller : ~Runs(t)'
  BY <1>1 DEF Runs, RunPc, Idle
<1>3. \A r \in Record : Told(r)' => Told(r)
  BY <1>1 DEF Told, Seen, Idle
<1> QED
  BY <1>1, <1>2, <1>3, QuietNetwork

LEMMA NextNetwork ==
  ASSUME KnownInv, NetworkInv, [Next]_vars
  PROVE  NetworkInv'
<1>1. CASE Next
  BY <1>1, StepIs, SetUpNetwork, AnswerNetwork, RunBeginNetwork, BeginNetwork,
     StopClearNetwork, QueryNetwork, RestartNetwork
<1>2. CASE UNCHANGED vars
  BY <1>2 DEF vars, NetworkInv, FailedRunCleansUp, HasNetwork, Told, Wired, Seen
<1> QED
  BY <1>1, <1>2

LEMMA InitNetwork == Init => NetworkInv
  BY DEF Init, NetworkInv, FailedRunCleansUp, HasNetwork, Idle, Told, Wired, Seen, Blank

\* A RunPodSandbox that failed has tried to take down the namespace it made, and
\* the attachment once it had an address, whatever failed, the clean-up included,
\* and whatever other calls were made for the pod meanwhile.
THEOREM FailedRunCleansUpCorrect == Spec => []FailedRunCleansUp
<1>1. Init => KnownInv /\ NetworkInv
  BY InitKnown, InitNetwork
<1>2. KnownInv /\ NetworkInv /\ [Next]_vars => (KnownInv /\ NetworkInv)'
  BY NextKnown, NextNetwork
<1>3. KnownInv /\ NetworkInv => FailedRunCleansUp
  BY DEF NetworkInv
<1> QED
  BY <1>1, <1>2, <1>3, PTL DEF Spec

\* With a network plugin, the kubelet is told READY only of a running sandbox that
\* is attached to the pod network, for pods whose calls overlap and for queries
\* that are overtaken by other calls as well.
THEOREM ReadyIsAttachedCorrect ==
  ASSUME PodNetwork
  PROVE  Spec => []ReadyIsAttached
<1>1. Init => KnownInv /\ NetworkInv
  BY InitKnown, InitNetwork
<1>2. KnownInv /\ NetworkInv /\ [Next]_vars => (KnownInv /\ NetworkInv)'
  BY NextKnown, NextNetwork
<1>3. NetworkInv => ReadyIsAttached
  BY DEF NetworkInv, Told, Wired, ReadyIsAttached
<1> QED
  BY <1>1, <1>2, <1>3, PTL DEF Spec

-----------------------------------------------------------------------------
(* The cache file *)

\* FileFollowsPool, for one pod.
FileFits(p) ==
  /\ pool[p] = Nobody <=> file[p] = Blank
  /\ (pool[p] # Nobody /\ ~Writing(pool[p])) =>
       /\ file[p] = [rec[pool[p]] EXCEPT !.ready = file[p].ready]
       /\ file[p].ready => rec[pool[p]].ready

FileInv == Persistence => \A p \in Pod : FileFits(p)

LEMMA SameReady ==
  ASSUME NEW m \in SandboxMetadata
  PROVE  m = [m EXCEPT !.ready = m.ready]
  BY DEF SandboxMetadata

\* Records do not change unless the request that changes them has still to put
\* them back.
LEMMA QuietFile ==
  ASSUME KnownInv, Persistence, NEW p \in Pod, FileFits(p),
         pool'[p] = pool[p], file'[p] = file[p],
         \A r \in Record :
           r = pool[p] => /\ rec'[r] = rec[r] \/ Writing(r)'
                          /\ Writing(r) => Writing(r)'
  PROVE  FileFits(p)'
<1>1. CASE pool[p] = Nobody
  BY <1>1 DEF FileFits
<1>2. CASE pool[p] # Nobody
  <2>1. PICK r \in Record : r = pool[p]
    BY <1>2 DEF KnownInv, TypeOK
  <2>2. CASE Writing(r)'
    BY <2>1, <2>2, <1>2 DEF FileFits
  <2>3. CASE ~Writing(r)'
    <3>1. rec'[r] = rec[r] /\ ~Writing(r)
      BY <2>1, <2>3
    <3> QED
      BY <3>1, <2>1, <1>2 DEF FileFits
  <2> QED
    BY <2>2, <2>3
<1> QED
  BY <1>1, <1>2

LEMMA PutFile ==
  ASSUME KnownInv, Persistence, NEW p \in Pod, NEW r \in Record, Put(p, r), RecordsType,
         rec'[r].pod = p
  PROVE  /\ FileFits(p)'
         /\ \A q \in Pod \ {p} : pool'[q] = pool[q] /\ file'[q] = file[q]
<1>1. pool'[p] = r /\ file'[p] = rec'[r]
  BY DEF Put, KnownInv, TypeOK
<1>2. rec'[r] # Blank /\ r # Nobody
  BY NameAssumption DEF Blank
<1>3. rec'[r] = [rec'[r] EXCEPT !.ready = rec'[r].ready]
  BY SameReady DEF RecordsType
<1>4. FileFits(p)'
  BY <1>1, <1>2, <1>3 DEF FileFits
<1> QED
  BY <1>4 DEF Put, KnownInv, TypeOK

LEMMA DeleteFile ==
  ASSUME KnownInv, Persistence, NEW p \in Pod, Delete(p)
  PROVE  /\ FileFits(p)'
         /\ \A q \in Pod \ {p} : pool'[q] = pool[q] /\ file'[q] = file[q]
  BY DEF Delete, KnownInv, TypeOK, FileFits

LEMMA SetUpFile ==
  ASSUME KnownInv, FileInv, NEW t \in Caller, SetUp(t)
  PROVE  FileInv'
<1> SUFFICES ASSUME Persistence, NEW p \in Pod PROVE FileFits(p)'
  BY DEF FileInv
<1>1. /\ Runs(t)
      /\ \A r \in Record \ {call[t].rec} : rec'[r] = rec[r]
      /\ UNCHANGED <<pool, file>>
  BY SetUpFrame
<1>2. PICK q \in RunPc : GoTo(t, q)
  BY SetUpFrame
<1>3. /\ call'[t].pc = q /\ call'[t].rec = call[t].rec
      /\ \A u \in Caller \ {t} : call'[u] = call[u]
  BY <1>2, GoFrame DEF KnownInv, RunPc, Pc
<1>4. call[t].pc \in {"files", "commit", "undo", "stopping", "stopped"} =>
        q \in {"files", "commit", "undo", "stopping", "stopped"}
  <2>1. \/ call[t].pc = "files" /\ call'[t].pc \in {"commit", "undo"}
        \/ call[t].pc \notin {"files", "commit", "undo", "stopping", "stopped"}
    BY <1>2, GoFrame
       DEF SetUp, RunNamespace, RunAttach, RunAttachFail, RunAddress, RunAddressFail,
           RunFiles, RunFilesFail, KnownInv, Pc
  <2> QED
    BY <2>1, <1>3
<1>5. \A r \in Record : Writing(r) => Writing(r)'
  BY <1>3, <1>4 DEF Writing
<1>6. rec' = rec \/ q = "files"
  <2>1. CASE RunAddress(t)
    <3>1. call'[t].pc = "files"
      BY <2>1, GoFrame DEF RunAddress, KnownInv, Pc
    <3> QED
      BY <3>1, <1>3
  <2>2. CASE ~RunAddress(t)
    BY <2>2 DEF SetUp, RunNamespace, RunAttach, RunAttachFail, RunAddressFail,
                RunFiles, RunFilesFail
  <2> QED
    BY <2>1, <2>2
<1>7. \A r \in Record : rec'[r] = rec[r] \/ Writing(r)'
  BY <1>1, <1>3, <1>6 DEF Writing
<1> QED
  BY <1>1, <1>5, <1>7, QuietFile DEF FileInv

LEMMA AnswerFile ==
  ASSUME KnownInv, FileInv, NEW t \in Caller, Answer(t)
  PROVE  FileInv'
<1> SUFFICES ASSUME Persistence PROVE \A q \in Pod : FileFits(q)'
  BY DEF FileInv
<1>1. /\ Return(t) /\ PodsStay /\ RecordsType /\ call[t].pc \notin {"idle", "asked", "seen"}
      /\ \A q \in Record \ {call[t].rec} : rec'[q] = rec[q]
  BY AnswerFrame DEF Answering
<1>2. PICK r \in Record, p \in Pod :
        r = call[t].rec /\ p = call[t].pod /\ rec[r].pod = p /\ rec'[r].pod = p
  BY <1>1, Served DEF PodsStay
<1>3. \A u \in Caller \ {t} : call'[u] = call[u]
  BY <1>1, ReturnFrame DEF KnownInv
<1>4. CASE Put(p, r) \/ Delete(p)
  <2>1. /\ FileFits(p)'
        /\ \A q \in Pod \ {p} : pool'[q] = pool[q] /\ file'[q] = file[q]
    BY <1>1, <1>2, <1>4, PutFile, DeleteFile
  <2>2. ASSUME NEW q \in Pod \ {p} PROVE FileFits(q)'
    <3>1. pool[q] # r
      BY <1>2, NameAssumption DEF KnownInv, PoolIsKnown
    <3>2. \A s \in Record : s = pool[q] => rec'[s] = rec[s] /\ (Writing(s) => Writing(s)')
      BY <1>1, <1>2, <1>3, <3>1 DEF Writing
    <3> QED
      BY <2>1, <3>2, QuietFile DEF FileInv
  <2> QED
    BY <2>1, <2>2
<1>5. CASE UNCHANGED <<pool, file, rec>> /\ call[t].pc = "append"
  <2>1. \A s \in Record : Writing(s) => Writing(s)'
    BY <1>3, <1>5 DEF Writing
  <2> QED
    BY <1>5, <2>1, QuietFile DEF FileInv
<1> QED
  BY <1>2, <1>4, <1>5, AnswerDoes

LEMMA BeginFile ==
  ASSUME KnownInv, FileInv, NEW t \in Caller, NEW p \in Pod,
         \/ StopBegin(t, p) \/ RemoveBegin(t, p)
         \/ \E c \in Container : AppendBegin(t, p, c)
  PROVE  FileInv'
<1> SUFFICES ASSUME Persistence, NEW q \in Pod PROVE FileFits(q)'
  BY DEF FileInv
<1>1. PICK s \in {"stopping", "drop", "append"}, c \in Container \cup {Nobody} :
        /\ Beginning(t, p, s, c)
        /\ UNCHANGED <<pool, file>>
        /\ \A r \in Record : rec'[r] = rec[r] \/ (r = pool[p] /\ s = "stopping")
  BY StopBeginFrame, RemoveBeginFrame, AppendBeginFrame
<1>2. /\ call'[t].pc = s /\ call'[t].rec = pool[p] /\ call[t] = Idle
      /\ \A u \in Caller \ {t} : call'[u] = call[u]
  <2>1. TypeOK /\ s \in Pc
    BY DEF KnownInv, Pc
  <2>2. call[t] = Idle
    BY <1>1 DEF Beginning
  <2> QED
    BY <1>1, <2>1, <2>2, BeginFrame
<1>3. \A r \in Record : Writing(r) => Writing(r)'
  BY <1>2 DEF Writing, Idle
<1>4. \A r \in Record : rec'[r] = rec[r] \/ Writing(r)'
  BY <1>1, <1>2 DEF Writing
<1> QED
  BY <1>1, <1>3, <1>4, QuietFile DEF FileInv

LEMMA StopClearFile ==
  ASSUME KnownInv, FileInv, NEW t \in Caller, StopClear(t)
  PROVE  FileInv'
<1> SUFFICES ASSUME Persistence, NEW q \in Pod PROVE FileFits(q)'
  BY DEF FileInv
<1>1. /\ UNCHANGED <<pool, file>>
      /\ \A r \in Record \ {call[t].rec} : rec'[r] = rec[r]
      /\ call'[t].pc = "stopped" /\ call'[t].rec = call[t].rec
      /\ \A u \in Caller \ {t} : call'[u] = call[u]
  BY StopClearFrame
<1>2. \A r \in Record : Writing(r) => Writing(r)'
  BY <1>1 DEF Writing
<1>3. \A r \in Record : rec'[r] = rec[r] \/ Writing(r)'
  BY <1>1 DEF Writing
<1> QED
  BY <1>1, <1>2, <1>3, QuietFile DEF FileInv

LEMMA RunBeginFile ==
  ASSUME KnownInv, FileInv, NEW t \in Caller, NEW p \in Pod, NEW r \in Record,
         RunBegun(t, p, r)
  PROVE  FileInv'
<1> SUFFICES ASSUME Persistence, NEW q \in Pod PROVE FileFits(q)'
  BY DEF FileInv
<1>1. /\ call[t] = Idle /\ Put(p, r) /\ RecordsType /\ rec'[r].pod = p
      /\ pool[q] # r
      /\ \A s \in Record \ {r} : rec'[s] = rec[s]
      /\ \A u \in Caller \ {t} : call'[u] = call[u]
  BY RunBeginFrame
<1>2. CASE q = p
  BY <1>1, <1>2, PutFile
<1>3. CASE q # p
  <2>1. pool'[q] = pool[q] /\ file'[q] = file[q]
    BY <1>1, <1>3, PutFile
  <2>2. \A s \in Record : s = pool[q] => rec'[s] = rec[s] /\ (Writing(s) => Writing(s)')
    BY <1>1 DEF Writing, Idle
  <2> QED
    BY <2>1, <2>2, QuietFile DEF FileInv
<1> QED
  BY <1>2, <1>3

\* READY, which a query writes, is the one field the file may be behind in.
LEMMA StatusReadyFile ==
  ASSUME KnownInv, FileInv, NEW t \in Caller, StatusReady(t)
  PROVE  FileInv'
<1> SUFFICES ASSUME Persistence, NEW q \in Pod PROVE FileFits(q)'
  BY DEF FileInv
<1>1. /\ call[t].rec \in Record /\ call[t].pc = "seen" /\ call'[t] = Idle
      /\ \A u \in Caller \ {t} : call'[u] = call[u]
      /\ \A r \in Record : rec'[r] = [rec[r] EXCEPT !.ready = rec'[r].ready]
      /\ \A r \in Record \ {call[t].rec} : rec'[r] = rec[r]
      /\ rec'[call[t].rec].ready
      /\ UNCHANGED <<pool, file>>
  BY StatusReadyFrame
<1>2. \A s : Writing(s) <=> Writing(s)'
  BY <1>1 DEF Writing, Idle
<1>3. CASE pool[q] # call[t].rec
  <2>1. \A s \in Record : s = pool[q] => rec'[s] = rec[s] /\ (Writing(s) => Writing(s)')
    BY <1>1, <1>2, <1>3
  <2> QED
    BY <1>1, <2>1, QuietFile DEF FileInv
<1>4. CASE pool[q] = call[t].rec
  <2>1. PICK r \in Record :
          /\ r = call[t].rec /\ r # Nobody /\ pool'[q] = r /\ pool[q] = r
          /\ rec'[r].ready /\ file'[q] = file[q]
    BY <1>1, <1>4, NameAssumption
  <2>2. rec'[r] = [rec[r] EXCEPT !.ready = rec'[r].ready]
    BY <1>1, <2>1
  <2>3. [rec[r] EXCEPT !.ready = file[q].ready] = [rec'[r] EXCEPT !.ready = file[q].ready]
    BY <2>1, <2>2 DEF KnownInv, TypeOK, SandboxMetadata
  <2>4. Writing(r) <=> Writing(r)'
    BY <1>2
  <2> QED
    BY <2>1, <2>3, <2>4 DEF FileInv, FileFits
<1> QED
  BY <1>3, <1>4

LEMMA QueryFile ==
  ASSUME KnownInv, FileInv, NEW t \in Caller, Query(t)
  PROVE  FileInv'
<1> SUFFICES ASSUME Persistence, NEW q \in Pod PROVE FileFits(q)'
  BY DEF FileInv
<1>1. CASE StatusReady(t)
  BY <1>1, StatusReadyFile DEF FileInv
<1>2. CASE ~StatusReady(t)
  <2>1. UNCHANGED <<pool, rec, file>>
    BY <1>2 DEF Query, StatusBegin, StatusRead
  <2>2. /\ call[t].pc \in QueryPc
        /\ \A u \in Caller \ {t} : call'[u] = call[u]
    BY QueryFrame
  <2>3. \A r \in Record : Writing(r) => Writing(r)'
    BY <2>2 DEF Writing, QueryPc
  <2> QED
    BY <2>1, <2>3, QuietFile DEF FileInv
<1> QED
  BY <1>1, <1>2

LEMMA NextFile ==
  ASSUME KnownInv, FileInv, [Next]_vars
  PROVE  FileInv'
<1>1. CASE Restart
  BY <1>1, RestartFrame DEF FileInv, FileFits
<1>2. CASE UNCHANGED vars
  BY <1>2 DEF vars, FileInv, FileFits, Writing
<1> QED
  BY <1>1, <1>2, StepIs, SetUpFile, AnswerFile, BeginFile, RunBeginFile,
     StopClearFile, QueryFile

\* The cache file holds the sandboxes of the pool and no others, and is behind it
\* only in what a status query sets in memory or a request under way has still to
\* put.
THEOREM FileFollowsPoolCorrect == Spec => []FileFollowsPool
<1>1. Init => KnownInv /\ FileInv
  BY InitKnown DEF Init, FileInv, FileFits
<1>2. KnownInv /\ FileInv /\ [Next]_vars => (KnownInv /\ FileInv)'
  BY NextKnown, NextFile
<1>3. FileInv => FileFollowsPool
  BY DEF FileInv, FileFits, FileFollowsPool
<1> QED
  BY <1>1, <1>2, <1>3, PTL DEF Spec

-----------------------------------------------------------------------------
(* Pods whose calls do not overlap *)

\* Nothing happens to the pod, but that a record may lose its address.
LEMMA QuietPod ==
  ASSUME KnownInv, NEW p \in Pod, Alone(p), pool'[p] = pool[p],
         \A t \in Caller : call[t].pod = p \/ call'[t].pod = p => call'[t] = call[t],
         \A r \in Record : rec[r].pod = p \/ rec'[r].pod = p =>
           /\ rec'[r].pod = rec[r].pod /\ fate'[r] = fate[r]
           /\ rec'[r].ip => rec[r].ip
  PROVE  Alone(p)'
<1>1. \A t, u \in Caller : call'[t].pod = p /\ call'[u].pod = p => t = u
  BY DEF Alone
<1>2. ASSUME NEW t \in Caller, call'[t].pod = p
      PROVE  /\ pool'[p] = call'[t].rec
             /\ call'[t].pc = "stopped" => ~rec'[call'[t].rec].ip
  <2>1. call'[t] = call[t] /\ call[t].pod = p
    BY <1>2
  <2>2. call[t].rec \in Record /\ rec[call[t].rec].pod = p
    BY <2>1, NameAssumption DEF KnownInv, CallsAreKnown, Idle
  <2> QED
    BY <2>1, <2>2 DEF Alone
<1>3. ASSUME NEW r \in Record, rec'[r].pod = p
      PROVE  /\ pool'[p] = r <=> fate'[r] \in Accepted
             /\ fate'[r] = "running" =>
                  \E t \in Caller : call'[t].pc \in RunPc /\ call'[t].rec = r
             /\ fate'[r] = "stopped" => ~rec'[r].ip
  <2>1. rec[r].pod = p /\ fate'[r] = fate[r] /\ (rec'[r].ip => rec[r].ip)
    BY <1>3
  <2>2. ASSUME fate[r] = "running"
        PROVE  \E t \in Caller : call'[t].pc \in RunPc /\ call'[t].rec = r
    <3>1. PICK t \in Caller : Runs(t) /\ call[t].rec = r
      BY <2>1, <2>2 DEF Alone
    <3>2. call[t].pod = p
      BY <3>1, <2>1, Served DEF Runs, RunPc
    <3> QED
      BY <3>1, <3>2 DEF Runs
  <2> QED
    BY <2>1, <2>2 DEF Alone
<1> QED
  BY <1>1, <1>2, <1>3 DEF Alone, Runs

LEMMA SetUpAlone ==
  ASSUME KnownInv, NEW p \in Pod, Alone(p), NEW t \in Caller, SetUp(t)
  PROVE  Alone(p)'
<1>1. /\ Runs(t) /\ PodsStay /\ UNCHANGED <<pool, file, fate>>
      /\ \A r \in Record \ {call[t].rec} : rec'[r] = rec[r]
  BY SetUpFrame
<1>2. PICK q \in RunPc : GoTo(t, q)
  BY SetUpFrame
<1>3. /\ call'[t].pc = q /\ call'[t].pod = call[t].pod /\ call'[t].rec = call[t].rec
      /\ \A u \in Caller \ {t} : call'[u] = call[u]
  BY <1>2, GoFrame DEF KnownInv, RunPc, Pc
<1>4. /\ call[t].rec \in Record /\ rec[call[t].rec].pod = call[t].pod
      /\ fate[call[t].rec] \in {"running", "replaced"}
  BY <1>1, Served DEF KnownInv, RunsAreAlone, Runs, RunPc
<1>5. CASE call[t].pod # p
  <2>1. \A r \in Record : rec[r].pod = p => r # call[t].rec
    BY <1>4, <1>5
  <2> QED
    BY <1>1, <1>3, <1>5, <2>1, QuietPod DEF PodsStay
<1>6. CASE call[t].pod = p
  <2>1. \A u, v \in Caller : call'[u].pod = p /\ call'[v].pod = p => u = v
    BY <1>3 DEF Alone
  <2>2. \A u \in Caller : call'[u].pod = p => /\ u = t
                                              /\ pool'[p] = call'[u].rec
                                              /\ call'[u].pc # "stopped"
    BY <1>1, <1>3, <1>6 DEF Alone, RunPc
  <2>3. ASSUME NEW r \in Record, rec'[r].pod = p
        PROVE  /\ pool'[p] = r <=> fate'[r] \in Accepted
               /\ fate'[r] = "running" =>
                    \E u \in Caller : call'[u].pc \in RunPc /\ call'[u].rec = r
               /\ fate'[r] = "stopped" => ~rec'[r].ip
    <3>1. rec[r].pod = p
      BY <1>1, <2>3 DEF PodsStay
    <3>2. ASSUME fate[r] = "running"
          PROVE  \E u \in Caller : call'[u].pc \in RunPc /\ call'[u].rec = r
      <4>1. PICK u \in Caller : call[u].pc \in RunPc /\ call[u].rec = r
        BY <3>1, <3>2 DEF Alone, Runs
      <4> QED
        BY <1>3, <4>1
    <3>3. fate[r] = "stopped" => r # call[t].rec
      BY <1>4
    <3> QED
      BY <1>1, <3>1, <3>2, <3>3 DEF Alone
  <2> QED
    BY <2>1, <2>2, <2>3 DEF Alone, Runs
<1> QED
  BY <1>5, <1>6

LEMMA AnswerAlone ==
  ASSUME KnownInv, NEW p \in Pod, Alone(p), NEW t \in Caller, Answer(t)
  PROVE  Alone(p)'
<1>1. /\ call[t].pc \notin {"idle", "asked", "seen"} /\ Return(t) /\ PodsStay
      /\ \A q \in Record : rec'[q].ip = rec[q].ip
  BY AnswerFrame DEF Answering
<1>2. PICK r \in Record, q \in Pod :
        r = call[t].rec /\ q = call[t].pod /\ rec[r].pod = q
  BY <1>1, Served
<1>3. /\ call'[t].pod = Nobody
      /\ \A u \in Caller \ {t} : call'[u] = call[u]
  BY <1>1, ReturnFrame DEF KnownInv, Idle
<1>4. CASE q # p
  <2>1. pool'[p] = pool[p]
    BY <1>2, <1>4, AnswerDoes DEF Put, Delete, KnownInv, TypeOK
  <2>2. \A s \in Record : rec[s].pod = p => s # r /\ fate'[s] = fate[s]
    BY <1>2, <1>4, AnswerDoes
  <2>3. \A u \in Caller : call[u].pod = p \/ call'[u].pod = p => call'[u] = call[u]
    BY <1>2, <1>3, <1>4, NameAssumption
  <2> QED
    BY <1>1, <2>1, <2>2, <2>3, QuietPod DEF PodsStay
<1>5. CASE q = p
  <2>1. \A u \in Caller : call'[u].pod # p
    <3>1. \A u \in Caller : call[u].pod = p => u = t
      <4>1. call[t].pod = p
        BY <1>2, <1>5
      <4>2. \A u, v \in Caller : call[u].pod = p /\ call[v].pod = p => u = v
        BY DEF Alone
      <4> QED
        BY <4>1, <4>2
    <3>2. Nobody # p
      BY NameAssumption
    <3> SUFFICES ASSUME NEW u \in Caller PROVE call'[u].pod # p
      OBVIOUS
    <3>3. CASE u = t
      BY <1>3, <3>2, <3>3
    <3>4. CASE u # t
      BY <1>3, <3>1, <3>4
    <3> QED
      BY <3>3, <3>4
  <2>2. pool[p] = r /\ fate[r] \in Accepted
    <3>1. call[t].pod = p /\ call[t].rec = r /\ rec[r].pod = p
      BY <1>2, <1>5
    <3>2. pool[p] = r
      BY <3>1 DEF Alone
    <3>3. pool[p] = r <=> fate[r] \in Accepted
      BY <3>1 DEF Alone
    <3> QED
      BY <3>2, <3>3
  <2>3. call[t].pc \in {"stopped", "drop", "append"} => fate[r] \in {"up", "stopped"}
    <3>1. ASSUME fate[r] = "running"
          PROVE  Runs(t)
      <4>1. PICK u \in Caller : Runs(u) /\ call[u].rec = r
        BY <1>2, <1>5, <3>1 DEF Alone
      <4>2. call[u].pod = p
        BY <1>2, <1>5, <4>1, Served DEF Runs, RunPc
      <4> QED
        BY <1>2, <1>5, <4>1, <4>2 DEF Alone
    <3> QED
      BY <2>2, <3>1 DEF Runs, RunPc, Accepted
  <2>4. \A s \in Record : s # r /\ rec[s].pod = p => fate'[s] = fate[s] /\ fate[s] \notin Accepted
    BY <1>2, <2>2, AnswerDoes DEF Alone
  <2>5. /\ pool'[p] = r <=> fate'[r] \in Accepted
        /\ pool'[p] \in {r, Nobody}
        /\ fate'[r] # "running"
        /\ fate'[r] = "stopped" => ~rec'[r].ip
    <3>1. r # Nobody
      BY NameAssumption
    <3>2. Put(p, r) => pool'[p] = r
      BY DEF Put, KnownInv, TypeOK
    <3>3. Delete(p) => pool'[p] = Nobody
      BY DEF Delete, KnownInv, TypeOK
    <3>4. /\ call[t].pc = "stopped" => ~rec[r].ip
          /\ fate[r] = "stopped" => ~rec[r].ip
      BY <1>2, <1>5 DEF Alone
    <3>5. \/ /\ call[t].pc = "undo" /\ Delete(p) /\ fate'[r] = "failed"
          \/ /\ call[t].pc = "commit" /\ Put(p, r) /\ fate'[r] = "up"
          \/ /\ call[t].pc = "stopped" /\ Put(p, r)
             /\ fate'[r] = IF fate[r] = "up" THEN "stopped" ELSE fate[r]
          \/ /\ call[t].pc = "drop" /\ Delete(p)
             /\ fate'[r] = IF fate[r] \in {"up", "stopped"} THEN "removed" ELSE fate[r]
          \/ /\ call[t].pc = "append" /\ fate'[r] = fate[r]
             /\ (Put(p, r) \/ pool' = pool)
      <4>1. CASE call[t].pc = "append"
        <5>1. fate'[r] = fate[r] /\ (Put(p, r) \/ UNCHANGED <<pool, file, rec>>)
          BY <1>2, <1>5, <4>1, AnswerDoes
        <5> QED
          BY <4>1, <5>1
      <4>2. CASE call[t].pc # "append"
        <5>1. r = call[t].rec /\ p = call[t].pod
          BY <1>2, <1>5
        <5> HIDE <1>2
        <5> QED
          BY <4>2, <5>1, AnswerDoes
      <4> QED
        BY <4>1, <4>2
    <3>6. rec'[r].ip = rec[r].ip
      BY <1>1
    <3> QED
      BY <2>2, <2>3, <3>1, <3>2, <3>3, <3>4, <3>5, <3>6 DEF Accepted
  <2>6. \A s \in Record : rec'[s].pod = p => rec[s].pod = p
    BY <1>1 DEF PodsStay
  <2>7. ASSUME NEW s \in Record, rec'[s].pod = p
        PROVE  /\ pool'[p] = s <=> fate'[s] \in Accepted
               /\ fate'[s] # "running"
               /\ fate'[s] = "stopped" => ~rec'[s].ip
    BY <2>4, <2>5, <2>6, <2>7, NameAssumption DEF Accepted
  <2> QED
    BY <2>1, <2>7 DEF Alone
<1> QED
  BY <1>4, <1>5

LEMMA BeginAlone ==
  ASSUME KnownInv, NEW p \in Pod \ Overlap, Alone(p), NEW t \in Caller, NEW q \in Pod,
         \/ StopBegin(t, q) \/ RemoveBegin(t, q)
         \/ \E c \in Container : AppendBegin(t, q, c)
  PROVE  Alone(p)'
<1>1. PICK s \in {"stopping", "drop", "append"}, c \in Container \cup {Nobody} :
        /\ Beginning(t, q, s, c) /\ MayBegin(t, q)
        /\ \A r \in Record : rec'[r].ip = rec[r].ip
  BY StopBeginFrame, RemoveBeginFrame, AppendBeginFrame
<1>2. /\ call'[t].pc = s /\ call'[t].pod = q /\ call'[t].rec = pool[q]
      /\ \A u \in Caller \ {t} : call'[u] = call[u]
  BY <1>1, BeginFrame DEF KnownInv, Pc
<1>3. call[t] = Idle /\ call[t].pod # p /\ PodsStay /\ UNCHANGED <<pool, fate>>
  BY <1>1, NameAssumption DEF Beginning, Idle
<1>4. CASE q # p
  BY <1>1, <1>2, <1>3, <1>4, QuietPod DEF PodsStay
<1>5. CASE q = p
  <2>1. \A u \in Caller : call[u].pod # p
    BY <1>1, <1>5 DEF MayBegin
  <2>2. \A u \in Caller : call'[u].pod = p => /\ u = t /\ pool'[p] = call'[u].rec
                                              /\ call'[u].pc # "stopped"
    BY <1>1, <1>2, <1>3, <1>5, <2>1
  <2>3. ASSUME NEW r \in Record, rec'[r].pod = p
        PROVE  /\ pool'[p] = r <=> fate'[r] \in Accepted
               /\ fate'[r] # "running"
               /\ fate'[r] = "stopped" => ~rec'[r].ip
    <3>1. rec[r].pod = p
      BY <1>3, <2>3 DEF PodsStay
    <3>2. fate[r] # "running"
      BY <2>1, <3>1, Served DEF Alone, Runs, RunPc
    <3> QED
      BY <1>1, <1>3, <3>1, <3>2 DEF Alone
  <2> QED
    BY <2>2, <2>3 DEF Alone
<1> QED
  BY <1>4, <1>5

LEMMA RunBeginAlone ==
  ASSUME KnownInv, NEW p \in Pod \ Overlap, Alone(p), NEW t \in Caller, NEW q \in Pod,
         NEW r \in Record, RunBegun(t, q, r)
  PROVE  Alone(p)'
<1>1. /\ call[t] = Idle /\ MayBegin(t, q)
      /\ rec[r].pod = Nobody /\ Put(q, r)
      /\ \A s \in Pod : pool[s] # r
      /\ rec'[r].pod = q
      /\ \A s \in Record \ {r} : rec'[s] = rec[s]
      /\ fate'[r] = "running"
      /\ \A s \in Record \ {r} : fate'[s] = IF s = pool[q] THEN "replaced" ELSE fate[s]
      /\ call'[t].pc \in {"namespace", "files", "commit"}
      /\ call'[t].pod = q /\ call'[t].rec = r
      /\ \A u \in Caller \ {t} : call'[u] = call[u]
  BY RunBeginFrame
<1>2. call[t].pod # p
  BY <1>1, NameAssumption DEF Idle
<1>3. CASE q # p
  <2>1. pool'[p] = pool[p]
    BY <1>1, <1>3 DEF Put, KnownInv, TypeOK
  <2>2. \A s \in Record : rec[s].pod = p => s # pool[q]
    BY <1>3, NameAssumption DEF KnownInv, PoolIsKnown
  <2>3. \A s \in Record : rec[s].pod = p \/ rec'[s].pod = p =>
          rec'[s] = rec[s] /\ fate'[s] = fate[s]
    BY <1>1, <1>3, <2>2, NameAssumption
  <2>4. \A u \in Caller : call[u].pod = p \/ call'[u].pod = p => call'[u] = call[u]
    BY <1>1, <1>2, <1>3
  <2> QED
    BY <2>1, <2>3, <2>4, QuietPod
<1>4. CASE q = p
  <2>1. \A u \in Caller : call[u].pod # p
    BY <1>1, <1>4 DEF MayBegin
  <2>2. pool'[p] = r
    BY <1>1, <1>4 DEF Put, KnownInv, TypeOK
  <2>3. \A u \in Caller : call'[u].pod = p => /\ u = t /\ pool'[p] = call'[u].rec
                                              /\ call'[u].pc # "stopped"
    BY <1>1, <1>4, <2>1, <2>2
  <2>4. ASSUME NEW s \in Record, s # r, rec'[s].pod = p
        PROVE  fate'[s] \notin Accepted
    <3>1. rec[s].pod = p
      BY <1>1, <2>4
    <3> QED
      BY <1>1, <1>4, <2>4, <3>1 DEF Alone, Accepted
  <2>5. call'[t].pc \in RunPc /\ fate'[r] \in Accepted /\ fate'[r] # "stopped"
    BY <1>1 DEF RunPc, Accepted
  <2>6. ASSUME NEW s \in Record, rec'[s].pod = p
        PROVE  /\ pool'[p] = s <=> fate'[s] \in Accepted
               /\ fate'[s] = "running" =>
                    \E u \in Caller : call'[u].pc \in RunPc /\ call'[u].rec = s
               /\ fate'[s] = "stopped" => ~rec'[s].ip
    BY <1>1, <2>2, <2>4, <2>5, <2>6 DEF Accepted
  <2> QED
    BY <2>3, <2>6 DEF Alone, Runs
<1> QED
  BY <1>3, <1>4

\* A stop clears the address of the record it works on.
LEMMA StopClearAlone ==
  ASSUME KnownInv, NEW p \in Pod, Alone(p), NEW t \in Caller, StopClear(t)
  PROVE  Alone(p)'
<1>1. /\ PodsStay /\ UNCHANGED <<pool, fate>>
      /\ call[t].rec \in Record /\ ~rec'[call[t].rec].ip
      /\ \A r \in Record : rec'[r].ip => rec[r].ip
      /\ call[t].pc = "stopping" /\ call'[t].pc = "stopped"
      /\ call'[t].pod = call[t].pod /\ call'[t].rec = call[t].rec
      /\ \A u \in Caller \ {t} : call'[u] = call[u]
  BY StopClearFrame
<1>2. CASE call[t].pod # p
  BY <1>1, <1>2, QuietPod DEF PodsStay
<1>3. CASE call[t].pod = p
  <2>1. \A u \in Caller : call'[u].pod = p => u = t
    BY <1>1, <1>3 DEF Alone
  <2>2. pool'[p] = call'[t].rec
    BY <1>1, <1>3 DEF Alone
  <2>3. ASSUME NEW r \in Record, rec'[r].pod = p
        PROVE  /\ pool'[p] = r <=> fate'[r] \in Accepted
               /\ fate'[r] = "running" =>
                    \E u \in Caller : call'[u].pc \in RunPc /\ call'[u].rec = r
               /\ fate'[r] = "stopped" => ~rec'[r].ip
    <3>1. rec[r].pod = p /\ fate'[r] = fate[r] /\ pool'[p] = pool[p]
      BY <1>1, <2>3 DEF PodsStay
    <3>2. ASSUME fate[r] = "running"
          PROVE  \E u \in Caller : call'[u].pc \in RunPc /\ call'[u].rec = r
      <4>1. PICK u \in Caller : call[u].pc \in RunPc /\ call[u].rec = r
        BY <3>1, <3>2 DEF Alone, Runs
      <4>2. u # t
        BY <1>1, <4>1 DEF RunPc
      <4> QED
        BY <1>1, <4>1, <4>2
    <3> QED
      BY <1>1, <3>1, <3>2 DEF Alone
  <2> QED
    BY <1>1, <2>1, <2>2, <2>3 DEF Alone, Runs
<1> QED
  BY <1>2, <1>3

LEMMA QueryAlone ==
  ASSUME KnownInv, NEW p \in Pod, Alone(p), NEW t \in Caller, Query(t)
  PROVE  Alone(p)'
<1>1. /\ PodsStay /\ \A r \in Record : rec'[r].ip = rec[r].ip
      /\ call[t].pod = Nobody /\ call'[t].pod = Nobody
      /\ \A u \in Caller \ {t} : call'[u] = call[u]
      /\ UNCHANGED <<pool, fate>>
  BY QueryFrame
<1>2. \A u \in Caller : call[u].pod = p \/ call'[u].pod = p => call'[u] = call[u]
  BY <1>1, NameAssumption
<1> QED
  BY <1>1, <1>2, QuietPod DEF PodsStay

LEMMA RestartAlone ==
  ASSUME KnownInv, NEW p \in Pod, Restart
  PROVE  Alone(p)'
<1>1. /\ pool'[p] = Nobody
      /\ \A t \in Caller : call'[t] = Idle
      /\ \A r \in Record :
           fate'[r] = CASE fate[r] = "running"           -> "cut"
                        [] fate[r] \in {"up", "stopped"} -> "lost"
                        [] OTHER                         -> fate[r]
  BY RestartFrame
<1>2. \A r \in Record : fate'[r] \notin Accepted
  BY <1>1 DEF Accepted
<1>3. \A t \in Caller : call'[t].pod # p
  BY <1>1, NameAssumption DEF Idle
<1> QED
  BY <1>1, <1>2, <1>3, NameAssumption DEF Alone, Accepted

LEMMA NextSerial ==
  ASSUME KnownInv, SerialInv, [Next]_vars
  PROVE  SerialInv'
<1> SUFFICES ASSUME NEW p \in Pod \ Overlap, Alone(p) PROVE Alone(p)'
  BY DEF SerialInv
<1>1. CASE UNCHANGED vars
  BY <1>1, QuietPod DEF vars
<1> QED
  BY <1>1, StepIs, SetUpAlone, AnswerAlone, BeginAlone, RunBeginAlone, StopClearAlone,
     QueryAlone, RestartAlone

LEMMA InitSerial == Init => SerialInv
<1> SUFFICES ASSUME Init, NEW p \in Pod PROVE Alone(p)
  BY DEF SerialInv
<1>1. \A t \in Caller : call[t].pod = Nobody
  BY DEF Init, Idle
<1>2. \A r \in Record : rec[r].pod = Nobody
  BY DEF Init, Blank
<1> QED
  BY <1>1, <1>2, NameAssumption DEF Alone

\* Where a pod has one call at a time, the pool holds exactly its sandboxes that
\* are being set up, run or are stopped.
THEOREM PoolHoldsAcceptedCorrect == Spec => []PoolHoldsAccepted
<1>1. Init => KnownInv /\ SerialInv
  BY InitKnown, InitSerial
<1>2. KnownInv /\ SerialInv /\ [Next]_vars => (KnownInv /\ SerialInv)'
  BY NextKnown, NextSerial
<1>3. SerialInv => PoolHoldsAccepted
  BY DEF SerialInv, Alone, Accepted, PoolHoldsAccepted, Serial
<1> QED
  BY <1>1, <1>2, <1>3, PTL DEF Spec

\* Only a query calls a record READY, and only one that had read its address.
LEMMA OnlyQueriesTell ==
  ASSUME KnownInv, PodNetwork, [Next]_vars, NEW r \in Record, ~Seen(r), ~rec[r].ip
  PROVE  ~Seen(r)' /\ (rec'[r].ready => rec[r].ready)
<1>1. CASE \E t \in Caller : SetUp(t)
  <2>1. PICK t \in Caller, q \in RunPc : SetUp(t) /\ GoTo(t, q)
    BY <1>1, SetUpFrame
  <2>2. /\ call[t].pc # "seen" /\ call'[t].pc # "seen"
        /\ \A u \in Caller \ {t} : call'[u] = call[u]
    BY <2>1, SetUpFrame, GoFrame DEF KnownInv, Runs, RunPc, Pc
  <2>3. rec'[r].ready = rec[r].ready
    BY <2>1, SetUpReady
  <2> QED
    BY <2>2, <2>3, SeenStays
<1>2. CASE \E t \in Caller : Answer(t)
  <2>1. PICK t \in Caller : Answer(t)
    BY <1>2
  <2>2. /\ call[t].pc # "seen" /\ Return(t) /\ rec'[r].ready = rec[r].ready
    BY <2>1, AnswerFrame DEF Answering
  <2>3. call'[t].pc # "seen" /\ \A u \in Caller \ {t} : call'[u] = call[u]
    BY <2>2, ReturnFrame DEF KnownInv, Idle
  <2> QED
    BY <2>2, <2>3, SeenStays
<1>3. CASE \E t \in Caller, p \in Pod, s \in Record : RunBegun(t, p, s)
  <2>1. PICK t \in Caller, p \in Pod, s \in Record : RunBegun(t, p, s)
    BY <1>3
  <2>2. /\ call[t].pc # "seen" /\ call'[t].pc # "seen"
        /\ \A u \in Caller \ {t} : call'[u] = call[u]
        /\ rec'[r].ready => rec[r].ready
    BY <2>1, RunBeginFrame DEF Idle
  <2> QED
    BY <2>2, SeenStays
<1>4. CASE \E t \in Caller, p \in Pod :
             \/ StopBegin(t, p) \/ RemoveBegin(t, p)
             \/ \E c \in Container : AppendBegin(t, p, c)
  <2>1. PICK t \in Caller, p \in Pod, q \in {"stopping", "drop", "append"},
             c \in Container \cup {Nobody} :
          Beginning(t, p, q, c) /\ (rec'[r].ready => rec[r].ready)
    BY <1>4, StopBeginFrame, RemoveBeginFrame, AppendBeginFrame
  <2>2. /\ call[t].pc # "seen" /\ call'[t].pc # "seen"
        /\ \A u \in Caller \ {t} : call'[u] = call[u]
    BY <2>1, BeginFrame DEF Beginning, KnownInv, Pc, Idle
  <2> QED
    BY <2>1, <2>2, SeenStays
<1>5. CASE \E t \in Caller : StopClear(t)
  BY <1>5, StopClearFrame, SeenStays
<1>6. CASE \E t \in Caller : Query(t)
  BY <1>6, QueryFrame
<1>7. CASE Restart
  BY <1>7, RestartFrame DEF Seen, Idle
<1>8. CASE UNCHANGED vars
  BY <1>8 DEF vars, Seen
<1> QED
  BY <1>1, <1>2, <1>3, <1>4, <1>5, <1>6, <1>7, <1>8, StepIs

\* With a network plugin, and where a pod has one call at a time beside its status
\* queries, a stopped sandbox becomes READY again only by a query that had read its
\* address before it was stopped.
THEOREM StoppedStaysDownCorrect ==
  ASSUME PodNetwork
  PROVE  Spec => StoppedStaysDown
<1>1. Init => KnownInv /\ SerialInv
  BY InitKnown, InitSerial
<1>2. KnownInv /\ SerialInv /\ [Next]_vars => (KnownInv /\ SerialInv)'
  BY NextKnown, NextSerial
<1>3. ASSUME KnownInv, SerialInv, [Next]_vars, NEW r \in Record,
             Serial(r), fate[r] = "stopped", ~Seen(r)
      PROVE  ~Seen(r)' /\ (rec'[r].ready => rec[r].ready)
  <2>1. ~rec[r].ip
    BY <1>3 DEF SerialInv, Alone, Serial
  <2> QED
    BY <1>3, <2>1, OnlyQueriesTell
<1>4. KnownInv /\ SerialInv /\ [Next]_vars =>
        [\A r \in Record :
           (Serial(r) /\ fate[r] = "stopped" /\ ~Seen(r)) =>
             ~Seen(r)' /\ (rec'[r].ready => rec[r].ready)]_vars
  BY <1>3
<1> QED
  BY <1>1, <1>2, <1>4, PTL DEF Spec, StoppedStaysDown

-----------------------------------------------------------------------------
(* The contract of a sandbox, for the pods whose calls do not overlap *)

SerialPod == Pod \ Overlap

\* A record that was never used has no network.
UnusedIsBare == \A r \in Record : fate[r] = "unused" => net[r] = {}

ContractInv == KnownInv /\ SerialInv /\ NetworkInv /\ UnusedIsBare

\* The step does not show in the contract's view of the pod.
Unseen(p) ==
  /\ StateOf(p)' = StateOf(p)
  /\ Attached(p)' <=> Attached(p)
  /\ IsReady(p)' <=> IsReady(p)
  /\ IsAsked(p)' <=> IsAsked(p)
  /\ MembersOf(p)' = MembersOf(p)

\* What the contract's variables are when one pod at most has moved.
LEMMA OnePodMoves ==
  ASSUME NEW p \in SerialPod, \A q \in SerialPod \ {p} : Unseen(q)
  PROVE  /\ [q \in SerialPod |-> StateOf(q)']
              = [[q \in SerialPod |-> StateOf(q)] EXCEPT ![p] = StateOf(p)']
         /\ {q \in SerialPod : Attached(q)'}
              = IF Attached(p)' THEN {q \in SerialPod : Attached(q)} \cup {p}
                                ELSE {q \in SerialPod : Attached(q)} \ {p}
         /\ {q \in SerialPod : IsReady(q)'}
              = IF IsReady(p)' THEN {q \in SerialPod : IsReady(q)} \cup {p}
                               ELSE {q \in SerialPod : IsReady(q)} \ {p}
         /\ {q \in SerialPod : IsAsked(q)'}
              = IF IsAsked(p)' THEN {q \in SerialPod : IsAsked(q)} \cup {p}
                               ELSE {q \in SerialPod : IsAsked(q)} \ {p}
         /\ [q \in SerialPod |-> MembersOf(q)']
              = [[q \in SerialPod |-> MembersOf(q)] EXCEPT ![p] = MembersOf(p)']
<1>1. \A q \in SerialPod \ {p} : /\ StateOf(q)' = StateOf(q)
                                 /\ Attached(q)' <=> Attached(q)
                                 /\ IsReady(q)' <=> IsReady(q)
                                 /\ IsAsked(q)' <=> IsAsked(q)
                                 /\ MembersOf(q)' = MembersOf(q)
  BY DEF Unseen
<1>2. [q \in SerialPod |-> StateOf(q)']
        = [[q \in SerialPod |-> StateOf(q)] EXCEPT ![p] = StateOf(p)']
  BY <1>1
<1>3. {q \in SerialPod : Attached(q)'}
        = IF Attached(p)' THEN {q \in SerialPod : Attached(q)} \cup {p}
                          ELSE {q \in SerialPod : Attached(q)} \ {p}
  BY <1>1
<1>4. {q \in SerialPod : IsReady(q)'}
        = IF IsReady(p)' THEN {q \in SerialPod : IsReady(q)} \cup {p}
                         ELSE {q \in SerialPod : IsReady(q)} \ {p}
  BY <1>1
<1>5. {q \in SerialPod : IsAsked(q)'}
        = IF IsAsked(p)' THEN {q \in SerialPod : IsAsked(q)} \cup {p}
                         ELSE {q \in SerialPod : IsAsked(q)} \ {p}
  BY <1>1
<1>6. [q \in SerialPod |-> MembersOf(q)']
        = [[q \in SerialPod |-> MembersOf(q)] EXCEPT ![p] = MembersOf(p)']
  BY <1>1
<1> QED
  BY <1>2, <1>3, <1>4, <1>5, <1>6

LEMMA NonePodMoves ==
  ASSUME \A q \in SerialPod : Unseen(q)
  PROVE  UNCHANGED Contract!sandboxVars
<1>1. [q \in SerialPod |-> StateOf(q)'] = [q \in SerialPod |-> StateOf(q)]
  BY DEF Unseen
<1>2. {q \in SerialPod : Attached(q)'} = {q \in SerialPod : Attached(q)}
  BY DEF Unseen
<1>3. {q \in SerialPod : IsReady(q)'} = {q \in SerialPod : IsReady(q)}
  BY DEF Unseen
<1>4. {q \in SerialPod : IsAsked(q)'} = {q \in SerialPod : IsAsked(q)}
  BY DEF Unseen
<1>5. [q \in SerialPod |-> MembersOf(q)'] = [q \in SerialPod |-> MembersOf(q)]
  BY DEF Unseen
<1> QED
  BY <1>1, <1>2, <1>3, <1>4, <1>5 DEF Contract!sandboxVars, SerialPod

\* And the variables in which that one has not moved.
LEMMA OnePodStays ==
  ASSUME NEW p \in SerialPod, \A q \in SerialPod \ {p} : Unseen(q)
  PROVE  /\ StateOf(p)' = StateOf(p) =>
              [q \in SerialPod |-> StateOf(q)'] = [q \in SerialPod |-> StateOf(q)]
         /\ (Attached(p)' <=> Attached(p)) =>
              {q \in SerialPod : Attached(q)'} = {q \in SerialPod : Attached(q)}
         /\ (IsReady(p)' <=> IsReady(p)) =>
              {q \in SerialPod : IsReady(q)'} = {q \in SerialPod : IsReady(q)}
         /\ (IsAsked(p)' <=> IsAsked(p)) =>
              {q \in SerialPod : IsAsked(q)'} = {q \in SerialPod : IsAsked(q)}
         /\ MembersOf(p)' = MembersOf(p) =>
              [q \in SerialPod |-> MembersOf(q)'] = [q \in SerialPod |-> MembersOf(q)]
<1>1. \A q \in SerialPod \ {p} : /\ StateOf(q)' = StateOf(q)
                                 /\ Attached(q)' <=> Attached(q)
                                 /\ IsReady(q)' <=> IsReady(q)
                                 /\ IsAsked(q)' <=> IsAsked(q)
                                 /\ MembersOf(q)' = MembersOf(q)
  BY DEF Unseen
<1>2. StateOf(p)' = StateOf(p) =>
        [q \in SerialPod |-> StateOf(q)'] = [q \in SerialPod |-> StateOf(q)]
  BY <1>1
<1>3. (Attached(p)' <=> Attached(p)) =>
        {q \in SerialPod : Attached(q)'} = {q \in SerialPod : Attached(q)}
  BY <1>1
<1>4. (IsReady(p)' <=> IsReady(p)) =>
        {q \in SerialPod : IsReady(q)'} = {q \in SerialPod : IsReady(q)}
  BY <1>1
<1>5. (IsAsked(p)' <=> IsAsked(p)) =>
        {q \in SerialPod : IsAsked(q)'} = {q \in SerialPod : IsAsked(q)}
  BY <1>1
<1>6. MembersOf(p)' = MembersOf(p) =>
        [q \in SerialPod |-> MembersOf(q)'] = [q \in SerialPod |-> MembersOf(q)]
  BY <1>1
<1> QED
  BY <1>2, <1>3, <1>4, <1>5, <1>6

\* A pod is asked about when its record is.
LEMMA HereSeen ==
  ASSUME NEW p
  PROVE  /\ \A r : pool[p] = r => (IsAsked(p) <=> r # Nobody /\ Seen(r))
         /\ \A r : pool'[p] = r => (IsAsked(p)' <=> r # Nobody /\ Seen(r)')
  BY DEF IsAsked, Has, Seen

\* Nothing of the pod that the contract sees has changed.
LEMMA QuietUnseen ==
  ASSUME KnownInv, NEW p \in Pod, pool'[p] = pool[p], Stopping(p)' <=> Stopping(p),
         \A r \in Record : r = pool[p] =>
           /\ fate'[r] = fate[r] /\ net'[r] = net[r] /\ (Seen(r)' <=> Seen(r))
           /\ rec'[r].ready = rec[r].ready /\ rec'[r].containers = rec[r].containers
  PROVE  Unseen(p)
<1>1. pool[p] # Nobody => pool[p] \in Record
  BY DEF KnownInv, TypeOK
<1>2. CASE pool[p] = Nobody
  BY <1>2 DEF Unseen, StateOf, Attached, IsReady, IsAsked, MembersOf, Has
<1>3. CASE pool[p] # Nobody
  <2>1. PICK r \in Record : r = pool[p]
    BY <1>1, <1>3
  <2>2. /\ r # Nobody /\ pool[p] = r /\ pool'[p] = r
        /\ fate'[r] = fate[r] /\ net'[r] = net[r] /\ (Seen(r)' <=> Seen(r))
        /\ rec'[r].ready = rec[r].ready /\ rec'[r].containers = rec[r].containers
    BY <1>3, <2>1
  <2>3. IsAsked(p)' <=> IsAsked(p)
    BY <2>2, HereSeen
  <2> QED
    BY <2>2, <2>3 DEF Unseen, StateOf, Attached, IsReady, MembersOf, Has
<1> QED
  BY <1>2, <1>3

\* With one request at a time, what a request finds of its pod.
LEMMA OwnPod ==
  ASSUME KnownInv, NEW p \in SerialPod, Alone(p), NEW t \in Caller, call[t].pod = p
  PROVE  /\ pool[p] = call[t].rec /\ pool[p] \in Record /\ pool[p] # Nobody
         /\ \A u \in Caller : call[u].pod = p => u = t
         /\ Stopping(p) <=> call[t].pc = "stopped"
         /\ Runs(t) => fate[pool[p]] = "running"
         /\ ~Runs(t) => fate[pool[p]] \in {"up", "stopped"}
<1>1. call[t].pc \notin {"idle", "asked", "seen"}
  BY NameAssumption DEF KnownInv, CallsAreKnown, QueryPc, Idle, SerialPod
<1>2. pool[p] = call[t].rec /\ pool[p] \in Record /\ rec[pool[p]].pod = p
  BY <1>1, Served DEF Alone
<1>3. \A u \in Caller : call[u].pod = p => u = t
  BY DEF Alone
<1>4. fate[pool[p]] \in Accepted
  BY <1>2 DEF Alone
<1>5. Runs(t) => fate[pool[p]] = "running"
  BY <1>2, <1>4 DEF KnownInv, RunsAreAlone, Accepted
<1>6. ASSUME fate[pool[p]] = "running" PROVE Runs(t)
  <2>1. PICK u \in Caller : Runs(u) /\ call[u].rec = pool[p]
    BY <1>2, <1>6 DEF Alone
  <2>2. call[u].pod = p
    BY <1>2, <2>1, Served DEF Runs, RunPc
  <2> QED
    BY <1>3, <2>1, <2>2
<1> QED
  BY <1>2, <1>3, <1>4, <1>5, <1>6, NameAssumption DEF Stopping, Accepted

\* And what one that comes in finds.
LEMMA FreePod ==
  ASSUME KnownInv, NEW p \in SerialPod, Alone(p), NEW t \in Caller, MayBegin(t, p)
  PROVE  /\ \A u \in Caller : call[u].pod # p
         /\ ~Stopping(p)
         /\ pool[p] # Nobody => pool[p] \in Record /\ fate[pool[p]] \in {"up", "stopped"}
<1>1. \A u \in Caller : call[u].pod # p
  BY DEF MayBegin, SerialPod
<1>2. ASSUME pool[p] # Nobody
      PROVE  pool[p] \in Record /\ fate[pool[p]] \in {"up", "stopped"}
  <2>1. pool[p] \in Record /\ rec[pool[p]].pod = p
    BY <1>2 DEF KnownInv, TypeOK, PoolIsKnown, SerialPod
  <2>2. fate[pool[p]] # "running"
    BY <1>1, <2>1, Served DEF Alone, Runs, RunPc
  <2> QED
    BY <2>1, <2>2 DEF Alone, Accepted
<1> QED
  BY <1>1, <1>2 DEF Stopping

\* The pod's sandbox is gone, or is a new one.
LEMMA FreshSeen ==
  ASSUME NEW p \in SerialPod, \A q \in SerialPod \ {p} : Unseen(q), NEW s,
         StateOf(p)' = s, ~Attached(p)', ~IsReady(p)', ~IsAsked(p)', MembersOf(p)' = {}
  PROVE  Contract!Fresh(p, s)
  BY OnePodMoves DEF Contract!Fresh, SerialPod

LEMMA SetUpSeen ==
  ASSUME ContractInv, NEW t \in Caller, SetUp(t)
  PROVE  \/ \A q \in SerialPod : Unseen(q)
         \/ \E p \in SerialPod : Contract!Wire(p)
<1>1. /\ KnownInv /\ SerialInv /\ Runs(t) /\ UNCHANGED <<pool, fate>>
      /\ \A r \in Record \ {call[t].rec} : rec'[r] = rec[r] /\ net'[r] = net[r]
  BY SetUpFrame DEF ContractInv
<1>2. PICK n \in RunPc : GoTo(t, n)
  BY <1>1, SetUpFrame
<1>3. /\ call'[t].pc = n /\ call'[t].pod = call[t].pod
      /\ \A u \in Caller \ {t} : call'[u] = call[u]
  BY <1>1, <1>2, GoFrame DEF KnownInv, RunPc, Pc
<1>4. \A q : Stopping(q)' <=> Stopping(q)
  BY <1>1, <1>3 DEF Stopping, Runs, RunPc
<1>5. \A r \in Record : /\ rec'[r].ready = rec[r].ready
                        /\ rec'[r].containers = rec[r].containers
  BY <1>1, SetUpReady
<1>s. \A q : Seen(q)' <=> Seen(q)
  BY <1>1, <1>3, SeenStays DEF Runs, RunPc
<1>6. call[t].pod \in Pod /\ call[t].rec \in Record /\ rec[call[t].rec].pod = call[t].pod
  BY <1>1, Served DEF Runs, RunPc
<1>7. \A q \in SerialPod \ {call[t].pod} : Unseen(q)
  <2> SUFFICES ASSUME NEW q \in SerialPod, q # call[t].pod PROVE Unseen(q)
    OBVIOUS
  <2>1. q \in Pod /\ pool[q] # call[t].rec
    BY <1>1, <1>6, NameAssumption DEF KnownInv, PoolIsKnown, SerialPod
  <2> QED
    BY <1>1, <1>4, <1>5, <1>s, <2>1, QuietUnseen
<1>8. CASE call[t].pod \notin SerialPod
  BY <1>7, <1>8
<1>9. CASE call[t].pod \in SerialPod
  <2>1. PICK p \in SerialPod : p = call[t].pod
    BY <1>9
  <2>2. Alone(p)
    BY <1>1 DEF SerialInv, SerialPod
  <2>3. Has(p) /\ ~Stopping(p) /\ fate[pool[p]] = "running" /\ pool[p] \in Record
    BY <1>1, <2>1, <2>2, OwnPod DEF Has, Runs, RunPc
  <2>4. StateOf(p) = "running" /\ StateOf(p)' = "running"
    BY <1>1, <1>4, <2>3 DEF StateOf, Has
  <2>5. /\ IsReady(p)' <=> IsReady(p)
        /\ IsAsked(p)' <=> IsAsked(p)
        /\ MembersOf(p)' = MembersOf(p)
    BY <1>1, <1>5, <1>s, <2>3, HereSeen DEF IsReady, MembersOf, Has
  <2>6. Contract!Wire(p)
    <3>1. \A q \in SerialPod \ {p} : Unseen(q)
      BY <1>7, <2>1
    <3>2. [q \in SerialPod |-> StateOf(q)'] = [q \in SerialPod |-> StateOf(q)]
      BY <2>4, <3>1, OnePodStays
    <3>3. {q \in SerialPod : IsReady(q)'} = {q \in SerialPod : IsReady(q)}
      BY <2>5, <3>1, OnePodStays
    <3>4. [q \in SerialPod |-> MembersOf(q)'] = [q \in SerialPod |-> MembersOf(q)]
      BY <2>5, <3>1, OnePodStays
    <3>7. {q \in SerialPod : IsAsked(q)'} = {q \in SerialPod : IsAsked(q)}
      BY <2>5, <3>1, OnePodStays
    <3>5. {q \in SerialPod : Attached(q)'}
            \in {{q \in SerialPod : Attached(q)} \cup {p},
                 {q \in SerialPod : Attached(q)} \ {p}}
      BY <3>1, OnePodMoves
    <3>6. [q \in SerialPod |-> StateOf(q)][p] = "running"
      BY <2>4
    <3> QED
      BY <3>2, <3>3, <3>4, <3>5, <3>6, <3>7 DEF Contract!Wire, SerialPod
  <2> QED
    BY <2>6
<1> QED
  BY <1>8, <1>9

LEMMA RunBeginSeen ==
  ASSUME ContractInv, NEW t \in Caller, NEW p \in Pod, NEW r \in Record, RunBegun(t, p, r)
  PROVE  \/ \A q \in SerialPod : Unseen(q)
         \/ \E q \in SerialPod : Contract!Run(q)
<1>1. /\ KnownInv /\ SerialInv /\ call[t] = Idle /\ MayBegin(t, p)
      /\ fate[r] = "unused" /\ Put(p, r) /\ UNCHANGED net
      /\ ~rec'[r].ready
      /\ \A q \in Pod : pool[q] # r
      /\ \A u \in Caller : call[u].rec # r
      /\ \A s \in Record \ {r} : rec'[s] = rec[s]
      /\ fate'[r] = "running"
      /\ \A s \in Record \ {r} : fate'[s] = IF s = pool[p] THEN "replaced" ELSE fate[s]
      /\ call'[t].pc \in {"namespace", "files", "commit"} /\ call'[t].pod = p
      /\ \A u \in Caller \ {t} : call'[u] = call[u]
  BY RunBeginFrame DEF ContractInv
<1>s. /\ \A q : Seen(q)' <=> Seen(q)
      /\ ~Seen(r)
  BY <1>1, SeenStays DEF Idle, Seen
<1>2. rec'[r].containers = {} /\ net[r] = {}
  BY <1>1 DEF RunBegun, CreateSandboxMetadata, KnownInv, TypeOK, SandboxMetadata, Blank,
              ContractInv, UnusedIsBare
<1>3. pool'[p] = r /\ \A q \in Pod \ {p} : pool'[q] = pool[q]
  BY <1>1 DEF Put, KnownInv, TypeOK
<1>4. \A q : Stopping(q)' <=> Stopping(q)
  BY <1>1 DEF Stopping, Idle
<1>5. \A q \in SerialPod \ {p} : Unseen(q)
  <2> SUFFICES ASSUME NEW q \in SerialPod, q # p PROVE Unseen(q)
    OBVIOUS
  <2>1. q \in Pod /\ pool[q] # r /\ (pool[q] = pool[p] => pool[q] = Nobody)
    BY <1>1 DEF KnownInv, PoolIsKnown, SerialPod
  <2>2. \A s \in Record : s = pool[q] => rec'[s] = rec[s] /\ fate'[s] = fate[s]
    BY <1>1, <2>1, NameAssumption
  <2> QED
    BY <1>1, <1>3, <1>4, <1>s, <2>1, <2>2, QuietUnseen
<1>6. CASE p \notin SerialPod
  BY <1>5, <1>6
<1>7. CASE p \in SerialPod
  <2>1. ~Stopping(p) /\ (pool[p] # Nobody => fate[pool[p]] \in {"up", "stopped"})
    BY <1>1, <1>7, FreePod DEF SerialInv, SerialPod
  <2>2. StateOf(p) # "running"
    BY <2>1 DEF StateOf, Has
  <2>3. r # Nobody
    BY NameAssumption
  <2>4. /\ StateOf(p)' = "running" /\ ~Attached(p)' /\ ~IsReady(p)'
        /\ MembersOf(p)' = {}
    BY <1>1, <1>2, <1>3, <1>4, <2>1, <2>3 DEF StateOf, Attached, IsReady, MembersOf, Has
  <2>s. ~IsAsked(p)'
    BY <1>3, <1>s, HereSeen
  <2>5. Contract!Fresh(p, "running")
    BY <1>5, <1>7, <2>4, <2>s, FreshSeen
  <2>6. Contract!Run(p)
    BY <1>7, <2>2, <2>5 DEF Contract!Run, SerialPod
  <2> QED
    BY <1>7, <2>6
<1> QED
  BY <1>6, <1>7

LEMMA StopBeginSeen ==
  ASSUME ContractInv, NEW t \in Caller, NEW p \in Pod, StopBegin(t, p)
  PROVE  \/ \A q \in SerialPod : Unseen(q)
         \/ \E q \in SerialPod : Contract!Down(q)
<1>1. /\ KnownInv /\ SerialInv
      /\ Beginning(t, p, "stopping", Nobody) /\ MayBegin(t, p)
      /\ UNCHANGED <<pool, net, fate>>
      /\ ~rec'[pool[p]].ready
      /\ rec'[pool[p]].containers = rec[pool[p]].containers
      /\ \A r \in Record \ {pool[p]} : rec'[r] = rec[r]
  BY StopBeginFrame DEF ContractInv
<1>2. /\ call[t] = Idle /\ pool[p] # Nobody /\ pool[p] \in Record
      /\ call'[t].pc = "stopping"
      /\ \A u \in Caller \ {t} : call'[u] = call[u]
  BY <1>1, BeginFrame DEF Beginning, KnownInv, TypeOK, Pc
<1>3. \A q : Stopping(q)' <=> Stopping(q)
  BY <1>2 DEF Stopping, Idle
<1>4. \A r : Seen(r)' <=> Seen(r)
  BY <1>2, SeenStays DEF Idle
<1>5. \A q \in SerialPod \ {p} : Unseen(q)
  <2> SUFFICES ASSUME NEW q \in SerialPod, q # p PROVE Unseen(q)
    OBVIOUS
  <2>1. q \in Pod /\ pool[q] # pool[p]
    BY <1>1, <1>2 DEF KnownInv, PoolIsKnown, SerialPod
  <2> QED
    BY <1>1, <1>3, <1>4, <2>1, QuietUnseen
<1>6. CASE p \notin SerialPod
  BY <1>5, <1>6
<1>7. CASE p \in SerialPod
  <2>1. Alone(p)
    BY <1>1, <1>7 DEF SerialInv, SerialPod
  <2>2. ~Stopping(p) /\ fate[pool[p]] \in {"up", "stopped"}
    BY <1>1, <1>2, <1>7, <2>1, FreePod
  <2>3. StateOf(p) \in {"up", "stopped"} /\ StateOf(p)' = StateOf(p)
    BY <1>1, <1>2, <1>3, <2>2 DEF StateOf, Has
  <2>4. /\ ~IsReady(p)'
        /\ Attached(p)' <=> Attached(p)
        /\ MembersOf(p)' = MembersOf(p)
    BY <1>1, <1>2 DEF IsReady, Attached, MembersOf, Has
  <2>5. IsAsked(p)' <=> IsAsked(p)
    BY <1>1, <1>4, HereSeen
  <2>6. Contract!Down(p)
    BY <1>5, <1>7, <2>3, <2>4, <2>5, OnePodMoves, OnePodStays DEF Contract!Down, SerialPod
  <2> QED
    BY <1>7, <2>6
<1> QED
  BY <1>6, <1>7

\* The address goes: from here on the sandbox is stopped.
LEMMA StopClearSeen ==
  ASSUME ContractInv, NEW t \in Caller, StopClear(t)
  PROVE  \/ \A q \in SerialPod : Unseen(q)
         \/ \E q \in SerialPod : Contract!Stop(q)
<1>1. /\ KnownInv /\ SerialInv
      /\ call[t].pc = "stopping" /\ UNCHANGED <<pool, net, fate>>
      /\ \A r \in Record : /\ rec'[r].ready = rec[r].ready
                           /\ rec'[r].containers = rec[r].containers
      /\ call'[t].pc = "stopped" /\ call'[t].pod = call[t].pod
      /\ \A u \in Caller \ {t} : call'[u] = call[u]
  BY StopClearFrame DEF ContractInv
<1>2. PICK p \in Pod : p = call[t].pod
  BY <1>1, Served
<1>3. \A q : q # p => (Stopping(q)' <=> Stopping(q))
  BY <1>1, <1>2 DEF Stopping
<1>4. \A r : Seen(r)' <=> Seen(r)
  BY <1>1, SeenStays
<1>5. \A q \in SerialPod \ {p} : Unseen(q)
  BY <1>1, <1>3, <1>4, QuietUnseen DEF SerialPod
<1>6. CASE p \notin SerialPod
  BY <1>5, <1>6
<1>7. CASE p \in SerialPod
  <2>1. /\ pool[p] # Nobody /\ pool[p] \in Record /\ ~Stopping(p)
        /\ fate[pool[p]] \in {"up", "stopped"}
    BY <1>1, <1>2, <1>7, OwnPod DEF SerialInv, SerialPod, Runs, RunPc
  <2>2. Stopping(p)'
    BY <1>1, <1>2 DEF Stopping
  <2>3. StateOf(p) = fate[pool[p]] /\ StateOf(p)' = "stopped"
    BY <1>1, <2>1, <2>2 DEF StateOf, Has
  <2>4. /\ IsReady(p)' <=> IsReady(p)
        /\ Attached(p)' <=> Attached(p)
        /\ MembersOf(p)' = MembersOf(p)
    BY <1>1, <2>1 DEF IsReady, Attached, MembersOf, Has
  <2>5. IsAsked(p)' <=> IsAsked(p)
    BY <1>1, <1>4, HereSeen
  <2>6. CASE fate[pool[p]] = "up"
    <3>1. Contract!Stop(p)
      BY <1>5, <1>7, <2>3, <2>4, <2>5, <2>6, OnePodMoves, OnePodStays
         DEF Contract!Stop, SerialPod
    <3> QED
      BY <1>7, <3>1
  <2>7. CASE fate[pool[p]] = "stopped"
    <3>1. Unseen(p)
      BY <2>3, <2>4, <2>5, <2>7 DEF Unseen
    <3> QED
      BY <1>5, <3>1
  <2> QED
    BY <2>1, <2>6, <2>7
<1> QED
  BY <1>6, <1>7

LEMMA AnswerSeen ==
  ASSUME ContractInv, PodNetwork, NEW t \in Caller, Answer(t)
  PROVE  \/ \A q \in SerialPod : Unseen(q)
         \/ \E q \in SerialPod : \/ Contract!GiveUp(q) \/ Contract!Accept(q)
                                 \/ Contract!Remove(q)
                                 \/ \E c \in Container : Contract!Add(q, c)
<1>1. /\ KnownInv /\ SerialInv /\ call[t].pc \notin {"idle", "asked", "seen"} /\ Return(t)
      /\ UNCHANGED net
      /\ \A r \in Record \ {call[t].rec} : rec'[r] = rec[r]
      /\ \A r \in Record : rec'[r].ready = rec[r].ready
  BY AnswerFrame DEF ContractInv, Answering
<1>s. \A s : Seen(s)' <=> Seen(s)
  BY <1>1, ReturnFrame, SeenStays DEF KnownInv, Idle
<1>2. PICK r \in Record, p \in Pod :
        r = call[t].rec /\ p = call[t].pod /\ rec[r].pod = p /\ r # Nobody
  BY <1>1, Served
<1>3. call'[t] = Idle /\ \A u \in Caller \ {t} : call'[u] = call[u]
  BY <1>1, ReturnFrame DEF KnownInv
<1>4. /\ \A q \in Record : q # r => fate'[q] = fate[q]
      /\ \/ call[t].pc = "undo" /\ Delete(p) /\ rec' = rec
         \/ call[t].pc = "commit" /\ Put(p, r) /\ fate'[r] = "up" /\ rec' = rec
         \/ /\ call[t].pc = "stopped" /\ Put(p, r) /\ rec' = rec
            /\ fate'[r] = IF fate[r] = "up" THEN "stopped" ELSE fate[r]
         \/ call[t].pc = "drop" /\ Delete(p) /\ rec' = rec
         \/ /\ call[t].pc = "append" /\ fate'[r] = fate[r]
            /\ Put(p, r) \/ UNCHANGED <<pool, rec>>
  <2>1. ASSUME call[t].pc = "append"
        PROVE  fate'[r] = fate[r] /\ (Put(p, r) \/ UNCHANGED <<pool, rec>>)
    BY <1>2, <2>1, AnswerDoes, <1>1
  <2>2. CASE call[t].pc = "append"
    BY <1>1, <1>2, <2>1, <2>2, AnswerDoes
  <2>3. CASE call[t].pc # "append"
    BY <1>1, <1>2, <2>3, AnswerDoes
  <2> QED
    BY <2>2, <2>3
<1>5. /\ Put(p, r) => pool'[p] = r
      /\ Delete(p) => pool'[p] = Nobody
      /\ \A q \in Pod \ {p} : pool'[q] = pool[q]
  BY <1>1, <1>4 DEF Put, Delete, KnownInv, TypeOK
<1>6. \A q \in SerialPod \ {p} : Unseen(q)
  <2> SUFFICES ASSUME NEW q \in SerialPod, q # p PROVE Unseen(q)
    OBVIOUS
  <2>1. q \in Pod /\ pool[q] # r
    BY <1>1, <1>2 DEF KnownInv, PoolIsKnown, SerialPod
  <2>2. Stopping(q)' <=> Stopping(q)
    BY <1>2, <1>3, <2>1, NameAssumption DEF Stopping, Idle
  <2> QED
    BY <1>1, <1>2, <1>4, <1>5, <1>s, <2>1, <2>2, QuietUnseen
<1>7. CASE p \notin SerialPod
  BY <1>6, <1>7
<1>8. CASE p \in SerialPod
  <2>1. /\ pool[p] = r /\ Has(p)
        /\ \A u \in Caller : call[u].pod = p => u = t
        /\ Stopping(p) <=> call[t].pc = "stopped"
        /\ Runs(t) => fate[r] = "running"
        /\ ~Runs(t) => fate[r] \in {"up", "stopped"}
    BY <1>1, <1>2, <1>8, OwnPod DEF SerialInv, SerialPod, Has
  <2>2. ~Stopping(p)'
    BY <1>2, <1>3, <2>1, NameAssumption DEF Stopping, Idle
  <2>3. Delete(p) => /\ StateOf(p)' = "none" /\ ~Attached(p)' /\ ~IsReady(p)'
                     /\ ~IsAsked(p)' /\ MembersOf(p)' = {}
    BY <1>5 DEF StateOf, Attached, IsReady, IsAsked, MembersOf, Has
  <2>4. Delete(p) => Contract!Fresh(p, "none")
    BY <1>6, <1>8, <2>3, FreshSeen
  <2>5. Put(p, r) => /\ StateOf(p)' = fate'[r]
                     /\ Attached(p)' <=> Attached(p)
                     /\ IsReady(p)' <=> IsReady(p)
    BY <1>1, <1>2, <1>5, <2>1, <2>2 DEF StateOf, Attached, IsReady, Has
  <2>s. Put(p, r) => (IsAsked(p)' <=> IsAsked(p))
    BY <1>2, <1>5, <1>s, <2>1, HereSeen
  <2>6. CASE call[t].pc = "undo"
    <3>1. StateOf(p) = "running"
      BY <2>1, <2>6 DEF StateOf, Runs, RunPc
    <3>2. Contract!GiveUp(p)
      BY <1>4, <1>8, <2>4, <2>6, <3>1 DEF Contract!GiveUp, SerialPod
    <3> QED
      BY <1>8, <3>2
  <2>7. CASE call[t].pc = "commit"
    <3>1. StateOf(p) = "running" /\ StateOf(p)' = "up"
      BY <1>4, <2>1, <2>5, <2>7 DEF StateOf, Runs, RunPc
    <3>2. MembersOf(p)' = MembersOf(p)
      BY <1>2, <1>4, <1>5, <2>1, <2>7 DEF MembersOf, Has
    <3>3. IsReady(p) \/ IsAsked(p) => Attached(p)
      <4>1. IsReady(p) \/ IsAsked(p) => Told(r)
        BY <2>1, HereSeen DEF IsReady, Told
      <4> QED
        BY <1>2, <2>1, <2>7, <4>1 DEF ContractInv, NetworkInv, Wired, Attached
    <3>4. Contract!Accept(p)
      BY <1>4, <1>6, <1>8, <2>5, <2>s, <2>7, <3>1, <3>2, <3>3, OnePodMoves, OnePodStays
         DEF Contract!Accept, SerialPod
    <3> QED
      BY <1>8, <3>4
  <2>8. CASE call[t].pc = "stopped"
    <3>1. StateOf(p) = "stopped" /\ StateOf(p)' = "stopped"
      BY <1>4, <2>1, <2>5, <2>8 DEF StateOf, Runs, RunPc
    <3>2. MembersOf(p)' = MembersOf(p)
      BY <1>2, <1>4, <1>5, <2>1, <2>8 DEF MembersOf, Has
    <3>3. Unseen(p)
      BY <1>4, <2>5, <2>s, <2>8, <3>1, <3>2 DEF Unseen
    <3> QED
      BY <1>6, <3>3
  <2>9. CASE call[t].pc = "drop"
    <3>1. StateOf(p) \in {"up", "stopped"}
      BY <2>1, <2>9 DEF StateOf, Runs, RunPc
    <3>2. Contract!Remove(p)
      BY <1>4, <1>8, <2>4, <2>9, <3>1 DEF Contract!Remove, SerialPod
    <3> QED
      BY <1>8, <3>2
  <2>10. CASE call[t].pc = "append"
    <3>1. StateOf(p) \in {"up", "stopped"} /\ StateOf(p) = fate[r]
      BY <2>1, <2>10 DEF StateOf, Runs, RunPc
    <3>2. CASE AppendCommit(t)
      <4>1. Put(p, r) /\ rec' = [rec EXCEPT ![r].containers = rec[r].containers \cup {call[t].c}]
        BY <1>2, <3>2 DEF AppendCommit
      <4>2. rec'[r].containers = rec[r].containers \cup {call[t].c}
        BY <1>1, <4>1 DEF KnownInv, TypeOK, SandboxMetadata
      <4>3. MembersOf(p)' = MembersOf(p) \cup {call[t].c}
        BY <1>2, <1>5, <2>1, <4>1, <4>2 DEF MembersOf, Has
      <4>4. StateOf(p)' = StateOf(p)
        BY <1>4, <2>5, <2>10, <3>1, <4>1
      <4>5. call[t].c \in Container
        BY <1>1, <2>10, Served
      <4>6. Contract!Add(p, call[t].c)
        BY <1>6, <1>8, <2>5, <2>s, <3>1, <4>1, <4>3, <4>4, OnePodMoves, OnePodStays
           DEF Contract!Add, SerialPod
      <4> QED
        BY <1>8, <4>5, <4>6
    <3>3. CASE ~AppendCommit(t)
      <4>1. UNCHANGED <<pool, rec, fate>>
        BY <2>10, <3>3 DEF Answer, RunUndo, RunCommit, StopCommit, RemoveCommit, AppendFail
      <4>2. Stopping(p)' <=> Stopping(p)
        BY <2>1, <2>2, <2>10
      <4>3. Unseen(p)
        BY <1>1, <1>s, <4>1, <4>2, QuietUnseen
      <4> QED
        BY <1>6, <4>3
    <3> QED
      BY <3>2, <3>3
  <2> QED
    BY <1>4, <2>6, <2>7, <2>8, <2>9, <2>10
<1> QED
  BY <1>7, <1>8

\* What a query has to do with a pod: the record it works on is under at most one
\* key, and a pod with no address is not going to be called READY anew.
LEMMA StatusBeginSeen ==
  ASSUME ContractInv, NEW t \in Caller, NEW p \in Pod, StatusBegin(t, p)
  PROVE  \A q \in SerialPod : Unseen(q)
<1>1. /\ KnownInv /\ call[t] = Idle /\ call'[t].pc = "asked"
      /\ \A u \in Caller \ {t} : call'[u] = call[u]
      /\ UNCHANGED <<pool, rec, net, fate>>
  BY StatusBeginFrame DEF ContractInv
<1>2. \A q : Stopping(q)' <=> Stopping(q)
  BY <1>1 DEF Stopping, Idle
<1>3. \A r : Seen(r)' <=> Seen(r)
  BY <1>1, SeenStays DEF Idle
<1> QED
  BY <1>1, <1>2, <1>3, QuietUnseen DEF SerialPod

\* The other steps of a query move at most the pod whose key leads to its record.
LEMMA QueryElsewhere ==
  ASSUME ContractInv, NEW t \in Caller, StatusRead(t) \/ StatusReady(t), NEW q \in Pod,
         pool[q] # call[t].rec
  PROVE  Unseen(q)
<1>1. /\ KnownInv /\ UNCHANGED <<pool, net, fate>>
      /\ call[t].pc \in QueryPc /\ call'[t].pc \in QueryPc
      /\ \A u \in Caller \ {t} : call'[u] = call[u]
  BY QueryFrame DEF ContractInv, Query
<1>2. \A p : Stopping(p)' <=> Stopping(p)
  BY <1>1 DEF Stopping, QueryPc
<1>3. \A r \in Record : r # call[t].rec => rec'[r] = rec[r]
  BY <1>1, StatusReadFrame, StatusReadyFrame
<1>4. call'[t] = Idle \/ call'[t].rec = call[t].rec
  BY <1>1, StatusReadFrame, StatusReadyFrame
<1>5. \A r \in Record : r # call[t].rec => (Seen(r)' <=> Seen(r))
  BY <1>1, <1>4 DEF Seen, Idle
<1> QED
  BY <1>1, <1>2, <1>3, <1>5, QuietUnseen

LEMMA StatusReadSeen ==
  ASSUME ContractInv, PodNetwork, NEW t \in Caller, StatusRead(t)
  PROVE  \/ \A q \in SerialPod : Unseen(q)
         \/ \E q \in SerialPod : Contract!Ask(q)
<1>1. /\ KnownInv /\ SerialInv /\ NetworkInv
      /\ call[t].pc = "asked" /\ call[t].rec \in Record
      /\ \/ call'[t] = Idle
         \/ /\ call'[t].pc = "seen" /\ call'[t].rec = call[t].rec
            /\ rec[call[t].rec].ip
      /\ \A u \in Caller \ {t} : call'[u] = call[u]
      /\ UNCHANGED <<pool, rec, net, fate>>
  BY StatusReadFrame DEF ContractInv
<1>2. \A q : Stopping(q)' <=> Stopping(q)
  BY <1>1 DEF Stopping, Idle
<1>3. CASE call'[t] = Idle
  <2>1. \A r : Seen(r)' <=> Seen(r)
    BY <1>1, <1>3, SeenStays DEF Idle
  <2> QED
    BY <1>1, <1>2, <2>1, QuietUnseen DEF SerialPod
<1>4. CASE \A q \in SerialPod : pool[q] # call[t].rec
  BY <1>4, QueryElsewhere DEF SerialPod
<1>5. ASSUME call'[t] # Idle, NEW p \in SerialPod, pool[p] = call[t].rec
      PROVE  Contract!Ask(p)
  <2>1. PICK r \in Record : r = call[t].rec
    BY <1>1
  <2>2. /\ pool[p] = r /\ r # Nobody /\ rec[r].ip /\ rec[r].pod = p /\ Has(p)
    BY <1>1, <1>5, <2>1, NameAssumption DEF KnownInv, PoolIsKnown, SerialPod, Has
  <2>3. Alone(p)
    BY <1>1 DEF SerialInv, SerialPod
  <2>4. ~Stopping(p) /\ fate[r] \in {"running", "up"}
    BY <2>2, <2>3 DEF Alone, Stopping, Accepted
  <2>5. StateOf(p) = fate[r] /\ StateOf(p)' = StateOf(p)
    BY <1>1, <1>2, <2>2, <2>4 DEF StateOf, Has
  <2>6. StateOf(p) = "up" => Attached(p)
    BY <1>1, <2>2, <2>5 DEF NetworkInv, Told, Wired, Attached
  <2>7. /\ IsReady(p)' <=> IsReady(p)
        /\ Attached(p)' <=> Attached(p)
        /\ MembersOf(p)' = MembersOf(p)
    BY <1>1 DEF IsReady, Attached, MembersOf, Has
  <2>8. Seen(r)'
    BY <1>1, <1>5, <2>1 DEF Seen
  <2>9. IsAsked(p)'
    BY <1>1, <2>2, <2>8, HereSeen
  <2>10. \A q \in SerialPod \ {p} : Unseen(q)
    <3> SUFFICES ASSUME NEW q \in SerialPod, q # p PROVE Unseen(q)
      OBVIOUS
    <3>1. q \in Pod /\ pool[q] # call[t].rec
      BY <1>1, <1>5, <2>2 DEF KnownInv, PoolIsKnown, SerialPod
    <3> QED
      BY <3>1, QueryElsewhere
  <2> QED
    BY <2>4, <2>5, <2>6, <2>7, <2>9, <2>10, OnePodMoves, OnePodStays
       DEF Contract!Ask, SerialPod
<1> QED
  BY <1>3, <1>4, <1>5

LEMMA StatusReadySeen ==
  ASSUME ContractInv, NEW t \in Caller, StatusReady(t)
  PROVE  \/ \A q \in SerialPod : Unseen(q)
         \/ \E q \in SerialPod : Contract!Report(q)
<1>1. /\ KnownInv
      /\ call[t].pc = "seen" /\ call[t].rec \in Record /\ call'[t] = Idle
      /\ \A u \in Caller \ {t} : call'[u] = call[u]
      /\ rec'[call[t].rec].ready
      /\ rec'[call[t].rec].containers = rec[call[t].rec].containers
      /\ UNCHANGED <<pool, net, fate>>
  BY StatusReadyFrame DEF ContractInv
<1>2. \A q : Stopping(q)' <=> Stopping(q)
  BY <1>1 DEF Stopping, Idle
<1>3. CASE \A q \in SerialPod : pool[q] # call[t].rec
  BY <1>3, QueryElsewhere DEF SerialPod
<1>4. ASSUME NEW p \in SerialPod, pool[p] = call[t].rec
      PROVE  Contract!Report(p)
  <2>1. PICK r \in Record : r = call[t].rec
    BY <1>1
  <2>2. pool[p] = r /\ r # Nobody /\ rec[r].pod = p /\ Has(p)
    BY <1>1, <1>4, <2>1, NameAssumption DEF KnownInv, PoolIsKnown, SerialPod, Has
  <2>3. IsAsked(p)
    <3>1. Seen(r)
      BY <1>1, <2>1 DEF Seen
    <3> QED
      BY <2>2, <3>1, HereSeen
  <2>4. /\ StateOf(p)' = StateOf(p)
        /\ Attached(p)' <=> Attached(p)
        /\ IsReady(p)'
        /\ MembersOf(p)' = MembersOf(p)
    BY <1>1, <1>2, <2>1, <2>2 DEF StateOf, Attached, IsReady, MembersOf, Has
  <2>5. \A q \in SerialPod \ {p} : Unseen(q)
    <3> SUFFICES ASSUME NEW q \in SerialPod, q # p PROVE Unseen(q)
      OBVIOUS
    <3>1. q \in Pod /\ pool[q] # call[t].rec
      BY <1>1, <1>4, <2>2 DEF KnownInv, PoolIsKnown, SerialPod
    <3> QED
      BY <3>1, QueryElsewhere
  <2>6. /\ [q \in SerialPod |-> StateOf(q)'] = [q \in SerialPod |-> StateOf(q)]
        /\ {q \in SerialPod : Attached(q)'} = {q \in SerialPod : Attached(q)}
        /\ {q \in SerialPod : IsReady(q)'} = {q \in SerialPod : IsReady(q)} \cup {p}
        /\ [q \in SerialPod |-> MembersOf(q)'] = [q \in SerialPod |-> MembersOf(q)]
    BY <2>4, <2>5, OnePodMoves, OnePodStays
  <2>7. {q \in SerialPod : IsAsked(q)'} \in {{q \in SerialPod : IsAsked(q)},
                                              {q \in SerialPod : IsAsked(q)} \ {p}}
    <3>1. CASE IsAsked(p)'
      BY <2>3, <2>5, <3>1, OnePodStays
    <3>2. CASE ~IsAsked(p)'
      BY <2>5, <3>2, OnePodMoves
    <3> QED
      BY <3>1, <3>2
  <2> QED
    BY <2>3, <2>6, <2>7 DEF Contract!Report, SerialPod
<1> QED
  BY <1>3, <1>4

LEMMA RestartSeen ==
  ASSUME ContractInv, Restart
  PROVE  Contract!LoseAll
<1>1. \A p \in Pod : pool'[p] = Nobody
  BY RestartFrame DEF ContractInv
<1>2. \A p \in SerialPod : /\ StateOf(p)' = "none" /\ ~Attached(p)' /\ ~IsReady(p)'
                           /\ ~IsAsked(p)' /\ MembersOf(p)' = {}
  BY <1>1 DEF StateOf, Attached, IsReady, IsAsked, MembersOf, Has, SerialPod
<1> QED
  BY <1>2 DEF Contract!LoseAll, SerialPod

\* A removal or a CreateContainer that comes in does not show.
LEMMA BeginSeen ==
  ASSUME ContractInv, NEW t \in Caller, NEW p \in Pod,
         RemoveBegin(t, p) \/ \E c \in Container : AppendBegin(t, p, c)
  PROVE  \A q \in SerialPod : Unseen(q)
<1>1. KnownInv
  BY DEF ContractInv
<1>2. PICK s \in {"drop", "append"}, c \in Container \cup {Nobody} :
        Beginning(t, p, s, c) /\ UNCHANGED <<pool, rec, net, fate>>
  BY <1>1, RemoveBeginFrame, AppendBeginFrame
<1>3. /\ call[t] = Idle /\ call'[t].pc = s
      /\ \A u \in Caller \ {t} : call'[u] = call[u]
  BY <1>1, <1>2, BeginFrame DEF Beginning, KnownInv, Pc
<1>4. \A q : Stopping(q)' <=> Stopping(q)
  BY <1>3 DEF Stopping, Idle
<1>5. \A r : Seen(r)' <=> Seen(r)
  BY <1>3, SeenStays DEF Idle
<1> QED
  BY <1>1, <1>2, <1>4, <1>5, QuietUnseen DEF SerialPod

LEMMA ContractSimulation ==
  ASSUME ContractInv, PodNetwork, [Next]_vars
  PROVE  [Contract!Next]_(Contract!sandboxVars)
<1>1. ASSUME \A q \in SerialPod : Unseen(q)
      PROVE  [Contract!Next]_(Contract!sandboxVars)
  BY <1>1, NonePodMoves
<1>2. ASSUME \E q \in SerialPod :
               \/ Contract!Run(q) \/ Contract!Wire(q) \/ Contract!Accept(q)
               \/ Contract!GiveUp(q) \/ Contract!Ask(q) \/ Contract!Report(q)
               \/ Contract!Down(q) \/ Contract!Stop(q)
               \/ Contract!Remove(q) \/ \E c \in Container : Contract!Add(q, c)
      PROVE  Contract!Next
  BY <1>2 DEF Contract!Next, SerialPod
<1>3. CASE \E t \in Caller : SetUp(t)
  BY <1>1, <1>2, <1>3, SetUpSeen
<1>4. CASE \E t \in Caller : Answer(t)
  BY <1>1, <1>2, <1>4, AnswerSeen
<1>5. CASE \E t \in Caller, p \in Pod, r \in Record : RunBegun(t, p, r)
  BY <1>1, <1>2, <1>5, RunBeginSeen
<1>6. CASE \E t \in Caller, p \in Pod : StopBegin(t, p)
  BY <1>1, <1>2, <1>6, StopBeginSeen
<1>7. CASE \/ \E t \in Caller, p \in Pod : RemoveBegin(t, p)
           \/ \E t \in Caller, p \in Pod, c \in Container : AppendBegin(t, p, c)
  BY <1>1, <1>7, BeginSeen
<1>11. CASE \E t \in Caller : StopClear(t)
  BY <1>1, <1>2, <1>11, StopClearSeen
<1>8. CASE \E t \in Caller : Query(t)
  BY <1>1, <1>2, <1>8, StatusBeginSeen, StatusReadSeen, StatusReadySeen DEF Query
<1>9. CASE Restart
  BY <1>9, RestartSeen DEF Contract!Next
<1>10. CASE UNCHANGED vars
  <2>1. \A q \in SerialPod : Unseen(q)
    BY <1>10 DEF vars, Unseen, StateOf, Stopping, Attached, IsReady, IsAsked, Seen,
                 MembersOf, Has
  <2> QED
    BY <1>1, <2>1
<1> QED
  BY <1>3, <1>4, <1>5, <1>6, <1>7, <1>8, <1>9, <1>10, <1>11, StepIs

LEMMA NextBare ==
  ASSUME KnownInv, UnusedIsBare, [Next]_vars
  PROVE  UnusedIsBare'
<1> SUFFICES ASSUME NEW r \in Record, fate'[r] = "unused" PROVE net'[r] = {}
  BY DEF UnusedIsBare
<1>1. CASE \E t \in Caller : SetUp(t)
  <2>1. PICK t \in Caller : SetUp(t)
    BY <1>1
  <2>2. /\ Runs(t) /\ fate' = fate
        /\ \A q \in Record \ {call[t].rec} : net'[q] = net[q]
    BY <2>1, SetUpFrame
  <2>3. fate[call[t].rec] # "unused"
    BY <2>2, Served DEF Runs, RunPc
  <2> QED
    BY <2>2, <2>3 DEF UnusedIsBare
<1>2. CASE \E t \in Caller : Answer(t)
  <2>1. UNCHANGED net /\ fate[r] = "unused"
    BY <1>2, AnswerFrame DEF Answering
  <2> QED
    BY <2>1 DEF UnusedIsBare
<1>3. CASE \E t \in Caller, p \in Pod, q \in Record : RunBegun(t, p, q)
  <2>1. UNCHANGED net /\ fate[r] = "unused"
    BY <1>3, RunBeginFrame
  <2> QED
    BY <2>1 DEF UnusedIsBare
<1>4. CASE \/ \E t \in Caller, p \in Pod : StopBegin(t, p) \/ RemoveBegin(t, p)
           \/ \E t \in Caller, p \in Pod, c \in Container : AppendBegin(t, p, c)
           \/ \E t \in Caller : StopClear(t) \/ Query(t)
           \/ UNCHANGED vars
  BY <1>4 DEF StopBegin, RemoveBegin, AppendBegin, StopClear, Query, StatusBegin,
              StatusRead, StatusReady, vars, UnusedIsBare
<1>5. CASE Restart
  <2>1. UNCHANGED net /\ fate[r] = "unused"
    BY <1>5, RestartFrame
  <2> QED
    BY <2>1 DEF UnusedIsBare
<1> QED
  BY <1>1, <1>2, <1>3, <1>4, <1>5, StepIs

\* With a network plugin, and for the pods that have one call at a time beside any
\* number of status queries, whose steps fall between those of the calls, every step
\* of the service is one of SandboxContract or does not show there, whatever the
\* calls on other pods do, whatever step of a set-up fails, and whenever the server
\* dies.
THEOREM KeepsSandboxContractCorrect ==
  ASSUME PodNetwork
  PROVE  Spec => KeepsSandboxContract
<1>1. Init => ContractInv
  BY InitKnown, InitSerial, InitNetwork
     DEF Init, ContractInv, UnusedIsBare
<1>2. ContractInv /\ [Next]_vars => ContractInv'
  BY NextKnown, NextSerial, NextNetwork, NextBare DEF ContractInv
<1>3. Init => Contract!Init
  <2> SUFFICES ASSUME Init PROVE Contract!Init
    OBVIOUS
  <2>1. \A p \in SerialPod : /\ StateOf(p) = "none" /\ ~Attached(p) /\ ~IsReady(p)
                             /\ ~IsAsked(p) /\ MembersOf(p) = {}
    BY DEF Init, StateOf, Attached, IsReady, IsAsked, MembersOf, Has, SerialPod
  <2> QED
    BY <2>1 DEF Contract!Init, SerialPod
<1>4. ContractInv /\ [Next]_vars => [Contract!Next]_(Contract!sandboxVars)
  BY ContractSimulation
<1> QED
  BY <1>1, <1>2, <1>3, <1>4, PTL DEF Spec, KeepsSandboxContract, Contract!Spec
=============================================================================
