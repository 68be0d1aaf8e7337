----------------------- MODULE PodSandboxServiceProps -----------------------
(* What the sandbox half of the service promises. *)
EXTENDS PodSandboxService

\* Every variable keeps its type.
TypeOK ==
  /\ pool \in [Pod -> Record \cup {Nobody}]
  /\ rec  \in [Record -> SandboxMetadata]
  /\ file \in [Pod -> SandboxMetadata]
  /\ net  \in [Record -> SUBSET Resource]
  /\ etc  \in BOOLEAN
  /\ call \in [Caller -> Call]
  /\ fate \in [Record -> Fate]

\* A request that has written record r, or its network, and not yet the store.
Writing(r) ==
  \E t \in Caller :
    call[t].rec = r /\ call[t].pc \in {"files", "commit", "undo", "stopping", "stopped"}

\* The cache file holds the sandboxes of the pool and no others, and is behind
\* the pool only in the READY that PodSandboxStatus sets in memory, or while the
\* request that wrote the record is being served (store/sandbox.go:65-93).
FileFollowsPool ==
  Persistence =>
    \A p \in Pod :
      /\ pool[p] = Nobody <=> file[p] = Blank
      /\ (pool[p] # Nobody /\ ~Writing(pool[p])) =>
           /\ file[p] = [rec[pool[p]] EXCEPT !.ready = file[p].ready]
           /\ file[p].ready => rec[pool[p]].ready

\* A RunPodSandbox that failed, at whatever step of the set-up, has called Remove
\* on the namespace it made, and TearDownPod on the attachment if it had got as
\* far as the address: what is left of either is only what those calls, whose
\* errors are logged, could not take down (the deferred calls of
\* setupPodNetwork).  An attachment made before GetPodNetworkStatus failed stays.
FailedRunCleansUp ==
  \A r \in Record :
    fate[r] = "failed" =>
      /\ "namespace" \notin net[r]
      /\ rec[r].ip => "attachment" \notin net[r]

\* The record of a pod that has one call at a time, as the kubelet's pod worker
\* makes them.
Serial(r) == rec[r].pod \in Pod \ Overlap

\* For such a pod the pool holds exactly the sandboxes that are being set up,
\* run or are stopped: none that was accepted has disappeared, and no removed,
\* failed or replaced one has come back through a late Update.
PoolHoldsAccepted ==
  \A r \in Record :
    Serial(r) =>
      (pool[rec[r].pod] = r <=> fate[r] \in {"running", "up", "stopped"})

\* A status query is under way that has read the record's address and will call
\* the record READY.
Seen(r) == \E t \in Caller : call[t].rec = r /\ call[t].pc = "seen"

\* Only a status query that had read the address before StopPodSandbox cleared it
\* makes a stopped sandbox READY again.  Once none of those is left, no later
\* query will, however often the kubelet asks, and RemovePodSandbox, which
\* refuses what is READY, is not kept out again.
StoppedStaysDown ==
  [][\A r \in Record :
       (Serial(r) /\ fate[r] = "stopped" /\ ~Seen(r)) =>
         ~Seen(r)' /\ (rec'[r].ready => rec[r].ready)]_vars

\* An accepted sandbox is called READY only when the plugin's SetUpPod has worked
\* for it (PodSandboxStatus goes by the address, sandbox.go:165-167).
ReadyIsAttached ==
  \A r \in Record :
    (fate[r] = "up" /\ rec[r].ready) => "attachment" \in net[r]

\* What the contract sees of a pod: StopPodSandbox counts from the write that
\* clears the address, and everything else is what the record under the pod's key
\* and the queries that have read its address say.
Has(p)      == pool[p] # Nobody
Stopping(p) == \E t \in Caller : call[t].pod = p /\ call[t].pc = "stopped"

StateOf(p) ==
  IF ~Has(p) THEN "none"
  ELSE IF Stopping(p) THEN "stopped" ELSE fate[pool[p]]
Attached(p)  == Has(p) /\ "attachment" \in net[pool[p]]
IsReady(p)   == Has(p) /\ rec[pool[p]].ready
IsAsked(p)   == Has(p) /\ Seen(pool[p])
MembersOf(p) == IF Has(p) THEN rec[pool[p]].containers ELSE {}

Contract == INSTANCE SandboxContract
  WITH Pod      <- Pod \ Overlap,
       state    <- [p \in Pod \ Overlap |-> StateOf(p)],
       attached <- {p \in Pod \ Overlap : Attached(p)},
       ready    <- {p \in Pod \ Overlap : IsReady(p)},
       asked    <- {p \in Pod \ Overlap : IsAsked(p)},
       members  <- [p \in Pod \ Overlap |-> MembersOf(p)]

\* With a network plugin, and for the pods that have one call at a time beside
\* any number of status queries, the handlers of sandbox.go, the deferred
\* clean-ups, the late Updates of CreateContainer and the restarts keep the
\* contract of a sandbox, whatever the calls on other pods do.
KeepsSandboxContract == Contract!Spec

-----------------------------------------------------------------------------
(* What the repository says and the code does not do. *)

\* "netPlugin is used to setup and teardown network when run/stop pod sandbox"
\* (runtime/service.go:72): a stopped sandbox holds no network.
StoppedIsTornDown ==
  \A r \in Record : fate[r] = "stopped" => net[r] = {}

\* "Pod and container metadata can be persistent in disk" (README.md:28): with
\* the cache file on, death of the server loses no accepted sandbox.
PersistedSurvives ==
  Persistence => \A r \in Record : fate[r] # "lost"
=============================================================================
