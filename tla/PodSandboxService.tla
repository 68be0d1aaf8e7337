-------------------------- MODULE PodSandboxService --------------------------
(***************************************************************************)
(* The sandbox half of the CRI service: RunPodSandbox, StopPodSandbox,     *)
(* RemovePodSandbox and PodSandboxStatus of runtime/sandbox.go with the    *)
(* network set-up they drive, the part of CreateContainer that writes the  *)
(* sandbox, the sandbox store, its cache file and what a restarted server  *)
(* loads from it.                                                          *)
(*                                                                         *)
(* A sandbox's identifier is the UID of its pod, so a second RunPodSandbox *)
(* for a pod replaces the first one's record in the pool under the same    *)
(* key, while handlers that fetched the first record go on writing it.     *)
(* Records are therefore objects of their own, and the pool maps pods to   *)
(* objects.                                                                *)
(*                                                                         *)
(* The Slurm adapter's sandbox calls return nil and change nothing         *)
(* (adapters/slurm/sandbox.go), so they do not appear.  Sandboxes of       *)
(* another CRI, whose network is not this service's, are not covered.      *)
(***************************************************************************)
CONSTANTS
  Pod,           \* pod UIDs
  Record,        \* sandbox records: one per RunPodSandbox, bounds their number
  Container,     \* container identifiers
  Caller,        \* slots for requests being served at the same time
  Nobody,        \* no pod, no record, no container
  HostNetwork,   \* the pods that ask for the host's network
  PodNetwork,    \* --enable-pod-network: netPlugin is set
  Persistence,   \* --enable-pod-persistence
  Overlap,       \* the pods whose calls may overlap
  NetMayFail,    \* a step of the network set-up may fail
  MayCrash       \* the server may die at any time

ASSUME NameAssumption ==
  /\ Nobody \notin Pod \cup Record \cup Container
  /\ HostNetwork \subseteq Pod
  /\ Overlap \subseteq Pod

ASSUME SwitchAssumption ==
  {PodNetwork, Persistence, NetMayFail, MayCrash} \subseteq BOOLEAN

VARIABLES
  pool,    \* SandboxPool: the record under each pod's key
  rec,     \* the records the pointers lead to
  file,    \* the cache file
  net,     \* what the kernel and the CNI plugin hold for each record
  etc,     \* the hosts and resolv.conf files under /etc/netns
  call,    \* the requests being served
  fate     \* history: how the RunPodSandbox of each record went, and after

vars == <<pool, rec, file, net, etc, call, fate>>

-----------------------------------------------------------------------------
\* nspath: NetNSPath # "".  No code assigns it.
SandboxMetadata == [pod : Pod \cup {Nobody}, ready : BOOLEAN, ip : BOOLEAN,
                    nspath : BOOLEAN, containers : SUBSET Container]
\* What a failed clean-up leaves has a name of its own: a namespace that Remove
\* could not delete is "stuck", an attachment that TearDownPod could not undo
\* "dangling".
Resource == {"namespace", "attachment", "stuck", "dangling"}
Fate     == {"unused", "running", "failed", "cut", "up", "stopped", "removed",
             "replaced", "lost"}
Pc       == {"idle", "namespace", "attach", "address", "files", "commit", "undo",
             "stopping", "stopped", "drop", "append", "asked", "seen"}
\* A status query works on the record alone and has no pod.
Call     == [pc : Pc, pod : Pod \cup {Nobody}, rec : Record \cup {Nobody},
             c : Container \cup {Nobody}]

Blank == [pod |-> Nobody, ready |-> FALSE, ip |-> FALSE, nspath |-> FALSE,
          containers |-> {}]
Idle  == [pc |-> "idle", pod |-> Nobody, rec |-> Nobody, c |-> Nobody]

Init ==
  /\ pool = [p \in Pod |-> Nobody]
  /\ rec  = [r \in Record |-> Blank]
  /\ file = [p \in Pod |-> Blank]
  /\ net  = [r \in Record |-> {}]
  /\ etc  = FALSE
  /\ call = [t \in Caller |-> Idle]
  /\ fate = [r \in Record |-> "unused"]

-----------------------------------------------------------------------------
(* The store.  A pod without an entry in the file has Blank there. *)

MayBegin(t, p) ==
  /\ call[t] = Idle
  /\ p \in Overlap \/ \A u \in Caller : call[u].pod # p

Put(p, r) ==
  /\ pool' = [pool EXCEPT ![p] = r]
  /\ file' = IF Persistence THEN [file EXCEPT ![p] = rec'[r]] ELSE file

\* Mutant: the entry of the file survives.
DeleteFromPoolOnly(p) ==
  /\ pool' = [pool EXCEPT ![p] = Nobody]
  /\ UNCHANGED file

Delete(p) ==
  /\ pool' = [pool EXCEPT ![p] = Nobody]
  /\ file' = IF Persistence THEN [file EXCEPT ![p] = Blank] ELSE file

GoTo(t, pc) == call' = [call EXCEPT ![t].pc = pc]
Return(t)   == call' = [call EXCEPT ![t] = Idle]
Marked(r, f) == fate' = [fate EXCEPT ![r] = f]

-----------------------------------------------------------------------------
(* RunPodSandbox *)

\* setupPodNetwork runs when there is a plugin; a pod on the host's network
\* gets neither namespace nor address, only the files.
FirstStep(p) ==
  IF ~PodNetwork THEN "commit"
  ELSE IF p \in HostNetwork THEN "files" ELSE "namespace"

\* A NOTREADY record under the pod's UID, in the pool and the file from now on.
CreateSandboxMetadata(p, r) ==
  /\ rec' = [rec EXCEPT ![r] = [Blank EXCEPT !.pod = p]]
  /\ Put(p, r)

RunBegin(t, p) ==
  /\ MayBegin(t, p)
  /\ \E r \in Record :
       /\ fate[r] = "unused"
       /\ CreateSandboxMetadata(p, r)
       /\ call' = [call EXCEPT ![t] = [Idle EXCEPT !.pc = FirstStep(p),
                                                  !.pod = p, !.rec = r]]
       /\ fate' = [q \in Record |-> CASE q = r       -> "running"
                                      [] q = pool[p] -> "replaced"
                                      [] OTHER       -> fate[q]]
  /\ UNCHANGED <<net, etc>>

\* OpenNetNamespace("").
RunNamespace(t) ==
  /\ call[t].pc = "namespace"
  /\ net' = [net EXCEPT ![call[t].rec] = {"namespace"}]
  /\ GoTo(t, "attach")
  /\ UNCHANGED <<pool, rec, file, etc, fate>>

\* SetUpPod, which is given NetNSPath and not the path of the namespace just made.
\* An attachment is a SetUpPod that worked.
RunAttach(t) ==
  /\ call[t].pc = "attach"
  /\ net' = [net EXCEPT ![call[t].rec] = @ \cup {"attachment"}]
  /\ GoTo(t, "address")
  /\ UNCHANGED <<pool, rec, file, etc, fate>>

\* netNS.Remove and TearDownPod in the deferred functions: an error of theirs is
\* logged, and what it could not take down stays.
TakenDown(held, thing, remains) ==
  IF thing \in held
    THEN {held \ {thing}, (held \ {thing}) \cup {remains}} ELSE {held}
NamespaceRemoved(held) == TakenDown(held, "namespace", "stuck")
TornDown(held)         == TakenDown(held, "attachment", "dangling")

\* Mutant: the error is not returned.
RunAttachFailIgnored(t) ==
  /\ NetMayFail
  /\ call[t].pc = "attach"
  /\ GoTo(t, "address")
  /\ UNCHANGED <<pool, rec, file, net, etc, fate>>

\* SetUpPod failed: the deferred function removes the namespace.
RunAttachFail(t) ==
  /\ NetMayFail
  /\ call[t].pc = "attach"
  /\ \E held \in NamespaceRemoved(net[call[t].rec]) :
       net' = [net EXCEPT ![call[t].rec] = held]
  /\ GoTo(t, "undo")
  /\ UNCHANGED <<pool, rec, file, etc, fate>>

\* GetPodNetworkStatus.
RunAddress(t) ==
  /\ call[t].pc = "address"
  /\ rec' = [rec EXCEPT ![call[t].rec].ip = TRUE]
  /\ GoTo(t, "files")
  /\ UNCHANGED <<pool, file, net, etc, fate>>

\* It failed: the namespace is removed, but TearDownPod is deferred only after
\* this point, so the attachment stays.
RunAddressFail(t) ==
  /\ NetMayFail
  /\ call[t].pc = "address"
  /\ \E held \in NamespaceRemoved(net[call[t].rec]) :
       net' = [net EXCEPT ![call[t].rec] = held]
  /\ GoTo(t, "undo")
  /\ UNCHANGED <<pool, rec, file, etc, fate>>

\* MkdirAll and setupNetSandboxFiles.  NetNSPath is never assigned, so the
\* directory is /etc/netns itself, the same for every sandbox.
RunFiles(t) ==
  /\ call[t].pc = "files"
  /\ etc' = TRUE
  /\ GoTo(t, "commit")
  /\ UNCHANGED <<pool, rec, file, net, fate>>

\* Mutant: TearDownPod is not deferred.
RunFilesFailKeepsAttachment(t) ==
  /\ NetMayFail
  /\ call[t].pc = "files"
  /\ etc' \in {etc, FALSE}
  /\ \E held \in NamespaceRemoved(net[call[t].rec]) :
       net' = [net EXCEPT ![call[t].rec] = held]
  /\ GoTo(t, "undo")
  /\ UNCHANGED <<pool, rec, file, fate>>

\* One of them failed: attachment and namespace are taken down, and once the
\* directory had been made, RemoveAll takes the files of every other sandbox.
RunFilesFail(t) ==
  /\ NetMayFail
  /\ call[t].pc = "files"
  /\ etc' \in {etc, FALSE}
  /\ \E left \in TornDown(net[call[t].rec]) :
       \E held \in NamespaceRemoved(left) :
         net' = [net EXCEPT ![call[t].rec] = held]
  /\ GoTo(t, "undo")
  /\ UNCHANGED <<pool, rec, file, fate>>

\* Mutant: the record of a failed set-up stays.
RunUndoKeepsRecord(t) ==
  /\ call[t].pc = "undo"
  /\ Marked(call[t].rec, "failed")
  /\ Return(t)
  /\ UNCHANGED <<pool, file, rec, net, etc>>

\* The deferred sandboxStore.Remove(sandbox.ID): whatever record is under the
\* pod's key by now.
RunUndo(t) ==
  /\ call[t].pc = "undo"
  /\ Delete(call[t].pod)
  /\ Marked(call[t].rec, "failed")
  /\ Return(t)
  /\ UNCHANGED <<rec, net, etc>>

\* sandboxStore.Update(sandbox) and the answer.
RunCommit(t) ==
  /\ call[t].pc = "commit"
  /\ UNCHANGED <<rec, net, etc>>
  /\ Put(call[t].pod, call[t].rec)
  /\ Marked(call[t].rec, "up")
  /\ Return(t)

-----------------------------------------------------------------------------
(* StopPodSandbox, RemovePodSandbox, PodSandboxStatus *)

\* The record is fetched and called NOTREADY.  tearDownNetwork is guarded by
\* NetNSPath # "", which never holds.
StopBegin(t, p) ==
  /\ MayBegin(t, p)
  /\ pool[p] # Nobody
  /\ rec' = [rec EXCEPT ![pool[p]].ready = FALSE]
  /\ call' = [call EXCEPT ![t] = [Idle EXCEPT !.pc = "stopping", !.pod = p,
                                             !.rec = pool[p]]]
  /\ UNCHANGED <<pool, file, net, etc, fate>>

\* Mutant: the address is not cleared.
StopClearKeepsAddress(t) ==
  /\ call[t].pc = "stopping"
  /\ GoTo(t, "stopped")
  /\ UNCHANGED <<pool, rec, file, net, etc, fate>>

\* The address is cleared, in a write of its own.
StopClear(t) ==
  /\ call[t].pc = "stopping"
  /\ rec' = [rec EXCEPT ![call[t].rec].ip = FALSE]
  /\ GoTo(t, "stopped")
  /\ UNCHANGED <<pool, file, net, etc, fate>>

\* sandboxStore.Update(sandbox), of the record fetched before.
StopCommit(t) ==
  /\ call[t].pc = "stopped"
  /\ UNCHANGED <<rec, net, etc>>
  /\ Put(call[t].pod, call[t].rec)
  /\ IF fate[call[t].rec] = "up" THEN Marked(call[t].rec, "stopped") ELSE UNCHANGED fate
  /\ Return(t)

\* A READY sandbox is refused.
RemoveBegin(t, p) ==
  /\ MayBegin(t, p)
  /\ pool[p] # Nobody
  /\ ~rec[pool[p]].ready
  /\ call' = [call EXCEPT ![t] = [Idle EXCEPT !.pc = "drop", !.pod = p,
                                             !.rec = pool[p]]]
  /\ UNCHANGED <<pool, rec, file, net, etc, fate>>

RemoveCommit(t) ==
  /\ call[t].pc = "drop"
  /\ Delete(call[t].pod)
  /\ IF fate[call[t].rec] \in {"up", "stopped"}
       THEN Marked(call[t].rec, "removed") ELSE UNCHANGED fate
  /\ Return(t)
  /\ UNCHANGED <<rec, net, etc>>

\* The kubelet's periodic listing asks at any time, also while a call of the
\* pod's worker is being served: a query does not count as a call of the pod.
StatusBegin(t, p) ==
  /\ call[t] = Idle
  /\ pool[p] # Nobody
  /\ call' = [call EXCEPT ![t] = [Idle EXCEPT !.pc = "asked", !.rec = pool[p]]]
  /\ UNCHANGED <<pool, rec, file, net, etc, fate>>

\* An address, or the absence of a network plugin, decides for READY.
StatusRead(t) ==
  /\ call[t].pc = "asked"
  /\ IF rec[call[t].rec].ip \/ ~PodNetwork THEN GoTo(t, "seen") ELSE Return(t)
  /\ UNCHANGED <<pool, rec, file, net, etc, fate>>

\* The record is called READY, in memory only, whatever was written to it since
\* the address was read.
StatusReady(t) ==
  /\ call[t].pc = "seen"
  /\ rec' = [rec EXCEPT ![call[t].rec].ready = TRUE]
  /\ Return(t)
  /\ UNCHANGED <<pool, file, net, etc, fate>>

-----------------------------------------------------------------------------
(* CreateContainer, as far as it concerns the sandbox: the record is fetched *)
(* first, the adapter pulls an image meanwhile, and the record is put back.  *)

Used == UNION {rec[r].containers : r \in Record} \cup {call[t].c : t \in Caller}

AppendBegin(t, p, c) ==
  /\ MayBegin(t, p)
  /\ pool[p] # Nobody
  /\ fate[pool[p]] # "running"   \* the kubelet waits for RunPodSandbox
  /\ c \notin Used
  /\ call' = [call EXCEPT ![t] = [pc |-> "append", pod |-> p, rec |-> pool[p], c |-> c]]
  /\ UNCHANGED <<pool, rec, file, net, etc, fate>>

AppendFail(t) ==
  /\ call[t].pc = "append"
  /\ Return(t)
  /\ UNCHANGED <<pool, rec, file, net, etc, fate>>

\* Mutant: the sandbox gets an identifier that is not set yet.
AppendCommitUnset(t) ==
  /\ call[t].pc = "append"
  /\ rec' = [rec EXCEPT ![call[t].rec].containers = @ \cup {Nobody}]
  /\ Put(call[t].pod, call[t].rec)
  /\ Return(t)
  /\ UNCHANGED <<net, etc, fate>>

AppendCommit(t) ==
  /\ call[t].pc = "append"
  /\ rec' = [rec EXCEPT ![call[t].rec].containers = @ \cup {call[t].c}]
  /\ Put(call[t].pod, call[t].rec)
  /\ Return(t)
  /\ UNCHANGED <<net, etc, fate>>

-----------------------------------------------------------------------------
(* The process *)

\* LoadAll keeps a sandbox whose NetNSPath is set and whose state is READY, and
\* deletes the others from the file.
Loaded(p) == file[p].nspath /\ file[p].ready

Restart ==
  /\ pool' = [p \in Pod |-> IF Loaded(p) THEN pool[p] ELSE Nobody]
  /\ file' = [p \in Pod |-> IF Loaded(p) THEN file[p] ELSE Blank]
  /\ call' = [t \in Caller |-> Idle]
  /\ fate' = [r \in Record |->
       CASE fate[r] = "running"                            -> "cut"
         [] fate[r] \in {"up", "stopped"} /\ r \notin {pool'[p] : p \in Pod} -> "lost"
         [] OTHER                                          -> fate[r]]
  /\ UNCHANGED <<rec, net, etc>>

Crash == MayCrash /\ Restart

\* CreateNetNS's error is dropped and GetPath dereferences the missing handle.
PanicNamespace(t) ==
  /\ NetMayFail
  /\ call[t].pc = "namespace"
  /\ Restart

-----------------------------------------------------------------------------
CallStep(t) ==
  \/ RunNamespace(t) \/ RunAttach(t) \/ RunAttachFail(t)
  \/ RunAddress(t) \/ RunAddressFail(t) \/ RunFiles(t) \/ RunFilesFail(t)
  \/ RunUndo(t) \/ RunCommit(t) \/ PanicNamespace(t)
  \/ StopClear(t) \/ StopCommit(t) \/ RemoveCommit(t)
  \/ StatusRead(t) \/ StatusReady(t) \/ AppendFail(t) \/ AppendCommit(t)

CallBegin(t, p) ==
  \/ RunBegin(t, p) \/ StopBegin(t, p) \/ RemoveBegin(t, p) \/ StatusBegin(t, p)
  \/ \E c \in Container : AppendBegin(t, p, c)

Next ==
  \/ \E t \in Caller : CallStep(t)
  \/ \E t \in Caller, p \in Pod : CallBegin(t, p)
  \/ Crash

Spec == Init /\ [][Next]_vars
=============================================================================
