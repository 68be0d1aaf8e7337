# multi-cri: TLA+ models and proofs

multi-cri is a Kubernetes CRI service (gRPC) that runs the containers of a pod
as batch jobs of a Slurm cluster, over SSH, or hands a call on to another CRI.
This directory holds TLA+ models of its core, the TLC configurations that check
them, and proofs for TLAPS. Paths below are relative to the repository root
(`pkg/cri/...`).

Run a model with `tlc -config MCContainerFaults.cfg MCContainerService.tla`,
a proof with `tlapm ContainerServiceProofs.tla`; the other modules with proofs are
`ContainerExitProofs`, `BatchContractProofs`, `PodSandboxServiceProofs`,
`ImageServiceProofs`, `ScriptStagingProofs`, `RemoteRoutingProofs` and
`RequestRoutingProofs`.

## 1. The system

| Component | State it keeps | Operations | Where |
|---|---|---|---|
| Container lifecycle on Slurm | container pool + cache file; each record: state, Pid (job number), exit code | CreateContainer, StartContainer, StopContainer, ContainerStatus, RemoveContainer, listing | `runtime/container.go`, `adapters/slurm/container.go`, `adapters/slurm/cmd/cmd.go`, `store/container.go` |
| Pod sandboxes and network | sandbox pool + cache file; network namespaces, CNI attachments, files under `/etc/netns` | RunPodSandbox, StopPodSandbox, RemovePodSandbox, PodSandboxStatus, PortForward | `runtime/sandbox.go`, `store/sandbox.go`, `network/netns.go` |
| Images | image pool + cache file, files under the cache path | PullImage, RemoveImage, ListImages, ImageStatus | `runtime/image.go`, `store/image.go`, `adapters/slurm/image.go` |
| Image builders | none of their own; they write the image record | pull in the CRI node, pull in the cluster, copy | `adapters/slurm/builder/` |
| Routing to remote CRIs | clients by runtime class; the handler in every sandbox and container record | every CRI call, forwarded or not | `runtime/remote/`, the first lines of every handler in `runtime/` |
| Staging of batch scripts | files in `/tmp` named by the second, their copies on the cluster | buildPreRunScript, buildSbatch, buildRunScript, CopyTo, run | `adapters/slurm/cmd/cmd.go`, `common/file/file.go` |
| Service start and stop | the gRPC server, the streaming server, the stores | NewMulticriService, Run, Stop, the interrupt handler | `runtime/service.go`, `main.go` |
| Packet filter rules | a chain and four rules in the kernel | EnsureCNIIPTableRules | `network/iptables.go` |
| Exec and streaming, SSH client, registry credentials, OS layer | none that outlives a call | | `runtime/exec.go`, `common/ssh/ssh.go`, `auth/auth.go`, `pkg/os/os.go` |

How they interact:

- gRPC gives every request a goroutine. A handler asks the store for the
  **pointer** kept in the pool and then reads and writes the record's fields
  without a lock; the store's lock covers the map, not what it points to.
- A container handler calls the adapter, the adapter runs commands on the
  cluster over SSH (copy scripts, `sbatch`, `scancel`, `scontrol`, `sacct`), each
  of which may take seconds, fail, or work and lose its reply. The handler then
  writes the record and calls the store's Update, which puts it in the cache
  file.
- CreateContainer reads the sandbox and the image, and writes both back at the
  end.
- When the process ends, systemd starts it again and every store loads its cache
  file. Jobs go on meanwhile.
- A handler first asks which runtime the record's handler names and forwards the
  call when it is a remote one. The record is looked up in this service's pools, so
  that what a restart loses is lost to routing too.
- The scripts of a submission pass through files that all containers served in one
  second share.
- NewMulticriService sets up rules and stores before Run serves; either server's end,
  or a signal, is to end the whole process; its end cuts every request.
- The kubelet is the only client. Its pod worker makes one call for a pod at a
  time; its relisting asks for statuses at any time; calls that time out are
  made again.

What is hard: handlers of one container that overlap (a status query begun
before a stop and applied after it), death between a remote command and the
write that records it, remote commands whose effect and reply part ways, a job
that ends, or is forgotten by Slurm, while a handler asks about it, records that
share a key, clean-up after a set-up that failed half way. `PROJECT.json` lists
each hazard at its line with the properties aimed at it.

What makes each component correct:

- *Containers*: what is called EXITED has no job left; what is called failed did
  fail; EXITED is final; the cache file never loses a change whose request has
  been answered; the end of a job is reported sooner or later.
- *Sandboxes*: the pool holds the accepted sandboxes and no others; READY means
  attached; a stopped sandbox stays down and gives its network back; a failed
  set-up takes down what it put up.
- *Images*: a pulled image stays until it is removed; a removed one does not come
  back; a pull that failed leaves no entry.
- *Routing*: calls go to the runtime that has the pod, no job is submitted for a pod
  of another runtime, the listings name everything once, and what the service said is
  stopped is stopped.
- *Staging*: a start that succeeds has recorded a job that runs the container's own
  command; no two containers record one job; requests in seconds of their own share
  nothing.
- *Service and rules*: the end of one server ends the process; while requests are
  served the rules are in place, and in their order.

## 2. What is modelled

### ContainerService

`mem` is `ContainerPool` with the records behind its pointers, `disk` the cache
file, `job` the jobs slurmctld holds, `call` one program counter per request
being served, and `life` what the kubelet has asked for each container. A record
is reduced to `state`, `pid` and `exit`: the fields the code branches on.

One action is the code between two points where another goroutine can get in
with effect: a remote command, a lock of the store, the answer.

| Code | Actions |
|---|---|
| `CreateContainer` | `CreateBegin` (record in pool and file), `CreateDone` or `CreateFail` (the pull) |
| `StartContainer` + `Sbatch` | `StartBegin` (guards, CreateCMD), `StartFail`, `StartSubmit` (sbatch has run), `StartReplyLost`, `StartRecordPid`, `StartCommit`, `Update` |
| `StopContainer` + `Scancel` | `StopBegin`, `StopCancel`, `StopFail`, `StopExit`, `Update` |
| `ContainerStatus` + `Sstatus` | `StatusBegin`, `StatusQuery` (scontrol, then sacct), `StatusApply`, `Update` |
| the process | `Crash`, `PanicUnknown` (status of an unknown container), `PanicSacct` (empty sacct answer) |
| the cluster (outside the repository) | `JobRun`, `JobFinish`, `JobEnd`, `JobPurge` |

Details kept on purpose, because the properties tell them apart: COMPLETING maps
to EXITED with exit code 0 before the result is known; a job state the adapter does not
list makes the container CREATED, also a final one (OUT_OF_MEMORY, PREEMPTED, DEADLINE,
BOOT_FAIL: `UNLISTED`); the exit code printed by
scontrol never parses; sacct's answer is read one column off, so a job known only
to sacct makes the container CREATED, and an answer of sacct that cannot be read makes it
EXITED with exit code 1; StartContainer writes RUNNING over whatever
the record holds; StopContainer of anything but RUNNING succeeds and cancels
nothing.

Switches say what may happen: `Persistence` (`--enable-pod-persistence`),
`SshMayFail`, `StartOnce` (the kubelet starts a container at most once), `MayCrash`,
`MayPurge` (Slurm's MinJobAge). `NoCreds` are the containers whose environment has no
credentials, `Overlap` those whose calls may overlap; the others have one at a time, and
what holds of these only is stated for them, beside any number of the former.

`BatchContract` is the abstract specification: a container is accepted, gives at
most one job to the cluster, and is closed once that job is over, for good.
`ContainerServiceProps` maps the service to it by what the cache file and the
cluster hold, so that death of the server is a stuttering step.

`SubmissionContract` is a second abstract specification, of a start alone: while it is
served it gives the cluster one job at most, and what it records in the end is the
number of that job, or none. ContainerService implements it by its program counters,
its jobs and the numbers in the cache file, and ScriptStaging, which has the inside of
that step, implements it too: the atomic submission of the one is what the scripts,
copies and replies of the other come to.

### PodSandboxService

The id of a sandbox is the UID of its pod, so two RunPodSandbox calls for a pod
share a key. Records are therefore objects (`rec`), and `pool` maps a pod to the
record under its key; `file` is the cache file, `net` what the kernel and the CNI
plugin hold for each record, `etc` whether the files under `/etc/netns` are
there, `call` the requests, `fate` the history of each record.

| Code | Actions |
|---|---|
| `RunPodSandbox` + `setupPodNetwork` | `RunBegin`, `RunNamespace`, `RunAttach`/`RunAttachFail`, `RunAddress`/`RunAddressFail`, `RunFiles`/`RunFilesFail`, `RunUndo` (deferred Remove), `RunCommit` |
| `StopPodSandbox` | `StopBegin` (NOTREADY), `StopClear` (the address), `StopCommit` (Update) |
| `RemovePodSandbox` | `RemoveBegin`, `RemoveCommit` |
| `PodSandboxStatus` | `StatusBegin` (the record), `StatusRead` (its address), `StatusReady` (READY, unless there was none) |
| `CreateContainer`, sandbox part | `AppendBegin`, `AppendFail`, `AppendCommit` |
| `LoadAll`, the process | `Crash`, `PanicNamespace` |

Handlers write the record's fields without a lock, so each of these is a step where
another handler reads the field. A status query can read the address before
StopPodSandbox clears it and write READY after: the stopped sandbox is READY then, and
RemovePodSandbox refuses it. The clean-up of a failed set-up (`NamespaceRemoved`,
`TornDown`) may fail too; its errors are logged only, and what it could not take down
stays under a name of its own (`stuck`, `dangling`).

`SandboxContract` is the abstract specification of the sandbox of a pod, as the kubelet
sees it: set up, up, stopped and gone, when it may be called READY, and its containers.
The record under the pod's key is mapped to it. StopPodSandbox counts from the write that
clears the address, and `asked` are the sandboxes some query under way has found fit to
be called READY: a query overtaken by the stop may still do so, a query after it may not.
Records that were replaced, the cache file and the network of failed set-ups
are out of its sight.

`NetNSPath` is a field no code assigns. The model keeps it (`nspath`) because two
guards read it: the tear-down of a stopped sandbox and the load after a restart.
SetUpPod is given it too, empty, in place of the path of the namespace just made
(`runtime/sandbox.go:277`): `attachment` stands for a SetUpPod that has worked, wherever
the plugin has attached the pod.

### ImageService

Every PullImage makes a record of its own, also for a name that has one, and all
records of a name share one file. `pool` holds the keys of `ImagePool`, `img` the
records behind the pointers (the name, whether ParseImage has been through it,
and whether `LocalPath` still leads to a directory or already to the name's file),
`file` the cache file, `dir` and `node` what is on the node's disk, `conf` which
builder is in use and whether a remote mount is set, `fate` the history of each
pull.

| Code | Actions |
|---|---|
| `PullImage`, node builder | `PullUnsupported`, `PullBegin` (record added, then parsed in the pool only), `PullLocal`, `PullPath`, `PullWrite`, `PullRefused` (a file of that name is there), `PullWritten`/`PullFail`, `PullUndo` (Remove), `PullCommit` (Update) |
| `PullImage`, builder in the cluster | `PullBegin`, `PullInCluster`, `PullCommit` |
| `RemoveImage` | `RemoveBegin`, `RemoveCommit` |
| `ListImages` | `List`, of all images or of one name; it drops the records it finds no file for |
| `CreateContainer`, image part | `CreateBegin`, `FetchFromNode`, `FetchLocal`, `FetchCopied`, `FetchInCluster`, `FetchFail`, `FetchStore` (the late Update) |
| `LoadAll`, the process | `Crash`, `PanicSize` (no "FileSize:" in the script's output) |

`singularity pull` (external) does not overwrite a file, so a second pull of a name
fails while the first one's file is there, and so does every pull of a name after
a death in mid-pull. That it looks for the file and makes it in one step (`PullWrite`) is
an assumption about it. What lies on the cluster is out of the service's sight: a pull
there fails, or passes with a whole image or with part of one, for the status of its
script is that of `stat` alone (`FetchInCluster`). A record whose path still leads to a directory has one
switch, `dir`, for the image cache and for the mount alike.

ContainerService, PodSandboxService and ImageService meet in CreateContainer, which fetches sandbox and image, adds a
container and writes all three back. Each module has its own part of that handler
and leaves the outcome of the others' parts open (it goes on or it fails), which
covers every behaviour of the whole for properties about one store.

### ScriptStaging

What is one atomic submission in ContainerService, step by step (`SubmissionContract`
is what the two have in common). A file under `/tmp`
is named by the kind of script and the second, opened with `O_APPEND` and never
removed: `tmp` maps kind and second to the sequence of containers whose text is in
the file. `remote` holds the copies in the containers' directories, `job` the jobs in
the order of their submission with the directory they run in, the commands they run
and whose variables the shell had; `image` the images on the cluster; `pid` and
`phase` the container's record; `clock` the time in seconds. `spaced` is the setting
of a quiet node, where requests come one at a time and in seconds of their own.

| Code | Actions |
|---|---|
| `CreateContainer` (cluster builder), `StartContainer` | `CreateContainer`, `StartContainer` |
| `buildPreRunScript`, `buildSbatch`, `buildRunScript`, `PullImageScript` | `Build`, `CopyTo`, `StageFail` |
| the script, as the shell on the cluster runs it | `Submit`, `Pull`, `PartFail` |
| `run`, `parseJobId` | `PullDone`, `SubmitDone`, `ScriptFails`, `ExecFail` |
| the process, the clock | `Crash`, `Tick` |

A run script with the text of several containers goes through them in turn. Its `cd`
is relative to the home directory, so only the first part's finds its directory and
the other parts submit the first one's `batch.sh` again; variables of the parts so far
stay set. `run` has a terminal (`tty`), so that what the parts print on stderr is part
of the reply, and `Atoi` refuses a number with text after it. A `singularity pull` that
fails (`PartFail`) counts as a success when the `stat` after it finds part of the image;
`image` holds whole ones.

### ServiceLifecycle

The process as four goroutines: `main` (NewMulticriService and Run), `stream` and
`grpc` (the two servers), `interrupt` (the handler main.go puts around Run); and the
packet filter, which outlives it: `chain`, `rules` and the `rule` the set-up is at.

| Code | Actions |
|---|---|
| `NewMulticriService` | `Launch`, `LoadStores`, `LoadRemotes`, `AddTarget`, `RuleThere`, `RuleCreated`, `CreateServers`, `SetupFails` |
| `Run`, `Stop` | `RunStream`, `Listen`, `ListenFails`, `Select`, `StopStream`, `StopGrpc`, `RunReturns` |
| the servers | `StreamServe`, `StreamReturns`, `StreamFails`, `GrpcServe`, `GrpcReturns`, `GrpcFails` |
| signals, death | `Signal`, `InterruptStopsStream`, `InterruptStopsGrpc`, `Dies` |

Taken of the libraries: a server that is closed before it serves returns from Serve at
once; the interrupt handler runs Stop once and leaves the end of the process to Run;
nobody else changes the rules. `iptables -C` may fail for a reason of its own, which
the code takes for a missing rule.

### RemoteRouting

Extends ServiceLifecycle: requests come in while `grpc` is on, and every action that
ends the process cuts them and forgets the records a restart does not load. A pod
stands for its sandbox and its container. `sandbox` and `container` are the handlers
(and what StartContainer needs) in the two pools, `there` what the runtimes have,
`call` the requests, `submitted`, `told` and `forgotten` histories. The endpoints and
`--enable-pod-persistence` are chosen by Init and stay.

| Code | Actions |
|---|---|
| the head of every handler, `GetRemoteRuntime` | `ReceiveRun`, `Receive` |
| the remote runtime (outside the repository) and the connection to it | `RemoteAnswers`, `RemoteReplyLost`, `RemoteUnaware`, `RemoteFails` |
| the handlers after the remote answer | `RunAnswered`, `CreateAnswered`, `PassedOn`, `RemoveContainerAnswered`, `StopAnswered`, `RemoveAnswered` |
| the handlers' own part | `RunLocally`, `CreateLocally`, `StartLocally`, `StartFails`, `StopContainerLocally`, `StopLocally`, `RemoveLocally`, `NothingLocally` |
| the listings | `LocalSandboxes`, `RemoteSandboxes`, `LocalContainers`, `RemoteContainers` |
| the end of the process | `Process` with `Forget`, `Panics` |

`StartContainer` and `StopContainer` look at the remote answer and not at the error,
so that a failed remote call goes on as a local one; the model keeps this
(`DropsError`), because what stops it from submitting a job is only that a remote
container's record has no credentials.

## 3. Runs

| Run | Instance | Shows |
|---|---|---|
| `container_faults` | 1 container, 2 slots, 2 jobs, every fault, second starts, no cache file (a restarted server knows nothing) | `TypeOK`; `ExitStandsAgainstLaterCalls`: only requests older than the exit, and death, undo EXITED |
| `container_reliable` | 2 containers (one without credentials), 2 slots, 2 jobs, overlapping calls, death, purge; commands get through | `DiskCoherent`: pool and file differ only while a request that will call Update is served; `ExitedHasNoLiveJob` and the invariant `IInv` of the proof; `NumbersAreKept`: what can make the service lose a job's number |
| `container_contract` | 2 containers, one of them with overlapping calls, 2 slots, 2 jobs, death, purge; commands get through | of the container with one call at a time: `KeepsBatchContract`, refinement of `BatchContract`; `SubmitsAsContracted`, refinement of `SubmissionContract`; `DurableExit`, an exit in the cache file is final (both latter proved with failing commands too). Of both: `FailureIsRealOrForgotten`, who gets exit code 1 |
| `container_liveness` | 1 container, 2 slots, 1 job, overlapping calls, death, purge, every final state of a job; fair | `JobIsEventuallyReported` |
| `sandboxes` | 3 pods (one with overlapping calls, one on the host's network), 2 records, 1 container, 2 slots, failures of set-up and clean-up, status queries beside every call, death | `TypeOK`, `FileFollowsPool`, `FailedRunCleansUp`, `ReadyIsAttached` of all pods; `PoolHoldsAccepted`, `StoppedStaysDown` and `KeepsSandboxContract` (refinement of `SandboxContract`) of those with one call at a time |
| `image_store` | 3 pulls; two names in a registry, one with overlapping calls, a local and an unsupported name; 2 slots; both builders, with and without mount; listings and death at any time | `TypeOK`, `FileFollowsPool`, `PulledStays` and the invariant `PullInv` of the proof for every name; `NoHalfImage` (built on the node, or local) and `RemovedStaysOut` for those with one call at a time |
| `staging` | 2 containers, one with a prerun script; shared seconds, or spaced requests; one failed command or death | `TypeOK`, `SuccessHasRun`, `NumbersAreUnshared`, `SpacedIsOwn`; `SubmitsAsContracted`: spaced requests refine `SubmissionContract` |
| `routing` | every subset of the endpoints `default` and `other`, 1 pod, 1 request at a time, remote failures and lost answers, every start, end and death of the process | `TypeOK`, `NoJobForRemote`, `RequestsGoHome`, `ListedOnce`, `ListedHaveImage`, `ToldStopped`, `RulesInOrder`; `EitherEndsBoth` under fairness |
| `container_stop_pending` | 1 container, 1 slot | finding 1: `StoppedIsCancelled` is violated |
| `sandbox_tear_down` | 1 pod, 1 record | finding 2: `StoppedIsTornDown` is violated |
| `sandbox_restart` | 1 pod, 1 record | finding 3: `PersistedSurvives` is violated |
| `image_listing` | 1 pull of a local image | finding 4: `PulledIsListed` is violated |

**Bounds.** In the container, sandbox and image models nothing is counted: the
instances are finite because containers, jobs, records and slots are. Staging counts
seconds (`LastSecond`, or `LastSpaced` where requests are spaced) and `MaxFaults`,
routing the failures of `iptables -C` (`MaxErrors`). Two slots are what a race
needs (a reader and a writer of one record). Two jobs let one container get a
second job where second starts are allowed, and let two containers have one each
where they are not. Two records let a pod's record be replaced while the
replaced one is still being set up, stopped or asked about, and two pods be served at
once; a third makes the instance too large to check and is left to the proofs. Three pulls let a name be
pulled, pulled again while its file is there, and once more after a removal, with
a pull of another name beside it. `NoHalfImage` and `RemovedStaysOut` are about names
with one call at a time: with overlap they do not hold (another pod can find the record
of a pull under way; the late Update of CreateContainer brings a removed image back).
`NoHalfImage` leaves out images built in the cluster, which can be half there (section 5).
`ExitedHasNoLiveJob`, `FailureIsRealOrForgotten` and `JobIsEventuallyReported` are checked
where commands get through; with failing commands they do not hold, as one failed query
marks a container EXITED with exit code 1. In `staging` two seconds are what it takes to share a file or not, with
requests that go on across the turn of the second; five spaced seconds hold the
creation and the start of both containers and a second start after a death. In
`routing`, two endpoints give a default runtime, another one, one without the other,
and none. A step is about one pod and the process, so one pod is enough; requests for
one pod at the same time and `iptables -C` that fails (`MaxErrors` > 0) make the
instance too large to check and are left to the proofs, which have any number of
both. Container identifiers are
never reused, as uuids are not.

**Symmetry.** Slots, jobs and records are interchangeable; no formula names one.
It is used only in runs without liveness. Of the refinements checked with it,
`KeepsSandboxContract` and `KeepsBatchContract` show the contract none of these, and
`SubmitsAsContracted` shows it job numbers, which `SubmissionContract` treats alike.
`ExitStandsAgainstLaterCalls` quantifies over all slots and is symmetric too.

**Deadlock** is checked in every run: `ContainerStatus`, `PodSandboxStatus`,
`ListImages` or a death (in staging: of an idle server) is always possible, and a
process that is down can be launched.

**Fairness** of the containers (`SettledSpec`). `GoroutinesRun`: weak fairness of each request, as the
Go scheduler runs a goroutine that can run, and an SSH command that gets through
returns. `KubeletPolls`: strong fairness of the status query. The kubelet asks
for the status again and again and each query gets a goroutine; the model has a
fixed number of slots, which other requests could keep busy at every moment the
query is looked at, and strong fairness takes that artefact away. `JobsEnd`: a
waiting job is started and a running one ends, as partitions have time limits. And the
server settles: it may die at any time and any number of times, but not for ever, since
one that dies before each Update reports nothing. No
fairness is put on new Create, Start or Stop requests, nor on failures.
`JobIsEventuallyReported` names what goes unreported all the same, and TLC refutes it
without any one of these exemptions: a final state the adapter does not list, a job
Slurm forgot before the container was EXITED, a number that died with the server.

Fairness of the process (`ProcessFairness`): weak fairness of each of its goroutines
(main, the two servers' Serve and its return, the interrupt handler), as the Go
scheduler runs a goroutine that can run. None on servers that fail, on signals, on
death or on the launch. The steps of NewMulticriService need none: before them no
server has ended. `RunReturns` waits for both servers, as Run does.

## 4. Proofs

All theorems hold for any number of containers, jobs, pods, records, images and
requests, with or without the cache file. "Constants" below means: only the
assumptions the modules state about their constants.

| Module | Theorem | States | Assumes |
|---|---|---|---|
| `ContainerServiceProofs` | `TypeCorrect` | `[]TypeOK` | constants |
| | `CacheFollowsPool` | `[]DiskCoherent` | constants |
| | `ExitStands` | `ExitStandsAgainstLaterCalls` | constants |
| | `NumbersAreKeptCorrect` | `NumbersAreKept` | constants |
| `ContainerExitProofs` | `RecordsFitJobs` | `[]IInv` | `~SshMayFail`, `StartOnce` |
| | `ExitedIsOver` | `[]ExitedHasNoLiveJob` | `~SshMayFail`, `StartOnce` |
| `BatchContractProofs` | `DurableExitCorrect` | `DurableExit` | constants |
| | `FailureIsRealOrForgottenCorrect` | `FailureIsRealOrForgotten` | `~SshMayFail`, `StartOnce` |
| | `KeepsBatchContractCorrect` | `KeepsBatchContract` (the refinement) | `~SshMayFail`, `StartOnce`, `Persistence` |
| | `SubmitsAsContractedCorrect` | `SubmitsAsContracted` (the refinement) | `Persistence` |
| `PodSandboxServiceProofs` | `SandboxTypeCorrect` | `[]KnownInv`, `[]TypeOK` | constants |
| | `FailedRunCleansUpCorrect` | `[]FailedRunCleansUp` | constants |
| | `ReadyIsAttachedCorrect` | `[]ReadyIsAttached` | `PodNetwork` |
| | `FileFollowsPoolCorrect` | `[]FileFollowsPool` | constants |
| | `PoolHoldsAcceptedCorrect` | `[]PoolHoldsAccepted` | constants |
| | `StoppedStaysDownCorrect` | `StoppedStaysDown` | `PodNetwork` |
| | `KeepsSandboxContractCorrect` | `KeepsSandboxContract` (the refinement) | `PodNetwork` |
| `ImageServiceProofs` | `TypeCorrect` | `[]TypeOK` | constants |
| | `PullsAreWholeCorrect` | `[]PullInv` | constants |
| | `PulledStaysCorrect` | `[]PulledStays` | constants |
| | `FileFollowsPoolCorrect` | `[]FileFollowsPool` | constants |
| | `NoHalfImageCorrect` | `[]NoHalfImage` | constants |
| | `RemovedStaysOutCorrect` | `[]RemovedStaysOut` | constants |
| `ScriptStagingProofs` | `StagingTypeCorrect` | `[]TypeOK` | constants |
| | `NumbersAreUnsharedCorrect` | `[]NumbersAreUnshared` | constants |
| | `SuccessHasRunCorrect` | `[]SuccessHasRun` | constants |
| | `SpacedIsOwnCorrect` | `[]SpacedIsOwn` | constants |
| | `SubmitsAsContractedCorrect` | `SubmitsAsContracted` (the refinement) | constants |
| `RemoteRoutingProofs` | `RoutingTypeCorrect` | `[]TypeOK` | constants |
| | `RulesInOrderCorrect` | `[]RulesInOrder` | constants |
| `RequestRoutingProofs` | `NoJobForRemoteCorrect`, `RequestsGoHomeCorrect`, `ListedHaveImageCorrect`, `ListedOnceCorrect`, `ToldStoppedCorrect` | the invariants of these names | constants |

**Containers.** The first four theorems hold under every fault and interleaving
of the model (a cache file that cannot be written is not one of them, see section 6):

- `TypeOK` is inductive; its step has one case per action.
- `DiskCoherent` is inductive relative to `TypeOK`: a handler that makes pool and
  file differ stands at a program counter from which only Update, or the end of the
  process, follows.
- The action property needs `WritersCameBefore`: a request at a point where it can
  still write a state other than EXITED did not find the container EXITED when it
  came in.
- `NumbersAreKept` goes through the steps that write a number: within a life of the
  server only a start that has submitted a job of its own does (`WhoLosesNumber`); at
  a restart `DiskCoherent` says that pool and file had the same number unless an
  Update was pending (`RestartLosesNumber`).

`ExitedHasNoLiveJob` is far from inductive: a poll may write EXITED from an answer
taken long ago, and a stop from a cancellation of a job number it read before.
`IInv` adds what makes these writes sound, in named parts: each container has one
job at most (`OneJobEach`); one start at most is under way, on a container that has
none (`StartsAreUnique`, `StartsAreFresh`); recorded numbers are the container's
own, in the pool and in the file (`PidsAreOwn`); a handler between two commands works
on the recorded job, and the end it has learnt of is still an end (`CallsAreSound`);
and the slots' and the containers' book-keeping (`Bookkeeping`). Each action has a
lemma with one step per part it can disturb. Both assumptions are needed. A lost
reply of `sbatch` makes a container EXITED while its job waits; a second start
(possible because a poll makes a container with a waiting job CREATED again)
replaces the number of the first job, which no one then cancels.

`FailureIsRealOrForgotten` follows from `IInv`, `FailInv` and `CodesAreRecorded`. By
`FailInv`, a job that failed or was forgotten stays so (`FailedStays`); bad news that is
still to be written is about such a job (`NewsIsTrue`); so is exit code 1 of a record with
a number, in the pool and in the file, and a container that may still get a job has no
exit code yet (`FailuresFit`). That a forgotten job's exit on file is not turned into a
failure, where calls do not overlap, is `CodesAreRecorded`: the code in the file is the one
in the pool (`CodeIsRecorded`), and no step touches such a record (`FiledExitStays`). A
completed job that slurmctld forgot before any poll saw its end can be called failed, when
sacct cannot be read: the formula says so.

The other theorems of `BatchContractProofs` are about the containers that are not in
`Overlap`, and cover them beside others whose calls do overlap: a step of one of those
is a stutter of the contracts.

`DurableExit` takes failing commands and lost replies as well. Such a container has one
request at a time (`OneCallEach`, part of `DurableInv`); one that could write something
else over an exit in the file would have to be older than the exit, and then the exit
would be its own work.

`KeepsBatchContract` is a refinement. Under the mapping, the cache file says whether
a container is accepted or closed, and the cluster whether its job is waiting,
running or over. `StepSimulation` shows that every step of the service is a step of
`BatchContract` or stutters, in three parts: a step changes at most one container's
entry in the file (`EntryMoves`), or hands one job to the cluster (`SubmitMoves`), or
moves one job on (`JobMoves`), and never two of these. `ContractInv` is `IInv`,
`DurableInv` and that whoever is known to the kubelet has an entry in the file
(`Filed`).

`SubmitsAsContracted` of the containers is a refinement under failing commands, lost
replies and second starts. Its invariant (`SubmissionInv`) is `DurableInv` and that jobs
not yet submitted have no owner, that a request at a program counter of a start is one,
and that record and file have different numbers only while a start is about to be filed
(`PidsFit`). A death
of the server gives up every start that is served at once, which is why `GiveUp` of the
contract takes a set.

**Sandboxes.** `KnownInv` (requests and records agree on their pod, no record gets a
`NetNSPath`, a RunPodSandbox has its record to itself) is the base of the rest:

- `FailedRunCleansUp` and `ReadyIsAttached` from `NetworkInv`: what each
  program counter of a set-up has of the network (`HasNetwork`; `FailLeaves` says what the
  clean-ups can leave), and that a sandbox which has an address, is READY, or was found
  fit to be called so by a query under way (`Told`), is attached once it is up (`Wired`).
  `ReadyIsAttached` needs a plugin: without one a status query makes every sandbox READY.
- `FileFollowsPool` from `FileInv`: pod by pod, the file has what the pool has but for
  `ready`, unless a request that will put the record is under way.
- `PoolHoldsAccepted` and `StoppedStaysDown` from `SerialInv`: a pod that is not in
  `Overlap` has one request at a time, on the record under its key, and that is the
  accepted one, without an address once it is stopped (`Alone`). Only a query that has
  read an address calls a record READY (`OnlyQueriesTell`). The proof covers such pods
  beside others whose calls do overlap, and beside status queries, which overlap everything.
- `KeepsSandboxContract` from all of these and that an unused record has no network
  (`ContractInv`). A step shows in the contract's view of one pod at most
  (`OnePodMoves`), the pod of the request; there is one lemma for each kind of step
  (`SetUpSeen` to `RestartSeen`).

**Images.** For every name, calls on which may overlap:

- `TypeOK` needs `BusyHaveImage`: a request that is served works on an image.
- `PulledStays` rests on `PullInv`. A listing drops what has no file, and what keeps
  a pulled image from that is the file on the node: `PullsAreWhole` says that a
  name has one writer, that its file is part of an image until the writer is done,
  and that the records and the cache file entries of pulled images lead to a whole
  one, so that a restart or a listing finds it. It needs `CallsAreKnown` (a request
  and its record agree on the name; every pull has a record of its own; only local
  images are copied over a file) and `RecordsAreKnown` (no record without a pull,
  and pool and file agree on its name).
- `FileFollowsPool` is inductive relative to `PullInv`: a step either moves a pull on
  or sets a path (`FollowMove`), or puts a record into both or takes it out of both
  (`FollowStore`).

For the names that are not in `Overlap`, beside others that are, `FoundInv` gives
`NoHalfImage` and `RemovedStaysOut`: what can be found by such a name was pulled, or is
being pulled by a request that is served (`FoundIsPulled`). `NoHalfImage` then has the
image whole from `PullsAreWhole`, for an image built on the node, or from its copy, for a
local one.

**Staging.** Numbers: what a request has read and not recorded yet is nobody else's
(`Unshared`). `SuccessHasRun` is proved container by container from `Sound`: the
request's own text is in what it copies and what it runs (`OwnText`), it is about what
the container is ready for (`Ready`), and, unless a command of its own failed, the
parts that have run have done their work (`Worked`, `HasRun`). The steps of others only
let files, jobs and images grow (`StepGrows`), which none of these minds.
`SpacedIsOwn` needs to know that the files a request has yet to write are empty,
that those it has written hold its text alone, that the files of later seconds are
empty, and that no two requests are served at once (`SpacedInv`). With
`SentInv` besides (a request whose script has not run yet has no number, and the number
of a run script's reply is that of the part that submitted), every step is one of
`SubmissionContract` or stutters (`StepSeen`): only the part of a run script submits,
only the end of a run records, and a second that passes, a file that is written or copied
and a request of another kind are not seen.

**Routing.** `RulesInOrder` from `RulesInv`: the rules before the one being set up are
there, and requests are served only after the set-up; in order, as long as
`iptables -C` has not failed. The routing properties share `RouteInv`: for each pod,
records and histories fit what the runtimes have (`PodSound`), and for each request,
what it is about to write does (`CallSound`). A step is about its own pod, so the
other pods and requests follow from frame lemmas. `NoJobForRemote` shows what the
dropped error of StartContainer relies on: the record of a remote container has no
credentials.

**Only model-checked.** `JobIsEventuallyReported` and `EitherEndsBoth`: liveness under
fairness is out of this prover's reach. Every other property of a run that passes is a
theorem.

## 5. Findings

1. *A queued job survives StopContainer.* ContainerStatus turns a started container
   whose job is PENDING back to CREATED (`adapters/slurm/container.go:177`), and
   StopContainer takes anything but RUNNING as nothing to stop
   (`runtime/container.go:158`). The integration test says a stopped container
   "must be cancelled" (`adapters/slurm/slurm_test.go:162`).
2. *Stopping a sandbox never takes its network down.* The tear-down depends on
   `NetNSPath`, which is never assigned. `runtime/service.go:72` says the plugin
   is used to "setup and teardown network when run/stop pod sandbox".
3. *No sandbox survives a restart.* `LoadAll` keeps those with a `NetNSPath` and
   deletes the rest (`store/file_store.go:124`), against README.md:28.
4. *A pulled local image is not listed.* PullImage of a local image names a file that
   does not exist yet; `ListK8s` drops every image without a file
   (`store/image.go:219`), and CreateContainer then answers "Image not found". The
   unit test wants the pulled local image listed (`runtime/unit_image_test.go:137`).
   Images built in the cluster, whose path leads nowhere on the node, go the same
   way after their first container.

Divergences met on the way that no run is about:

- README.md:34 says "The default CRI is not configured, so multi-cri will be used by
  default". `GetRemoteRuntime` answers "not found" for a pod without a runtime class
  when there are endpoints and none is called `default`. `RemoteRouting` models what
  the code does (`RuntimeAt`).
- Without a `default` endpoint, sandboxes whose handler is `multicri` are not in
  the answer to ListPodSandbox; `ListedOnce` asks for completeness only with one.
- Slurm's final states OUT_OF_MEMORY, PREEMPTED, DEADLINE and BOOT_FAIL are not in the
  adapter's list, whose rest is CREATED (`adapters/slurm/container.go:177`): the end of
  such a job is never reported. `JobIsEventuallyReported` leaves them out by name.
- A job that completed and was forgotten by slurmctld before a poll saw its end becomes
  CREATED, or a failure with exit code 1, according to what sacct's answer looks like.
- A StopPodSandbox that falls between PodSandboxStatus's read of the address and its
  write of READY (`runtime/sandbox.go:165-167`) leaves the stopped sandbox READY, and
  RemovePodSandbox refuses it until it is stopped again. `StoppedStaysDown` and
  `SandboxContract` confine this to queries the stop has overtaken.
- The script that pulls an image on the cluster has no `set -e`
  (`adapters/slurm/cmd/cmd.go:508-533`), so that a container can be given part of an image
  there. `NoHalfImage` is about images built on the node and local ones.
- StopContainer looks at the remote answer and not at the error, so that it answers
  success for a remote container that was not stopped. `ToldStopped` is therefore
  about StopPodSandbox, which does look.

## 6. What is not modelled

- RemoveContainer of the service's own containers: with the Slurm adapter it fails in
  ReopenContainerLog before anything changes, so a container never leaves the store.
- ImageStatus and ImageFsInfo, which change nothing; GetByID's matching of parts of
  names and identifiers, since the kubelet asks by full reference; image sizes and
  credentials; the characters of image file names (two references may share one).
- The routing of image calls, by a prefix of the image's name, and a restart with
  other endpoints than the records were written under.
- Exec, attach, port forwarding and their streaming server's inside: bytes are
  passed on, and the remote path returns first.
- Log files, time stamps, volume paths, the text of scripts and messages, statistics.
- tearDownNetwork, which is unreachable, and deleteIPTableRule, which nobody calls.
- A cache file that cannot be written: the stores drop the error of `Put` and `Delete`, and
  pool and file then differ until the next write of the record. What is said of the file
  holds where writing it works.
- The race on the slice of a sandbox's container ids (two CreateContainer at once)
  is modelled as if each append were whole.
- The SSH client and the OS layer keep no state, and decoding of credentials is pure;
  only what they may do to a caller is in the models: a command that fails, that works
  and loses its reply, and whose standard error comes with its output.

## 7. Plan

Every part of section 1 that keeps state has a module, and every safety property of a
run has a proof. What could be added, in this order:

1. Image routing by prefix in `RemoteRouting`, with the records of remote images.
2. The race on a sandbox's container ids: appends in two steps (read the slice, write it
   back), and a property that no container is missing from its sandbox.
3. A routing instance with requests for one pod at the same time, or with a failing
   `iptables -C`, once it can be kept small; today the proofs cover both.
4. What shared seconds do to a container's later status: ContainerService over
   ScriptStaging where requests are not spaced, so that no contract stands between.
