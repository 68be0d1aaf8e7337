---------------------------- MODULE ImageService ----------------------------
(***************************************************************************)
(* The images of the CRI service: PullImage, RemoveImage and ListImages of *)
(* runtime/image.go, the part of CreateContainer that brings an image to   *)
(* its container, the two image builders of the Slurm adapter, the image   *)
(* store with its cache file, and the image files of the node.             *)
(*                                                                         *)
(* A pull makes a record of its own, also for a name that has one already, *)
(* and all records of a name share one file.  As in the other stores a     *)
(* handler holds the pointer to a record, and Update puts the record back  *)
(* into the pool whether or not it is still there.                         *)
(*                                                                         *)
(* A request names an image by its full reference, as the kubelet does, so *)
(* GetByID's matching of parts of names and identifiers does not show.     *)
(* What the cluster holds is out of sight of the service; a pull there     *)
(* fails, or leaves all or part of an image.  On the node singularity is   *)
(* taken to look for its file and to make it in one step.  Sizes,          *)
(* credentials and remote CRIs are left out.                               *)
(***************************************************************************)
CONSTANTS
  Image,         \* identifiers (uuids): one per PullImage, bounds their number
  Name,          \* image references
  Local,         \* the names with the prefix "local-image."
  Unsupported,   \* the names with no known prefix
  Caller,        \* slots for requests being served at the same time
  Nobody,        \* no name, no image
  Persistence,   \* --enable-pod-persistence
  Overlap,       \* names whose calls may overlap; the others get one at a time
  MayCrash       \* the server may die at any time

ASSUME NameAssumption ==
  /\ Nobody \notin Image \cup Name
  /\ Local \subseteq Name
  /\ Unsupported \subseteq Name \ Local
  /\ Overlap \subseteq Name

ASSUME SwitchAssumption == {Persistence, MayCrash} \subseteq BOOLEAN

VARIABLES
  conf,    \* which builder, and whether a remote mount is set
  pool,    \* the keys of ImagePool
  img,     \* the records the pointers lead to
  file,    \* the cache file
  dir,     \* the directory a record points to until it has a file exists
  node,    \* the image file of each name on the CRI node
  call,    \* the requests being served
  fate     \* history: what became of each pull

vars == <<conf, pool, img, file, dir, node, call, fate>>

-----------------------------------------------------------------------------
\* LocalPath leads to the directory at first, then to the name's file.
ImageMetadata == [name : Name \cup {Nobody}, parsed : BOOLEAN, at : {"dir", "file"}]
Presence == {"none", "partial", "whole"}
Fate     == {"unused", "rejected", "pulling", "failed", "cut", "pulled", "removed"}
Pc       == {"idle", "path", "write", "writing", "undo", "pulled", "remove",
             "fetch", "copying", "store"}
Call     == [pc : Pc, name : Name \cup {Nobody}, id : Image \cup {Nobody},
             got : Presence]

Blank   == [name |-> Nobody, parsed |-> FALSE, at |-> "dir"]
Idle    == [pc |-> "idle", name |-> Nobody, id |-> Nobody, got |-> "none"]
Configs == [inCluster : BOOLEAN, mount : BOOLEAN]

Init ==
  /\ conf \in Configs
  /\ pool = {}
  /\ img  = [i \in Image |-> Blank]
  /\ file = [i \in Image |-> Blank]
  /\ dir  \in BOOLEAN
  /\ node = [n \in Name |-> "none"]
  /\ call = [t \in Caller |-> Idle]
  /\ fate = [i \in Image |-> "unused"]

-----------------------------------------------------------------------------
(* The store.  An image without an entry in the file has Blank there. *)

MayBegin(t, n) ==
  /\ call[t] = Idle
  /\ n \in Overlap \/ \A u \in Caller : call[u].name # n

Written(i, record) == IF Persistence THEN [file EXCEPT ![i] = record] ELSE file

Put(i) ==
  /\ pool' = pool \cup {i}
  /\ file' = Written(i, img'[i])

\* Mutant: the entry of the file survives.
DeleteFromPoolOnly(i) ==
  /\ pool' = pool \ {i}
  /\ UNCHANGED file

Delete(i) ==
  /\ pool' = pool \ {i}
  /\ file' = Written(i, Blank)

\* GetByID: any record with this tag or digest, which ParseImage sets.
GetByID(n) == {i \in pool : img[i].parsed /\ img[i].name = n}

\* CheckFileExist(image.LocalPath).
Exists(i) == IF img[i].at = "dir" THEN dir ELSE node[img[i].name] # "none"

GoTo(t, pc)  == call' = [call EXCEPT ![t].pc = pc]
Return(t)    == call' = [call EXCEPT ![t] = Idle]
Marked(i, f) == fate' = [fate EXCEPT ![i] = f]
Serve(t, pc, n, i) == call' = [call EXCEPT ![t] = [Idle EXCEPT !.pc = pc, !.name = n, !.id = i]]

-----------------------------------------------------------------------------
(* PullImage *)

\* Under the name as requested, before it is parsed.
CreateImageMetadata(n) == [Blank EXCEPT !.name = n]
ParseImage(record)     == [record EXCEPT !.parsed = TRUE]

\* ParseImage refuses the name: the error goes out, the record stays.
PullUnsupported(t, n) ==
  /\ MayBegin(t, n)
  /\ n \in Unsupported
  /\ \E i \in Image :
       /\ fate[i] = "unused"
       /\ img' = [img EXCEPT ![i] = CreateImageMetadata(n)]
       /\ Put(i)
       /\ Marked(i, "rejected")
  /\ UNCHANGED <<conf, dir, node, call>>

\* Mutant: the record is parsed first and then added.
PullBeginParsed(t, n) ==
  /\ MayBegin(t, n)
  /\ n \notin Unsupported
  /\ \E i \in Image :
       /\ fate[i] = "unused"
       /\ img' = [img EXCEPT ![i] = ParseImage(CreateImageMetadata(n))]
       /\ Put(i)
       /\ Serve(t, "path", n, i)
       /\ Marked(i, "pulling")
  /\ UNCHANGED <<conf, dir, node>>

\* The record goes into pool and file, and is parsed in the pool only.
PullBegin(t, n) ==
  /\ MayBegin(t, n)
  /\ n \notin Unsupported
  /\ \E i \in Image :
       /\ fate[i] = "unused"
       /\ img'  = [img EXCEPT ![i] = ParseImage(CreateImageMetadata(n))]
       /\ pool' = pool \cup {i}
       /\ file' = Written(i, CreateImageMetadata(n))
       /\ Serve(t, "path", n, i)
       /\ Marked(i, "pulling")
  /\ UNCHANGED <<conf, dir, node>>

\* The builder in the cluster builds nothing yet.
PullInCluster(t) ==
  /\ call[t].pc = "path"
  /\ conf.inCluster
  /\ GoTo(t, "pulled")
  /\ UNCHANGED <<conf, pool, img, file, dir, node, fate>>

\* Nor does the builder in the node for a local image; it names its file.
PullLocal(t) ==
  /\ call[t].pc = "path"
  /\ ~conf.inCluster /\ call[t].name \in Local
  /\ img' = [img EXCEPT ![call[t].id].at = "file"]
  /\ GoTo(t, "pulled")
  /\ UNCHANGED <<conf, pool, file, dir, node, fate>>

\* The other images: the path is set and its directory made, or not.
PullPath(t) ==
  /\ call[t].pc = "path"
  /\ ~conf.inCluster /\ call[t].name \notin Local
  /\ img' = [img EXCEPT ![call[t].id].at = "file"]
  /\ \/ dir' = (dir \/ ~conf.mount) /\ GoTo(t, "write")
     \/ dir' = dir /\ GoTo(t, "undo")
  /\ UNCHANGED <<conf, pool, file, node, fate>>

\* singularity pull, which does not overwrite a file.
PullWrite(t) ==
  /\ call[t].pc = "write"
  /\ node[call[t].name] = "none"
  /\ node' = [node EXCEPT ![call[t].name] = "partial"]
  /\ GoTo(t, "writing")
  /\ UNCHANGED <<conf, pool, img, file, dir, fate>>

PullRefused(t) ==
  /\ call[t].pc = "write"
  /\ node[call[t].name] # "none"
  /\ GoTo(t, "undo")
  /\ UNCHANGED <<conf, pool, img, file, dir, node, fate>>

PullWritten(t) ==
  /\ call[t].pc = "writing"
  /\ node' = [node EXCEPT ![call[t].name] = "whole"]
  /\ GoTo(t, "pulled")
  /\ UNCHANGED <<conf, pool, img, file, dir, fate>>

\* It failed, or the size of the file could not be read.
PullFail(t) ==
  /\ call[t].pc = "writing"
  /\ \E left \in Presence : node' = [node EXCEPT ![call[t].name] = left]
  /\ GoTo(t, "undo")
  /\ UNCHANGED <<conf, pool, img, file, dir, fate>>

PullUndo(t) ==
  /\ call[t].pc = "undo"
  /\ Delete(call[t].id)
  /\ Marked(call[t].id, "failed")
  /\ Return(t)
  /\ UNCHANGED <<conf, img, dir, node>>

\* Mutants: the record is not put back; it is put back under no identifier.
PullCommitNoUpdate(t) ==
  /\ call[t].pc = "pulled"
  /\ Marked(call[t].id, "pulled")
  /\ Return(t)
  /\ UNCHANGED <<conf, pool, img, file, dir, node>>
PullCommitUnset(t) ==
  /\ call[t].pc = "pulled"
  /\ pool' = pool \cup {Nobody}
  /\ Marked(call[t].id, "pulled")
  /\ Return(t)
  /\ UNCHANGED <<conf, img, file, dir, node>>

\* imageStore.Update(imageMetadata) and the answer.
PullCommit(t) ==
  /\ call[t].pc = "pulled"
  /\ UNCHANGED <<conf, img, dir, node>>
  /\ Put(call[t].id)
  /\ Marked(call[t].id, "pulled")
  /\ Return(t)

-----------------------------------------------------------------------------
(* RemoveImage and ListImages *)

RemoveBegin(t, n) ==
  /\ MayBegin(t, n)
  /\ \E i \in GetByID(n) : Serve(t, "remove", n, i)
  /\ UNCHANGED <<conf, pool, img, file, dir, node, fate>>

\* The adapter does nothing: the image file stays.
RemoveCommit(t) ==
  /\ call[t].pc = "remove"
  /\ Delete(call[t].id)
  /\ IF fate[call[t].id] = "pulled" THEN Marked(call[t].id, "removed") ELSE UNCHANGED fate
  /\ Return(t)
  /\ UNCHANGED <<conf, img, dir, node>>

\* ListK8s, of all images or of one: it drops the records it finds no file for,
\* under the lock, at any time.
List(names) ==
  /\ LET missing == {i \in pool : img[i].name \in names /\ ~Exists(i)}
     IN /\ pool' = pool \ missing
        /\ file' = IF Persistence
                     THEN [i \in Image |-> IF i \in missing THEN Blank ELSE file[i]]
                     ELSE file
  /\ UNCHANGED <<conf, img, dir, node, call, fate>>

-----------------------------------------------------------------------------
(* CreateContainer, as far as it concerns the image *)

CreateBegin(t, n) ==
  /\ MayBegin(t, n)
  /\ \E i \in GetByID(n) : Serve(t, "fetch", n, i)
  /\ UNCHANGED <<conf, pool, img, file, dir, node, fate>>

\* Built in the node: the file is copied to the volume, or with a remote mount
\* used where it is, with no look at it.
FetchFromNode(t) ==
  LET n == call[t].name
  IN /\ call[t].pc = "fetch"
     /\ ~conf.inCluster /\ n \notin Local
     /\ conf.mount \/ (img[call[t].id].at = "file" /\ node[n] # "none")
     /\ call' = [call EXCEPT ![t] = [@ EXCEPT !.pc = "store", !.got = node[n]]]
     /\ UNCHANGED <<conf, pool, img, file, dir, node, fate>>

\* The in-cluster builder sets the path to the file before it does anything.
SetPath(t) ==
  img' = IF conf.inCluster THEN [img EXCEPT ![call[t].id].at = "file"] ELSE img

\* PullLocalImage: os.Create empties the name's file, then it is copied.
FetchLocal(t) ==
  /\ call[t].pc = "fetch"
  /\ call[t].name \in Local
  /\ conf.inCluster \/ img[call[t].id].at = "file"
  /\ SetPath(t)
  /\ node' = [node EXCEPT ![call[t].name] = "partial"]
  /\ GoTo(t, "copying")
  /\ UNCHANGED <<conf, pool, file, dir, fate>>

FetchCopied(t) ==
  /\ call[t].pc = "copying"
  /\ node' = [node EXCEPT ![call[t].name] = "whole"]
  /\ call' = [call EXCEPT ![t] = [@ EXCEPT !.pc = "store", !.got = "whole"]]
  /\ UNCHANGED <<conf, pool, img, file, dir, fate>>

\* PullImageScript: mkdir, singularity pull and stat without "set -e", so the status
\* is that of stat.  A pull that failed, or was refused because the file was there,
\* passes for one that worked when it left or met any part of the image.
FetchInCluster(t) ==
  /\ call[t].pc = "fetch"
  /\ conf.inCluster /\ call[t].name \notin Local
  /\ SetPath(t)
  /\ \E got \in {"partial", "whole"} :
       call' = [call EXCEPT ![t] = [@ EXCEPT !.pc = "store", !.got = got]]
  /\ UNCHANGED <<conf, pool, file, dir, node, fate>>

\* The error goes out; a path that was set, or a file half copied, stays.
FetchFail(t) ==
  /\ \/ call[t].pc = "fetch" /\ SetPath(t)
     \/ call[t].pc = "copying" /\ UNCHANGED img
  /\ Return(t)
  /\ UNCHANGED <<conf, pool, file, dir, node, fate>>

\* imageStore.Update(container.Image).
FetchStore(t) ==
  /\ call[t].pc = "store"
  /\ UNCHANGED <<conf, img, dir, node, fate>>
  /\ Put(call[t].id)
  /\ Return(t)

-----------------------------------------------------------------------------
(* The process *)

\* LoadAll takes what the file holds.
Restart ==
  /\ pool' = {i \in Image : Persistence /\ file[i] # Blank}
  /\ img'  = [i \in Image |-> IF i \in pool' THEN file[i] ELSE img[i]]
  /\ call' = [t \in Caller |-> Idle]
  /\ fate' = [i \in Image |-> CASE fate[i] = "pulling"                    -> "cut"
                                [] fate[i] = "pulled" /\ ~Persistence -> "cut"
                                [] OTHER                              -> fate[i]]
  /\ UNCHANGED <<conf, file, dir, node>>

Crash == MayCrash /\ Restart

\* The script printed no "FileSize:": the second piece is indexed all the same.
PanicSize(t) ==
  /\ call[t].pc = "fetch"
  /\ conf.inCluster /\ call[t].name \notin Local
  /\ Restart

-----------------------------------------------------------------------------
CallStep(t) ==
  \/ PullInCluster(t) \/ PullLocal(t) \/ PullPath(t) \/ PullWrite(t)
  \/ PullRefused(t) \/ PullWritten(t) \/ PullFail(t) \/ PullUndo(t) \/ PullCommit(t)
  \/ RemoveCommit(t)
  \/ FetchFromNode(t) \/ FetchLocal(t) \/ FetchCopied(t) \/ FetchInCluster(t)
  \/ FetchFail(t) \/ FetchStore(t) \/ PanicSize(t)

CallBegin(t, n) ==
  \/ PullUnsupported(t, n) \/ PullBegin(t, n) \/ RemoveBegin(t, n) \/ CreateBegin(t, n)

Next ==
  \/ \E t \in Caller : CallStep(t)
  \/ \E t \in Caller, n \in Name : CallBegin(t, n)
  \/ \E names \in {Name} \cup {{n} : n \in Name} : List(names)
  \/ Crash

Spec == Init /\ [][Next]_vars
=============================================================================
