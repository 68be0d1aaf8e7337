-------------------------- MODULE ImageServiceProps --------------------------
(* What the image half of the service promises. *)
EXTENDS ImageService

\* Every variable keeps its type.
TypeOK ==
  /\ conf \in Configs
  /\ pool \subseteq Image
  /\ img  \in [Image -> ImageMetadata]
  /\ file \in [Image -> ImageMetadata]
  /\ dir  \in BOOLEAN
  /\ node \in [Name -> Presence]
  /\ call \in [Caller -> Call]
  /\ fate \in [Image -> Fate]

\* Where PullImage stands between the two writes to the store.
PullPc == {"path", "write", "writing", "undo", "pulled"}

\* The cache file holds the images of the pool and no others, and the same
\* record of each but for the images being pulled.  One difference lasts: the
\* builder in the cluster sets the path of an image it then fails to pull, and
\* CreateContainer returns before Update (builder_cluster.go:54, container.go:80).
FileFollowsPool ==
  Persistence =>
    /\ pool = {i \in Image : file[i] # Blank}
    /\ \A i \in pool :
         \/ file[i] = img[i]
         \/ \E t \in Caller : call[t].id = i /\ call[t].pc \in PullPc
         \/ conf.inCluster /\ file[i] = [img[i] EXCEPT !.at = file[i].at]

\* An image that was pulled to the node stays until it is removed, whatever
\* listings, pulls of the same name and deaths of the server come: ListImages
\* may drop the record in mid-pull, and the pull's Update brings it back.  (Not
\* so local images and images built in the cluster, whose path leads to nothing
\* on the node: a listing drops them for good.)
PulledStays ==
  \A i \in Image :
    (fate[i] = "pulled" /\ ~conf.inCluster /\ img[i].name \notin Local) => i \in pool

\* The names that are served one call at a time.
SerialName == Name \ Overlap

\* An image that is built on the node, or a local one, which is copied there.
NodeImage(n) == ~conf.inCluster \/ n \in Local

\* No container is given part of an image with such a name that was built on the
\* node or is local: a pull cut short by death of the server leaves part of a file,
\* and no record that CreateContainer can find.  (An image built in the cluster may
\* be half there: its script ends with the status of stat, cmd.go:508-533.)
NoHalfImage ==
  \A t \in Caller :
    call[t].pc = "store" /\ call[t].name \in SerialName /\ NodeImage(call[t].name) =>
      call[t].got = "whole"

\* A removed image with such a name does not come back, neither through a late
\* Update nor from the cache file.
RemovedStaysOut ==
  \A i \in Image : fate[i] = "removed" /\ img[i].name \in SerialName => i \notin pool

-----------------------------------------------------------------------------
(* What the repository says and the code does not do. *)

\* A pulled image is listed, a local one too (unit_image_test.go:124-141).
PulledIsListed == \A i \in Image : fate[i] = "pulled" => i \in pool

-----------------------------------------------------------------------------
(* The inductive invariant behind PulledStays *)

OnNode(i) == ~conf.inCluster /\ img[i].name \notin Local

\* A request being served works on an image and a name.
BusyHaveImage ==
  \A t \in Caller :
    call[t].pc # "idle" => call[t].id \in Image /\ call[t].name \in Name

\* A record in the pool or the file comes from a pull, and keeps its name.
RecordsAreKnown ==
  \A i \in Image :
    /\ fate[i] = "unused" => i \notin pool /\ file[i] = Blank
    /\ fate[i] # "unused" => img[i].name \in Name
    /\ file[i] # Blank => file[i].name = img[i].name

\* A request works on a record of the name it was made for; each pull has its
\* own; only a pull to the node writes a file, and only local images are copied.
CallsAreKnown ==
  /\ \A t \in Caller : call[t].pc # "idle" =>
       /\ fate[call[t].id] # "unused"
       /\ img[call[t].id].name = call[t].name
       /\ call[t].pc \in PullPc => fate[call[t].id] = "pulling"
       /\ call[t].pc \in {"write", "writing", "undo"} => OnNode(call[t].id)
       /\ call[t].pc = "copying" => call[t].name \in Local
  /\ \A t, u \in Caller :
       call[t].pc \in PullPc /\ call[u].pc \in PullPc /\ call[t].id = call[u].id => t = u

\* Of one name there is one writer, and none once a pull of it has worked: this
\* rests on singularity, which is taken to look for its file and to make it at once.
PullsAreWhole ==
  /\ \A t \in Caller : call[t].pc = "writing" => node[call[t].name] = "partial"
  /\ \A t, u \in Caller :
       call[t].pc = "writing" /\ call[u].pc = "writing" /\ call[t].name = call[u].name => t = u
  /\ \A t \in Caller :
       call[t].pc \in {"write", "writing"} => img[call[t].id].at = "file"
  /\ \A t \in Caller :
       call[t].pc = "pulled" /\ OnNode(call[t].id) =>
         img[call[t].id].at = "file" /\ node[call[t].name] = "whole"
  /\ \A i \in Image :
       fate[i] = "pulled" /\ OnNode(i) =>
         /\ i \in pool
         /\ img[i].at = "file"
         /\ node[img[i].name] = "whole"
         /\ Persistence => file[i] # Blank /\ file[i].at = "file"

PullInv == TypeOK /\ BusyHaveImage /\ RecordsAreKnown /\ CallsAreKnown /\ PullsAreWhole
=============================================================================
