------------------------- MODULE ImageServiceProofs -------------------------
(***************************************************************************)
(* Proofs about the image half of the service, for every set of images,    *)
(* names and request slots and every setting of the switches: the calls on *)
(* one name may overlap here.                                              *)
(***************************************************************************)
EXTENDS ImageServiceProps, TLAPS

-----------------------------------------------------------------------------
(* Types *)

LEMMA InitType == Init => TypeOK /\ BusyHaveImage
  BY DEF Init, TypeOK, BusyHaveImage, Blank, Idle, ImageMetadata, Call, Pc, Presence, Fate

LEMMA RecordTypes ==
  /\ Blank \in ImageMetadata
  /\ Idle \in Call
  /\ \A n \in Name : /\ CreateImageMetadata(n) \in ImageMetadata
                     /\ ParseImage(CreateImageMetadata(n)) \in ImageMetadata
  BY DEF Blank, Idle, ImageMetadata, Call, Pc, Presence, CreateImageMetadata, ParseImage

\* What the pieces the handlers share do to the slots: one slot changes.
LEMMA GoToType ==
  ASSUME TypeOK, NEW t \in Caller, NEW pc \in Pc, GoTo(t, pc)
  PROVE  /\ call' \in [Caller -> Call]
         /\ call'[t].pc = pc
         /\ call'[t].id = call[t].id
         /\ call'[t].name = call[t].name
         /\ \A u \in Caller : u # t => call'[u] = call[u]
  BY DEF GoTo, TypeOK, Call

LEMMA ReturnType ==
  ASSUME TypeOK, NEW t \in Caller, Return(t)
  PROVE  /\ call' \in [Caller -> Call]
         /\ call'[t].pc = "idle"
         /\ \A u \in Caller : u # t => call'[u] = call[u]
  BY RecordTypes DEF Return, TypeOK, Idle

LEMMA ServeType ==
  ASSUME TypeOK, NEW t \in Caller, NEW pc \in Pc, NEW n \in Name, NEW i \in Image,
         Serve(t, pc, n, i)
  PROVE  /\ call' \in [Caller -> Call]
         /\ call'[t].pc = pc /\ call'[t].name = n /\ call'[t].id = i
         /\ \A u \in Caller : u # t => call'[u] = call[u]
  BY DEF Serve, TypeOK, Idle, Call, Presence

\* What they do to the store: one image changes.
LEMMA WrittenType ==
  ASSUME TypeOK, NEW i \in Image, NEW r \in ImageMetadata
  PROVE  /\ Written(i, r) \in [Image -> ImageMetadata]
         /\ \A j \in Image : j # i => Written(i, r)[j] = file[j]
         /\ Persistence => Written(i, r)[i] = r
         /\ ~Persistence => Written(i, r) = file
  BY DEF Written, TypeOK

LEMMA SetAtType ==
  ASSUME TypeOK, NEW i \in Image, img' = [img EXCEPT ![i].at = "file"]
  PROVE  /\ img' \in [Image -> ImageMetadata]
         /\ img'[i].at = "file"
         /\ \A j \in Image : /\ img'[j].name = img[j].name
                             /\ j # i => img'[j] = img[j]
  BY DEF TypeOK, ImageMetadata

LEMMA MarkedType ==
  ASSUME TypeOK, NEW i \in Image, NEW f \in Fate, Marked(i, f)
  PROVE  /\ fate' \in [Image -> Fate]
         /\ fate'[i] = f
         /\ \A j \in Image : j # i => fate'[j] = fate[j]
  BY DEF Marked, TypeOK

TypeInv == TypeOK /\ BusyHaveImage

LEMMA PullStepType ==
  ASSUME TypeInv, NEW t \in Caller,
         \/ PullInCluster(t) \/ PullLocal(t) \/ PullPath(t) \/ PullWrite(t)
         \/ PullRefused(t) \/ PullWritten(t) \/ PullFail(t) \/ PullUndo(t) \/ PullCommit(t)
  PROVE  TypeInv'
<1> DEFINE i == call[t].id
<1> USE DEF TypeInv, BusyHaveImage
<1>0. /\ i \in Image
      /\ img[i] \in ImageMetadata
  BY DEF PullInCluster, PullLocal, PullPath, PullWrite, PullRefused, PullWritten,
         PullFail, PullUndo, PullCommit, TypeOK
<1>1. CASE PullInCluster(t) \/ PullRefused(t)
  BY <1>1, GoToType DEF PullInCluster, PullRefused, TypeOK, Pc
<1>2. CASE PullLocal(t)
  <2>1. img' \in [Image -> ImageMetadata]
    BY <1>0, <1>2, SetAtType DEF PullLocal
  <2> QED
    BY <1>2, <2>1, GoToType DEF PullLocal, TypeOK, Pc
<1>3. CASE PullPath(t)
  <2>1. img' \in [Image -> ImageMetadata] /\ dir' \in BOOLEAN
    BY <1>0, <1>3, SetAtType DEF PullPath, TypeOK, Configs
  <2>2. PICK pc \in {"write", "undo"} : GoTo(t, pc)
    BY <1>3 DEF PullPath
  <2> QED
    BY <1>3, <2>1, <2>2, GoToType DEF PullPath, TypeOK, Pc
<1>4. CASE PullWrite(t) \/ PullWritten(t) \/ PullFail(t)
  <2>1. node' \in [Name -> Presence]
    BY <1>4 DEF PullWrite, PullWritten, PullFail, TypeOK, Presence
  <2> QED
    BY <1>4, <2>1, GoToType DEF PullWrite, PullWritten, PullFail, TypeOK, Pc
<1>5. CASE PullUndo(t)
  BY <1>0, <1>5, ReturnType, WrittenType, MarkedType, RecordTypes
  DEF PullUndo, Delete, TypeOK, Fate
<1>6. CASE PullCommit(t)
  BY <1>0, <1>6, ReturnType, WrittenType, MarkedType
  DEF PullCommit, Put, TypeOK, Fate
<1> QED
  BY <1>1, <1>2, <1>3, <1>4, <1>5, <1>6

LEMMA OtherStepType ==
  ASSUME TypeInv, NEW t \in Caller,
         \/ RemoveCommit(t) \/ FetchFromNode(t) \/ FetchLocal(t) \/ FetchCopied(t)
         \/ FetchInCluster(t) \/ FetchFail(t) \/ FetchStore(t)
  PROVE  TypeInv'
<1> DEFINE i == call[t].id
<1> USE DEF TypeInv, BusyHaveImage
<1>0. i \in Image /\ call[t].name \in Name
  BY DEF RemoveCommit, FetchFromNode, FetchLocal, FetchCopied, FetchInCluster,
         FetchFail, FetchStore
<1>1. CASE RemoveCommit(t)
  BY <1>0, <1>1, ReturnType, WrittenType, MarkedType, RecordTypes
  DEF RemoveCommit, Delete, TypeOK, Fate
<1>2. ASSUME SetPath(t)
      PROVE  img' \in [Image -> ImageMetadata]
  BY <1>0, <1>2, SetAtType DEF SetPath, TypeOK
<1>3. ASSUME NEW g \in Presence, call' = [call EXCEPT ![t] = [@ EXCEPT !.pc = "store", !.got = g]]
      PROVE  /\ call' \in [Caller -> Call]
             /\ \A u \in Caller :
                  /\ call'[u].id = call[u].id /\ call'[u].name = call[u].name
                  /\ u # t => call'[u] = call[u]
  BY <1>3 DEF TypeOK, Call, Pc
<1>4. CASE FetchFromNode(t)
  <2>1. node[call[t].name] \in Presence
    BY <1>0 DEF TypeOK
  <2> QED
    BY <1>0, <1>3, <1>4, <2>1 DEF FetchFromNode, TypeOK
<1>5. CASE FetchLocal(t)
  <2>1. node' \in [Name -> Presence]
    BY <1>5 DEF FetchLocal, TypeOK, Presence
  <2> QED
    BY <1>2, <1>5, <2>1, GoToType DEF FetchLocal, TypeOK, Pc
<1>6. CASE FetchCopied(t)
  <2>1. node' \in [Name -> Presence]
    BY <1>6 DEF FetchCopied, TypeOK, Presence
  <2>2. "whole" \in Presence
    BY DEF Presence
  <2> QED
    BY <1>0, <1>3, <1>6, <2>1, <2>2 DEF FetchCopied, TypeOK
<1>7. CASE FetchInCluster(t)
  <2>1. PICK got \in Presence :
          call' = [call EXCEPT ![t] = [call[t] EXCEPT !.pc = "store", !.got = got]]
    BY <1>7 DEF FetchInCluster, Presence
  <2>2. /\ call' \in [Caller -> Call]
        /\ \A u \in Caller :
             /\ call'[u].id = call[u].id /\ call'[u].name = call[u].name
             /\ u # t => call'[u] = call[u]
    BY <1>3, <2>1
  <2>3. img' \in [Image -> ImageMetadata]
    BY <1>2, <1>7 DEF FetchInCluster
  <2>4. UNCHANGED <<conf, pool, file, dir, node, fate>>
    BY <1>7 DEF FetchInCluster
  <2>5. call[t].pc # "idle"
    BY <1>7 DEF FetchInCluster
  <2>6. BusyHaveImage'
    BY <1>0, <2>2, <2>5
  <2> QED
    BY <2>2, <2>3, <2>4, <2>6 DEF TypeOK
<1>8. CASE FetchFail(t)
  BY <1>2, <1>8, ReturnType DEF FetchFail, TypeOK
<1>9. CASE FetchStore(t)
  BY <1>0, <1>9, ReturnType, WrittenType DEF FetchStore, Put, TypeOK
<1> QED
  BY <1>1, <1>4, <1>5, <1>6, <1>7, <1>8, <1>9

LEMMA RestartType == TypeInv /\ Restart => TypeInv'
  BY RecordTypes DEF TypeInv, TypeOK, BusyHaveImage, Restart, Idle, Fate

\* A new record, under an identifier not used before.
LEMMA BeginType ==
  ASSUME TypeInv, NEW t \in Caller, NEW n \in Name, CallBegin(t, n)
  PROVE  TypeInv'
<1> USE DEF TypeInv, BusyHaveImage
<1>1. CASE PullUnsupported(t, n)
  <2>1. PICK i \in Image :
          /\ img' = [img EXCEPT ![i] = CreateImageMetadata(n)]
          /\ Put(i)
          /\ Marked(i, "rejected")
    BY <1>1 DEF PullUnsupported
  <2>2. img' \in [Image -> ImageMetadata] /\ img'[i] \in ImageMetadata
    BY <2>1, RecordTypes DEF TypeOK
  <2> QED
    BY <1>1, <2>1, <2>2, WrittenType, MarkedType DEF PullUnsupported, Put, TypeOK, Fate
<1>2. CASE PullBegin(t, n)
  <2>1. PICK i \in Image :
          /\ img'  = [img EXCEPT ![i] = ParseImage(CreateImageMetadata(n))]
          /\ pool' = pool \cup {i}
          /\ file' = Written(i, CreateImageMetadata(n))
          /\ Serve(t, "path", n, i)
          /\ Marked(i, "pulling")
    BY <1>2 DEF PullBegin
  <2>2. img' \in [Image -> ImageMetadata] /\ file' \in [Image -> ImageMetadata]
    BY <2>1, RecordTypes, WrittenType DEF TypeOK
  <2> QED
    BY <1>2, <2>1, <2>2, ServeType, MarkedType DEF PullBegin, TypeOK, Fate, Pc
<1>3. CASE RemoveBegin(t, n) \/ CreateBegin(t, n)
  <2>1. PICK i \in GetByID(n), pc \in {"remove", "fetch"} : Serve(t, pc, n, i)
    BY <1>3 DEF RemoveBegin, CreateBegin
  <2>2. i \in Image /\ pc \in Pc
    BY <2>1 DEF GetByID, TypeOK, Pc
  <2> QED
    BY <1>3, <2>1, <2>2, ServeType DEF RemoveBegin, CreateBegin, TypeOK
<1> QED
  BY <1>1, <1>2, <1>3 DEF CallBegin

LEMMA ListType ==
  ASSUME TypeInv, NEW names, List(names)
  PROVE  TypeInv'
  BY RecordTypes DEF TypeInv, TypeOK, BusyHaveImage, List

LEMMA TypeStep == TypeInv /\ [Next]_vars => TypeInv'
<1> SUFFICES ASSUME TypeInv, [Next]_vars PROVE TypeInv'
  OBVIOUS
<1>1. CASE UNCHANGED vars
  BY <1>1 DEF vars, TypeInv, TypeOK, BusyHaveImage
<1>2. ASSUME NEW t \in Caller, CallStep(t) PROVE TypeInv'
  BY <1>2, PullStepType, OtherStepType, RestartType DEF CallStep, PanicSize
<1> QED
  BY <1>1, <1>2, BeginType, ListType, RestartType DEF Next, Crash

\* TypeOK, for the image half.
THEOREM TypeCorrect == Spec => []TypeOK
<1>1. Init => TypeInv
  BY InitType DEF TypeInv
<1>2. TypeInv => TypeOK
  BY DEF TypeInv
<1> QED
  BY <1>1, <1>2, TypeStep, PTL DEF Spec

-----------------------------------------------------------------------------
(* PulledStays: the three parts of PullInv, step by step *)

Known == RecordsAreKnown /\ CallsAreKnown
Typed == TypeInv /\ TypeInv'

\* A call goes on to another place, and nothing else about the slots changes.
Moves(t, pc) ==
  /\ call'[t].pc = pc
  /\ \A u \in Caller : /\ call'[u].id = call[u].id /\ call'[u].name = call[u].name
                       /\ u # t => call'[u] = call[u]

LEMMA GoToMoves ==
  ASSUME TypeInv, NEW t \in Caller, NEW pc \in Pc, GoTo(t, pc)
  PROVE  Moves(t, pc)
  BY GoToType DEF TypeInv, Moves

LEMMA FetchMoves ==
  ASSUME TypeInv, NEW t \in Caller, FetchFromNode(t) \/ FetchCopied(t) \/ FetchInCluster(t)
  PROVE  Moves(t, "store")
<1>1. PICK g : call' = [call EXCEPT ![t] = [@ EXCEPT !.pc = "store", !.got = g]]
  BY DEF FetchFromNode, FetchCopied, FetchInCluster
<1> QED
  BY <1>1 DEF TypeInv, TypeOK, Call, Moves

LEMMA SetPathNames ==
  ASSUME TypeInv, NEW t \in Caller, call[t].pc # "idle", SetPath(t)
  PROVE  /\ \A j \in Image : /\ img'[j].name = img[j].name
                             /\ img[j].at = "file" => img'[j].at = "file"
         /\ ~conf.inCluster => img' = img
  BY SetAtType DEF TypeInv, BusyHaveImage, SetPath

\* Such a step, when it leaves pool, file and fates alone and keeps the names.
LEMMA MoveKnown ==
  ASSUME Typed, Known, NEW t \in Caller, NEW pc \in Pc,
         call[t].pc # "idle", Moves(t, pc), UNCHANGED <<conf, pool, file, fate>>,
         \A j \in Image : img'[j].name = img[j].name,
         pc \in PullPc => call[t].pc \in PullPc,
         pc \in {"write", "writing", "undo"} => OnNode(call[t].id),
         pc = "copying" => call[t].name \in Local
  PROVE  Known'
<1> USE DEF Typed, Known, TypeInv, Moves
<1>1. RecordsAreKnown'
  BY DEF RecordsAreKnown
<1>2. \A u \in Caller : call[u].pc # "idle" => OnNode(call[u].id)' = OnNode(call[u].id)
  BY DEF OnNode, BusyHaveImage
<1>3. CallsAreKnown'
  BY <1>2 DEF CallsAreKnown, BusyHaveImage, PullPc
<1> QED
  BY <1>1, <1>3

\* A call that ends, when it keeps the names and lets no image of another pull
\* leave the state "pulling".
LEMMA EndKnown ==
  ASSUME Typed, Known, NEW t \in Caller, Return(t), UNCHANGED conf,
         \A j \in Image : img'[j].name = img[j].name,
         RecordsAreKnown',
         \A j \in Image : fate[j] # "unused" => fate'[j] # "unused",
         \A u \in Caller : u # t /\ call[u].pc \in PullPc =>
           fate'[call[u].id] = fate[call[u].id]
  PROVE  Known'
<1> USE DEF Typed, Known, TypeInv
<1>1. \A u \in Caller :
        u # t /\ call[u].pc # "idle" => OnNode(call[u].id)' = OnNode(call[u].id)
  BY ReturnType DEF OnNode, BusyHaveImage
<1>2. CallsAreKnown'
  BY <1>1, ReturnType DEF CallsAreKnown, BusyHaveImage, PullPc
<1> QED
  BY <1>2

\* What Put and Delete leave of the records.
LEMMA StoreKnown ==
  ASSUME Typed, Known, NEW i \in Image, fate[i] # "unused",
         (Put(i) /\ pool' \subseteq Image) \/ Delete(i),
         UNCHANGED img,
         \A j \in Image : fate'[j] = "unused" <=> fate[j] = "unused"
  PROVE  RecordsAreKnown'
<1> USE DEF Typed, Known, TypeInv
<1>1. pool' \subseteq pool \cup {i}
  BY DEF Put, Delete
<1>2. PICK r \in ImageMetadata : file' = Written(i, r) /\ (r = img[i] \/ r = Blank)
  BY RecordTypes DEF Put, Delete, TypeOK
<1>3. \A j \in Image : j # i => file'[j] = file[j]
  BY <1>2, WrittenType
<1>4. file'[i] = file[i] \/ file'[i] = img[i] \/ file'[i] = Blank
  BY <1>2, WrittenType
<1> QED
  BY <1>1, <1>3, <1>4 DEF RecordsAreKnown

\* Two calls under way share no pull, and RecordsAreKnown after each kind of end.
LEMMA OthersPull ==
  ASSUME TypeInv, Known, NEW t \in Caller, call[t].pc \in PullPc
  PROVE  \A u \in Caller : u # t /\ call[u].pc \in PullPc => call[u].id # call[t].id
  BY DEF Known, CallsAreKnown

LEMMA PullKnown ==
  ASSUME Typed, Known, NEW t \in Caller,
         \/ PullInCluster(t) \/ PullLocal(t) \/ PullPath(t) \/ PullWrite(t)
         \/ PullRefused(t) \/ PullWritten(t) \/ PullFail(t) \/ PullUndo(t) \/ PullCommit(t)
  PROVE  Known'
<1> DEFINE i == call[t].id
<1> USE DEF Typed
<1>0. /\ call[t].pc \in PullPc
      /\ i \in Image /\ call[t].name \in Name
      /\ img[i].name = call[t].name
      /\ fate[i] = "pulling"
  BY DEF PullInCluster, PullLocal, PullPath, PullWrite, PullRefused, PullWritten,
         PullFail, PullUndo, PullCommit, PullPc, TypeInv, BusyHaveImage, Known, CallsAreKnown
<1>1. CASE PullInCluster(t)
  BY <1>0, <1>1, GoToMoves, MoveKnown DEF PullInCluster, Pc, PullPc
<1>2. CASE PullLocal(t)
  BY <1>0, <1>2, GoToMoves, MoveKnown, SetAtType DEF PullLocal, Pc, PullPc, TypeInv
<1>3. CASE PullPath(t)
  <2>1. PICK pc \in {"write", "undo"} : GoTo(t, pc)
    BY <1>3 DEF PullPath
  <2>2. \A j \in Image : img'[j].name = img[j].name
    BY <1>0, <1>3, SetAtType DEF PullPath, TypeInv
  <2>3. OnNode(i)
    BY <1>0, <1>3 DEF PullPath, OnNode
  <2> QED
    BY <1>0, <1>3, <2>1, <2>2, <2>3, GoToMoves, MoveKnown DEF PullPath, Pc, PullPc
<1>4. CASE PullWrite(t) \/ PullRefused(t)
  <2>1. PICK pc \in {"writing", "undo"} : GoTo(t, pc)
    BY <1>4 DEF PullWrite, PullRefused
  <2>2. OnNode(i)
    BY <1>4 DEF PullWrite, PullRefused, Known, CallsAreKnown
  <2> QED
    BY <1>0, <1>4, <2>1, <2>2, GoToMoves, MoveKnown DEF PullWrite, PullRefused, Pc, PullPc
<1>5. CASE PullWritten(t) \/ PullFail(t)
  <2>1. PICK pc \in {"pulled", "undo"} : GoTo(t, pc)
    BY <1>5 DEF PullWritten, PullFail
  <2>2. OnNode(i)
    BY <1>5 DEF PullWritten, PullFail, Known, CallsAreKnown
  <2> QED
    BY <1>0, <1>5, <2>1, <2>2, GoToMoves, MoveKnown DEF PullWritten, PullFail, Pc, PullPc
<1>6. CASE PullUndo(t)
  <2>1. /\ fate'[i] = "failed"
        /\ \A j \in Image : j # i => fate'[j] = fate[j]
    BY <1>0, <1>6, MarkedType DEF PullUndo, TypeInv, Fate
  <2>2. RecordsAreKnown'
    BY <1>0, <1>6, <2>1, StoreKnown DEF PullUndo
  <2>3. \A u \in Caller : u # t /\ call[u].pc \in PullPc =>
          fate'[call[u].id] = fate[call[u].id]
    BY <1>0, <2>1, OthersPull DEF TypeInv, BusyHaveImage, PullPc
  <2>4. Return(t) /\ UNCHANGED <<conf, img>>
    BY <1>6 DEF PullUndo
  <2> QED
    BY <2>1, <2>2, <2>3, <2>4, EndKnown
<1>7. CASE PullCommit(t)
  <2>1. /\ fate'[i] = "pulled"
        /\ \A j \in Image : j # i => fate'[j] = fate[j]
    BY <1>0, <1>7, MarkedType DEF PullCommit, TypeInv, Fate
  <2>2. RecordsAreKnown'
    BY <1>0, <1>7, <2>1, StoreKnown DEF PullCommit, Put, TypeInv, TypeOK
  <2>3. \A u \in Caller : u # t /\ call[u].pc \in PullPc =>
          fate'[call[u].id] = fate[call[u].id]
    BY <1>0, <2>1, OthersPull DEF TypeInv, BusyHaveImage, PullPc
  <2>4. Return(t) /\ UNCHANGED <<conf, img>>
    BY <1>7 DEF PullCommit
  <2> QED
    BY <2>1, <2>2, <2>3, <2>4, EndKnown
<1> QED
  BY <1>1, <1>2, <1>3, <1>4, <1>5, <1>6, <1>7

LEMMA OtherKnown ==
  ASSUME Typed, Known, NEW t \in Caller,
         \/ RemoveCommit(t) \/ FetchFromNode(t) \/ FetchLocal(t) \/ FetchCopied(t)
         \/ FetchInCluster(t) \/ FetchFail(t) \/ FetchStore(t)
  PROVE  Known'
<1> DEFINE i == call[t].id
<1> USE DEF Typed
<1>0. /\ call[t].pc # "idle" /\ call[t].pc \notin PullPc
      /\ i \in Image /\ call[t].name \in Name
      /\ fate[i] # "unused"
      /\ img[i].name = call[t].name
  BY DEF RemoveCommit, FetchFromNode, FetchLocal, FetchCopied, FetchInCluster,
         FetchFail, FetchStore, PullPc, TypeInv, BusyHaveImage, Known, CallsAreKnown
<1>1. CASE RemoveCommit(t)
  <2>1. /\ \A j \in Image : fate[j] # "unused" => fate'[j] # "unused"
        /\ \A j \in Image : fate[j] = "unused" => fate'[j] = "unused"
        /\ \A j \in Image : fate[j] = "pulling" => fate'[j] = fate[j]
    BY <1>0, <1>1, MarkedType DEF RemoveCommit, TypeInv, Fate
  <2>2. RecordsAreKnown'
    BY <1>0, <1>1, <2>1, StoreKnown DEF RemoveCommit
  <2>3. \A u \in Caller : call[u].pc \in PullPc => fate'[call[u].id] = fate[call[u].id]
    BY <2>1 DEF Known, CallsAreKnown, TypeInv, BusyHaveImage, PullPc
  <2> QED
    BY <1>1, <2>1, <2>2, <2>3, EndKnown DEF RemoveCommit
<1>2. CASE FetchFromNode(t) \/ FetchCopied(t)
  BY <1>0, <1>2, FetchMoves, MoveKnown DEF FetchFromNode, FetchCopied, Pc, PullPc
<1>3. CASE FetchLocal(t)
  BY <1>0, <1>3, GoToMoves, MoveKnown, SetPathNames DEF FetchLocal, Pc, PullPc
<1>4. CASE FetchInCluster(t)
  BY <1>0, <1>4, FetchMoves, MoveKnown, SetPathNames DEF FetchInCluster, Pc, PullPc
<1>5. CASE FetchFail(t)
  <2>1. \A j \in Image : img'[j].name = img[j].name
    BY <1>0, <1>5, SetPathNames DEF FetchFail
  <2>2. RecordsAreKnown'
    BY <1>5, <2>1 DEF FetchFail, Known, RecordsAreKnown
  <2> QED
    BY <1>5, <2>1, <2>2, EndKnown DEF FetchFail
<1>6. CASE FetchStore(t)
  <2>1. RecordsAreKnown'
    BY <1>0, <1>6, StoreKnown DEF FetchStore, Put, TypeInv, TypeOK
  <2> QED
    BY <1>6, <2>1, EndKnown DEF FetchStore
<1> QED
  BY <1>1, <1>2, <1>3, <1>4, <1>5, <1>6

\* A new pull takes an identifier no request and no record has.
LEMMA BeginKnown ==
  ASSUME Typed, Known, NEW t \in Caller, NEW n \in Name, CallBegin(t, n)
  PROVE  Known'
<1> USE DEF Typed, Known, TypeInv
<1>1. CASE PullUnsupported(t, n)
  <2>1. PICK i \in Image :
          /\ fate[i] = "unused"
          /\ img' = [img EXCEPT ![i] = CreateImageMetadata(n)]
          /\ Put(i)
          /\ Marked(i, "rejected")
    BY <1>1 DEF PullUnsupported
  <2>2. /\ img'[i] = CreateImageMetadata(n)
        /\ \A j \in Image : j # i => img'[j] = img[j] /\ fate'[j] = fate[j]
        /\ fate'[i] = "rejected"
    BY <2>1, MarkedType DEF TypeOK, Fate
  <2>3. /\ pool' = pool \cup {i}
        /\ \A j \in Image : j # i => file'[j] = file[j]
        /\ file'[i] = file[i] \/ file'[i] = img'[i]
    BY <2>1, <2>2, WrittenType, RecordTypes DEF Put
  <2>4. RecordsAreKnown'
    <3>1. CreateImageMetadata(n).name = n
      BY DEF CreateImageMetadata, Blank
    <3> QED
      BY <2>1, <2>2, <2>3, <3>1 DEF RecordsAreKnown
  <2>5. \A u \in Caller : call[u].pc # "idle" => call[u].id # i
    BY <2>1 DEF CallsAreKnown
  <2>6. \A u \in Caller : call[u].pc # "idle" => OnNode(call[u].id)' = OnNode(call[u].id)
    BY <1>1, <2>2, <2>5 DEF PullUnsupported, OnNode, BusyHaveImage
  <2> QED
    BY <1>1, <2>2, <2>4, <2>5, <2>6 DEF PullUnsupported, CallsAreKnown, BusyHaveImage
<1>2. CASE PullBegin(t, n)
  <2>1. PICK i \in Image :
          /\ fate[i] = "unused"
          /\ img'  = [img EXCEPT ![i] = ParseImage(CreateImageMetadata(n))]
          /\ pool' = pool \cup {i}
          /\ file' = Written(i, CreateImageMetadata(n))
          /\ Serve(t, "path", n, i)
          /\ Marked(i, "pulling")
    BY <1>2 DEF PullBegin
  <2>2. /\ img'[i].name = n
        /\ \A j \in Image : j # i => img'[j] = img[j] /\ fate'[j] = fate[j]
        /\ fate'[i] = "pulling"
    BY <2>1, MarkedType DEF TypeOK, Fate, ParseImage, CreateImageMetadata, Blank
  <2>3. /\ \A j \in Image : j # i => file'[j] = file[j]
        /\ file'[i] = file[i] \/ file'[i] = CreateImageMetadata(n)
    BY <2>1, WrittenType, RecordTypes
  <2>4. RecordsAreKnown'
    <3>1. CreateImageMetadata(n).name = n
      BY DEF CreateImageMetadata, Blank
    <3> QED
      BY <2>1, <2>2, <2>3, <3>1 DEF RecordsAreKnown
  <2>5. \A u \in Caller : call[u].pc # "idle" => call[u].id # i
    BY <2>1 DEF CallsAreKnown
  <2>6. \A u \in Caller : u # t /\ call[u].pc # "idle" =>
          OnNode(call[u].id)' = OnNode(call[u].id)
    BY <1>2, <2>1, <2>2, <2>5, ServeType DEF PullBegin, OnNode, BusyHaveImage, Pc
  <2> QED
    <3>1. call'[t].pc = "path" /\ call'[t].name = n /\ call'[t].id = i
      BY <2>1, ServeType DEF Pc
    <3>2. \A u \in Caller : u # t => call'[u] = call[u]
      BY <2>1, ServeType DEF Pc
    <3>3. \A u \in Caller : u # t /\ call[u].pc # "idle" =>
            fate'[call[u].id] = fate[call[u].id] /\ img'[call[u].id] = img[call[u].id]
      BY <2>2, <2>5 DEF BusyHaveImage
    <3> QED
      BY <2>2, <2>4, <2>5, <2>6, <3>1, <3>2, <3>3 DEF CallsAreKnown, PullPc
<1>3. CASE RemoveBegin(t, n) \/ CreateBegin(t, n)
  <2>1. PICK i \in GetByID(n), pc \in {"remove", "fetch"} : Serve(t, pc, n, i)
    BY <1>3 DEF RemoveBegin, CreateBegin
  <2>2. i \in pool /\ i \in Image /\ img[i].name = n
    BY <2>1 DEF GetByID, TypeOK
  <2>3. UNCHANGED <<conf, pool, img, file, fate>>
    BY <1>3 DEF RemoveBegin, CreateBegin
  <2>4. RecordsAreKnown' /\ fate'[i] # "unused"
    BY <2>2, <2>3 DEF RecordsAreKnown
  <2>5. \A u \in Caller : u # t /\ call[u].pc # "idle" =>
          OnNode(call[u].id)' = OnNode(call[u].id)
    BY <2>1, <2>2, <2>3, ServeType DEF OnNode, Pc
  <2> QED
    BY <2>1, <2>2, <2>3, <2>4, <2>5, ServeType DEF CallsAreKnown, BusyHaveImage, Pc, PullPc
<1> QED
  BY <1>1, <1>2, <1>3 DEF CallBegin

LEMMA ListKnown ==
  ASSUME Typed, Known, NEW names, List(names)
  PROVE  Known'
<1> USE DEF Typed, Known, TypeInv
<1>1. pool' \subseteq pool
  BY DEF List
<1>2. \A j \in Image : file'[j] = file[j] \/ file'[j] = Blank
  BY DEF List
<1>3. UNCHANGED <<conf, img, call, fate>>
  BY DEF List
<1>4. RecordsAreKnown'
  BY <1>1, <1>2, <1>3 DEF RecordsAreKnown
<1>5. CallsAreKnown'
  BY <1>3 DEF CallsAreKnown, OnNode
<1> QED
  BY <1>4, <1>5

LEMMA RestartKnown ==
  ASSUME Typed, Known, Restart
  PROVE  Known'
<1> USE DEF Typed, Known, TypeInv
<1>1. RecordsAreKnown'
  BY DEF Restart, RecordsAreKnown, TypeOK, Fate
<1>2. CallsAreKnown'
  BY DEF Restart, CallsAreKnown, Idle, PullPc
<1> QED
  BY <1>1, <1>2

\* A step that leaves the fates, pool and file alone, no file on the node worse
\* off, and takes a call to a place that asks nothing of that file.
LEMMA MoveWhole ==
  ASSUME Typed, Known, PullsAreWhole, NEW t \in Caller, NEW pc \in Pc,
         call[t].pc # "idle", Moves(t, pc), UNCHANGED <<conf, pool, file, fate, node>>,
         \A j \in Image : /\ img'[j].name = img[j].name
                          /\ img[j].at = "file" => img'[j].at = "file",
         pc = "write" => img'[call[t].id].at = "file",
         pc # "writing",
         pc = "pulled" => ~OnNode(call[t].id)
  PROVE  PullsAreWhole'
<1> USE DEF Typed, TypeInv, Moves
<1>1. \A j \in Image : OnNode(j)' = OnNode(j)
  BY DEF OnNode
<1> QED
  BY <1>1 DEF PullsAreWhole, BusyHaveImage

\* A step that changes the file of the call's name.
LEMMA NodeWhole ==
  ASSUME Typed, Known, PullsAreWhole, NEW t \in Caller, NEW pc \in Pc,
         call[t].pc # "idle", Moves(t, pc), UNCHANGED <<conf, pool, file, fate, img>>,
         OnNode(call[t].id),
         \A m \in Name : m # call[t].name => node'[m] = node[m],
         node[call[t].name] # "whole",
         \A u \in Caller : u # t /\ call[u].pc = "writing" => call[u].name # call[t].name,
         pc = "write" => call[t].pc = "write",
         pc = "writing" => call[t].pc = "write" /\ node'[call[t].name] = "partial",
         pc = "pulled" => call[t].pc = "writing" /\ node'[call[t].name] = "whole"
  PROVE  PullsAreWhole'
<1> USE DEF Typed, TypeInv, Moves
<1>1. \A j \in Image : OnNode(j)' = OnNode(j)
  BY DEF OnNode
<1>2. /\ call[t].id \in Image /\ call[t].name \in Name
      /\ img[call[t].id].name = call[t].name
  BY DEF BusyHaveImage, Known, CallsAreKnown
<1>3. \A j \in Image : fate[j] = "pulled" /\ OnNode(j) => img[j].name # call[t].name
  BY DEF PullsAreWhole
<1>4. \A j \in Image : fate[j] = "pulled" /\ OnNode(j) =>
        node'[img[j].name] = node[img[j].name]
  BY <1>3 DEF Known, RecordsAreKnown
<1>5. \A u \in Caller : u # t /\ call[u].pc \in {"pulled", "writing"} /\ OnNode(call[u].id) =>
        node'[call[u].name] = node[call[u].name]
  BY DEF PullsAreWhole, BusyHaveImage
<1>6. \A u \in Caller : call[u].pc = "writing" => OnNode(call[u].id)
  BY DEF Known, CallsAreKnown
<1>7. \A u, v \in Caller :
        call'[u].pc = "writing" /\ call'[v].pc = "writing" /\ call'[u].name = call'[v].name => u = v
  BY DEF PullsAreWhole
<1>8. \A u \in Caller : call'[u].pc = "writing" => node'[call'[u].name] = "partial"
  BY <1>5, <1>6 DEF PullsAreWhole
<1>9. \A u \in Caller : call'[u].pc \in {"write", "writing"} => img[call'[u].id].at = "file"
  BY DEF PullsAreWhole
<1>10. \A u \in Caller : call'[u].pc = "pulled" /\ OnNode(call'[u].id) =>
         img[call'[u].id].at = "file" /\ node'[call'[u].name] = "whole"
  BY <1>5 DEF PullsAreWhole
<1> QED
  BY <1>1, <1>4, <1>7, <1>8, <1>9, <1>10 DEF PullsAreWhole, BusyHaveImage

\* A call that ends or begins, or none, when the pulled images keep what they
\* have and no record in use is worse off.
LEMMA EndWhole ==
  ASSUME Typed, Known, PullsAreWhole, UNCHANGED <<conf, node>>,
         \A u \in Caller :
           call'[u] = call[u] \/ call'[u].pc \notin {"write", "writing", "pulled"},
         \A j \in Image : fate[j] # "unused" =>
           /\ img'[j].name = img[j].name
           /\ img[j].at = "file" => img'[j].at = "file",
         \A j \in Image : fate'[j] = "pulled" /\ OnNode(j) =>
           /\ j \in pool'
           /\ img'[j].at = "file"
           /\ node[img[j].name] = "whole"
           /\ Persistence => file'[j] # Blank /\ file'[j].at = "file",
         \A j \in Image : fate[j] = "unused" => fate'[j] # "pulled"
  PROVE  PullsAreWhole'
<1> USE DEF Typed, Known, TypeInv
<1>1. \A j \in Image : fate[j] # "unused" => OnNode(j)' = OnNode(j)
  BY DEF OnNode
<1>2. \A u \in Caller : call'[u].pc \in {"write", "writing", "pulled"} =>
        /\ call'[u] = call[u]
        /\ call[u].id \in Image
        /\ fate[call[u].id] # "unused"
  BY DEF BusyHaveImage, CallsAreKnown
<1>3. \A j \in Image : fate'[j] = "pulled" /\ OnNode(j)' =>
        /\ j \in pool'
        /\ img'[j].at = "file"
        /\ node'[img'[j].name] = "whole"
        /\ Persistence => file'[j] # Blank /\ file'[j].at = "file"
  BY <1>1
<1> QED
  BY <1>1, <1>2, <1>3 DEF PullsAreWhole

LEMMA StoreWhole ==
  ASSUME Typed, Known, PullsAreWhole, NEW t \in Caller, NEW i \in Image,
         Return(t), UNCHANGED <<conf, img, node>>,
         fate[i] # "unused",
         \A j \in Image : j # i => fate'[j] = fate[j],
         \/ Delete(i) /\ fate'[i] # "pulled"
         \/ /\ Put(i)
            /\ fate'[i] = "pulled" /\ OnNode(i) =>
                 img[i].at = "file" /\ node[img[i].name] = "whole"
  PROVE  PullsAreWhole'
<1> USE DEF Typed, TypeInv
<1>1. \A u \in Caller : call'[u] = call[u] \/ call'[u].pc = "idle"
  BY ReturnType
<1>2. \A j \in Image : j # i => (j \in pool' <=> j \in pool) /\ file'[j] = file[j]
  <2>1. PICK r \in ImageMetadata : file' = Written(i, r)
    BY RecordTypes DEF Put, Delete, TypeOK
  <2> QED
    BY <2>1, WrittenType DEF Put, Delete
<1>3. Put(i) => i \in pool' /\ (Persistence => file'[i] = img[i])
  BY WrittenType DEF Put, TypeOK
<1>4. Blank.at = "dir"
  BY DEF Blank
<1>5. \A j \in Image : fate'[j] = "pulled" /\ OnNode(j) =>
        /\ j \in pool'
        /\ img'[j].at = "file"
        /\ node[img[j].name] = "whole"
        /\ Persistence => file'[j] # Blank /\ file'[j].at = "file"
  BY <1>2, <1>3, <1>4 DEF PullsAreWhole
<1> QED
  BY <1>1, <1>5, EndWhole

\* A step of a call for a local image: no other image has its file.
LEMMA LocalWhole ==
  ASSUME Typed, Known, PullsAreWhole, NEW t \in Caller, NEW pc \in {"copying", "store"},
         call[t].pc # "idle", Moves(t, pc), UNCHANGED <<conf, pool, file, fate>>,
         call[t].name \in Local,
         \A m \in Name : m # call[t].name => node'[m] = node[m],
         \A j \in Image : /\ img'[j].name = img[j].name
                          /\ img[j].at = "file" => img'[j].at = "file"
  PROVE  PullsAreWhole'
<1> USE DEF Typed, TypeInv, Moves
<1>1. \A j \in Image : OnNode(j)' = OnNode(j)
  BY DEF OnNode
<1>2. \A j \in Image : OnNode(j) /\ fate[j] # "unused" =>
        img[j].name \in Name /\ node'[img[j].name] = node[img[j].name]
  BY DEF OnNode, Known, RecordsAreKnown
<1>3. \A u \in Caller : call[u].pc \in PullPc =>
        call[u].id \in Image /\ fate[call[u].id] # "unused" /\ img[call[u].id].name = call[u].name
  BY DEF Known, CallsAreKnown, BusyHaveImage, PullPc
<1>4. \A u \in Caller : call[u].pc = "writing" => OnNode(call[u].id)
  BY DEF Known, CallsAreKnown
<1> QED
  BY <1>1, <1>2, <1>3, <1>4 DEF PullsAreWhole, PullPc

LEMMA PullWhole ==
  ASSUME Typed, Known, PullsAreWhole, NEW t \in Caller,
         \/ PullInCluster(t) \/ PullLocal(t) \/ PullPath(t) \/ PullWrite(t)
         \/ PullRefused(t) \/ PullWritten(t) \/ PullFail(t) \/ PullUndo(t) \/ PullCommit(t)
  PROVE  PullsAreWhole'
<1> DEFINE i == call[t].id
<1> USE DEF Typed
<1>0. /\ call[t].pc \in PullPc
      /\ i \in Image /\ call[t].name \in Name
      /\ img[i].name = call[t].name
      /\ fate[i] = "pulling"
      /\ call[t].pc \in {"write", "writing"} => OnNode(i)
  BY DEF PullInCluster, PullLocal, PullPath, PullWrite, PullRefused, PullWritten,
         PullFail, PullUndo, PullCommit, PullPc, TypeInv, BusyHaveImage, Known, CallsAreKnown
<1>1. CASE PullInCluster(t)
  BY <1>0, <1>1, GoToMoves, MoveWhole DEF PullInCluster, Pc, OnNode
<1>2. CASE PullLocal(t)
  BY <1>0, <1>2, GoToMoves, MoveWhole, SetAtType DEF PullLocal, Pc, TypeInv, OnNode
<1>3. CASE PullPath(t)
  <2>1. PICK pc \in {"write", "undo"} : GoTo(t, pc)
    BY <1>3 DEF PullPath
  <2>2. /\ img'[i].at = "file"
        /\ \A j \in Image : /\ img'[j].name = img[j].name
                            /\ img[j].at = "file" => img'[j].at = "file"
    BY <1>0, <1>3, SetAtType DEF PullPath, TypeInv
  <2> QED
    BY <1>0, <1>3, <2>1, <2>2, GoToMoves, MoveWhole DEF PullPath, Pc
<1>4. CASE PullRefused(t)
  BY <1>0, <1>4, GoToMoves, MoveWhole DEF PullRefused, Pc
<1>5. CASE PullWrite(t)
  <2>1. /\ node'[call[t].name] = "partial"
        /\ \A m \in Name : m # call[t].name => node'[m] = node[m]
    BY <1>0, <1>5 DEF PullWrite, TypeInv, TypeOK
  <2>2. \A u \in Caller : call[u].pc = "writing" => call[u].name # call[t].name
    BY <1>5 DEF PullWrite, PullsAreWhole
  <2> QED
    BY <1>0, <1>5, <2>1, <2>2, GoToMoves, NodeWhole DEF PullWrite, Pc
<1>6. CASE PullWritten(t) \/ PullFail(t)
  <2>1. PICK pc \in {"pulled", "undo"} :
          GoTo(t, pc) /\ (pc = "pulled" => node'[call[t].name] = "whole")
    BY <1>0, <1>6 DEF PullWritten, PullFail, TypeInv, TypeOK
  <2>2. \A m \in Name : m # call[t].name => node'[m] = node[m]
    BY <1>0, <1>6 DEF PullWritten, PullFail, TypeInv, TypeOK
  <2>3. /\ node[call[t].name] = "partial"
        /\ \A u \in Caller : u # t /\ call[u].pc = "writing" => call[u].name # call[t].name
    BY <1>6 DEF PullWritten, PullFail, PullsAreWhole
  <2> QED
    BY <1>0, <1>6, <2>1, <2>2, <2>3, GoToMoves, NodeWhole DEF PullWritten, PullFail, Pc
<1>7. CASE PullUndo(t)
  <2>1. fate'[i] = "failed" /\ \A j \in Image : j # i => fate'[j] = fate[j]
    BY <1>0, <1>7, MarkedType DEF PullUndo, TypeInv, Fate
  <2> QED
    BY <1>0, <1>7, <2>1, StoreWhole DEF PullUndo
<1>8. CASE PullCommit(t)
  <2>1. fate'[i] = "pulled" /\ \A j \in Image : j # i => fate'[j] = fate[j]
    BY <1>0, <1>8, MarkedType DEF PullCommit, TypeInv, Fate
  <2>2. OnNode(i) => img[i].at = "file" /\ node[img[i].name] = "whole"
    BY <1>0, <1>8 DEF PullCommit, PullsAreWhole
  <2> QED
    BY <1>0, <1>8, <2>1, <2>2, StoreWhole DEF PullCommit
<1> QED
  BY <1>1, <1>2, <1>3, <1>4, <1>5, <1>6, <1>7, <1>8

LEMMA OtherWhole ==
  ASSUME Typed, Known, PullsAreWhole, NEW t \in Caller,
         \/ RemoveCommit(t) \/ FetchFromNode(t) \/ FetchLocal(t) \/ FetchCopied(t)
         \/ FetchInCluster(t) \/ FetchFail(t) \/ FetchStore(t)
  PROVE  PullsAreWhole'
<1> DEFINE i == call[t].id
<1> USE DEF Typed
<1>0. /\ call[t].pc # "idle" /\ call[t].pc \notin PullPc
      /\ i \in Image /\ call[t].name \in Name
      /\ fate[i] # "unused"
      /\ img[i].name = call[t].name
  BY DEF RemoveCommit, FetchFromNode, FetchLocal, FetchCopied, FetchInCluster,
         FetchFail, FetchStore, PullPc, TypeInv, BusyHaveImage, Known, CallsAreKnown
<1>1. CASE RemoveCommit(t)
  <2>1. /\ fate'[i] # "pulled"
        /\ \A j \in Image : j # i => fate'[j] = fate[j]
    BY <1>0, <1>1, MarkedType DEF RemoveCommit, TypeInv, Fate
  <2> QED
    BY <1>0, <1>1, <2>1, StoreWhole DEF RemoveCommit
<1>2. CASE FetchFromNode(t)
  BY <1>0, <1>2, FetchMoves, MoveWhole DEF FetchFromNode, Pc
<1>3. CASE FetchInCluster(t)
  BY <1>0, <1>3, FetchMoves, SetPathNames, MoveWhole DEF FetchInCluster, Pc
<1>4. CASE FetchLocal(t) \/ FetchCopied(t)
  <2>1. PICK pc \in {"copying", "store"} : Moves(t, pc)
    BY <1>4, FetchMoves, GoToMoves DEF FetchLocal, Pc
  <2>2. call[t].name \in Local
    BY <1>4 DEF FetchLocal, FetchCopied, Known, CallsAreKnown
  <2>3. \A m \in Name : m # call[t].name => node'[m] = node[m]
    BY <1>4 DEF FetchLocal, FetchCopied, TypeInv, TypeOK
  <2>4. \A j \in Image : /\ img'[j].name = img[j].name
                         /\ img[j].at = "file" => img'[j].at = "file"
    BY <1>0, <1>4, SetPathNames DEF FetchLocal, FetchCopied
  <2> QED
    BY <1>0, <1>4, <2>1, <2>2, <2>3, <2>4, LocalWhole DEF FetchLocal, FetchCopied
<1>5. CASE FetchFail(t)
  <2>1. \A j \in Image : /\ img'[j].name = img[j].name
                         /\ img[j].at = "file" => img'[j].at = "file"
    BY <1>0, <1>5, SetPathNames DEF FetchFail
  <2>2. \A u \in Caller : call'[u] = call[u] \/ call'[u].pc = "idle"
    BY <1>5, ReturnType DEF FetchFail, TypeInv
  <2>3. UNCHANGED <<conf, pool, file, node, fate>>
    BY <1>5 DEF FetchFail
  <2> QED
    BY <2>1, <2>2, <2>3, EndWhole DEF PullsAreWhole
<1>6. CASE FetchStore(t)
  <2>1. fate[i] = "pulled" /\ OnNode(i) => img[i].at = "file" /\ node[img[i].name] = "whole"
    BY <1>0 DEF PullsAreWhole
  <2> QED
    BY <1>0, <1>6, <2>1, StoreWhole DEF FetchStore
<1> QED
  BY <1>1, <1>2, <1>3, <1>4, <1>5, <1>6

LEMMA BeginWhole ==
  ASSUME Typed, Known, PullsAreWhole, NEW t \in Caller, NEW n \in Name, CallBegin(t, n)
  PROVE  PullsAreWhole'
<1> USE DEF Typed, TypeInv
<1>1. CASE PullUnsupported(t, n) \/ PullBegin(t, n)
  <2>1. PICK i \in Image, f \in {"rejected", "pulling"},
             r \in ImageMetadata, s \in ImageMetadata :
          /\ fate[i] = "unused"
          /\ img' = [img EXCEPT ![i] = r]
          /\ pool' = pool \cup {i}
          /\ file' = Written(i, s)
          /\ Marked(i, f)
    BY <1>1, RecordTypes DEF PullUnsupported, PullBegin, Put, TypeOK
  <2>2. \A j \in Image : j # i => /\ img'[j] = img[j]
                                  /\ fate'[j] = fate[j]
                                  /\ file'[j] = file[j]
    BY <2>1, MarkedType, WrittenType DEF TypeOK, Fate
  <2>3. fate'[i] # "pulled"
    BY <2>1, MarkedType DEF Fate
  <2>4. \A u \in Caller : call'[u] = call[u] \/ call'[u].pc = "path"
    BY <1>1, ServeType DEF PullUnsupported, PullBegin, Pc
  <2>5. UNCHANGED <<conf, node>>
    BY <1>1 DEF PullUnsupported, PullBegin
  <2> QED
    BY <2>1, <2>2, <2>3, <2>4, <2>5, EndWhole DEF PullsAreWhole
<1>2. CASE RemoveBegin(t, n) \/ CreateBegin(t, n)
  <2>1. PICK i \in GetByID(n), pc \in {"remove", "fetch"} : Serve(t, pc, n, i)
    BY <1>2 DEF RemoveBegin, CreateBegin
  <2>2. \A u \in Caller : call'[u] = call[u] \/ call'[u].pc \in {"remove", "fetch"}
    BY <2>1, ServeType DEF GetByID, TypeOK, Pc
  <2>3. UNCHANGED <<conf, pool, img, file, node, fate>>
    BY <1>2 DEF RemoveBegin, CreateBegin
  <2> QED
    BY <2>2, <2>3, EndWhole DEF PullsAreWhole
<1> QED
  BY <1>1, <1>2 DEF CallBegin

\* A pulled image has a whole file, so that a listing finds it.
LEMMA ListWhole ==
  ASSUME Typed, Known, PullsAreWhole, NEW names, List(names)
  PROVE  PullsAreWhole'
<1> USE DEF Typed, TypeInv
<1>1. \A j \in Image : fate[j] = "pulled" /\ OnNode(j) => Exists(j)
  BY DEF PullsAreWhole, Exists
<1>2. \A j \in Image : Exists(j) /\ j \in pool => j \in pool' /\ file'[j] = file[j]
  BY DEF List, TypeOK
<1>3. UNCHANGED <<conf, img, node, call, fate>>
  BY DEF List
<1> QED
  BY <1>1, <1>2, <1>3, EndWhole DEF PullsAreWhole

\* What a restart loads leads to the file too.
LEMMA RestartWhole ==
  ASSUME Typed, Known, PullsAreWhole, Restart
  PROVE  PullsAreWhole'
<1> USE DEF Typed, TypeInv
<1>1. \A j \in Image : fate'[j] = "pulled" => fate[j] = "pulled" /\ Persistence
  BY DEF Restart, TypeOK, Fate
<1>2. \A j \in Image : OnNode(j)' = OnNode(j)
  BY DEF Restart, OnNode, Known, RecordsAreKnown
<1>3. \A j \in Image : Persistence /\ file[j] # Blank =>
        j \in pool' /\ img'[j] = file[j] /\ file[j].name = img[j].name
  BY DEF Restart, Known, RecordsAreKnown
<1>4. \A u \in Caller : call'[u].pc = "idle"
  BY DEF Restart, Idle
<1>5. UNCHANGED <<conf, file, node>>
  BY DEF Restart
<1> QED
  BY <1>1, <1>2, <1>3, <1>4, <1>5 DEF PullsAreWhole

LEMMA PullStep == PullInv /\ [Next]_vars => PullInv'
<1> SUFFICES ASSUME PullInv, [Next]_vars PROVE Known' /\ PullsAreWhole'
  BY TypeStep DEF PullInv, TypeInv, Known
<1> USE DEF PullInv, TypeInv
<1>0. Typed /\ Known /\ PullsAreWhole
  BY TypeStep DEF Typed, Known
<1>1. CASE UNCHANGED vars
  BY <1>0, <1>1 DEF vars, Known, RecordsAreKnown, CallsAreKnown, PullsAreWhole, OnNode
<1>2. ASSUME NEW t \in Caller, CallStep(t) PROVE Known' /\ PullsAreWhole'
  BY <1>0, <1>2, PullKnown, OtherKnown, RestartKnown, PullWhole, OtherWhole, RestartWhole
  DEF CallStep, PanicSize
<1> QED
  BY <1>0, <1>1, <1>2, BeginKnown, ListKnown, RestartKnown, BeginWhole, ListWhole, RestartWhole
  DEF Next, Crash

LEMMA InitPull == Init => PullInv
<1>1. Init => RecordsAreKnown /\ CallsAreKnown /\ PullsAreWhole
  BY DEF Init, RecordsAreKnown, CallsAreKnown, PullsAreWhole, Idle, PullPc
<1> QED
  BY <1>1, InitType DEF PullInv

\* PullInv: a request that is served works on an image somebody asked for, a
\* record is of such an image, and a pull past its build has the image file on
\* the node and the path of it in the record, with any overlap of requests.
THEOREM PullsAreWholeCorrect == Spec => []PullInv
<1>1. Init => PullInv
  BY InitPull
<1>2. PullInv /\ [Next]_vars => PullInv'
  BY PullStep
<1> QED
  BY <1>1, <1>2, PTL DEF Spec

\* PulledStays: an image pulled to the node stays until it is removed.
THEOREM PulledStaysCorrect == Spec => []PulledStays
<1>1. PullInv => PulledStays
  BY DEF PullInv, PullsAreWhole, PulledStays, OnNode
<1> QED
  BY <1>1, PullsAreWholeCorrect, PTL

-----------------------------------------------------------------------------
(* FileFollowsPool *)

Follow == PullInv /\ PullInv' /\ FileFollowsPool

\* The second half of FileFollowsPool: what may be in the file for an image.
Matches(i) ==
  \/ file[i] = img[i]
  \/ \E t \in Caller : call[t].id = i /\ call[t].pc \in PullPc
  \/ conf.inCluster /\ file[i] = [img[i] EXCEPT !.at = file[i].at]

\* Pool and file stay: a pull goes on, or the path of a record is set.
LEMMA FollowMove ==
  ASSUME Follow, NEW t \in Caller, UNCHANGED <<conf, pool, file>>,
         \A u \in Caller : call[u].pc \in PullPc =>
           call'[u].pc \in PullPc /\ call'[u].id = call[u].id,
         \/ UNCHANGED img
         \/ /\ img' = [img EXCEPT ![call[t].id].at = "file"]
            /\ call[t].pc \in PullPc \/ conf.inCluster
  PROVE  FileFollowsPool'
<1> USE DEF Follow, PullInv
<1>1. SUFFICES ASSUME Persistence, NEW i \in pool PROVE Matches(i)'
  BY DEF FileFollowsPool, Matches
<1>2. i \in Image /\ Matches(i)
  BY <1>1 DEF TypeOK, FileFollowsPool, Matches
<1>3. CASE \E u \in Caller : call[u].id = i /\ call[u].pc \in PullPc
  BY <1>3 DEF Matches
<1>4. CASE img'[i] = img[i]
  BY <1>2, <1>3, <1>4 DEF Matches
<1>5. CASE img'[i] # img[i] /\ conf.inCluster
  <2>1. img'[i] = [img[i] EXCEPT !.at = "file"]
    BY <1>2, <1>5 DEF TypeOK
  <2> QED
    <3>1. CASE \E u \in Caller : call[u].id = i /\ call[u].pc \in PullPc
      BY <1>3, <3>1
    <3>2. CASE file[i] = img[i] \/ file[i] = [img[i] EXCEPT !.at = file[i].at]
      <4>1. img[i] \in ImageMetadata /\ file[i] \in ImageMetadata
        BY <1>2 DEF TypeOK
      <4>2. file[i] = [img'[i] EXCEPT !.at = file[i].at]
        BY <2>1, <3>2, <4>1 DEF ImageMetadata
      <4> QED
        BY <1>5, <4>2 DEF Matches
    <3> QED
      BY <1>2, <3>1, <3>2 DEF Matches
<1>6. CASE img'[i] # img[i] /\ call[t].pc \in PullPc
  <2>1. call[t].id = i
    BY <1>2, <1>6 DEF TypeOK
  <2> QED
    BY <1>3, <1>6, <2>1
<1> QED
  BY <1>4, <1>5, <1>6

\* A record goes in or out of both.
LEMMA FollowStore ==
  ASSUME Follow, NEW i \in Image, UNCHANGED conf,
         \A j \in Image : j # i => img'[j] = img[j],
         \A u \in Caller : call[u].pc \in PullPc /\ call[u].id # i => call'[u] = call[u],
         \/ Put(i) /\ img'[i] \in ImageMetadata /\ img'[i] # Blank
         \/ Delete(i)
  PROVE  FileFollowsPool'
<1> USE DEF Follow, PullInv
<1>1. SUFFICES ASSUME Persistence
               PROVE  /\ pool' = {j \in Image : file'[j] # Blank}
                      /\ \A j \in pool' : Matches(j)'
  BY DEF FileFollowsPool, Matches
<1>2. /\ pool = {j \in Image : file[j] # Blank}
      /\ \A j \in pool : Matches(j)
  BY <1>1 DEF FileFollowsPool, Matches
<1>3. /\ \A j \in Image : j # i => file'[j] = file[j]
      /\ Put(i) => file'[i] = img'[i]
      /\ Delete(i) => file'[i] = Blank
  BY <1>1 DEF Put, Delete, Written, TypeOK
<1>4. /\ Put(i) => pool' = pool \cup {i}
      /\ Delete(i) => pool' = pool \ {i}
  BY DEF Put, Delete
<1>5. \A j \in pool' : Matches(j)'
  <2> SUFFICES ASSUME NEW j \in pool' PROVE Matches(j)'
    OBVIOUS
  <2>1. CASE j = i
    BY <1>3, <1>4, <2>1 DEF Matches
  <2>2. CASE j # i
    <3>1. j \in Image /\ Matches(j)
      BY <1>2, <1>4, <2>2
    <3> QED
      BY <1>3, <2>2, <3>1 DEF Matches
  <2> QED
    BY <2>1, <2>2
<1> QED
  BY <1>2, <1>3, <1>4, <1>5

LEMMA FollowCall ==
  ASSUME Follow, NEW t \in Caller, CallStep(t), ~PanicSize(t)
  PROVE  FileFollowsPool'
<1> DEFINE i == call[t].id
<1> USE DEF Follow, PullInv
<1>0. TypeInv /\ Known
  BY DEF TypeInv, Known
<1>1. ASSUME NEW pc \in Pc, Moves(t, pc), call[t].pc \in PullPc => pc \in PullPc
      PROVE  \A u \in Caller : call[u].pc \in PullPc =>
               call'[u].pc \in PullPc /\ call'[u].id = call[u].id
  BY <1>1 DEF Moves
<1>2. ASSUME Return(t)
      PROVE  \A u \in Caller : call[u].pc \in PullPc /\ call[u].id # i => call'[u] = call[u]
  BY <1>2, ReturnType
<1>3. CASE PullInCluster(t) \/ PullRefused(t) \/ PullWrite(t) \/ PullWritten(t) \/ PullFail(t)
  <2>1. PICK pc \in PullPc : GoTo(t, pc)
    BY <1>3 DEF PullInCluster, PullRefused, PullWrite, PullWritten, PullFail, PullPc
  <2>2. Moves(t, pc)
    BY <1>0, <2>1, GoToMoves DEF PullPc, Pc
  <2>3. UNCHANGED <<conf, pool, file, img>>
    BY <1>3 DEF PullInCluster, PullRefused, PullWrite, PullWritten, PullFail
  <2> QED
    BY <1>1, <2>2, <2>3, FollowMove DEF PullPc, Pc
<1>4. CASE PullLocal(t) \/ PullPath(t)
  <2>1. PICK pc \in PullPc : GoTo(t, pc)
    BY <1>4 DEF PullLocal, PullPath, PullPc
  <2>2. Moves(t, pc)
    BY <1>0, <2>1, GoToMoves DEF PullPc, Pc
  <2>3. /\ UNCHANGED <<conf, pool, file>>
        /\ img' = [img EXCEPT ![call[t].id].at = "file"]
        /\ call[t].pc \in PullPc
    BY <1>4 DEF PullLocal, PullPath, PullPc
  <2> QED
    BY <1>1, <2>2, <2>3, FollowMove DEF PullPc, Pc
<1>5. CASE PullUndo(t) \/ RemoveCommit(t)
  <2>1. i \in Image
    BY <1>5 DEF PullUndo, RemoveCommit, BusyHaveImage
  <2> QED
    BY <1>2, <1>5, <2>1, FollowStore DEF PullUndo, RemoveCommit
<1>6. CASE PullCommit(t) \/ FetchStore(t)
  <2>1. /\ i \in Image
        /\ img[i] \in ImageMetadata
        /\ img[i].name \in Name
    BY <1>6 DEF PullCommit, FetchStore, BusyHaveImage, CallsAreKnown, TypeOK
  <2>2. img[i] # Blank
    BY <2>1, NameAssumption DEF Blank
  <2> QED
    BY <1>2, <1>6, <2>1, <2>2, FollowStore DEF PullCommit, FetchStore
<1>7. CASE FetchFromNode(t) \/ FetchCopied(t) \/ FetchInCluster(t)
  <2>1. Moves(t, "store") /\ call[t].pc \notin PullPc
    BY <1>0, <1>7, FetchMoves DEF FetchFromNode, FetchCopied, FetchInCluster, PullPc
  <2> QED
    BY <1>1, <1>7, <2>1, FollowMove
    DEF FetchFromNode, FetchCopied, FetchInCluster, SetPath, Pc
<1>8. CASE FetchLocal(t)
  <2>1. Moves(t, "copying") /\ call[t].pc \notin PullPc
    BY <1>0, <1>8, GoToMoves DEF FetchLocal, PullPc, Pc
  <2> QED
    BY <1>1, <1>8, <2>1, FollowMove DEF FetchLocal, SetPath, Pc
<1>9. CASE FetchFail(t)
  <2>1. \A u \in Caller : call[u].pc \in PullPc => call'[u] = call[u]
    BY <1>9, ReturnType DEF FetchFail, PullPc
  <2> QED
    BY <1>9, <2>1, FollowMove DEF FetchFail, SetPath
<1> QED
  BY <1>3, <1>4, <1>5, <1>6, <1>7, <1>8, <1>9 DEF CallStep

LEMMA FollowBegin ==
  ASSUME Follow, NEW t \in Caller, NEW n \in Name, CallBegin(t, n)
  PROVE  FileFollowsPool'
<1> USE DEF Follow, PullInv
<1>0. /\ call[t].pc = "idle"
      /\ CreateImageMetadata(n) \in ImageMetadata
      /\ CreateImageMetadata(n) # Blank
      /\ UNCHANGED conf
  <2>1. call[t].pc = "idle" /\ UNCHANGED conf
    BY DEF CallBegin, PullUnsupported, PullBegin, RemoveBegin, CreateBegin, MayBegin, Idle
  <2>2. CreateImageMetadata(n).name = n /\ Blank.name = Nobody
    BY DEF CreateImageMetadata, Blank
  <2> QED
    BY <2>1, <2>2, RecordTypes, NameAssumption
<1>1. CASE PullUnsupported(t, n)
  <2>1. PICK i \in Image :
          /\ img' = [img EXCEPT ![i] = CreateImageMetadata(n)]
          /\ Put(i)
    BY <1>1 DEF PullUnsupported
  <2>2. /\ img'[i] = CreateImageMetadata(n)
        /\ \A j \in Image : j # i => img'[j] = img[j]
    BY <2>1 DEF TypeOK
  <2>3. UNCHANGED call
    BY <1>1 DEF PullUnsupported
  <2> QED
    BY <1>0, <2>1, <2>2, <2>3, FollowStore
<1>2. CASE PullBegin(t, n)
  <2>1. PICK i \in Image :
          /\ img'  = [img EXCEPT ![i] = ParseImage(CreateImageMetadata(n))]
          /\ pool' = pool \cup {i}
          /\ file' = Written(i, CreateImageMetadata(n))
          /\ Serve(t, "path", n, i)
    BY <1>2 DEF PullBegin
  <2>2. \A j \in Image : j # i => img'[j] = img[j]
    BY <2>1 DEF TypeOK
  <2>3. /\ call'[t].pc \in PullPc /\ call'[t].id = i
        /\ \A u \in Caller : u # t => call'[u] = call[u]
    BY <2>1, ServeType DEF PullPc, Pc
  <2>4. /\ Persistence => file'[i] = CreateImageMetadata(n)
        /\ \A j \in Image : j # i => file'[j] = file[j]
    BY <1>0, <2>1, WrittenType
  <2>5. ASSUME Persistence, NEW j \in Image, j # i, j \in pool PROVE Matches(j)'
    BY <1>0, <2>2, <2>3, <2>4, <2>5 DEF FileFollowsPool, Matches, PullPc
  <2> QED
    BY <1>0, <2>1, <2>3, <2>4, <2>5 DEF FileFollowsPool, Matches, TypeOK
<1>3. CASE RemoveBegin(t, n) \/ CreateBegin(t, n)
  <2>1. PICK i \in GetByID(n), pc \in {"remove", "fetch"} : Serve(t, pc, n, i)
    BY <1>3 DEF RemoveBegin, CreateBegin
  <2>2. \A u \in Caller : call[u].pc \in PullPc => call'[u] = call[u]
    BY <1>0, <2>1, ServeType DEF GetByID, TypeOK, Pc, PullPc
  <2> QED
    BY <1>0, <1>3, <2>2, FollowMove DEF RemoveBegin, CreateBegin
<1> QED
  BY <1>1, <1>2, <1>3 DEF CallBegin

LEMMA FollowList ==
  ASSUME Follow, NEW names, List(names)
  PROVE  FileFollowsPool'
<1> USE DEF Follow, PullInv
<1>1. UNCHANGED <<conf, img, call>> /\ pool' \subseteq pool
  BY DEF List
<1>2. Persistence => \A j \in Image : file'[j] = IF j \in pool \ pool' THEN Blank ELSE file[j]
  BY DEF List, TypeOK
<1> QED
  BY <1>1, <1>2 DEF FileFollowsPool, TypeOK

LEMMA FollowRestart ==
  ASSUME Follow, Restart
  PROVE  FileFollowsPool'
  BY DEF Restart, FileFollowsPool

LEMMA FollowStep == PullInv /\ FileFollowsPool /\ [Next]_vars => FileFollowsPool'
<1> SUFFICES ASSUME PullInv, FileFollowsPool, [Next]_vars PROVE FileFollowsPool'
  OBVIOUS
<1>0. Follow
  BY PullStep DEF Follow
<1>1. CASE UNCHANGED vars
  BY <1>1 DEF vars, FileFollowsPool
<1>2. ASSUME NEW t \in Caller, CallStep(t) PROVE FileFollowsPool'
  BY <1>0, <1>2, FollowCall, FollowRestart DEF PanicSize
<1> QED
  BY <1>0, <1>1, <1>2, FollowBegin, FollowList, FollowRestart DEF Next, Crash

\* FileFollowsPool: the cache file holds the images of the pool, and their
\* records but for the differences it names.
THEOREM FileFollowsPoolCorrect == Spec => []FileFollowsPool
<1>1. Init => PullInv /\ FileFollowsPool
  BY InitPull DEF Init, FileFollowsPool
<1> QED
  BY <1>1, PullStep, FollowStep, PTL DEF Spec
-----------------------------------------------------------------------------
(* NoHalfImage and RemovedStaysOut, for names whose calls do not overlap *)

Pulls(t)   == call[t].pc \in PullPc
Fetches(t) == call[t].pc \in {"fetch", "copying", "store"}

\* Such a name has one call at a time.
OneCall ==
  \A t, u \in Caller :
    call[t].pc # "idle" /\ call[u].pc # "idle" /\ call[t].name = call[u].name
      /\ call[t].name \in SerialName => t = u

\* The record has such a name.
IsSerial(i) == img[i].name \in SerialName

\* What a request can find by such a name was pulled or is being pulled by a
\* request that is served; of a pull that was cut short neither pool nor file has
\* the tag.
FoundIsPulled ==
  /\ \A i \in pool : IsSerial(i) /\ img[i].parsed => fate[i] \in {"pulling", "pulled"}
  /\ \A i \in Image : IsSerial(i) /\ file[i].parsed => fate[i] = "pulled"
  /\ ~Persistence => \A i \in Image : file[i] = Blank
  /\ \A i \in Image : fate[i] = "pulling" => \E t \in Caller : Pulls(t) /\ call[t].id = i
  /\ \A t \in Caller :
       Fetches(t) /\ call[t].name \in SerialName => fate[call[t].id] = "pulled"

FoundInv ==
  /\ PullInv /\ FileFollowsPool
  /\ OneCall /\ FoundIsPulled /\ NoHalfImage /\ RemovedStaysOut

After == PullInv' /\ FileFollowsPool' /\ conf' = conf

\* A step that marks no pull, adds nothing to the pool, and lets pulls go on.
LEMMA QuietFound ==
  ASSUME FoundInv, After, UNCHANGED fate, pool' \subseteq pool,
         \A i \in Image : file'[i] = file[i] \/ file'[i] = Blank,
         \A i \in Image : img'[i].parsed = img[i].parsed /\ img'[i].name = img[i].name,
         \A t \in Caller : Pulls(t) => Pulls(t)' /\ call'[t].id = call[t].id,
         \A t \in Caller : call'[t].pc # "idle" =>
           /\ call[t].pc # "idle"
           /\ call'[t].name = call[t].name /\ call'[t].id = call[t].id
           /\ Fetches(t)' => Fetches(t),
         \A t \in Caller :
           call'[t].pc = "store" /\ call'[t].name \in SerialName /\ NodeImage(call'[t].name) =>
             call'[t].got = "whole"
  PROVE  FoundInv'
<1> USE DEF FoundInv
<1>1. OneCall' /\ NoHalfImage' /\ RemovedStaysOut'
  BY DEF OneCall, NoHalfImage, NodeImage, After, RemovedStaysOut
<1>S. \A i \in Image : IsSerial(i)' <=> IsSerial(i)
  BY DEF IsSerial
<1>2. FoundIsPulled'
  <2>1. ~Blank.parsed
    BY DEF Blank
  <2>2. \A i \in pool : i \in Image
    BY DEF PullInv, TypeOK
  <2>3. \A i \in pool' : IsSerial(i)' /\ img'[i].parsed => fate'[i] \in {"pulling", "pulled"}
    BY <1>S, <2>2 DEF FoundIsPulled
  <2>4. \A i \in Image : IsSerial(i)' /\ file'[i].parsed => fate'[i] = "pulled"
    BY <1>S, <2>1 DEF FoundIsPulled
  <2>5. ~Persistence => \A i \in Image : file'[i] = Blank
    BY DEF FoundIsPulled
  <2>6. ASSUME NEW i \in Image, fate'[i] = "pulling"
        PROVE  \E t \in Caller : Pulls(t)' /\ call'[t].id = i
    <3>1. PICK t \in Caller : Pulls(t) /\ call[t].id = i
      BY <2>6 DEF FoundIsPulled
    <3> QED
      BY <3>1
  <2>7. ASSUME NEW t \in Caller, Fetches(t)', call'[t].name \in SerialName
        PROVE  fate'[call'[t].id] = "pulled"
    <3>1. call'[t].pc # "idle"
      BY <2>7 DEF Fetches
    <3> QED
      BY <2>7, <3>1 DEF FoundIsPulled
  <2> QED
    BY <2>3, <2>4, <2>5, <2>6, <2>7 DEF FoundIsPulled
<1> QED
  BY <1>1, <1>2 DEF After

\* The path of a record is set: its name and its tag stay.
LEMMA PathSet ==
  ASSUME TypeOK, NEW i \in Image, img' = img \/ img' = [img EXCEPT ![i].at = "file"]
  PROVE  \A j \in Image : img'[j].parsed = img[j].parsed /\ img'[j].name = img[j].name
<1> SUFFICES ASSUME NEW j \in Image
             PROVE  img'[j].parsed = img[j].parsed /\ img'[j].name = img[j].name
  OBVIOUS
<1>1. img[j] \in ImageMetadata
  BY DEF TypeOK
<1>2. [img[j] EXCEPT !.at = "file"].parsed = img[j].parsed
  BY <1>1 DEF ImageMetadata
<1>3. [img[j] EXCEPT !.at = "file"].name = img[j].name
  BY <1>1 DEF ImageMetadata
<1>4. img'[j] = img[j] \/ img'[j] = [img[j] EXCEPT !.at = "file"]
  BY DEF TypeOK
<1> QED
  BY <1>2, <1>3, <1>4

\* The pull goes on.
LEMMA PullFound ==
  ASSUME FoundInv, After, NEW t \in Caller,
         \/ PullInCluster(t) \/ PullLocal(t) \/ PullPath(t) \/ PullWrite(t)
         \/ PullRefused(t) \/ PullWritten(t) \/ PullFail(t)
  PROVE  FoundInv'
<1> USE DEF FoundInv, PullInv
<1>1. PICK pc \in PullPc : GoTo(t, pc)
  BY DEF PullInCluster, PullLocal, PullPath, PullWrite, PullRefused, PullWritten,
         PullFail, PullPc
<1>2. call[t].pc \in PullPc /\ call[t].id \in Image
  BY DEF PullInCluster, PullLocal, PullPath, PullWrite, PullRefused, PullWritten,
         PullFail, PullPc, BusyHaveImage
<1>3. UNCHANGED <<pool, file, fate>>
  BY DEF PullInCluster, PullLocal, PullPath, PullWrite, PullRefused, PullWritten, PullFail
<1>4. \A i \in Image : img'[i].parsed = img[i].parsed /\ img'[i].name = img[i].name
  <2>1. img' = img \/ img' = [img EXCEPT ![call[t].id].at = "file"]
    BY DEF PullInCluster, PullLocal, PullPath, PullWrite, PullRefused, PullWritten,
           PullFail
  <2> QED
    BY <1>2, <2>1, PathSet
<1>5. /\ call'[t].pc = pc /\ call'[t].id = call[t].id /\ call'[t].name = call[t].name
      /\ \A u \in Caller : u # t => call'[u] = call[u]
  BY <1>1, GoToType DEF PullPc, Pc
<1>6. pc # "idle" /\ pc \notin {"fetch", "copying", "store"} /\ call[t].pc # "idle"
  BY <1>2 DEF PullPc
<1>7. \A u \in Caller :
        call'[u].pc = "store" /\ call'[u].name \in SerialName /\ NodeImage(call'[u].name) =>
          call'[u].got = "whole"
  BY <1>5, <1>6 DEF NoHalfImage
<1>8. \A u \in Caller : call'[u].pc # "idle" =>
        /\ call[u].pc # "idle"
        /\ call'[u].name = call[u].name /\ call'[u].id = call[u].id
        /\ Fetches(u)' => Fetches(u)
  BY <1>5, <1>6 DEF Fetches
<1>9. \A u \in Caller : Pulls(u) => Pulls(u)' /\ call'[u].id = call[u].id
  BY <1>5 DEF Pulls
<1> QED
  BY <1>3, <1>4, <1>7, <1>8, <1>9, QuietFound

\* The image of a container is brought to it, or not.
LEMMA FetchFound ==
  ASSUME FoundInv, After, NEW t \in Caller,
         \/ FetchFromNode(t) \/ FetchLocal(t) \/ FetchCopied(t) \/ FetchInCluster(t)
         \/ FetchFail(t)
  PROVE  FoundInv'
<1> USE DEF FoundInv, PullInv
<1>1. Fetches(t) /\ call[t].id \in Image /\ ~Pulls(t)
  BY DEF FetchFromNode, FetchLocal, FetchCopied, FetchInCluster, FetchFail, Fetches,
         Pulls, PullPc, BusyHaveImage
<1>2. UNCHANGED <<pool, file, fate>>
  BY DEF FetchFromNode, FetchLocal, FetchCopied, FetchInCluster, FetchFail
<1>3. \A i \in Image : img'[i].parsed = img[i].parsed /\ img'[i].name = img[i].name
  <2>1. img' = img \/ img' = [img EXCEPT ![call[t].id].at = "file"]
    BY DEF FetchFromNode, FetchLocal, FetchCopied, FetchInCluster, FetchFail, SetPath
  <2> QED
    BY <1>1, <2>1, PathSet
<1>4. /\ \/ call'[t].pc = "idle"
         \/ /\ call'[t].pc \in {"copying", "store"}
            /\ call'[t].id = call[t].id /\ call'[t].name = call[t].name
            /\ call'[t].pc = "store" /\ call'[t].name \in SerialName
                 /\ NodeImage(call'[t].name) => call'[t].got = "whole"
      /\ \A u \in Caller : u # t => call'[u] = call[u]
  <2>1. CASE FetchFromNode(t)
    <3>1. call' = [call EXCEPT ![t] = [call[t] EXCEPT !.pc = "store",
                                                     !.got = node[call[t].name]]]
      BY <2>1 DEF FetchFromNode
    <3>2. call[t].name \in SerialName => node[call[t].name] = "whole"
      <4> HAVE call[t].name \in SerialName
      <4>1. fate[call[t].id] = "pulled" /\ img[call[t].id].name = call[t].name
        BY <1>1 DEF FoundIsPulled, CallsAreKnown, Fetches
      <4>2. OnNode(call[t].id)
        BY <2>1, <4>1 DEF FetchFromNode, OnNode
      <4> QED
        BY <1>1, <4>1, <4>2 DEF PullsAreWhole
    <3> QED
      BY <3>1, <3>2 DEF TypeOK, Call
  <2>2. CASE FetchLocal(t)
    BY <2>2, GoToType DEF FetchLocal, Pc
  <2>3. CASE FetchCopied(t)
    <3>1. call' = [call EXCEPT ![t] = [call[t] EXCEPT !.pc = "store", !.got = "whole"]]
      BY <2>3 DEF FetchCopied
    <3> QED
      BY <3>1 DEF TypeOK, Call
  <2>5. CASE FetchInCluster(t)
    <3>1. PICK got \in {"partial", "whole"} :
            call' = [call EXCEPT ![t] = [call[t] EXCEPT !.pc = "store", !.got = got]]
      BY <2>5 DEF FetchInCluster
    <3>2. ~NodeImage(call[t].name)
      BY <2>5 DEF FetchInCluster, NodeImage
    <3> QED
      BY <3>1, <3>2 DEF TypeOK, Call
  <2>4. CASE FetchFail(t)
    BY <2>4, ReturnType DEF FetchFail
  <2> QED
    BY <2>1, <2>2, <2>3, <2>4, <2>5
<1>5. \A u \in Caller :
        call'[u].pc = "store" /\ call'[u].name \in SerialName /\ NodeImage(call'[u].name) =>
          call'[u].got = "whole"
  BY <1>4 DEF NoHalfImage
<1>6. \A u \in Caller : call'[u].pc # "idle" =>
        /\ call[u].pc # "idle"
        /\ call'[u].name = call[u].name /\ call'[u].id = call[u].id
        /\ Fetches(u)' => Fetches(u)
  BY <1>1, <1>4 DEF Fetches
<1>7. \A u \in Caller : Pulls(u) => Pulls(u)' /\ call'[u].id = call[u].id
  BY <1>1, <1>4 DEF Pulls
<1> QED
  BY <1>2, <1>3, <1>5, <1>6, <1>7, QuietFound

\* A request is answered: what it leaves of the calls.
LEMMA ReturnFound ==
  ASSUME FoundInv, conf' = conf, NEW t \in Caller, Return(t)
  PROVE  /\ OneCall' /\ NoHalfImage'
         /\ call'[t].pc = "idle"
         /\ \A u \in Caller : u # t => call'[u] = call[u]
<1>1. /\ call'[t].pc = "idle"
      /\ \A u \in Caller : u # t => call'[u] = call[u]
  BY ReturnType DEF FoundInv, PullInv
<1> QED
  BY <1>1 DEF FoundInv, OneCall, NoHalfImage, NodeImage

\* Another request for such a name works on another image.
LEMMA OthersFetch ==
  ASSUME FoundInv, NEW t \in Caller, call[t].pc # "idle"
  PROVE  \A u \in Caller :
           u # t /\ call[u].pc # "idle" /\ call[u].name \in SerialName =>
             call[u].id # call[t].id
  BY DEF FoundInv, PullInv, OneCall, CallsAreKnown

\* The record is put back: the pull has worked, or a container has its image.
LEMMA PutFound ==
  ASSUME FoundInv, After, NEW t \in Caller, PullCommit(t) \/ FetchStore(t)
  PROVE  FoundInv'
<1> USE DEF FoundInv, PullInv
<1>1. PICK i \in Image : i = call[t].id
  BY DEF BusyHaveImage, PullCommit, FetchStore
<1>2. /\ Return(t) /\ img' = img /\ Put(i)
      /\ fate'[i] = "pulled" \/ (~IsSerial(i) /\ fate' = fate /\ ~Pulls(t))
      /\ \A j \in Image : j # i => fate'[j] = fate[j]
  <2>1. CASE PullCommit(t)
    BY <1>1, <2>1, MarkedType DEF PullCommit, Fate
  <2>2. CASE FetchStore(t)
    <3>1. call[t].name = img[i].name
      BY <1>1, <2>2 DEF FetchStore, CallsAreKnown
    <3> QED
      BY <1>1, <2>2, <3>1
      DEF FetchStore, FoundIsPulled, Fetches, IsSerial, Pulls, PullPc
  <2> QED
    BY <2>1, <2>2
<1>3. /\ OneCall' /\ NoHalfImage' /\ call'[t].pc = "idle"
      /\ \A u \in Caller : u # t => call'[u] = call[u]
  BY <1>2, ReturnFound DEF After
<1>4. pool' = pool \cup {i}
  BY <1>2 DEF Put
<1>5. /\ \A j \in Image : j # i => file'[j] = file[j]
      /\ ~Persistence => file' = file
  <2>1. img[i] \in ImageMetadata
    BY DEF TypeOK
  <2> QED
    BY <1>2, <2>1, WrittenType DEF Put
<1>6. RemovedStaysOut'
  BY <1>2, <1>4 DEF RemovedStaysOut, IsSerial
<1>7. FoundIsPulled'
  <2>0. \A j \in Image : IsSerial(j)' <=> IsSerial(j)
    BY <1>2 DEF IsSerial
  <2>1. \A j \in pool' : IsSerial(j)' /\ img'[j].parsed => fate'[j] \in {"pulling", "pulled"}
    BY <1>2, <1>4, <2>0 DEF FoundIsPulled, TypeOK
  <2>2. \A j \in Image : IsSerial(j)' /\ file'[j].parsed => fate'[j] = "pulled"
    BY <1>2, <1>5, <2>0 DEF FoundIsPulled
  <2>3. ~Persistence => \A j \in Image : file'[j] = Blank
    BY <1>5 DEF FoundIsPulled
  <2>4. ASSUME NEW j \in Image, fate'[j] = "pulling"
        PROVE  \E u \in Caller : Pulls(u)' /\ call'[u].id = j
    <3>1. PICK u \in Caller : Pulls(u) /\ call[u].id = j
      BY <1>2, <2>4 DEF FoundIsPulled
    <3>2. u # t
      BY <1>1, <1>2, <2>4, <3>1
    <3> QED
      BY <1>3, <3>1, <3>2 DEF Pulls
  <2>5. \A u \in Caller :
          Fetches(u)' /\ call'[u].name \in SerialName => fate'[call'[u].id] = "pulled"
    <3>1. \A u \in Caller : Fetches(u)' => u # t /\ call'[u] = call[u] /\ Fetches(u)
      BY <1>3 DEF Fetches
    <3>2. \A u \in Caller :
            Fetches(u) /\ call[u].name \in SerialName =>
              call[u].id \in Image /\ fate[call[u].id] = "pulled"
      BY DEF FoundIsPulled, BusyHaveImage, Fetches
    <3> QED
      BY <1>2, <3>1, <3>2
  <2> QED
    BY <2>1, <2>2, <2>3, <2>4, <2>5 DEF FoundIsPulled
<1> QED
  BY <1>3, <1>6, <1>7 DEF After

\* The record is deleted: the pull has failed, or the image is removed.
LEMMA DeleteFound ==
  ASSUME FoundInv, After, NEW t \in Caller, PullUndo(t) \/ RemoveCommit(t)
  PROVE  FoundInv'
<1> USE DEF FoundInv, PullInv
<1>1. PICK i \in Image : i = call[t].id
  BY DEF BusyHaveImage, PullUndo, RemoveCommit
<1>2. /\ Return(t) /\ img' = img /\ Delete(i) /\ call[t].pc # "idle"
      /\ \A j \in Image : j # i => fate'[j] = fate[j]
      /\ fate'[i] = "pulling" => fate[i] = "pulling" /\ ~Pulls(t)
      /\ fate'[i] # "pulled"
  <2>1. CASE PullUndo(t)
    BY <1>1, <2>1, MarkedType DEF PullUndo, Fate
  <2>2. CASE RemoveCommit(t)
    <3>1. CASE fate[i] = "pulled"
      BY <1>1, <2>2, <3>1, MarkedType DEF RemoveCommit, Fate
    <3>2. CASE fate[i] # "pulled"
      BY <1>1, <2>2, <3>2 DEF RemoveCommit, Pulls, PullPc
    <3> QED
      BY <3>1, <3>2
  <2> QED
    BY <2>1, <2>2
<1>3. /\ OneCall' /\ NoHalfImage' /\ call'[t].pc = "idle"
      /\ \A u \in Caller : u # t => call'[u] = call[u]
  BY <1>2, ReturnFound DEF After
<1>4. pool' = pool \ {i}
  BY <1>2 DEF Delete
<1>5. /\ \A j \in Image : j # i => file'[j] = file[j]
      /\ Persistence => file'[i] = Blank
      /\ ~Persistence => file' = file
  BY <1>2, WrittenType, RecordTypes DEF Delete
<1>6. RemovedStaysOut'
  BY <1>2, <1>4 DEF RemovedStaysOut
<1>7. FoundIsPulled'
  <2>0. ~Blank.parsed /\ \A j \in Image : IsSerial(j)' <=> IsSerial(j)
    BY <1>2 DEF Blank, IsSerial
  <2>1. \A j \in pool' : IsSerial(j)' /\ img'[j].parsed => fate'[j] \in {"pulling", "pulled"}
    BY <1>2, <1>4, <2>0 DEF FoundIsPulled, TypeOK
  <2>2. \A j \in Image : IsSerial(j)' /\ file'[j].parsed => fate'[j] = "pulled"
    BY <1>2, <1>5, <2>0 DEF FoundIsPulled
  <2>3. ~Persistence => \A j \in Image : file'[j] = Blank
    BY <1>5 DEF FoundIsPulled
  <2>4. ASSUME NEW j \in Image, fate'[j] = "pulling"
        PROVE  \E u \in Caller : Pulls(u)' /\ call'[u].id = j
    <3>1. PICK u \in Caller : Pulls(u) /\ call[u].id = j
      BY <1>2, <2>4 DEF FoundIsPulled
    <3>2. u # t
      BY <1>1, <1>2, <2>4, <3>1
    <3> QED
      BY <1>3, <3>1, <3>2 DEF Pulls
  <2>5. \A u \in Caller :
          Fetches(u)' /\ call'[u].name \in SerialName => fate'[call'[u].id] = "pulled"
    <3>1. \A u \in Caller : Fetches(u)' => u # t /\ call'[u] = call[u] /\ Fetches(u)
      BY <1>3 DEF Fetches
    <3>2. \A u \in Caller :
            Fetches(u) /\ call[u].name \in SerialName =>
              call[u].id \in Image /\ fate[call[u].id] = "pulled"
      BY DEF FoundIsPulled, BusyHaveImage, Fetches
    <3>3. \A u \in Caller : u # t /\ Fetches(u) /\ call[u].name \in SerialName => call[u].id # i
      BY <1>1, <1>2, OthersFetch DEF Fetches
    <3> QED
      BY <1>2, <3>1, <3>2, <3>3
  <2> QED
    BY <2>1, <2>2, <2>3, <2>4, <2>5 DEF FoundIsPulled
<1> QED
  BY <1>3, <1>6, <1>7 DEF After

\* A request for a name; no other one is served for it unless its calls overlap.
LEMMA ServeFound ==
  ASSUME FoundInv, conf' = conf, NEW t \in Caller, NEW n \in Name, NEW pc \in Pc \ {"store"},
         NEW i \in Image, MayBegin(t, n), Serve(t, pc, n, i)
  PROVE  /\ OneCall' /\ NoHalfImage'
         /\ n \in SerialName => \A u \in Caller : call[u].name # n
         /\ call[t].pc = "idle"
         /\ call'[t].pc = pc /\ call'[t].id = i /\ call'[t].name = n
         /\ \A u \in Caller : u # t => call'[u] = call[u]
<1>1. /\ call'[t].pc = pc /\ call'[t].name = n /\ call'[t].id = i
      /\ \A u \in Caller : u # t => call'[u] = call[u]
  BY ServeType DEF FoundInv, PullInv
<1>2. /\ n \in SerialName => \A u \in Caller : call[u].name # n
      /\ call[t].pc = "idle"
  BY DEF MayBegin, Idle, SerialName
<1> QED
  BY <1>1, <1>2 DEF FoundInv, OneCall, NoHalfImage, NodeImage

LEMMA FreshFound ==
  ASSUME FoundInv, After, NEW t \in Caller, NEW n \in Name,
         PullUnsupported(t, n) \/ PullBegin(t, n)
  PROVE  FoundInv'
<1> USE DEF FoundInv, PullInv
<1>1. PICK i \in Image :
        /\ fate[i] = "unused"
        /\ img'[i].parsed => fate'[i] = "pulling"
        /\ \A j \in Image : j # i => img'[j] = img[j] /\ fate'[j] = fate[j]
        /\ fate'[i] \in {"rejected", "pulling"}
        /\ pool' = pool \cup {i}
        /\ \E r \in ImageMetadata : ~r.parsed /\ file' = Written(i, r)
        /\ \/ fate'[i] = "rejected" /\ call' = call
           \/ fate'[i] = "pulling" /\ MayBegin(t, n) /\ Serve(t, "path", n, i)
  <2>0. ~CreateImageMetadata(n).parsed /\ CreateImageMetadata(n) \in ImageMetadata
    BY RecordTypes DEF CreateImageMetadata, Blank
  <2>1. CASE PullUnsupported(t, n)
    <3>1. PICK i \in Image :
            /\ fate[i] = "unused" /\ img' = [img EXCEPT ![i] = CreateImageMetadata(n)]
            /\ Put(i) /\ Marked(i, "rejected") /\ call' = call
      BY <2>1 DEF PullUnsupported
    <3>2. /\ img'[i] = CreateImageMetadata(n)
          /\ \A j \in Image : j # i => img'[j] = img[j]
      BY <3>1 DEF TypeOK
    <3>3. fate'[i] = "rejected" /\ \A j \in Image : j # i => fate'[j] = fate[j]
      BY <3>1, MarkedType DEF Fate
    <3> QED
      BY <2>0, <3>1, <3>2, <3>3 DEF Put
  <2>2. CASE PullBegin(t, n)
    <3>1. PICK i \in Image :
            /\ fate[i] = "unused"
            /\ img' = [img EXCEPT ![i] = ParseImage(CreateImageMetadata(n))]
            /\ pool' = pool \cup {i} /\ file' = Written(i, CreateImageMetadata(n))
            /\ Serve(t, "path", n, i) /\ Marked(i, "pulling")
      BY <2>2 DEF PullBegin
    <3>2. \A j \in Image : j # i => img'[j] = img[j]
      BY <3>1 DEF TypeOK
    <3>3. fate'[i] = "pulling" /\ \A j \in Image : j # i => fate'[j] = fate[j]
      BY <3>1, MarkedType DEF Fate
    <3> QED
      BY <2>0, <2>2, <3>1, <3>2, <3>3 DEF PullBegin
  <2> QED
    BY <2>1, <2>2
<1>2. /\ \A j \in Image : j # i => file'[j] = file[j]
      /\ ~file'[i].parsed
      /\ ~Persistence => file' = file
  <2>1. ~file[i].parsed
    BY <1>1 DEF RecordsAreKnown, Blank
  <2>2. PICK r \in ImageMetadata : ~r.parsed /\ file' = Written(i, r)
    BY <1>1
  <2>3. /\ \A j \in Image : j # i => Written(i, r)[j] = file[j]
        /\ Persistence => Written(i, r)[i] = r
        /\ ~Persistence => Written(i, r) = file
    BY WrittenType
  <2> QED
    BY <2>1, <2>2, <2>3
<1>3. \A u \in Caller : call[u].pc # "idle" => call[u].id # i
  BY <1>1 DEF CallsAreKnown
<1>4. /\ OneCall' /\ NoHalfImage'
      /\ \A u \in Caller : call'[u] = call[u] \/ (call[u].pc = "idle" /\ call'[u].pc = "path")
      /\ fate'[i] = "pulling" => call'[t].pc = "path" /\ call'[t].id = i
  <2>1. CASE call' = call /\ fate'[i] = "rejected"
    BY <2>1 DEF OneCall, NoHalfImage, NodeImage, After
  <2>2. CASE MayBegin(t, n) /\ Serve(t, "path", n, i)
    <3>1. "path" \in Pc \ {"store"}
      BY DEF Pc
    <3>2. /\ OneCall' /\ NoHalfImage' /\ call[t].pc = "idle"
          /\ call'[t].pc = "path" /\ call'[t].id = i
          /\ \A u \in Caller : u # t => call'[u] = call[u]
      BY <2>2, <3>1, ServeFound DEF After
    <3> QED
      BY <3>2
  <2>3. \/ call' = call /\ fate'[i] = "rejected"
        \/ MayBegin(t, n) /\ Serve(t, "path", n, i)
    BY <1>1
  <2> QED
    BY <2>1, <2>2, <2>3
<1>5. RemovedStaysOut'
  BY <1>1 DEF RemovedStaysOut
<1>6. FoundIsPulled'
  <2>0. \A j \in Image : j # i => (IsSerial(j)' <=> IsSerial(j))
    BY <1>1 DEF IsSerial
  <2>1. \A j \in pool' : IsSerial(j)' /\ img'[j].parsed => fate'[j] \in {"pulling", "pulled"}
    BY <1>1, <2>0 DEF FoundIsPulled, TypeOK
  <2>2. \A j \in Image : IsSerial(j)' /\ file'[j].parsed => fate'[j] = "pulled"
    BY <1>1, <1>2, <2>0 DEF FoundIsPulled
  <2>3. ~Persistence => \A j \in Image : file'[j] = Blank
    BY <1>2 DEF FoundIsPulled
  <2>4. ASSUME NEW j \in Image, fate'[j] = "pulling"
        PROVE  \E u \in Caller : Pulls(u)' /\ call'[u].id = j
    <3>1. CASE j = i
      BY <1>4, <2>4, <3>1 DEF Pulls, PullPc
    <3>2. CASE j # i
      <4>1. PICK u \in Caller : Pulls(u) /\ call[u].id = j
        BY <1>1, <2>4, <3>2 DEF FoundIsPulled
      <4> QED
        BY <1>4, <4>1 DEF Pulls, PullPc
    <3> QED
      BY <3>1, <3>2
  <2>5. \A u \in Caller :
          Fetches(u)' /\ call'[u].name \in SerialName => fate'[call'[u].id] = "pulled"
    <3>1. \A u \in Caller : Fetches(u)' => call'[u] = call[u] /\ Fetches(u)
      BY <1>4 DEF Fetches
    <3>2. \A u \in Caller : Fetches(u) /\ call[u].name \in SerialName =>
            call[u].id \in Image /\ call[u].id # i /\ fate[call[u].id] = "pulled"
      BY <1>3 DEF FoundIsPulled, BusyHaveImage, Fetches
    <3> QED
      BY <1>1, <3>1, <3>2
  <2> QED
    BY <2>1, <2>2, <2>3, <2>4, <2>5 DEF FoundIsPulled
<1> QED
  BY <1>4, <1>5, <1>6 DEF After

\* What is found by a name that no request is served for was pulled.
LEMMA SearchFound ==
  ASSUME FoundInv, After, NEW t \in Caller, NEW n \in Name,
         RemoveBegin(t, n) \/ CreateBegin(t, n)
  PROVE  FoundInv'
<1> USE DEF FoundInv, PullInv
<1>1. PICK i \in GetByID(n), pc \in {"remove", "fetch"} : Serve(t, pc, n, i)
  BY DEF RemoveBegin, CreateBegin
<1>2. MayBegin(t, n) /\ UNCHANGED <<pool, img, file, fate>>
  BY DEF RemoveBegin, CreateBegin
<1>3. i \in Image /\ i \in pool /\ img[i].parsed /\ img[i].name = n
  BY <1>1 DEF GetByID, TypeOK
<1>4. /\ OneCall' /\ NoHalfImage'
      /\ n \in SerialName => \A u \in Caller : call[u].name # n
      /\ call[t].pc = "idle"
      /\ call'[t].pc = pc /\ call'[t].id = i /\ call'[t].name = n
      /\ \A u \in Caller : u # t => call'[u] = call[u]
  <2>1. pc \in Pc \ {"store"}
    BY DEF Pc
  <2> QED
    BY <1>1, <1>2, <1>3, <2>1, ServeFound DEF After
<1>5. ASSUME n \in SerialName PROVE fate[i] = "pulled"
  <2>1. ASSUME fate[i] = "pulling" PROVE FALSE
    <3>1. PICK u \in Caller : Pulls(u) /\ call[u].id = i
      BY <1>3, <2>1 DEF FoundIsPulled
    <3> QED
      BY <1>3, <1>4, <1>5, <3>1 DEF Pulls, PullPc, CallsAreKnown
  <2> QED
    BY <1>3, <1>5, <2>1 DEF FoundIsPulled, IsSerial
<1>6. RemovedStaysOut'
  BY <1>2 DEF RemovedStaysOut
<1>7. FoundIsPulled'
  <2>1. \A u \in Caller :
          Fetches(u)' /\ call'[u].name \in SerialName => fate'[call'[u].id] = "pulled"
    BY <1>2, <1>4, <1>5 DEF FoundIsPulled, Fetches
  <2>2. ASSUME NEW j \in Image, fate'[j] = "pulling"
        PROVE  \E u \in Caller : Pulls(u)' /\ call'[u].id = j
    <3>1. PICK u \in Caller : Pulls(u) /\ call[u].id = j
      BY <1>2, <2>2 DEF FoundIsPulled
    <3> QED
      BY <1>4, <3>1 DEF Pulls, PullPc
  <2> QED
    BY <1>2, <2>1, <2>2 DEF FoundIsPulled, IsSerial
<1> QED
  BY <1>4, <1>6, <1>7 DEF After

LEMMA ListFound ==
  ASSUME FoundInv, After, NEW names, List(names)
  PROVE  FoundInv'
<1>1. pool' \subseteq pool
  BY DEF List
<1>2. \A i \in Image : file'[i] = file[i] \/ file'[i] = Blank
  BY DEF List
<1>3. UNCHANGED <<img, call, fate>>
  BY DEF List
<1>4. \A u \in Caller :
        call'[u].pc = "store" /\ call'[u].name \in SerialName /\ NodeImage(call'[u].name) =>
          call'[u].got = "whole"
  BY <1>3 DEF FoundInv, NoHalfImage
<1> QED
  BY <1>1, <1>2, <1>3, <1>4, QuietFound DEF Pulls, Fetches

\* A restarted server has what the file holds: of a pull that was cut short no
\* tag, and nothing of a removed image.
LEMMA RestartFound ==
  ASSUME FoundInv, After, Restart
  PROVE  FoundInv'
<1> USE DEF FoundInv, PullInv
<1>1. /\ \A i \in pool' : Persistence /\ i \in Image /\ file[i] # Blank /\ img'[i] = file[i]
      /\ \A t \in Caller : call'[t] = Idle
      /\ file' = file
  BY DEF Restart
<1>2. \A i \in Image : fate'[i] =
        CASE fate[i] = "pulling"                    -> "cut"
          [] fate[i] = "pulled" /\ ~Persistence -> "cut"
          [] OTHER                              -> fate[i]
  BY DEF Restart
<1>3. OneCall' /\ NoHalfImage'
  BY <1>1 DEF OneCall, NoHalfImage, Idle
<1>S. \A i \in Image : img'[i].name = img[i].name
  BY <1>1 DEF Restart, RecordsAreKnown
<1>4. RemovedStaysOut'
  BY <1>1, <1>2, <1>S DEF RemovedStaysOut, FileFollowsPool
<1>5. FoundIsPulled'
  <2>1. \A i \in Image : IsSerial(i) /\ file[i].parsed => fate[i] = "pulled" /\ Persistence
    BY DEF FoundIsPulled, Blank
  <2>2. \A i \in Image : IsSerial(i)' /\ file[i].parsed => fate'[i] = "pulled"
    BY <1>2, <1>S, <2>1 DEF IsSerial
  <2>3. \A i \in Image : fate'[i] # "pulling"
    BY <1>2
  <2>4. \A t \in Caller : ~Fetches(t)'
    BY <1>1 DEF Fetches, Idle
  <2> QED
    BY <1>1, <2>2, <2>3, <2>4 DEF FoundIsPulled
<1> QED
  BY <1>3, <1>4, <1>5 DEF After

\* The builder is chosen when the service starts.
LEMMA ConfStays ==
  ASSUME [Next]_vars
  PROVE  conf' = conf
<1>1. CASE \E t \in Caller : CallStep(t)
  BY <1>1
     DEF CallStep, PullInCluster, PullLocal, PullPath, PullWrite, PullRefused, PullWritten,
         PullFail, PullUndo, PullCommit, RemoveCommit, FetchFromNode, FetchLocal,
         FetchCopied, FetchInCluster, FetchFail, FetchStore, PanicSize, Restart
<1>2. CASE \E t \in Caller, n \in Name : CallBegin(t, n)
  BY <1>2 DEF CallBegin, PullUnsupported, PullBegin, RemoveBegin, CreateBegin
<1>3. CASE UNCHANGED vars
  BY <1>3 DEF vars
<1> QED
  BY <1>1, <1>2, <1>3 DEF Next, List, Crash, Restart

LEMMA FoundStep ==
  ASSUME FoundInv, [Next]_vars
  PROVE  FoundInv'
<1>1. After
  BY PullStep, FollowStep, ConfStays DEF FoundInv, After
<1>2. CASE \E t \in Caller : CallStep(t)
  BY <1>1, <1>2, PullFound, FetchFound, PutFound, DeleteFound, RestartFound
     DEF CallStep, PanicSize
<1>3. CASE \E t \in Caller, n \in Name : CallBegin(t, n)
  BY <1>1, <1>3, FreshFound, SearchFound DEF CallBegin
<1>4. CASE \E names \in {Name} \cup {{n} : n \in Name} : List(names)
  BY <1>1, <1>4, ListFound
<1>5. CASE Crash
  BY <1>1, <1>5, RestartFound DEF Crash
<1>6. CASE UNCHANGED vars
  <2>1. \A t \in Caller :
          call'[t].pc = "store" /\ call'[t].name \in SerialName /\ NodeImage(call'[t].name) =>
            call'[t].got = "whole"
    BY <1>6 DEF vars, FoundInv, NoHalfImage
  <2> QED
    BY <1>1, <1>6, <2>1, QuietFound DEF vars, Pulls, Fetches
<1> QED
  BY <1>2, <1>3, <1>4, <1>5, <1>6 DEF Next

LEMMA InitFound == Init => FoundInv
<1> SUFFICES ASSUME Init PROVE FoundInv
  OBVIOUS
<1>1. PullInv
  BY InitPull
<1>2. FileFollowsPool
  BY DEF Init, FileFollowsPool
<1>3. OneCall /\ FoundIsPulled /\ NoHalfImage /\ RemovedStaysOut
  BY DEF Init, OneCall, FoundIsPulled, NoHalfImage, RemovedStaysOut, Idle, Blank, Fetches
<1> QED
  BY <1>1, <1>2, <1>3 DEF FoundInv

\* NoHalfImage: no container is given part of an image that is built on the node or
\* is local and whose name is served one call at a time, although a pull that was
\* cut short leaves part of a file, and whatever overlaps on other names.
THEOREM NoHalfImageCorrect == Spec => []NoHalfImage
<1>1. FoundInv /\ [Next]_vars => FoundInv'
  BY FoundStep
<1>2. FoundInv => NoHalfImage
  BY DEF FoundInv
<1> QED
  BY <1>1, <1>2, InitFound, PTL DEF Spec

\* RemovedStaysOut: a removed image with such a name does not come back.
THEOREM RemovedStaysOutCorrect == Spec => []RemovedStaysOut
<1>1. FoundInv /\ [Next]_vars => FoundInv'
  BY FoundStep
<1>2. FoundInv => RemovedStaysOut
  BY DEF FoundInv
<1> QED
  BY <1>1, <1>2, InitFound, PTL DEF Spec
=============================================================================
