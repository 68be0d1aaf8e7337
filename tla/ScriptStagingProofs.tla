------------------------ MODULE ScriptStagingProofs ------------------------
(***************************************************************************)
(* Proofs about the staging of scripts, for every set of containers, any   *)
(* number of overlapping requests, failing commands and restarts.          *)
(***************************************************************************)
EXTENDS ScriptStagingProps, TLAPS

-----------------------------------------------------------------------------
(* Types *)

\* The numbers printed so far are those of jobs.
OutsExist == \A c \in Container : call[c].out <= Len(job)

TypeInv == TypeOK /\ OutsExist

LEMMA IdleType == Idle \in Call
  BY StagingAssumption DEF Idle, Call, Pc, Kind, Second

LEMMA InitType == Init => TypeInv
<1> SUFFICES ASSUME Init PROVE TypeInv
  OBVIOUS
<1>1. clock \in Second /\ spaced \in BOOLEAN /\ faults \in Nat
  BY StagingAssumption DEF Init, Second
<1>2. <<>> \in Text /\ <<>> \in Seq(Job) /\ Len(job) = 0
  BY DEF Text, Init
<1>3. tmp \in [Kind \X Second -> Text]
  BY <1>2 DEF Init
<1>4. remote \in [Container -> [Kind -> Text]]
  BY <1>2 DEF Init
<1>5. job \in Seq(Job) /\ pid \in [Container -> 0..Len(job)]
  BY <1>2 DEF Init
<1>6. phase \in [Container -> Phase] /\ image \in SUBSET Container
      /\ troubled \in SUBSET Container
  BY DEF Init, Phase
<1>7. call \in [Container -> Call] /\ OutsExist
  BY <1>2, IdleType DEF Init, OutsExist, Idle
<1> QED
  BY <1>1, <1>3, <1>4, <1>5, <1>6, <1>7 DEF TypeInv, TypeOK

\* The fields of the request c after it goes on to another piece of work.
LEMMA GoesFrame ==
  ASSUME TypeOK, NEW c \in Container, NEW p, NEW k, Goes(c, p, k)
  PROVE  /\ call'[c].pc = p /\ call'[c].kind = k /\ call'[c].file = call[c].file
         /\ call'[c].next = call[c].next /\ call'[c].out = call[c].out
         /\ call'[c].by = call[c].by
         /\ \A d \in Container \ {c} : call'[d] = call[d]
<1>1. call[c] \in Call
  BY DEF TypeOK
<1>2. call'[c] = [call[c] EXCEPT !.pc = p, !.kind = k]
  BY DEF Goes, TypeOK
<1> QED
  BY <1>1, <1>2 DEF Goes, TypeOK, Call

LEMMA GoesType ==
  ASSUME TypeInv, NEW c \in Container, NEW p \in Pc, NEW k \in Kind, Goes(c, p, k),
         UNCHANGED job
  PROVE  call' \in [Container -> Call] /\ OutsExist'
<1>1. [call[c] EXCEPT !.pc = p, !.kind = k] \in Call
  BY DEF TypeInv, TypeOK, Call
<1>2. call' \in [Container -> Call]
  <2> DEFINE r == [call[c] EXCEPT !.pc = p, !.kind = k]
  <2>1. call' = [call EXCEPT ![c] = r]
    BY DEF Goes
  <2> HIDE DEF r
  <2> QED
    BY <1>1, <2>1 DEF TypeInv, TypeOK, r
<1>3. OutsExist'
  BY GoesFrame DEF TypeInv, OutsExist
<1> QED
  BY <1>2, <1>3

LEMMA EndsType ==
  ASSUME TypeInv, NEW c \in Container, NEW p \in Phase, Ends(c, p), UNCHANGED job
  PROVE  call' \in [Container -> Call] /\ phase' \in [Container -> Phase] /\ OutsExist'
  BY IdleType DEF TypeInv, TypeOK, Ends, OutsExist, Idle

LEMMA TroublesType ==
  ASSUME TypeInv, NEW c \in Container, Troubles(c)
  PROVE  faults' \in Nat /\ troubled' \in SUBSET Container
  BY DEF TypeInv, TypeOK, Troubles, Fault

\* The first and the next part of a script that is run.
LEMMA PartType ==
  ASSUME TypeOK, NEW c \in Container, More(c)
  PROVE  /\ Script(c) \in Seq(Container) /\ call[c].next \in 1..Len(Script(c))
         /\ Script(c)[1] \in Container /\ Script(c)[call[c].next] \in Container
<1>1. Script(c) \in Seq(Container)
  BY DEF TypeOK, Script, Text, Call
<1>2. call[c].next \in Nat \ {0} /\ call[c].next <= Len(Script(c))
  BY DEF TypeOK, Call, More
<1>3. 1 \in 1..Len(Script(c)) /\ call[c].next \in 1..Len(Script(c))
  BY <1>1, <1>2
<1> QED
  BY <1>1, <1>3

LEMMA EnvironmentType ==
  ASSUME TypeOK, NEW c \in Container, More(c)
  PROVE  Environment(c) \in SUBSET Container
<1>1. \A i \in 1..call[c].next : Script(c)[i] \in Container
  BY PartType
<1> QED
  BY <1>1 DEF Environment

\* What submitting a part makes of the jobs and of the request.
LEMMA SubmitFrame ==
  ASSUME TypeInv, NEW c \in Container, Submit(c)
  PROVE  /\ job' \in Seq(Job) /\ Len(job') = Len(job) + 1
         /\ \A j \in 1..Len(job) : job'[j] = job[j]
         /\ job'[Len(job) + 1].dir = Script(c)[1]
         /\ job'[Len(job) + 1].runs = remote[Script(c)[1]]["batch"]
         /\ job'[Len(job) + 1].env = Environment(c)
         /\ call' \in [Container -> Call]
         /\ \A d \in Container \ {c} : call'[d] = call[d]
         /\ call'[c].pc = call[c].pc /\ call'[c].kind = call[c].kind
         /\ call'[c].file = call[c].file /\ call'[c].next = call[c].next + 1
         /\ call'[c].out = IF call[c].out = 0 THEN Len(job) + 1 ELSE call[c].out
         /\ call'[c].by = IF call[c].by = 0 THEN call[c].next ELSE call[c].by
<1> DEFINE dir == Script(c)[1]
           j == [dir |-> dir, runs |-> remote[dir]["batch"], env |-> Environment(c)]
           r == [call[c] EXCEPT !.next = @ + 1,
                                !.out = IF @ = 0 THEN Len(job) + 1 ELSE @,
                                !.by = IF @ = 0 THEN call[c].next ELSE @]
<1>1. More(c) /\ job' = Append(job, j)
  BY DEF Submit
<1>2. dir \in Container /\ Environment(c) \in SUBSET Container
  BY <1>1, PartType, EnvironmentType DEF TypeInv
<1>3. j \in Job /\ j.dir = dir /\ j.runs = remote[dir]["batch"] /\ j.env = Environment(c)
  BY <1>2 DEF Job, TypeInv, TypeOK, Kind
<1> HIDE DEF j
<1>4. /\ job' \in Seq(Job) /\ Len(job') = Len(job) + 1 /\ job'[Len(job) + 1] = j
      /\ \A i \in 1..Len(job) : job'[i] = job[i]
  BY <1>1, <1>3 DEF TypeInv, TypeOK
<1>5. call[c] \in Call /\ Len(job) \in Nat
  BY DEF TypeInv, TypeOK
<1>6. r \in Call
  <2>1. /\ call[c].next + 1 \in Nat \ {0}
        /\ (IF call[c].out = 0 THEN Len(job) + 1 ELSE call[c].out) \in Nat
        /\ (IF call[c].by = 0 THEN call[c].next ELSE call[c].by) \in Nat
    BY <1>5 DEF Call
  <2> QED
    BY <1>5, <2>1 DEF Call
<1>7. /\ r.pc = call[c].pc /\ r.kind = call[c].kind /\ r.file = call[c].file
      /\ r.next = call[c].next + 1
      /\ r.out = IF call[c].out = 0 THEN Len(job) + 1 ELSE call[c].out
      /\ r.by = IF call[c].by = 0 THEN call[c].next ELSE call[c].by
  BY <1>5 DEF Call
<1>8. call' = [call EXCEPT ![c] = r]
  BY DEF Submit
<1> HIDE DEF r
<1>9. /\ call' \in [Container -> Call] /\ call'[c] = r
      /\ \A d \in Container \ {c} : call'[d] = call[d]
  BY <1>6, <1>8 DEF TypeInv, TypeOK
<1> QED
  BY <1>3, <1>4, <1>7, <1>9

LEMMA PullFrame ==
  ASSUME TypeInv, NEW c \in Container, Pull(c)
  PROVE  /\ call' \in [Container -> Call]
         /\ \A d \in Container \ {c} : call'[d] = call[d]
         /\ call'[c].pc = call[c].pc /\ call'[c].kind = call[c].kind
         /\ call'[c].file = call[c].file /\ call'[c].next = call[c].next + 1
         /\ call'[c].out = call[c].out /\ call'[c].by = call[c].next
<1> DEFINE r == [call[c] EXCEPT !.next = @ + 1, !.by = call[c].next]
<1>1. call[c] \in Call
  BY DEF TypeInv, TypeOK
<1>2. /\ r \in Call /\ r.pc = call[c].pc /\ r.kind = call[c].kind /\ r.file = call[c].file
      /\ r.next = call[c].next + 1 /\ r.out = call[c].out /\ r.by = call[c].next
  <2>1. call[c].next + 1 \in Nat \ {0} /\ call[c].next \in Nat
    BY <1>1 DEF Call
  <2> QED
    BY <1>1, <2>1 DEF Call
<1>3. call' = [call EXCEPT ![c] = r]
  BY <1>1 DEF Pull
<1> HIDE DEF r
<1> QED
  BY <1>2, <1>3 DEF TypeInv, TypeOK

LEMMA PartFailFrame ==
  ASSUME TypeInv, NEW c \in Container, PartFail(c)
  PROVE  /\ call' \in [Container -> Call]
         /\ \A d \in Container \ {c} : call'[d] = call[d]
         /\ call'[c].out = call[c].out /\ call'[c].pc = call[c].pc
         /\ call'[c].kind = call[c].kind /\ call'[c].file = call[c].file
         /\ call'[c].next = call[c].next + 1
         /\ call[c].kind # "pullimage" => call'[c].by = call[c].by
         /\ c \in troubled'
<1>1. call[c] \in Call
  BY DEF TypeInv, TypeOK
<1>2. PICK part \in {call[c].by} \cup IF call[c].kind = "pullimage" THEN {call[c].next} ELSE {} :
        call' = [call EXCEPT ![c] = [call[c] EXCEPT !.next = @ + 1, !.by = part]]
  BY DEF PartFail
<1> DEFINE r == [call[c] EXCEPT !.next = @ + 1, !.by = part]
<1>3. part \in Nat /\ (call[c].kind # "pullimage" => part = call[c].by)
  BY <1>1, <1>2 DEF Call
<1>4. /\ r \in Call /\ r.pc = call[c].pc /\ r.kind = call[c].kind /\ r.file = call[c].file
      /\ r.out = call[c].out /\ r.next = call[c].next + 1 /\ r.by = part
  <2>1. call[c].next + 1 \in Nat \ {0}
    BY <1>1 DEF Call
  <2> QED
    BY <1>1, <1>3, <2>1 DEF Call
<1>5. call' = [call EXCEPT ![c] = r]
  BY <1>2
<1> HIDE DEF r
<1> QED
  BY <1>3, <1>4, <1>5 DEF TypeInv, TypeOK, PartFail, Troubles

\* What writing a script makes of its file and of the request.
LEMMA BuildFrame ==
  ASSUME TypeInv, NEW c \in Container, Build(c)
  PROVE  /\ tmp' \in [Kind \X Second -> Text]
         /\ <<call[c].kind, clock>> \in Kind \X Second
         /\ tmp'[<<call[c].kind, clock>>] = Append(tmp[<<call[c].kind, clock>>], c)
         /\ \A f \in Kind \X Second : f # <<call[c].kind, clock>> => tmp'[f] = tmp[f]
         /\ call' \in [Container -> Call]
         /\ \A d \in Container \ {c} : call'[d] = call[d]
         /\ call'[c].pc = "copy" /\ call'[c].kind = call[c].kind /\ call'[c].file = clock
         /\ call'[c].next = call[c].next /\ call'[c].out = call[c].out
         /\ call'[c].by = call[c].by
<1> DEFINE f == <<call[c].kind, clock>>
           r == [call[c] EXCEPT !.pc = "copy", !.file = clock]
<1>1. call[c] \in Call /\ clock \in Second
  BY DEF TypeInv, TypeOK
<1>2. f \in Kind \X Second /\ f[2] = clock
  BY <1>1 DEF Call
<1>3. tmp' = [tmp EXCEPT ![f] = Append(tmp[f], c)] /\ call' = [call EXCEPT ![c] = r]
  BY <1>2 DEF Build, GenerateTmpFile, Written
<1>4. Append(tmp[f], c) \in Text
  BY <1>2 DEF TypeInv, TypeOK, Text
<1>5. /\ r \in Call /\ r.pc = "copy" /\ r.kind = call[c].kind /\ r.file = clock
      /\ r.next = call[c].next /\ r.out = call[c].out /\ r.by = call[c].by
  BY <1>1 DEF Call, Pc
<1> HIDE DEF f, r
<1>6. tmp' \in [Kind \X Second -> Text] /\ tmp'[f] = Append(tmp[f], c)
      /\ \A g \in Kind \X Second : g # f => tmp'[g] = tmp[g]
  BY <1>2, <1>3, <1>4 DEF TypeInv, TypeOK
<1>7. call' \in [Container -> Call] /\ call'[c] = r
      /\ \A d \in Container \ {c} : call'[d] = call[d]
  BY <1>3, <1>5 DEF TypeInv, TypeOK
<1> QED
  BY <1>2, <1>5, <1>6, <1>7 DEF f

\* What copying a script makes of the container's directory and of the request.
LEMMA CopyFrame ==
  ASSUME TypeInv, NEW c \in Container, CopyTo(c)
  PROVE  /\ remote' \in [Container -> [Kind -> Text]]
         /\ <<call[c].kind, call[c].file>> \in Kind \X Second
         /\ remote'[c][call[c].kind] = tmp[<<call[c].kind, call[c].file>>]
         /\ \A k \in Kind \ {call[c].kind} : remote'[c][k] = remote[c][k]
         /\ \A d \in Container \ {c} : remote'[d] = remote[d]
         /\ \E p \in Pc, k \in Kind :
              /\ Goes(c, p, k)
              /\ \/ call[c].kind = "prerun" /\ p = "build" /\ k = "batch"
                 \/ call[c].kind = "batch" /\ p = "build" /\ k = "run"
                 \/ call[c].kind \in {"pullimage", "run"} /\ p = "exec" /\ k = call[c].kind
<1> DEFINE k == call[c].kind
           text == tmp[<<k, call[c].file>>]
           scripts == [remote[c] EXCEPT ![k] = text]
<1>1. k \in Kind /\ <<k, call[c].file>> \in Kind \X Second /\ text \in Text
  BY DEF TypeInv, TypeOK, Call
<1>2. /\ scripts \in [Kind -> Text] /\ scripts[k] = text
      /\ \A l \in Kind \ {k} : scripts[l] = remote[c][l]
  BY <1>1 DEF TypeInv, TypeOK
<1>3. remote' = [remote EXCEPT ![c] = scripts]
  BY DEF CopyTo
<1>4. \E p \in Pc, l \in Kind :
        /\ Goes(c, p, l)
        /\ \/ k = "prerun" /\ p = "build" /\ l = "batch"
           \/ k = "batch" /\ p = "build" /\ l = "run"
           \/ k \in {"pullimage", "run"} /\ p = "exec" /\ l = k
  <2>1. CASE k = "prerun"
    BY <2>1 DEF CopyTo, Pc, Kind
  <2>2. CASE k = "batch"
    BY <2>2 DEF CopyTo, Pc, Kind
  <2>3. CASE k \in {"pullimage", "run"}
    BY <2>3, <1>1 DEF CopyTo, Pc, Kind
  <2> QED
    BY <1>1, <2>1, <2>2, <2>3 DEF Kind
<1> HIDE DEF scripts, text, k
<1>5. /\ remote' \in [Container -> [Kind -> Text]] /\ remote'[c] = scripts
      /\ \A d \in Container \ {c} : remote'[d] = remote[d]
  BY <1>2, <1>3 DEF TypeInv, TypeOK
<1> QED
  BY <1>1, <1>2, <1>4, <1>5 DEF text, k

LEMMA CrashFrame ==
  ASSUME TypeInv, Crash
  PROVE  /\ \A c \in Container : call'[c] = Idle
         /\ call' \in [Container -> Call] /\ phase' \in [Container -> Phase]
         /\ \A c \in Container :
              \/ phase'[c] = phase[c]
              \/ phase[c] = "new" /\ phase'[c] = "failed"
         /\ faults' \in Nat
         /\ UNCHANGED <<clock, spaced, tmp, remote, job, image, pid, troubled>>
  BY IdleType DEF Crash, TypeInv, TypeOK, Phase, Fault

\* A step of a request keeps the types.
LEMMA StepType ==
  ASSUME TypeInv, NEW c \in Container, Step(c)
  PROVE  TypeInv'
<1>1. CASE CreateContainer(c) \/ StartContainer(c)
  <2>1. PICK k \in Kind : Goes(c, "build", k)
    BY <1>1 DEF CreateContainer, StartContainer, Kind
  <2>2. call' \in [Container -> Call] /\ OutsExist'
    BY <1>1, <2>1, GoesType DEF CreateContainer, StartContainer, Pc
  <2> QED
    BY <1>1, <2>2 DEF CreateContainer, StartContainer, TypeInv, TypeOK
<1>2. CASE Build(c)
  <2>1. OutsExist'
    BY <1>2, BuildFrame DEF TypeInv, OutsExist, Build
  <2> QED
    BY <1>2, <2>1, BuildFrame DEF Build, TypeInv, TypeOK
<1>3. CASE CopyTo(c)
  <2>1. PICK p \in Pc, k \in Kind : Goes(c, p, k)
    BY <1>3, CopyFrame
  <2>2. call' \in [Container -> Call] /\ OutsExist'
    BY <1>3, <2>1, GoesType DEF CopyTo
  <2> QED
    BY <1>3, <2>2, CopyFrame DEF CopyTo, TypeInv, TypeOK
<1>4. CASE StageFail(c) \/ ExecFail(c)
  <2>1. Ends(c, "failed") /\ Troubles(c) /\ "failed" \in Phase
        /\ UNCHANGED <<clock, spaced, tmp, remote, job, image, pid>>
    BY <1>4 DEF StageFail, ExecFail, Phase
  <2> QED
    BY <2>1, EndsType, TroublesType DEF TypeInv, TypeOK
<1>5. CASE Submit(c)
  <2>1. Len(job') = Len(job) + 1 /\ Len(job) \in Nat /\ job' \in Seq(Job)
    BY <1>5, SubmitFrame DEF TypeInv, TypeOK
  <2>2. pid' \in [Container -> 0..Len(job')]
    BY <1>5, <2>1 DEF Submit, TypeInv, TypeOK
  <2>3. OutsExist'
    <3> SUFFICES ASSUME NEW d \in Container PROVE call'[d].out <= Len(job')
      BY DEF OutsExist
    <3>1. call[d].out <= Len(job) /\ call[d].out \in Nat
      BY DEF TypeInv, TypeOK, OutsExist, Call
    <3> QED
      BY <1>5, <2>1, <3>1, SubmitFrame
  <2> QED
    BY <1>5, <2>1, <2>2, <2>3, SubmitFrame DEF Submit, TypeInv, TypeOK
<1>6. CASE Pull(c)
  <2>1. image' \in SUBSET Container
    BY <1>6, PartType DEF Pull, TypeInv, TypeOK
  <2>2. OutsExist'
    BY <1>6, PullFrame DEF Pull, TypeInv, OutsExist
  <2> QED
    BY <1>6, <2>1, <2>2, PullFrame DEF Pull, TypeInv, TypeOK
<1>7. CASE PartFail(c)
  <2>1. OutsExist'
    BY <1>7, PartFailFrame DEF PartFail, TypeInv, OutsExist
  <2>2. faults' \in Nat /\ troubled' \in SUBSET Container
    BY <1>7, TroublesType DEF PartFail
  <2> QED
    BY <1>7, <2>1, <2>2, PartFailFrame DEF PartFail, TypeInv, TypeOK
<1>8. CASE PullDone(c) \/ ScriptFails(c)
  <2>1. PICK p \in Phase : Ends(c, p)
    BY <1>8 DEF PullDone, ScriptFails, Phase
  <2> QED
    BY <1>8, <2>1, EndsType DEF PullDone, ScriptFails, TypeInv, TypeOK
<1>9. CASE SubmitDone(c)
  <2>1. Ends(c, "started") /\ "started" \in Phase
    BY <1>9 DEF SubmitDone, Phase
  <2>2. call[c].out \in 0..Len(job)
    BY DEF TypeInv, TypeOK, OutsExist, Call
  <2>3. pid' \in [Container -> 0..Len(job)]
    BY <1>9, <2>2 DEF SubmitDone, ParseJobId, TypeInv, TypeOK
  <2> QED
    BY <1>9, <2>1, <2>3, EndsType DEF SubmitDone, TypeInv, TypeOK
<1> QED
  BY <1>1, <1>2, <1>3, <1>4, <1>5, <1>6, <1>7, <1>8, <1>9 DEF Step

LEMMA SameType == TypeInv /\ UNCHANGED vars => TypeInv'
  BY DEF TypeInv, TypeOK, OutsExist, vars

LEMMA NextType == TypeInv /\ [Next]_vars => TypeInv'
<1> SUFFICES ASSUME TypeInv, [Next]_vars PROVE TypeInv'
  OBVIOUS
<1>1. CASE Tick
  <2>1. clock' \in Second
    BY <1>1, StagingAssumption DEF Tick, TypeInv, TypeOK, Second
  <2> QED
    BY <1>1, <2>1 DEF Tick, TypeInv, TypeOK, OutsExist
<1>2. CASE Crash
  <2>1. OutsExist'
    BY <1>2, CrashFrame DEF TypeInv, TypeOK, OutsExist, Idle
  <2> QED
    BY <1>2, <2>1, CrashFrame DEF TypeInv, TypeOK
<1> QED
  BY <1>1, <1>2, StepType, SameType DEF Next

\* Every variable keeps its type, and printed numbers are those of jobs.
THEOREM StagingTypeCorrect == Spec => [](TypeOK /\ OutsExist)
<1>1. TypeInv <=> TypeOK /\ OutsExist
  BY DEF TypeInv
<1> QED
  BY <1>1, InitType, NextType, PTL DEF Spec

-----------------------------------------------------------------------------
(* Numbers: what a request has read and not recorded yet is nobody else's. *)

Unshared ==
  \A c, d \in Container : c # d =>
    /\ pid[c] # 0 => pid[c] # pid[d]
    /\ call[c].out # 0 => call[c].out # pid[d] /\ call[c].out # call[d].out

LEMMA SameNumbers ==
  ASSUME Unshared, UNCHANGED pid,
         \A c \in Container : call'[c].out \in {0, call[c].out}
  PROVE  Unshared'
  BY DEF Unshared

LEMMA EndsOut ==
  ASSUME TypeInv, NEW c \in Container, NEW p, Ends(c, p)
  PROVE  \A d \in Container : call'[d].out \in {0, call[d].out}
  BY DEF TypeInv, TypeOK, Ends, Idle

LEMMA StepNumbers ==
  ASSUME TypeInv, Unshared, NEW c \in Container, Step(c)
  PROVE  Unshared'
<1>1. CASE CreateContainer(c) \/ StartContainer(c) \/ CopyTo(c)
  <2>1. PICK p, k : Goes(c, p, k)
    BY <1>1, CopyFrame DEF CreateContainer, StartContainer
  <2> QED
    BY <1>1, <2>1, GoesFrame, SameNumbers DEF CreateContainer, StartContainer, CopyTo, TypeInv
<1>2. CASE Build(c)
  BY <1>2, BuildFrame, SameNumbers DEF Build
<1>3. CASE Pull(c)
  BY <1>3, PullFrame, SameNumbers DEF Pull
<1>4. CASE PartFail(c)
  BY <1>4, PartFailFrame, SameNumbers DEF PartFail
<1>5. CASE StageFail(c) \/ ExecFail(c) \/ PullDone(c) \/ ScriptFails(c)
  <2>1. PICK p : Ends(c, p)
    BY <1>5 DEF StageFail, ExecFail, PullDone, ScriptFails
  <2> QED
    BY <1>5, <2>1, EndsOut, SameNumbers DEF StageFail, ExecFail, PullDone, ScriptFails
<1>6. CASE Submit(c)
  <2>1. /\ pid' = pid /\ call'[c].out \in {call[c].out, Len(job) + 1}
        /\ call'[c].out # 0
        /\ \A d \in Container \ {c} : call'[d] = call[d]
    <3>1. pid' = pid
      BY <1>6 DEF Submit
    <3>2. Len(job) \in Nat
      BY DEF TypeInv, TypeOK
    <3> QED
      BY <1>6, <3>1, <3>2, SubmitFrame
  <2>2. \A d \in Container : /\ pid[d] # Len(job) + 1 /\ call[d].out # Len(job) + 1
                             /\ pid[d] \in Nat /\ call[d].out \in Nat
    BY DEF TypeInv, TypeOK, OutsExist, Call
  <2>3. call'[c].out = call[c].out \/ call[c].out = 0
    BY <1>6, SubmitFrame
  <2> QED
    BY <2>1, <2>2, <2>3 DEF Unshared
<1>7. CASE SubmitDone(c)
  <2>1. /\ pid'[c] = call[c].out /\ call'[c].out = 0
        /\ \A d \in Container \ {c} : pid'[d] = pid[d] /\ call'[d] = call[d]
    BY <1>7 DEF SubmitDone, ParseJobId, Ends, Idle, TypeInv, TypeOK
  <2> QED
    BY <2>1 DEF Unshared
<1> QED
  BY <1>1, <1>2, <1>3, <1>4, <1>5, <1>6, <1>7 DEF Step

\* However starts overlap, are cut and are made again, no job's number is
\* recorded for two containers.
THEOREM NumbersAreUnsharedCorrect == Spec => []NumbersAreUnshared
<1>1. Init => Unshared
  BY DEF Init, Unshared, Idle
<1>2. TypeInv /\ Unshared /\ [Next]_vars => Unshared'
  <2> SUFFICES ASSUME TypeInv, Unshared, [Next]_vars PROVE Unshared'
    OBVIOUS
  <2>1. CASE Crash
    BY <2>1, CrashFrame, SameNumbers DEF Idle
  <2>2. CASE Tick \/ UNCHANGED vars
    BY <2>2 DEF Tick, vars, Unshared
  <2> QED
    BY <2>1, <2>2, StepNumbers DEF Next
<1>3. Unshared => NumbersAreUnshared
  BY DEF Unshared, NumbersAreUnshared
<1> QED
  BY <1>1, <1>2, <1>3, InitType, NextType, PTL DEF Spec

-----------------------------------------------------------------------------
(* Successes: what a container whose own commands have not failed may      *)
(* count on, at every step of its request.                                 *)

\* The request's own text is in what is to be copied and in what was copied.
OwnText(c) ==
  /\ call[c].pc = "copy" => Holds(tmp[<<call[c].kind, call[c].file>>], c)
  /\ call[c].pc = "exec" => Holds(Script(c), c)
  /\ call[c].pc # "idle" /\ call[c].kind = "run" => Holds(remote[c]["batch"], c)

\* What a request is about is what its container is ready for.
Ready(c) ==
  /\ call[c].pc # "idle" =>
       phase[c] = IF call[c].kind = "pullimage" THEN "new" ELSE "created"
  /\ call[c].pc = "exec" => call[c].kind \in {"pullimage", "run"}
  /\ call[c].pc # "exec" => call[c].next = 1 /\ call[c].out = 0 /\ call[c].by = 0

\* All parts so far have done their work.
Worked(c) ==
  /\ call[c].pc = "exec" /\ call[c].kind = "run" =>
       /\ call[c].by = 0 => call[c].next = 1 /\ call[c].out = 0
       /\ call[c].by # 0 =>
            /\ call[c].by = 1 /\ call[c].out \in DOMAIN job
            /\ job[call[c].out].dir = Script(c)[1]
            /\ Script(c)[1] = c => Holds(job[call[c].out].runs, c)
  /\ call[c].pc = "exec" /\ call[c].kind = "pullimage" =>
       \A i \in 1..Len(Script(c)) : i < call[c].next => Script(c)[i] \in image

\* What SuccessHasRun says of one container.
HasRun(c) ==
  /\ phase[c] = "started" =>
       pid[c] \in DOMAIN job /\ job[pid[c]].dir = c /\ Holds(job[pid[c]].runs, c)
  /\ phase[c] \in {"created", "started"} => c \in image

Sound(c) == OwnText(c) /\ Ready(c) /\ (c \notin troubled => Worked(c) /\ HasRun(c))

\* Scripts, jobs and images only grow, and a container's directory is its own.
Grows(c) ==
  /\ \A f \in Kind \X Second : Holds(tmp[f], c) => Holds(tmp'[f], c)
  /\ job' \in Seq(Job) /\ Len(job') >= Len(job)
  /\ \A j \in 1..Len(job) : job'[j] = job[j]
  /\ image \subseteq image' /\ troubled \subseteq troubled'

\* What holds of jobs and images goes on to hold.
LEMMA HasRunKept ==
  ASSUME TypeInv, NEW c \in Container, HasRun(c), Grows(c),
         pid'[c] = pid[c], phase'[c] = phase[c] \/ phase'[c] \in {"new", "failed"}
  PROVE  HasRun(c)'
<1>1. /\ DOMAIN job = 1..Len(job) /\ Len(job) \in Nat
      /\ DOMAIN job \subseteq DOMAIN job'
  BY DEF TypeInv, TypeOK, Grows
<1>2. ASSUME pid[c] \in DOMAIN job
      PROVE  job'[pid[c]] = job[pid[c]]
  BY <1>1, <1>2 DEF Grows
<1> QED
  BY <1>1, <1>2 DEF HasRun, Grows, Holds

LEMMA WorkedKept ==
  ASSUME TypeInv, NEW c \in Container, Worked(c), Grows(c), call'[c] = call[c],
         remote'[c] = remote[c]
  PROVE  Worked(c)'
<1>1. /\ remote'[c][call'[c].kind] = Script(c)
      /\ DOMAIN job = 1..Len(job) /\ Len(job) \in Nat
      /\ DOMAIN job \subseteq DOMAIN job'
  BY DEF Script, TypeInv, TypeOK, Grows
<1>2. ASSUME call[c].out \in DOMAIN job
      PROVE  job'[call[c].out] = job[call[c].out]
  BY <1>1, <1>2 DEF Grows
<1> QED
  BY <1>1, <1>2 DEF Worked, Grows, Holds, Script

\* The requests of others leave a container as it is.
LEMMA OthersKeep ==
  ASSUME TypeInv, NEW c \in Container, Sound(c), Grows(c),
         call'[c] = call[c], remote'[c] = remote[c], pid'[c] = pid[c], phase'[c] = phase[c]
  PROVE  Sound(c)'
<1>1. OwnText(c)'
  <2>1. call[c].pc = "copy" => Holds(tmp'[<<call[c].kind, call[c].file>>], c)
    BY DEF Sound, OwnText, Grows, Call, TypeInv, TypeOK
  <2> QED
    BY <2>1 DEF Sound, OwnText, Script
<1>2. Ready(c)'
  BY DEF Sound, Ready
<1>3. c \notin troubled' => Worked(c)' /\ HasRun(c)'
  BY WorkedKept, HasRunKept DEF Sound, Grows
<1> QED
  BY <1>1, <1>2, <1>3 DEF Sound

LEMMA HoldsAppend ==
  ASSUME NEW text \in Text, NEW c \in Container, NEW d \in Container
  PROVE  /\ Holds(Append(text, c), c)
         /\ Holds(text, c) => Holds(Append(text, d), c)
<1>1. Len(text) \in Nat /\ DOMAIN text = 1..Len(text)
  BY DEF Text
<1>2. /\ DOMAIN Append(text, d) = 1..(Len(text) + 1)
      /\ DOMAIN Append(text, c) = 1..(Len(text) + 1)
      /\ Append(text, c)[Len(text) + 1] = c
      /\ \A i \in 1..Len(text) : Append(text, d)[i] = text[i]
  BY DEF Text
<1> QED
  BY <1>1, <1>2 DEF Holds

\* A step that leaves files, jobs and images alone.
LEMMA SameGrows ==
  ASSUME TypeInv, UNCHANGED <<tmp, job, image>>, troubled \subseteq troubled', NEW c
  PROVE  Grows(c)
  BY DEF TypeInv, TypeOK, Grows

\* A request for c lets the rest of the containers' files and jobs grow.
LEMMA StepGrows ==
  ASSUME TypeInv, NEW c \in Container, Step(c), NEW d \in Container
  PROVE  /\ Grows(d)
         /\ d # c => /\ call'[d] = call[d] /\ remote'[d] = remote[d]
                     /\ pid'[d] = pid[d] /\ phase'[d] = phase[d]
<1>1. CASE CreateContainer(c) \/ StartContainer(c)
  <2>1. PICK p, k : Goes(c, p, k)
    BY <1>1 DEF CreateContainer, StartContainer
  <2> QED
    BY <1>1, <2>1, GoesFrame, SameGrows DEF CreateContainer, StartContainer, TypeInv
<1>2. CASE Build(c)
  <2>1. \A f \in Kind \X Second : Holds(tmp[f], d) => Holds(tmp'[f], d)
    <3> SUFFICES ASSUME NEW f \in Kind \X Second, Holds(tmp[f], d) PROVE Holds(tmp'[f], d)
      OBVIOUS
    <3>1. tmp[f] \in Text
      BY DEF TypeInv, TypeOK
    <3>2. CASE f = <<call[c].kind, clock>>
      <4>1. tmp'[f] = Append(tmp[f], c)
        BY <1>2, <3>2, BuildFrame
      <4> QED
        BY <3>1, <4>1, HoldsAppend
    <3>3. CASE f # <<call[c].kind, clock>>
      BY <1>2, <3>3, BuildFrame
    <3> QED
      BY <3>2, <3>3
  <2>2. UNCHANGED <<remote, job, image, pid, phase, troubled>>
    BY <1>2 DEF Build
  <2>3. d # c => call'[d] = call[d]
    BY <1>2, BuildFrame
  <2> QED
    BY <2>1, <2>2, <2>3 DEF Grows, TypeInv, TypeOK
<1>3. CASE CopyTo(c)
  <2>1. PICK p, k : Goes(c, p, k)
    BY <1>3, CopyFrame
  <2> QED
    BY <1>3, <2>1, GoesFrame, CopyFrame, SameGrows DEF CopyTo, TypeInv
<1>4. CASE Submit(c)
  <2>1. UNCHANGED <<tmp, remote, image, pid, phase, troubled>> /\ Len(job) \in Nat
    BY <1>4 DEF Submit, TypeInv, TypeOK
  <2>2. /\ job' \in Seq(Job) /\ Len(job') = Len(job) + 1
        /\ \A j \in 1..Len(job) : job'[j] = job[j]
        /\ d # c => call'[d] = call[d]
    BY <1>4, SubmitFrame
  <2> QED
    BY <2>1, <2>2 DEF Grows
<1>5. CASE Pull(c)
  <2>1. UNCHANGED <<tmp, remote, job, pid, phase, troubled>> /\ image \subseteq image'
    BY <1>5 DEF Pull
  <2>2. d # c => call'[d] = call[d]
    BY <1>5, PullFrame
  <2> QED
    BY <2>1, <2>2 DEF Grows, TypeInv, TypeOK
<1>6. CASE PartFail(c)
  BY <1>6, PartFailFrame, SameGrows DEF PartFail, Troubles
<1>7. CASE StageFail(c) \/ ExecFail(c) \/ PullDone(c) \/ ScriptFails(c)
  <2>1. PICK p : Ends(c, p)
    BY <1>7 DEF StageFail, ExecFail, PullDone, ScriptFails
  <2> QED
    BY <1>7, <2>1, SameGrows
    DEF StageFail, ExecFail, PullDone, ScriptFails, Troubles, Ends, TypeInv, TypeOK
<1>8. CASE SubmitDone(c)
  BY <1>8, SameGrows DEF SubmitDone, Ends, TypeInv, TypeOK
<1> QED
  BY <1>1, <1>2, <1>3, <1>4, <1>5, <1>6, <1>7, <1>8 DEF Step

\* A request that is over.
LEMMA IdleSound ==
  ASSUME NEW c \in Container, call'[c] = Idle, c \notin troubled' => HasRun(c)'
  PROVE  Sound(c)'
  BY DEF Sound, OwnText, Ready, Worked, Idle

LEMMA StepSound ==
  ASSUME TypeInv, NEW c \in Container, Sound(c), Step(c)
  PROVE  Sound(c)'
<1>0. Grows(c) /\ call[c] \in Call
  BY StepGrows DEF TypeInv, TypeOK
<1>1. CASE CreateContainer(c) \/ StartContainer(c)
  <2>1. PICK k \in Kind :
          /\ Goes(c, "build", k) /\ call[c] = Idle
          /\ k # "run" /\ phase[c] = IF k = "pullimage" THEN "new" ELSE "created"
    BY <1>1 DEF CreateContainer, StartContainer, MayBegin, Kind
  <2>2. UNCHANGED <<pid, phase, troubled>>
    BY <1>1 DEF CreateContainer, StartContainer
  <2>3. /\ call'[c].pc = "build" /\ call'[c].kind = k
        /\ call'[c].next = 1 /\ call'[c].out = 0 /\ call'[c].by = 0
    <3>1. Idle.next = 1 /\ Idle.out = 0 /\ Idle.by = 0
      BY DEF Idle
    <3>2. TypeOK /\ Goes(c, "build", k)
      BY <2>1 DEF TypeInv
    <3>3. /\ call'[c].pc = "build" /\ call'[c].kind = k /\ call'[c].next = call[c].next
          /\ call'[c].out = call[c].out /\ call'[c].by = call[c].by
      BY <3>2, GoesFrame
    <3> QED
      BY <2>1, <3>1, <3>3
  <2>4. OwnText(c)' /\ Ready(c)' /\ Worked(c)'
    BY <2>1, <2>2, <2>3 DEF OwnText, Ready, Worked
  <2> QED
    BY <1>0, <2>2, <2>4, HasRunKept DEF Sound
<1>2. CASE Build(c)
  <2>1. UNCHANGED <<remote, pid, phase, troubled>> /\ call[c].pc = "build"
    BY <1>2 DEF Build
  <2>2. tmp[<<call[c].kind, clock>>] \in Text
    BY <1>2, BuildFrame DEF TypeInv, TypeOK
  <2>3. Holds(tmp'[<<call'[c].kind, call'[c].file>>], c)
    <3>1. tmp'[<<call'[c].kind, call'[c].file>>] = Append(tmp[<<call[c].kind, clock>>], c)
      BY <1>2, BuildFrame
    <3> QED
      BY <2>2, <3>1, HoldsAppend
  <2>4. OwnText(c)' /\ Ready(c)' /\ Worked(c)'
    BY <1>2, <2>1, <2>3, BuildFrame DEF Sound, OwnText, Ready, Worked
  <2> QED
    BY <1>0, <2>1, <2>4, HasRunKept DEF Sound
<1>3. CASE CopyTo(c)
  <2>1. PICK p \in Pc, k \in Kind :
          /\ Goes(c, p, k)
          /\ \/ call[c].kind = "prerun" /\ p = "build" /\ k = "batch"
             \/ call[c].kind = "batch" /\ p = "build" /\ k = "run"
             \/ call[c].kind \in {"pullimage", "run"} /\ p = "exec" /\ k = call[c].kind
    BY <1>3, CopyFrame
  <2>2. UNCHANGED <<tmp, job, pid, phase, troubled>> /\ call[c].pc = "copy"
    BY <1>3 DEF CopyTo
  <2>3. /\ call'[c].pc = p /\ call'[c].kind = k
        /\ call'[c].next = 1 /\ call'[c].out = 0 /\ call'[c].by = 0
    <3>1. TypeOK /\ Goes(c, p, k)
      BY <2>1 DEF TypeInv
    <3>2. /\ call'[c].pc = p /\ call'[c].kind = k /\ call'[c].next = call[c].next
          /\ call'[c].out = call[c].out /\ call'[c].by = call[c].by
      BY <3>1, GoesFrame
    <3> QED
      BY <2>2, <3>2 DEF Sound, Ready
  <2>4. Holds(remote'[c][call[c].kind], c)
    BY <1>3, <2>2, CopyFrame DEF Sound, OwnText
  <2>5. call[c].kind = "run" => Holds(remote'[c]["batch"], c)
    BY <1>3, <2>2, CopyFrame DEF Sound, OwnText, Kind
  <2>6. OwnText(c)'
    BY <2>1, <2>3, <2>4, <2>5 DEF OwnText, Script
  <2>7. Ready(c)'
    BY <2>1, <2>2, <2>3 DEF Sound, Ready
  <2>8. Worked(c)'
    <3> DEFINE text == remote'[c][k]
    <3>1. text \in Seq(Container)
      <4>1. remote' \in [Container -> [Kind -> Text]]
        BY <1>3, CopyFrame
      <4> QED
        BY <4>1 DEF Text
    <3>2. \A i \in 1..Len(text) : ~(i < 1)
      BY <3>1
    <3> QED
      BY <2>3, <3>2 DEF Worked, Script
  <2> QED
    BY <1>0, <2>2, <2>6, <2>7, <2>8, HasRunKept DEF Sound
<1>4. CASE StageFail(c) \/ ExecFail(c)
  <2>1. call'[c] = Idle /\ c \in troubled'
    BY <1>4 DEF StageFail, ExecFail, Ends, Troubles, TypeInv, TypeOK
  <2> QED
    BY <2>1, IdleSound
<1>5. CASE Submit(c)
  <2>1. /\ UNCHANGED <<tmp, remote, pid, phase, troubled>>
        /\ call[c].pc = "exec" /\ call[c].kind = "run" /\ Len(job) \in Nat
        /\ DOMAIN job = 1..Len(job)
    BY <1>5 DEF Submit, Running, TypeInv, TypeOK
  <2>2. OwnText(c)' /\ Ready(c)'
    BY <1>5, <2>1, SubmitFrame DEF Sound, OwnText, Ready, Script
  <2>3. ASSUME c \notin troubled PROVE Worked(c)'
    <3>1. Script(c)' = Script(c) /\ call'[c].pc = "exec" /\ call'[c].kind = "run"
      BY <1>5, <2>1, SubmitFrame DEF Script
    <3>2. CASE call[c].by = 0
      <4>1. call[c].next = 1 /\ call[c].out = 0
        BY <2>1, <2>3, <3>2 DEF Sound, Worked
      <4>2. call'[c].by = 1 /\ call'[c].out = Len(job) + 1
        BY <1>5, <3>2, <4>1, SubmitFrame
      <4>3. Len(job) + 1 \in DOMAIN job'
        BY <1>5, <2>1, SubmitFrame
      <4>4. Script(c)[1] = c => Holds(job'[Len(job) + 1].runs, c)
        BY <1>5, <2>1, SubmitFrame DEF Sound, OwnText
      <4> QED
        BY <1>5, <3>1, <4>2, <4>3, <4>4, SubmitFrame DEF Worked
    <3>3. CASE call[c].by # 0
      <4>1. call'[c].by = call[c].by /\ call'[c].out = call[c].out
        <5>1. call[c].out \in 1..Len(job)
          BY <2>1, <2>3, <3>3 DEF Sound, Worked
        <5> QED
          BY <1>5, <2>1, <3>3, <5>1, SubmitFrame
      <4>2. /\ call[c].by = 1 /\ call[c].out \in DOMAIN job
            /\ job[call[c].out].dir = Script(c)[1]
            /\ Script(c)[1] = c => Holds(job[call[c].out].runs, c)
        BY <2>1, <2>3, <3>3 DEF Sound, Worked
      <4>3. call[c].out \in DOMAIN job' /\ job'[call[c].out] = job[call[c].out]
        BY <1>5, <2>1, <4>2, SubmitFrame
      <4> QED
        BY <3>1, <4>1, <4>2, <4>3 DEF Worked
    <3> QED
      BY <3>2, <3>3
  <2> QED
    BY <1>0, <2>1, <2>2, <2>3, HasRunKept DEF Sound
<1>6. CASE Pull(c)
  <2>1. /\ UNCHANGED <<tmp, remote, job, pid, phase, troubled>>
        /\ call[c].pc = "exec" /\ call[c].kind = "pullimage"
        /\ image' = image \cup {Script(c)[call[c].next]}
    BY <1>6 DEF Pull, Running
  <2>2. OwnText(c)' /\ Ready(c)'
    BY <1>6, <2>1, PullFrame DEF Sound, OwnText, Ready, Script
  <2>3. ASSUME c \notin troubled PROVE Worked(c)'
    <3>1. /\ Script(c)' = Script(c) /\ call'[c].pc = "exec" /\ call'[c].kind = "pullimage"
          /\ call'[c].next = call[c].next + 1
      BY <1>6, <2>1, PullFrame DEF Script
    <3>2. \A i \in 1..Len(Script(c)) : i < call[c].next => Script(c)[i] \in image
      BY <2>1, <2>3 DEF Sound, Worked
    <3>3. Script(c) \in Seq(Container) /\ call[c].next \in Nat
      BY <1>6, PartType DEF Pull, TypeInv
    <3>4. \A i \in 1..Len(Script(c)) : i < call[c].next + 1 => Script(c)[i] \in image'
      BY <2>1, <3>2, <3>3
    <3> QED
      BY <3>1, <3>4 DEF Worked
  <2> QED
    BY <1>0, <2>1, <2>2, <2>3, HasRunKept DEF Sound
<1>7. CASE PartFail(c)
  <2>1. UNCHANGED <<tmp, remote, phase>> /\ call[c].pc = "exec"
    BY <1>7 DEF PartFail
  <2>2. OwnText(c)' /\ Ready(c)'
    BY <1>7, <2>1, PartFailFrame DEF Sound, OwnText, Ready, Script
  <2> QED
    BY <1>7, <2>2, PartFailFrame DEF Sound
<1>8. CASE PullDone(c)
  <2>1. /\ phase'[c] = "created" /\ UNCHANGED <<pid, job, image, troubled>>
        /\ call[c].pc = "exec" /\ call[c].kind = "pullimage" /\ ~More(c)
        /\ call'[c] = Idle
    BY <1>8 DEF PullDone, LastPart, Running, Ends, TypeInv, TypeOK
  <2>2. ASSUME c \notin troubled PROVE c \in image
    <3>1. PICK i \in DOMAIN Script(c) : Script(c)[i] = c
      BY <2>1 DEF Sound, OwnText, Holds
    <3>2. Script(c) \in Seq(Container) /\ call[c].next \in Nat
      BY DEF TypeInv, TypeOK, Script, Text, Call
    <3>3. i \in 1..Len(Script(c)) /\ i < call[c].next
      BY <2>1, <3>1, <3>2 DEF More
    <3> QED
      BY <2>1, <2>2, <3>1, <3>3 DEF Sound, Worked
  <2> QED
    BY <2>1, <2>2, IdleSound DEF HasRun
<1>9. CASE SubmitDone(c)
  <2>1. /\ phase'[c] = "started" /\ pid'[c] = call[c].out
        /\ UNCHANGED <<job, image, troubled>>
        /\ call[c].pc = "exec" /\ call[c].kind = "run" /\ call[c].by = Len(Script(c))
        /\ call'[c] = Idle
    BY <1>9 DEF SubmitDone, ParseJobId, LastPart, Running, Ends, TypeInv, TypeOK
  <2>2. ASSUME c \notin troubled
        PROVE  /\ call[c].out \in DOMAIN job /\ job[call[c].out].dir = c
               /\ Holds(job[call[c].out].runs, c) /\ c \in image
    <3>1. PICK i \in DOMAIN Script(c) : Script(c)[i] = c
      BY <2>1 DEF Sound, OwnText, Holds
    <3>2. Script(c) \in Seq(Container)
      BY DEF TypeInv, TypeOK, Script, Text, Call
    <3>3. call[c].by # 0
      BY <2>1, <3>1, <3>2
    <3>4. /\ call[c].by = 1 /\ call[c].out \in DOMAIN job
          /\ job[call[c].out].dir = Script(c)[1]
          /\ Script(c)[1] = c => Holds(job[call[c].out].runs, c)
      BY <2>1, <2>2, <3>3 DEF Sound, Worked
    <3>5. i = 1
      <4>1. DOMAIN Script(c) = 1..Len(Script(c)) /\ Len(Script(c)) = 1
        <5>1. Len(Script(c)) = 1
          BY <2>1, <3>4
        <5> QED
          BY <3>2, <5>1
      <4> QED
        BY <3>1, <4>1
    <3>6. c \in image
      BY <2>1, <2>2 DEF Sound, Ready, HasRun
    <3> QED
      BY <3>1, <3>4, <3>5, <3>6
  <2> QED
    BY <2>1, <2>2, IdleSound DEF HasRun
<1>10. CASE ScriptFails(c)
  <2>1. phase'[c] = "failed" /\ call'[c] = Idle
    BY <1>10 DEF ScriptFails, Ends, TypeInv, TypeOK
  <2> QED
    BY <2>1, IdleSound DEF HasRun
<1> QED
  BY <1>1, <1>2, <1>3, <1>4, <1>5, <1>6, <1>7, <1>8, <1>9, <1>10 DEF Step

\* A success is one, for every number of requests that overlap and share files.
THEOREM SuccessHasRunCorrect == Spec => []SuccessHasRun
<1> DEFINE AllSound == \A c \in Container : Sound(c)
<1>1. Init => AllSound
  <2> SUFFICES ASSUME Init, NEW c \in Container PROVE Sound(c)
    OBVIOUS
  <2>1. call[c] = Idle /\ phase[c] = "new"
    BY DEF Init
  <2>2. /\ call[c].pc = "idle" /\ call[c].next = 1 /\ call[c].out = 0 /\ call[c].by = 0
    BY <2>1 DEF Idle
  <2> QED
    BY <2>1, <2>2 DEF Sound, OwnText, Ready, Worked, HasRun
<1>2. TypeInv /\ AllSound /\ [Next]_vars => AllSound'
  <2> SUFFICES ASSUME TypeInv, AllSound, [Next]_vars, NEW d \in Container
               PROVE  Sound(d)'
    OBVIOUS
  <2>1. ASSUME NEW c \in Container, Step(c) PROVE Sound(d)'
    BY <2>1, StepSound, StepGrows, OthersKeep
  <2>2. CASE Crash
    <3>1. Grows(d)
      BY <2>2, CrashFrame, SameGrows
    <3>2. HasRun(d) => HasRun(d)'
      BY <2>2, <3>1, CrashFrame, HasRunKept
    <3> QED
      BY <2>2, <3>2, CrashFrame, IdleSound DEF Sound
  <2>3. CASE Tick \/ UNCHANGED vars
    BY <2>3, SameGrows, OthersKeep DEF Tick, vars
  <2> QED
    BY <2>1, <2>2, <2>3 DEF Next
<1>3. AllSound => SuccessHasRun
  BY DEF Sound, HasRun, SuccessHasRun
<1> HIDE DEF AllSound
<1> QED
  BY <1>1, <1>2, <1>3, InitType, NextType, PTL DEF Spec

-----------------------------------------------------------------------------
(* Where requests are spaced: a request finds the files of its second empty,  *)
(* and those of later seconds, and nobody else writes any until it is over.   *)

\* The kinds of script that follow one of kind k.
After(k) == IF k = "prerun" THEN {"batch", "run"} ELSE IF k = "batch" THEN {"run"} ELSE {}

\* The scripts the request of c has yet to write, and those it has copied.
Later(c) ==
  (IF call[c].pc = "build" THEN {call[c].kind} ELSE {})
    \cup (IF call[c].pc \in {"build", "copy"} THEN After(call[c].kind) ELSE {})
Copied(c) ==
  (IF call[c].pc = "exec" THEN {call[c].kind} ELSE {})
    \cup (IF call[c].pc # "idle" /\ call[c].kind = "run" THEN {"batch"} ELSE {})
    \cup (IF call[c].pc # "idle" /\ call[c].kind \in {"batch", "run"} /\ c \in Prerun
            THEN {"prerun"} ELSE {})

Quiet(c) ==
  /\ \A k \in Later(c) : tmp[<<k, clock>>] = <<>>
  /\ call[c].pc = "copy" => tmp[<<call[c].kind, call[c].file>>] = <<c>>
  /\ \A k \in Copied(c) : remote[c][k] = <<c>>
  /\ call[c].pc = "exec" => call[c].kind \in {"pullimage", "run"}
  /\ call[c].out # 0 => job[call[c].out].dir = c
  /\ pid[c] # 0 => job[pid[c]].dir = c

OneAtATime == \A c, d \in Container : call[c].pc # "idle" /\ call[d].pc # "idle" => c = d
LaterIsEmpty == \A k \in Kind, s \in Second : s > clock => tmp[<<k, s>>] = <<>>
JobsAreOwn == \A j \in DOMAIN job : job[j].runs = <<job[j].dir>> /\ job[j].env = {job[j].dir}

SpacedInv ==
  spaced => OneAtATime /\ LaterIsEmpty /\ JobsAreOwn /\ \A c \in Container : Quiet(c)

LEMMA InitSpaced == Init => SpacedInv
<1> SUFFICES ASSUME Init PROVE SpacedInv
  OBVIOUS
<1>1. \A c \in Container : call[c].pc = "idle" /\ call[c].out = 0 /\ pid[c] = 0
  BY DEF Init, Idle
<1>2. DOMAIN job = {}
  BY DEF Init
<1>3. LaterIsEmpty
  BY DEF Init, LaterIsEmpty
<1> QED
  BY <1>1, <1>2, <1>3 DEF SpacedInv, OneAtATime, JobsAreOwn, Quiet, Later, Copied

\* A container without a request keeps what it has when files, scripts of
\* others and jobs change.
LEMMA IdleQuiet ==
  ASSUME TypeInv, NEW c \in Container, Quiet(c), call'[c].pc = "idle",
         call'[c].out \in {0, call[c].out},
         job' \in Seq(Job), Len(job') >= Len(job),
         \A j \in 1..Len(job) : job'[j] = job[j],
         pid'[c] = pid[c]
  PROVE  Quiet(c)'
<1>1. /\ pid[c] # 0 => pid[c] \in 1..Len(job)
      /\ call[c].out # 0 => call[c].out \in 1..Len(job)
  BY DEF TypeInv, TypeOK, OutsExist, Call
<1>2. /\ pid'[c] # 0 => job'[pid'[c]].dir = c
      /\ call'[c].out # 0 => job'[call'[c].out].dir = c
  BY <1>1 DEF Quiet
<1>3. Later(c)' = {} /\ Copied(c)' = {}
  BY DEF Later, Copied
<1> QED
  BY <1>2, <1>3 DEF Quiet

LEMMA CrashSpaced ==
  ASSUME TypeInv, SpacedInv, Crash
  PROVE  SpacedInv'
<1> SUFFICES ASSUME spaced
             PROVE  (OneAtATime /\ LaterIsEmpty /\ JobsAreOwn)'
                    /\ \A c \in Container : Quiet(c)'
  BY CrashFrame DEF SpacedInv
<1>1. /\ \A c \in Container : call'[c].pc = "idle" /\ call'[c].out = 0
      /\ UNCHANGED <<clock, tmp, job, pid>>
  BY CrashFrame DEF Idle
<1>2. (OneAtATime /\ LaterIsEmpty /\ JobsAreOwn)'
  BY <1>1 DEF SpacedInv, OneAtATime, LaterIsEmpty, JobsAreOwn
<1>3. \A c \in Container : Quiet(c)'
  BY <1>1, IdleQuiet DEF SpacedInv, TypeInv, TypeOK
<1> QED
  BY <1>2, <1>3

\* The files of the second that begins are empty.
LEMMA TickSpaced ==
  ASSUME TypeInv, TypeInv', SpacedInv, Tick
  PROVE  SpacedInv'
<1> SUFFICES ASSUME spaced
             PROVE  (OneAtATime /\ LaterIsEmpty /\ JobsAreOwn)'
                    /\ \A c \in Container : Quiet(c)'
  BY DEF SpacedInv, Tick
<1>1. /\ clock \in Second /\ clock' \in Second /\ clock' = clock + 1
      /\ UNCHANGED <<tmp, remote, job, pid, call>>
  BY DEF Tick, TypeInv, TypeOK
<1>2. \A k \in Kind, s \in Second : s > clock' => tmp'[<<k, s>>] = <<>>
  BY <1>1 DEF SpacedInv, LaterIsEmpty, Second
<1>3. \A k \in Kind : tmp'[<<k, clock'>>] = <<>>
  BY <1>1 DEF SpacedInv, LaterIsEmpty, Second
<1>4. ASSUME NEW c \in Container PROVE Quiet(c)'
  <2>1. Later(c)' \subseteq Kind /\ Copied(c)' = Copied(c)
    BY <1>1 DEF Later, Copied, After, TypeInv, TypeOK, Call, Kind
  <2> QED
    BY <1>1, <1>3, <2>1 DEF SpacedInv, Quiet
<1> QED
  BY <1>1, <1>2, <1>4 DEF SpacedInv, OneAtATime, LaterIsEmpty, JobsAreOwn

\* A script with one part runs it alone, in its own environment.
LEMMA OwnSubmission ==
  ASSUME TypeInv, NEW c \in Container, Submit(c), Quiet(c)
  PROVE  /\ job'[Len(job) + 1].dir = c /\ job'[Len(job) + 1].runs = <<c>>
         /\ job'[Len(job) + 1].env = {c}
<1>1. call[c].pc = "exec" /\ call[c].kind = "run" /\ More(c)
  BY DEF Submit, Running
<1>2. /\ Script(c) = <<c>> /\ remote[c]["batch"] = <<c>>
      /\ c \in Prerun => remote[c]["prerun"] = <<c>>
  BY <1>1 DEF Quiet, Copied, Script
<1>3. call[c].next = 1
  <2>1. call[c].next \in Nat \ {0} /\ call[c].next <= 1
    BY <1>1, <1>2 DEF TypeInv, TypeOK, Call, More
  <2> QED
    BY <2>1
<1>4. Environment(c) = {c}
  <2>1. {Script(c)[i] : i \in 1..call[c].next} = {c}
    BY <1>2, <1>3
  <2>2. c \in Prerun => {d \in Container : Holds(remote[Script(c)[1]]["prerun"], d)} = {c}
    <3>1. Script(c)[1] = c /\ \A d \in Container : Holds(<<c>>, d) <=> d = c
      BY <1>2 DEF Holds
    <3> QED
      BY <1>2, <3>1
  <2> QED
    BY <2>1, <2>2 DEF Environment
<1> QED
  BY <1>2, <1>4, SubmitFrame

\* Requests that are served change the files of their own second only, and the
\* number of jobs when one is submitted.
LEMMA StepFiles ==
  ASSUME TypeInv, SpacedInv, spaced, NEW c \in Container, Step(c)
  PROVE  LaterIsEmpty' /\ JobsAreOwn'
<1>1. LaterIsEmpty /\ JobsAreOwn /\ Quiet(c)
  BY DEF SpacedInv
<1>2. CASE Build(c)
  <2>1. UNCHANGED <<clock, job>>
    BY <1>2 DEF Build
  <2>2. \A k \in Kind, s \in Second : s > clock => tmp'[<<k, s>>] = tmp[<<k, s>>]
    <3> SUFFICES ASSUME NEW k \in Kind, NEW s \in Second, s > clock
                 PROVE  tmp'[<<k, s>>] = tmp[<<k, s>>]
      OBVIOUS
    <3>1. s # clock /\ <<k, s>> # <<call[c].kind, clock>>
      BY DEF TypeInv, TypeOK, Second
    <3> QED
      BY <1>2, <3>1, BuildFrame
  <2> QED
    BY <1>1, <2>1, <2>2 DEF LaterIsEmpty, JobsAreOwn
<1>3. CASE Submit(c)
  <2>1. UNCHANGED <<clock, tmp>>
    BY <1>3 DEF Submit
  <2>2. DOMAIN job' = 1..(Len(job) + 1) /\ DOMAIN job = 1..Len(job) /\ Len(job) \in Nat
    BY <1>3, SubmitFrame DEF TypeInv, TypeOK
  <2>3. ASSUME NEW j \in DOMAIN job'
        PROVE  job'[j].runs = <<job'[j].dir>> /\ job'[j].env = {job'[j].dir}
    <3>1. CASE j = Len(job) + 1
      BY <1>1, <1>3, <3>1, OwnSubmission
    <3>2. CASE j # Len(job) + 1
      <4>1. j \in 1..Len(job)
        BY <2>2, <3>2
      <4>2. job'[j] = job[j]
        BY <1>3, <4>1, SubmitFrame
      <4> QED
        BY <1>1, <2>2, <4>1, <4>2 DEF JobsAreOwn
    <3> QED
      BY <3>1, <3>2
  <2> QED
    BY <1>1, <2>1, <2>3 DEF LaterIsEmpty, JobsAreOwn
<1>4. ASSUME ~Build(c), ~Submit(c) PROVE UNCHANGED <<clock, tmp, job>>
  BY <1>4 DEF Step, CreateContainer, StartContainer, CopyTo, StageFail, Pull, PartFail,
              ExecFail, PullDone, SubmitDone, ScriptFails
<1>5. ASSUME ~Build(c), ~Submit(c) PROVE LaterIsEmpty' /\ JobsAreOwn'
  BY <1>1, <1>4, <1>5 DEF LaterIsEmpty, JobsAreOwn
<1> QED
  BY <1>2, <1>3, <1>5

\* The request goes on alone in the files it found empty.
LEMMA StepQuiet ==
  ASSUME TypeInv, SpacedInv, spaced, NEW c \in Container, Step(c)
  PROVE  Quiet(c)'
<1>1. /\ Quiet(c) /\ call[c] \in Call /\ Len(job) \in Nat
      /\ pid[c] # 0 => pid[c] \in 1..Len(job)
      /\ call[c].out # 0 => call[c].out \in 1..Len(job)
  BY DEF SpacedInv, TypeInv, TypeOK, OutsExist, Call
<1>2. CASE CreateContainer(c) \/ StartContainer(c)
  <2>1. PICK k \in Kind :
          /\ Goes(c, "build", k) /\ call[c] = Idle
          /\ k # "run" /\ (k = "batch" => c \notin Prerun)
    <3>1. CASE CreateContainer(c)
      BY <3>1 DEF CreateContainer, MayBegin, Kind
    <3>2. CASE StartContainer(c)
      BY <3>2 DEF StartContainer, MayBegin, Kind
    <3> QED
      BY <1>2, <3>1, <3>2
  <2>2. /\ \A l \in Kind : tmp[<<l, clock>>] = <<>>
        /\ UNCHANGED <<clock, tmp, remote, job, pid>>
    BY <1>2 DEF CreateContainer, StartContainer, MayBegin
  <2>3. call'[c].pc = "build" /\ call'[c].kind = k /\ call'[c].out = 0
    <3>1. TypeOK /\ Goes(c, "build", k) /\ Idle.out = 0
      BY <2>1 DEF TypeInv, Idle
    <3> QED
      BY <2>1, <3>1, GoesFrame
  <2>4. Later(c)' \subseteq Kind /\ Copied(c)' = {}
    BY <2>1, <2>3 DEF Later, Copied, After, Kind
  <2> QED
    BY <1>1, <2>2, <2>3, <2>4 DEF Quiet
<1>3. CASE Build(c)
  <2> DEFINE k == call[c].kind
  <2>1. UNCHANGED <<clock, remote, job, pid>> /\ call[c].pc = "build"
    BY <1>3 DEF Build
  <2>2. tmp[<<k, clock>>] = <<>>
    BY <1>1, <2>1 DEF Quiet, Later
  <2>3. /\ call'[c].pc = "copy" /\ call'[c].kind = k /\ call'[c].file = clock
        /\ call'[c].out = call[c].out
        /\ tmp'[<<k, clock>>] = <<c>>
    <3>1. tmp'[<<k, clock>>] = Append(<<>>, c)
      BY <1>3, <2>2, BuildFrame
    <3> QED
      BY <1>3, <3>1, BuildFrame
  <2>4. \A l \in Later(c)' : tmp'[<<l, clock>>] = <<>>
    <3>1. Later(c)' = After(k)
      BY <2>3 DEF Later
    <3>2. After(k) \subseteq Kind \ {k} /\ After(k) \subseteq Later(c)
      BY <2>1 DEF After, Kind, Later
    <3>3. \A l \in After(k) : tmp'[<<l, clock>>] = tmp[<<l, clock>>]
      <4> SUFFICES ASSUME NEW l \in After(k) PROVE tmp'[<<l, clock>>] = tmp[<<l, clock>>]
        OBVIOUS
      <4>1. <<l, clock>> \in Kind \X Second /\ <<l, clock>> # <<k, clock>>
        BY <3>2 DEF TypeInv, TypeOK
      <4> QED
        BY <1>3, <4>1, BuildFrame
    <3> QED
      BY <1>1, <2>1, <3>1, <3>2, <3>3 DEF Quiet
  <2>5. Copied(c)' = Copied(c)
    BY <2>1, <2>3 DEF Copied
  <2> QED
    BY <1>1, <2>1, <2>3, <2>4, <2>5 DEF Quiet
<1>4. CASE CopyTo(c)
  <2> DEFINE k == call[c].kind
  <2>1. PICK p \in Pc, l \in Kind :
          /\ Goes(c, p, l)
          /\ \/ k = "prerun" /\ p = "build" /\ l = "batch"
             \/ k = "batch" /\ p = "build" /\ l = "run"
             \/ k \in {"pullimage", "run"} /\ p = "exec" /\ l = k
    BY <1>4, CopyFrame
  <2>2. UNCHANGED <<clock, tmp, job, pid>> /\ call[c].pc = "copy"
    BY <1>4 DEF CopyTo
  <2>3. call'[c].pc = p /\ call'[c].kind = l /\ call'[c].out = call[c].out
    <3>1. TypeOK /\ Goes(c, p, l)
      BY <2>1 DEF TypeInv
    <3> QED
      BY <3>1, GoesFrame
  <2>4. /\ remote'[c][k] = <<c>>
        /\ \A m \in Kind \ {k} : remote'[c][m] = remote[c][m]
    BY <1>1, <1>4, <2>2, CopyFrame DEF Quiet
  <2>5. Later(c)' \subseteq Later(c)
    BY <2>1, <2>2, <2>3 DEF Later, After
  <2>6. Copied(c)' \subseteq Copied(c) \cup {k} /\ Copied(c) \subseteq Kind
    BY <1>1, <2>1, <2>2, <2>3 DEF Copied, Call, Kind
  <2>7. \A m \in Copied(c)' : remote'[c][m] = <<c>>
    BY <1>1, <2>4, <2>6 DEF Quiet
  <2>8. call'[c].pc = "exec" => call'[c].kind \in {"pullimage", "run"}
    BY <2>1, <2>3
  <2>9. call'[c].pc # "copy"
    BY <2>1, <2>3
  <2> QED
    BY <1>1, <2>2, <2>3, <2>5, <2>7, <2>8, <2>9 DEF Quiet
<1>5. CASE Submit(c)
  <2>1. UNCHANGED <<clock, tmp, remote, pid>>
    BY <1>5 DEF Submit
  <2>2. /\ call'[c].pc = call[c].pc /\ call'[c].kind = call[c].kind
        /\ call'[c].file = call[c].file
        /\ call'[c].out = IF call[c].out = 0 THEN Len(job) + 1 ELSE call[c].out
        /\ \A j \in 1..Len(job) : job'[j] = job[j]
    BY <1>5, SubmitFrame
  <2>3. job'[Len(job) + 1].dir = c
    BY <1>1, <1>5, OwnSubmission
  <2>4. Later(c)' = Later(c) /\ Copied(c)' = Copied(c)
    BY <2>2 DEF Later, Copied
  <2>5. /\ pid'[c] # 0 => job'[pid'[c]].dir = c
        /\ call'[c].out # 0 => job'[call'[c].out].dir = c
    BY <1>1, <2>1, <2>2, <2>3 DEF Quiet
  <2> QED
    BY <1>1, <2>1, <2>2, <2>4, <2>5 DEF Quiet
<1>6. CASE Pull(c) \/ PartFail(c)
  <2>1. UNCHANGED <<clock, tmp, remote, job, pid>>
    BY <1>6 DEF Pull, PartFail
  <2>2. /\ call'[c].pc = call[c].pc /\ call'[c].kind = call[c].kind
        /\ call'[c].file = call[c].file /\ call'[c].out = call[c].out
    BY <1>6, PullFrame, PartFailFrame
  <2>3. Later(c)' = Later(c) /\ Copied(c)' = Copied(c)
    BY <2>2 DEF Later, Copied
  <2> QED
    BY <1>1, <2>1, <2>2, <2>3 DEF Quiet
<1>7. CASE StageFail(c) \/ ExecFail(c) \/ PullDone(c) \/ ScriptFails(c)
  <2>1. call'[c] = Idle /\ UNCHANGED <<job, pid>>
    BY <1>7 DEF StageFail, ExecFail, PullDone, ScriptFails, Ends, TypeInv, TypeOK
  <2>2. call'[c].pc = "idle" /\ call'[c].out = 0
    BY <2>1 DEF Idle
  <2> QED
    BY <1>1, <2>1, <2>2, IdleQuiet DEF TypeInv, TypeOK
<1>8. CASE SubmitDone(c)
  <2>1. call'[c] = Idle /\ job' = job /\ pid'[c] = call[c].out
    BY <1>8 DEF SubmitDone, ParseJobId, Ends, TypeInv, TypeOK
  <2>2. call'[c].pc = "idle" /\ call'[c].out = 0
    BY <2>1 DEF Idle
  <2>3. Later(c)' = {} /\ Copied(c)' = {}
    BY <2>2 DEF Later, Copied
  <2> QED
    BY <1>1, <2>1, <2>2, <2>3 DEF Quiet
<1> QED
  BY <1>2, <1>3, <1>4, <1>5, <1>6, <1>7, <1>8 DEF Step

\* A container is served, and then no other one is, or it began when none was.
LEMMA StepAlone ==
  ASSUME TypeInv, SpacedInv, spaced, NEW c \in Container, Step(c),
         NEW d \in Container \ {c}
  PROVE  call[d].pc = "idle"
<1>1. CASE CreateContainer(c) \/ StartContainer(c)
  <2>1. call[d] = Idle
    BY <1>1 DEF CreateContainer, StartContainer, MayBegin
  <2> QED
    BY <2>1 DEF Idle
<1>2. CASE ~(CreateContainer(c) \/ StartContainer(c))
  <2>1. call[c].pc # "idle"
    BY <1>2 DEF Step, Build, CopyTo, StageFail, Submit, Pull, PartFail, ExecFail,
                PullDone, SubmitDone, ScriptFails, Running
  <2> QED
    BY <2>1 DEF SpacedInv, OneAtATime
<1> QED
  BY <1>1, <1>2

LEMMA StepSpaced ==
  ASSUME TypeInv, SpacedInv, NEW c \in Container, Step(c)
  PROVE  SpacedInv'
<1> SUFFICES ASSUME spaced
             PROVE  (OneAtATime /\ LaterIsEmpty /\ JobsAreOwn)'
                    /\ \A d \in Container : Quiet(d)'
  BY DEF SpacedInv, Step, CreateContainer, StartContainer, Build, CopyTo, StageFail, Submit,
         Pull, PartFail, ExecFail, PullDone, SubmitDone, ScriptFails
<1>1. \A d \in Container \ {c} : call[d].pc = "idle" /\ call'[d] = call[d]
  BY StepAlone, StepGrows
<1>2. OneAtATime'
  BY <1>1 DEF OneAtATime
<1>3. ASSUME NEW d \in Container \ {c} PROVE Quiet(d)'
  <2>1. /\ Quiet(d) /\ call'[d].pc = "idle" /\ call'[d].out = call[d].out
        /\ pid'[d] = pid[d] /\ Grows(d)
    BY <1>1, StepGrows DEF SpacedInv
  <2> QED
    BY <2>1, IdleQuiet DEF Grows
<1> QED
  BY <1>2, <1>3, StepFiles, StepQuiet

LEMMA NextSpaced == TypeInv /\ TypeInv' /\ SpacedInv /\ [Next]_vars => SpacedInv'
<1> SUFFICES ASSUME TypeInv, TypeInv', SpacedInv, [Next]_vars PROVE SpacedInv'
  OBVIOUS
<1>1. CASE UNCHANGED vars
  BY <1>1 DEF vars, SpacedInv, OneAtATime, LaterIsEmpty, JobsAreOwn, Quiet, Later, Copied
<1> QED
  BY <1>1, TickSpaced, CrashSpaced, StepSpaced DEF Next

\* Requests that come one at a time and in seconds of their own submit jobs
\* that are their container's alone, also after starts that were cut and made
\* again.
THEOREM SpacedIsOwnCorrect == Spec => []SpacedIsOwn
<1>1. SpacedInv => SpacedIsOwn
  BY DEF SpacedInv, JobsAreOwn, Quiet, SpacedIsOwn
<1> QED
  BY <1>1, InitType, NextType, InitSpaced, NextSpaced, PTL DEF Spec

-----------------------------------------------------------------------------
(* The contract of a submission *)

\* Before its script runs, a request has submitted nothing; the part of it
\* whose number was read is known, and is not the next one.
SentInv ==
  \A c \in Container :
    /\ call[c].pc # "exec" => call[c].next = 1 /\ call[c].out = 0 /\ call[c].by = 0
    /\ call[c].kind = "run" =>
         /\ call[c].by = 0 <=> call[c].out = 0
         /\ call[c].next = 1 => call[c].out = 0

LEMMA SentStep ==
  ASSUME TypeInv, SentInv, [Next]_vars
  PROVE  SentInv'
<1>1. CASE Crash
  BY <1>1, CrashFrame DEF SentInv, Idle
<1>2. CASE Tick \/ UNCHANGED vars
  BY <1>2 DEF Tick, vars, SentInv
<1>3. ASSUME NEW c \in Container, Step(c) PROVE SentInv'
  <2>1. \A d \in Container \ {c} : call'[d] = call[d]
    BY <1>3, StepGrows
  <2>2. call[c] \in Call /\ Len(job) \in Nat
    BY DEF TypeInv, TypeOK
  <2> SUFFICES /\ call'[c].pc # "exec" =>
                    call'[c].next = 1 /\ call'[c].out = 0 /\ call'[c].by = 0
               /\ call'[c].kind = "run" =>
                    /\ call'[c].by = 0 <=> call'[c].out = 0
                    /\ call'[c].next = 1 => call'[c].out = 0
    BY <2>1 DEF SentInv
  <2>3. ASSUME NEW p, NEW k, Goes(c, p, k), call[c].pc # "exec"
        PROVE  call'[c].next = 1 /\ call'[c].out = 0 /\ call'[c].by = 0
    BY <2>3, GoesFrame DEF TypeInv, SentInv
  <2>4. CASE CreateContainer(c) \/ StartContainer(c)
    <3>1. call[c].pc # "exec"
      BY <2>4 DEF CreateContainer, StartContainer, MayBegin, Idle
    <3>2. PICK k \in {"pullimage", "prerun", "batch"} : Goes(c, "build", k)
      BY <2>4 DEF CreateContainer, StartContainer
    <3>3. call'[c].kind # "run"
      BY <3>2, GoesFrame DEF TypeInv
    <3> QED
      BY <2>3, <3>1, <3>2, <3>3
  <2>5. CASE CopyTo(c)
    <3>1. PICK p \in Pc, k \in Kind : Goes(c, p, k)
      BY <2>5, CopyFrame
    <3>2. call[c].pc # "exec"
      BY <2>5 DEF CopyTo
    <3>3. call'[c].next = 1 /\ call'[c].out = 0 /\ call'[c].by = 0
      BY <2>3, <3>1, <3>2
    <3> QED
      BY <3>3
  <2>6. CASE Build(c)
    <3>1. call[c].pc # "exec"
      BY <2>6 DEF Build
    <3>2. call[c].next = 1 /\ call[c].out = 0 /\ call[c].by = 0
      BY <3>1 DEF SentInv
    <3>3. /\ call'[c].next = call[c].next /\ call'[c].out = call[c].out
          /\ call'[c].by = call[c].by
      BY <2>6, BuildFrame
    <3> QED
      BY <3>2, <3>3
  <2>7. CASE Submit(c)
    <3>1. call[c].next \in Nat \ {0} /\ call[c].by \in Nat /\ call[c].out \in Nat
      BY <2>2 DEF Call
    <3>2. call[c].pc = "exec" /\ call[c].kind = "run"
      BY <2>7 DEF Submit, Running
    <3>3. call[c].by = 0 <=> call[c].out = 0
      BY <3>2 DEF SentInv
    <3>4. /\ call'[c].pc = "exec" /\ call'[c].next = call[c].next + 1
          /\ call'[c].out = IF call[c].out = 0 THEN Len(job) + 1 ELSE call[c].out
          /\ call'[c].by = IF call[c].by = 0 THEN call[c].next ELSE call[c].by
      BY <2>7, <3>2, SubmitFrame
    <3> QED
      BY <2>2, <3>1, <3>3, <3>4
  <2>8. CASE Pull(c)
    BY <2>8, PullFrame DEF Pull, Running
  <2>9. CASE PartFail(c)
    <3>1. /\ call'[c].next = call[c].next + 1 /\ call'[c].kind = call[c].kind
          /\ call'[c].out = call[c].out /\ call'[c].pc = "exec"
          /\ call[c].kind = "run" => call'[c].by = call[c].by
      BY <2>9, PartFailFrame DEF PartFail
    <3> QED
      BY <2>2, <3>1 DEF SentInv, Call
  <2>10. CASE StageFail(c) \/ ExecFail(c) \/ PullDone(c) \/ SubmitDone(c) \/ ScriptFails(c)
    <3>1. call'[c] = Idle
      BY <2>10 DEF StageFail, ExecFail, PullDone, SubmitDone, ScriptFails, Ends,
                   TypeInv, TypeOK
    <3> QED
      BY <3>1 DEF Idle
  <2> QED
    BY <1>3, <2>4, <2>5, <2>6, <2>7, <2>8, <2>9, <2>10 DEF Step
<1> QED
  BY <1>1, <1>2, <1>3 DEF Next

\* The contract sees nothing of a step, or sees one container's start move.
Unseen(c) ==
  /\ Starts(c)' <=> Starts(c)
  /\ SentFor(c)' = SentFor(c)
  /\ OwnJobs(c)' = OwnJobs(c)
  /\ NumberFor(c)' = NumberFor(c)

Begins(c) ==
  /\ ~Starts(c) /\ Starts(c)'
  /\ SentFor(c)' = SentFor(c)
  /\ OwnJobs(c)' = OwnJobs(c)
  /\ NumberFor(c)' = NumberFor(c)

Submits(c, j) ==
  /\ Starts(c) /\ Starts(c)'
  /\ SentFor(c) = {} /\ SentFor(c)' = {j}
  /\ \A d \in Container : j \notin OwnJobs(d)
  /\ OwnJobs(c)' = OwnJobs(c) \cup {j}
  /\ NumberFor(c)' = NumberFor(c)

Ended(c) ==
  /\ Starts(c) /\ ~Starts(c)'
  /\ SentFor(c)' = {}
  /\ OwnJobs(c)' = OwnJobs(c)

LEMMA OneStartMoves ==
  ASSUME NEW c \in Container,
         \A d \in Container \ {c} : Unseen(d),
         \/ Unseen(c)
         \/ Begins(c)
         \/ \E j : Submits(c, j)
         \/ Ended(c) /\ NumberFor(c)' \in SentFor(c)
         \/ Ended(c) /\ NumberFor(c)' = NumberFor(c)
  PROVE  [Submission!Next]_(Submission!submissionVars)
<1> DEFINE starting == {d \in Container : Starts(d)}
           sent == [d \in Container |-> SentFor(d)]
           jobs == [d \in Container |-> OwnJobs(d)]
           number == [d \in Container |-> NumberFor(d)]
<1>1. CASE Unseen(c)
  BY <1>1 DEF Unseen, Submission!submissionVars
<1>2. CASE Begins(c)
  <2>1. Submission!Begin(c)
    BY <1>2 DEF Begins, Unseen, Submission!Begin
  <2> QED
    BY <2>1 DEF Submission!Next
<1>3. ASSUME NEW j, Submits(c, j) PROVE Submission!Submit(c)
  BY <1>3 DEF Submits, Unseen, Submission!Submit
<1>4. CASE Ended(c) /\ NumberFor(c)' \in SentFor(c)
  <2>1. Submission!Record(c)
    BY <1>4 DEF Ended, Unseen, Submission!Record
  <2> QED
    BY <2>1 DEF Submission!Next
<1>5. CASE Ended(c) /\ NumberFor(c)' = NumberFor(c)
  <2>1. Submission!GiveUp({c})
    BY <1>5 DEF Ended, Unseen, Submission!GiveUp
  <2>2. {c} \in SUBSET starting
    BY <1>5 DEF Ended
  <2> QED
    BY <2>1, <2>2 DEF Submission!Next
<1> QED
  BY <1>1, <1>2, <1>3, <1>4, <1>5 DEF Submission!Next

\* Nothing the contract sees changes.
LEMMA UnseenMove ==
  ASSUME NEW c \in Container, UNCHANGED <<spaced, job>>, pid'[c] = pid[c],
         Starts(c)' <=> Starts(c),
         Starts(c) => call'[c].out = call[c].out
  PROVE  Unseen(c)
  BY DEF Unseen, SentFor, OwnJobs, IsOwnJob, NumberFor

\* A request is over, and records nothing.
LEMMA RequestOver ==
  ASSUME NEW c \in Container, UNCHANGED <<spaced, job>>, pid'[c] = pid[c],
         call'[c] = Idle
  PROVE  \/ Unseen(c)
         \/ Ended(c) /\ NumberFor(c)' = NumberFor(c)
<1>1. ~Starts(c)'
  BY DEF Starts, Idle
<1> QED
  BY <1>1 DEF Unseen, Ended, SentFor, OwnJobs, IsOwnJob, NumberFor

\* The job just submitted is the container's own, and of no other one.
LEMMA SubmitSeen ==
  ASSUME TypeInv, SentInv, SpacedInv, spaced, NEW c \in Container, Submit(c)
  PROVE  /\ Submits(c, Len(job) + 1)
         /\ \A d \in Container \ {c} : Unseen(d)
<1>0. PICK n : n = Len(job) + 1
  OBVIOUS
<1>1. /\ DOMAIN job = 1..Len(job) /\ DOMAIN job' = 1..n /\ Len(job) \in Nat
      /\ \A j \in 1..Len(job) : job'[j] = job[j]
  BY <1>0, SubmitFrame DEF TypeInv, TypeOK
<1>2. job'[n] = [dir |-> c, runs |-> <<c>>, env |-> {c}]
  <2>1. job'[n] \in Job
    BY <1>0, <1>1, SubmitFrame
  <2>2. job'[n].dir = c /\ job'[n].runs = <<c>> /\ job'[n].env = {c}
    BY <1>0, OwnSubmission DEF SpacedInv
  <2> QED
    BY <2>1, <2>2 DEF Job
<1>3. \A d \in Container : IsOwnJob(n, d)' <=> d = c
  BY <1>2 DEF IsOwnJob
<1>4. \A d \in Container : n \notin OwnJobs(d)
  BY <1>0, <1>1 DEF OwnJobs
<1>5. spaced' = spaced /\ pid' = pid
  BY DEF Submit
<1>6. \A d \in Container : OwnJobs(d)' = OwnJobs(d) \cup (IF d = c THEN {n} ELSE {})
  <2>1. ASSUME NEW d \in Container, NEW j \in DOMAIN job
        PROVE  IsOwnJob(j, d)' <=> IsOwnJob(j, d)
    BY <1>1 DEF IsOwnJob
  <2>2. DOMAIN job' = DOMAIN job \cup {n}
    BY <1>0, <1>1
  <2> QED
    BY <1>3, <1>5, <2>1, <2>2 DEF OwnJobs
<1>7. call[c].pc = "exec" /\ call[c].kind = "run" /\ call[c].next = 1 /\ call[c].out = 0
  <2>1. call[c].pc = "exec" /\ call[c].kind = "run" /\ More(c)
    BY DEF Submit, Running
  <2>2. Script(c) = <<c>>
    BY <2>1 DEF SpacedInv, Quiet, Copied, Script
  <2>3. call[c].next = 1
    BY <2>1, <2>2 DEF TypeInv, TypeOK, Call, More
  <2> QED
    BY <2>1, <2>3 DEF SentInv
<1>8. /\ call'[c].pc = "exec" /\ call'[c].kind = "run" /\ call'[c].out = n
      /\ \A d \in Container \ {c} : call'[d] = call[d]
  BY <1>0, <1>7, SubmitFrame
<1>9. Submits(c, n)
  <2>1. Starts(c) /\ Starts(c)' /\ SentFor(c) = {} /\ SentFor(c)' = {n}
    BY <1>0, <1>1, <1>5, <1>7, <1>8 DEF Starts, SentFor
  <2> QED
    BY <1>4, <1>5, <1>6, <2>1 DEF Submits, NumberFor
<1>10. ASSUME NEW d \in Container \ {c} PROVE Unseen(d)
  BY <1>5, <1>6, <1>8 DEF Unseen, Starts, SentFor, NumberFor
<1> QED
  BY <1>0, <1>9, <1>10

\* A step of a container's request is one of the contract for that container.
LEMMA StepSeen ==
  ASSUME TypeInv, SentInv, SpacedInv, spaced, NEW c \in Container, Step(c)
  PROVE  [Submission!Next]_(Submission!submissionVars)
<1>1. \A d \in Container \ {c} : call'[d] = call[d] /\ pid'[d] = pid[d]
  BY StepGrows
<1>2. spaced' = spaced
  BY DEF Step, CreateContainer, StartContainer, Build, CopyTo, StageFail, Submit, Pull,
         PartFail, ExecFail, PullDone, SubmitDone, ScriptFails
<1>3. CASE Submit(c)
  BY <1>3, SubmitSeen, OneStartMoves
<1>4. CASE ~Submit(c)
  <2>1. job' = job
    BY <1>4 DEF Step, CreateContainer, StartContainer, Build, CopyTo, StageFail, Pull,
                PartFail, ExecFail, PullDone, SubmitDone, ScriptFails
  <2>2. \A d \in Container \ {c} : Unseen(d)
    BY <1>1, <1>2, <2>1, UnseenMove DEF Starts
  <2> SUFFICES \/ Unseen(c) \/ Begins(c)
               \/ Ended(c) /\ NumberFor(c)' \in SentFor(c)
               \/ Ended(c) /\ NumberFor(c)' = NumberFor(c)
    BY <2>2, OneStartMoves
  <2>3. CASE CreateContainer(c)
    <3>1. call[c].pc = "idle" /\ call'[c].kind = "pullimage" /\ pid' = pid
      BY <2>3, GoesFrame DEF CreateContainer, MayBegin, Idle, TypeInv
    <3> QED
      BY <1>2, <2>1, <3>1, UnseenMove DEF Starts
  <2>4. CASE StartContainer(c)
    <3>1. PICK k \in {"prerun", "batch"} : Goes(c, "build", k)
      BY <2>4 DEF StartContainer
    <3>2. /\ call[c].pc = "idle" /\ call[c].out = 0 /\ pid' = pid
          /\ call'[c].pc = "build" /\ call'[c].kind = k /\ call'[c].out = 0
      BY <2>4, <3>1, GoesFrame DEF StartContainer, MayBegin, Idle, TypeInv
    <3> QED
      BY <1>2, <2>1, <3>2
      DEF Begins, Starts, SentFor, OwnJobs, IsOwnJob, NumberFor
  <2>5. CASE Build(c) \/ Pull(c) \/ PartFail(c)
    <3>1. /\ call'[c].pc # "idle" /\ call[c].pc # "idle" /\ pid' = pid
          /\ call'[c].kind = call[c].kind /\ call'[c].out = call[c].out
      BY <2>5, BuildFrame, PullFrame, PartFailFrame DEF Build, Pull, PartFail, Running
    <3> QED
      BY <1>2, <2>1, <3>1, UnseenMove DEF Starts
  <2>6. CASE CopyTo(c)
    <3>1. PICK p \in Pc, k \in Kind :
            /\ Goes(c, p, k) /\ p \in {"build", "exec"}
            /\ (k = "pullimage") <=> (call[c].kind = "pullimage")
      <4>1. PICK p \in Pc, k \in Kind :
              /\ Goes(c, p, k)
              /\ \/ call[c].kind = "prerun" /\ p = "build" /\ k = "batch"
                 \/ call[c].kind = "batch" /\ p = "build" /\ k = "run"
                 \/ call[c].kind \in {"pullimage", "run"} /\ p = "exec" /\ k = call[c].kind
        BY <2>6, CopyFrame
      <4> QED
        BY <4>1
    <3>2. call'[c].pc = p /\ call'[c].kind = k /\ call'[c].out = call[c].out
      BY <3>1, GoesFrame DEF TypeInv
    <3>3. call[c].pc # "idle" /\ pid' = pid
      BY <2>6 DEF CopyTo
    <3> QED
      BY <1>2, <2>1, <3>1, <3>2, <3>3, UnseenMove DEF Starts
  <2>7. CASE StageFail(c) \/ ExecFail(c) \/ PullDone(c) \/ ScriptFails(c)
    <3>1. call'[c] = Idle /\ pid' = pid
      BY <2>7 DEF StageFail, ExecFail, PullDone, ScriptFails, Ends, TypeInv, TypeOK
    <3> QED
      BY <1>2, <2>1, <3>1, RequestOver
  <2>8. CASE SubmitDone(c)
    <3>1. call[c].pc = "exec" /\ call[c].kind = "run" /\ LastPart(c)
      BY <2>8 DEF SubmitDone, Running
    <3>2. Script(c) = <<c>>
      BY <3>1 DEF SpacedInv, Quiet, Copied, Script
    <3>3. call[c].out # 0
      BY <3>1, <3>2 DEF LastPart, SentInv
    <3>4. call'[c] = Idle /\ pid'[c] = call[c].out
      BY <2>8 DEF SubmitDone, ParseJobId, Ends, TypeInv, TypeOK
    <3>5. Starts(c) /\ ~Starts(c)'
      BY <3>1, <3>4 DEF Starts, Idle
    <3> QED
      BY <1>2, <2>1, <3>3, <3>4, <3>5
      DEF Ended, SentFor, OwnJobs, IsOwnJob, NumberFor
  <2> QED
    BY <1>4, <2>3, <2>4, <2>5, <2>6, <2>7, <2>8 DEF Step
<1> QED
  BY <1>3, <1>4

\* Death of the server gives up the starts that are served.
LEMMA CrashSeen ==
  ASSUME TypeInv, Crash
  PROVE  [Submission!Next]_(Submission!submissionVars)
<1> DEFINE S == {c \in Container : Starts(c)}
<1>1. UNCHANGED <<spaced, job, pid>> /\ \A c \in Container : ~Starts(c)'
  BY CrashFrame DEF Starts, Idle
<1>2. \A c \in Container :
        /\ SentFor(c)' = {} /\ OwnJobs(c)' = OwnJobs(c) /\ NumberFor(c)' = NumberFor(c)
        /\ c \notin S => SentFor(c) = {}
  BY <1>1 DEF SentFor, OwnJobs, IsOwnJob, NumberFor
<1>3. Submission!GiveUp(S)
  BY <1>1, <1>2 DEF Submission!GiveUp
<1> QED
  BY <1>3 DEF Submission!Next

\* SubmitsAsContracted: where requests come one at a time and in seconds of
\* their own, the files, the copies and the shell on the cluster make a start
\* the one step ContainerService takes it to be: one job at most, the
\* container's own, whose number is recorded or is not.
THEOREM SubmitsAsContractedCorrect == Spec => SubmitsAsContracted
<1> DEFINE I == TypeInv /\ SpacedInv /\ SentInv
<1>1. Init => I
  <2>1. Init => SentInv
    <3> SUFFICES ASSUME Init, NEW c \in Container, call[c] = Idle
                 PROVE  /\ call[c].pc # "exec" =>
                             call[c].next = 1 /\ call[c].out = 0 /\ call[c].by = 0
                        /\ call[c].kind = "run" =>
                             /\ call[c].by = 0 <=> call[c].out = 0
                             /\ call[c].next = 1 => call[c].out = 0
      BY DEF Init, SentInv
    <3> QED
      BY DEF Idle
  <2> QED
    BY <2>1, InitType, InitSpaced
<1>2. I /\ [Next]_vars => I'
  BY NextType, NextSpaced, SentStep
<1>3. Init => Submission!Init
  <2> SUFFICES ASSUME Init PROVE Submission!Init
    OBVIOUS
  <2>1. \A c \in Container :
          ~Starts(c) /\ SentFor(c) = {} /\ OwnJobs(c) = {} /\ NumberFor(c) = 0
    <3> SUFFICES ASSUME NEW c \in Container
                 PROVE  ~Starts(c) /\ SentFor(c) = {} /\ OwnJobs(c) = {} /\ NumberFor(c) = 0
      OBVIOUS
    <3>1. call[c] = Idle /\ pid[c] = 0 /\ DOMAIN job = {}
      BY DEF Init
    <3>2. ~Starts(c)
      BY <3>1 DEF Starts, Idle
    <3> QED
      BY <3>1, <3>2 DEF SentFor, OwnJobs, NumberFor
  <2> QED
    BY <2>1 DEF Submission!Init
<1>4. I /\ [Next]_vars => [Submission!Next]_(Submission!submissionVars)
  <2> SUFFICES ASSUME I, [Next]_vars
               PROVE  [Submission!Next]_(Submission!submissionVars)
    OBVIOUS
  <2>1. CASE Crash
    BY <2>1, CrashSeen
  <2>2. ASSUME NEW c \in Container, Step(c)
        PROVE  [Submission!Next]_(Submission!submissionVars)
    <3>1. CASE spaced
      BY <2>2, <3>1, StepSeen
    <3>2. CASE ~spaced
      <4>1. spaced' = spaced
        BY <2>2 DEF Step, CreateContainer, StartContainer, Build, CopyTo,
          StageFail, Submit, Pull, PartFail, ExecFail, PullDone, SubmitDone, ScriptFails
      <4> QED
        BY <3>2, <4>1
          DEF Submission!submissionVars, Starts, SentFor, OwnJobs, NumberFor
    <3> QED
      BY <3>1, <3>2
  <2>3. CASE Tick \/ UNCHANGED vars
    BY <2>3 DEF Tick, vars, Submission!submissionVars, Starts, SentFor, OwnJobs,
                IsOwnJob, NumberFor
  <2> QED
    BY <2>1, <2>2, <2>3 DEF Next
<1> HIDE DEF I
<1> QED
  BY <1>1, <1>2, <1>3, <1>4, PTL DEF Spec, SubmitsAsContracted, Submission!Spec
=============================================================================
