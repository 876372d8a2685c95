------------------------- MODULE SchemaLifecycleProofs -------------------------
(***************************************************************************)
(* What SchemaLifecycle promises, for any requests, subjects and files.    *)
(* LifecycleInv and UploadedPrefixStored are inductive together: a step    *)
(* disturbs the subject its request is writing to and no other (Good), and *)
(* where nothing went wrong no other running request is on that subject.   *)
(***************************************************************************)
EXTENDS SchemaLifecycle, Extremes, TLAPS

-------------------------------------------------------------------------------
(* Version numbers and jobs. *)

LEMMA GreatestVersion ==
    ASSUME NEW S \in SUBSET (1..MaxVersion)
    PROVE  /\ S # {} => Max(S) \in S /\ \A x \in S : x <= Max(S)
           /\ \A m \in S : (\A x \in S : x <= m) => Max(S) = m
<1>1. MaxVersion \in Nat  BY LifecycleAssumption
<1> QED BY <1>1, MaxIsGreatest, MaxIsUnique

LEMMA JobTyped ==
    ASSUME NEW j \in Jobs
    PROVE  /\ j.kind \in Kinds
           /\ j.kind = "upload" =>
                /\ j.files \in Seq(File) /\ j.files # <<>> /\ Len(j.files) \in Nat \ {0}
                /\ \A k \in 1..Len(j.files) : _build_subject_name(j, j.files[k]) \in Subjects
                /\ j.mode \in Modes \cup {None} /\ j.owner \in Owners
           /\ j.kind # "upload" => j.subject \in Subjects
           /\ j.kind = "rollback" => j.version \in Nat
           /\ j.kind = "settings" =>
                j.mode \in Modes \cup {None} /\ j.owner \in Owners \cup {None}
<1>1. j.kind \in Kinds  BY LifecycleAssumption
<1>2. j.kind = "upload" =>
        /\ j.files \in Seq(File) /\ j.files # <<>>
        /\ \A k \in DOMAIN j.files : _build_subject_name(j, j.files[k]) \in Subjects
        /\ j.mode \in Modes \cup {None} /\ j.owner \in Owners
  BY LifecycleAssumption
<1>3. j.kind = "upload" => DOMAIN j.files = 1..Len(j.files) /\ Len(j.files) \in Nat \ {0}
  BY <1>2
<1>4. j.kind \in {"analyze", "delete"} => j.subject \in Subjects  BY LifecycleAssumption
<1>5. j.kind = "rollback" => j.subject \in Subjects /\ j.version \in Nat
  BY LifecycleAssumption
<1>6. j.kind = "settings" =>
        j.subject \in Subjects /\ j.mode \in Modes \cup {None} /\ j.owner \in Owners \cup {None}
  BY LifecycleAssumption
<1> QED BY <1>1, <1>2, <1>3, <1>4, <1>5, <1>6 DEF Kinds

LEMMA StagesAre ==
    /\ Stages("upload") = {"validating", "file", "registered", "versioned", "configured",
                           "described", "uploaded", "closing", "failing"}
    /\ Stages("analyze") = {"analyzing", "closing"}
    /\ Stages("delete") = {"analyzing", "deleting", "deleted", "closing", "failing"}
    /\ Stages("rollback") = {"reading", "stepping", "trimming", "saving"}
    /\ Stages("settings") = {"looking", "configuring", "describing", "closing"}
BY DEF Stages

\* Its place tells what a running request is doing.
LEMMA KindAt ==
    ASSUME TypeOK, Staged, NEW q \in Requests, Running(q)
    PROVE  /\ op[q].job \in Jobs /\ pc[q] # "idle"
           /\ pc[q] \in {"validating", "file", "registered", "versioned", "configured",
                         "described", "uploaded"} => op[q].job.kind = "upload"
           /\ pc[q] = "analyzing" => op[q].job.kind \in {"analyze", "delete"}
           /\ pc[q] \in {"deleting", "deleted"} => op[q].job.kind = "delete"
           /\ pc[q] \in {"reading", "stepping", "trimming", "saving"} =>
                op[q].job.kind = "rollback"
           /\ pc[q] \in {"looking", "configuring", "describing"} =>
                op[q].job.kind = "settings"
           /\ pc[q] = "failing" => op[q].job.kind \in {"upload", "delete"}
           /\ pc[q] = "closing" => op[q].job.kind # "rollback"
           /\ op[q].job.kind = "upload" => op[q].k \in 1..Len(op[q].job.files)
           /\ pc[q] = "validating" => op[q].k = 1
           /\ pc[q] \in {"versioned", "configured", "described"} => op[q].version # 0
<1>1. op[q].job \in Jobs /\ pc[q] # "idle"  BY DEF TypeOK, Running
<1>2. op[q].job.kind \in Kinds  BY <1>1, JobTyped
<1>3. /\ pc[q] \in Stages(op[q].job.kind)
      /\ op[q].job.kind = "upload" => op[q].k \in 1..Len(op[q].job.files)
      /\ pc[q] = "validating" => op[q].k = 1
      /\ pc[q] \in {"versioned", "configured", "described"} => op[q].version # 0
  BY DEF Staged
<1> QED BY <1>1, <1>2, <1>3, StagesAre DEF Kinds

LEMMA SubjectKnown ==
    ASSUME TypeOK, Staged, NEW q \in Requests, Running(q)
    PROVE  /\ Subject(q) \in Subjects
           /\ Subject(q) \in Touches(op[q].job)
           /\ Touches(op[q].job) \subseteq Subjects
<1>1. op[q].job \in Jobs  BY KindAt
<1>2. op[q].job.kind = "upload" =>
        /\ op[q].k \in DOMAIN op[q].job.files
        /\ DOMAIN op[q].job.files = 1..Len(op[q].job.files)
  BY <1>1, KindAt, JobTyped
<1> QED BY <1>1, <1>2, JobTyped DEF Subject, Touches

-------------------------------------------------------------------------------
(* What the stores hold. *)

\* Versions up to n, with their schemas.
History(f, n) ==
    /\ f = [v \in DOMAIN f |-> f[v]]
    /\ DOMAIN f \subseteq 1..n
    /\ \A v \in DOMAIN f : f[v] \in Schemas

LEMMA StoresAre ==
    ASSUME TypeOK, NEW s \in Subjects
    PROVE  /\ Live(s) = DOMAIN sr[s] /\ Live(s) \subseteq 1..top[s] /\ Live(s) \subseteq 1..MaxVersion
           /\ top[s] \in 0..MaxVersion /\ MaxVersion \in Nat
           /\ sr[s] = [v \in Live(s) |-> sr[s][v]]
           /\ \A v \in Live(s) : sr[s][v] \in Schemas
           /\ History(sr[s], top[s])
           /\ config[s] \in Modes \cup {None} /\ meta[s] \in Meta \cup {NoMeta}
           /\ sr = [sr EXCEPT ![s] = sr[s]] /\ top = [top EXCEPT ![s] = top[s]]
           /\ config = [config EXCEPT ![s] = config[s]] /\ meta = [meta EXCEPT ![s] = meta[s]]
<1>1. MaxVersion \in Nat  BY LifecycleAssumption
<1>2. sr[s] = [v \in Live(s) |-> sr[s][v]] /\ sr = [sr EXCEPT ![s] = sr[s]]  BY DEF TypeOK
<1>3. History(sr[s], top[s])  BY <1>2 DEF TypeOK, Live, History
<1> QED BY <1>1, <1>2, <1>3 DEF TypeOK, Live

-------------------------------------------------------------------------------
(* What a step leaves alone. *)

\* Nothing of subject s changes, in the registry or in the database.
Kept(s) ==
    /\ sr'[s] = sr[s] /\ top'[s] = top[s] /\ config'[s] = config[s] /\ meta'[s] = meta[s]
    /\ \A v \in 1..MaxVersion :
         /\ <<s, v>> \in artifacts' <=> <<s, v>> \in artifacts
         /\ <<s, v>> \in ours' <=> <<s, v>> \in ours

LEMMA KeptFrame ==
    ASSUME TypeOK, NEW s \in Subjects, Kept(s)
    PROVE  /\ Live(s)' = Live(s) /\ Latest(s)' = Latest(s)
           /\ ArtifactsLive(s)' <=> ArtifactsLive(s)
           /\ OursRecorded(s)' <=> OursRecorded(s)
           /\ NewIsLatest(s)' <=> NewIsLatest(s)
           /\ ModeStored(s)' <=> ModeStored(s)
           /\ Mirrored(s)' <=> Mirrored(s)
           /\ Unsafe(s)' <=> Unsafe(s)
<1>1. Live(s)' = Live(s) /\ Live(s) \subseteq 1..MaxVersion
  BY LifecycleAssumption DEF Live, Kept, TypeOK
<1>2. Latest(s)' = Latest(s)  BY <1>1 DEF Latest
<1>3. ArtifactsLive(s)' <=> ArtifactsLive(s)  BY <1>1 DEF ArtifactsLive, Kept
<1>4. OursRecorded(s)' <=> OursRecorded(s)  BY <1>1 DEF OursRecorded, Kept
<1>5. NewIsLatest(s)' <=> NewIsLatest(s)  BY <1>1, <1>2 DEF NewIsLatest, Kept
<1>6. ModeStored(s)' <=> ModeStored(s)  BY DEF ModeStored, Kept
<1>7. Unsafe(s)' <=> Unsafe(s)  BY <1>1, <1>2 DEF Unsafe
<1>8. Mirrored(s)' <=> Mirrored(s)  BY <1>3, <1>4, <1>6 DEF Mirrored
<1> QED BY <1>1, <1>2, <1>3, <1>4, <1>5, <1>6, <1>7, <1>8

Rests(r) == pc'[r] = pc[r] /\ op'[r] = op[r]

LEMMA PartialFrame ==
    ASSUME TypeOK, NEW s \in Subjects, Kept(s), NEW r \in Requests, Rests(r)
    PROVE  Partial(r, s)' <=> Partial(r, s)
<1>1. HalfUploaded(r, s)' <=> HalfUploaded(r, s)
  BY KeptFrame DEF HalfUploaded, Kept, Rests
<1>2. HalfRolledBack(r, s)' <=> HalfRolledBack(r, s)
  BY KeptFrame DEF HalfRolledBack, Newer, Kept, Rests
<1>3. HalfConfigured(r, s)' <=> HalfConfigured(r, s)
  BY KeptFrame DEF HalfConfigured, Kept, Rests
<1> QED BY <1>1, <1>2, <1>3, KeptFrame DEF Partial, Kept, Rests

-------------------------------------------------------------------------------
(* A step of a running request. *)

Inv == StoresInv /\ UploadedPrefixStored

\* A step of an upload takes nothing from the subject and sets no mode but mode.
Grown(mode, s) ==
    /\ \A v \in Live(s) : v \in Live(s)' /\ sr'[s][v] = sr[s][v]
    /\ \A v \in 1..MaxVersion : <<s, v>> \in artifacts => <<s, v>> \in artifacts'
    /\ config'[s] \in {config[s], mode}

LEMMA KeptIsGrown ==
    ASSUME TypeOK, NEW s \in Subjects, NEW mode, Kept(s)
    PROVE  Grown(mode, s)
BY KeptFrame DEF Grown, Kept

LEMMA StoredFrame ==
    ASSUME TypeOK, NEW j, NEW i, NEW s \in Subjects, s = _build_subject_name(j, j.files[i]),
           tainted \subseteq tainted', Grown(j.mode, s), FileStored(j, i)
    PROVE  FileStored(j, i)'
<1>1. CASE s \in tainted  BY <1>1 DEF FileStored
<1>2. CASE s \notin tainted
  <2>1. /\ config[s] = j.mode
        /\ \E v, w \in Live(s) :
             sr[s][v] = j.files[i].schema /\ v <= w /\ <<s, w>> \in artifacts
    BY <1>2 DEF FileStored
  <2>2. config'[s] = j.mode  BY <2>1 DEF Grown
  <2>3. Live(s) \subseteq 1..MaxVersion  BY LifecycleAssumption DEF TypeOK
  <2>4. \E v, w \in Live(s)' :
          sr'[s][v] = j.files[i].schema /\ v <= w /\ <<s, w>> \in artifacts'
    BY <2>1, <2>3 DEF Grown
  <2> QED BY <2>2, <2>4 DEF FileStored
<1> QED BY <1>1, <1>2

StagedAt(r) ==
    Running(r) =>
      /\ pc[r] \in Stages(op[r].job.kind)
      /\ op[r].job.kind = "upload" => op[r].k \in 1..Len(op[r].job.files)
      /\ pc[r] = "validating" => op[r].k = 1
      /\ pc[r] \in {"versioned", "configured", "described"} => op[r].version # 0
\* A step of request q on subject s: it disturbs nothing else, and leaves s as
\* Partial says while q is between its writes, mirrored otherwise.
Good(q, s) ==
    /\ TypeOK'
    /\ \A r \in Requests \ {q} : Rests(r)
    /\ \A t \in Subjects \ {s} : Kept(t)
    /\ tainted \subseteq tainted'
    /\ pc'[q] # "idle" /\ op'[q].job = op[q].job
    /\ StagedAt(q)'
    /\ pc'[q] \in MidWay => Subject(q)' = s /\ (s \notin tainted' => Partial(q, s)')
    /\ pc'[q] \notin MidWay => s \in tainted' \/ Mirrored(s)'
    /\ op[q].job.kind = "upload" /\ pc'[q] # "done" =>
         /\ Grown(op[q].job.mode, s)
         /\ \A i \in 1..Behind(q)' : i \in 1..Behind(q) \/ FileStored(op[q].job, i)'

LEMMA SubjectRests ==
    ASSUME NEW r \in Requests, Rests(r)
    PROVE  /\ Subject(r)' = Subject(r) /\ Running(r)' = Running(r) /\ Behind(r)' = Behind(r)
BY DEF Rests, Subject, Running, Behind

\* No other request is on the subject.
LEMMA Elsewhere ==
    ASSUME Inv, NEW q \in Requests, Running(q), NEW s, s = Subject(q),
           NEW r \in Requests \ {q}, Running(r), NEW t \in Touches(op[r].job), t \notin tainted
    PROVE  t # s /\ t \in Subjects
<1>1. TypeOK /\ Staged /\ Alone  BY DEF Inv, StoresInv
<1>2. s \in Touches(op[q].job) /\ t \in Subjects  BY <1>1, SubjectKnown
<1> QED BY <1>1, <1>2 DEF Alone

\* At MidWay, a request runs.
LEMMA MidWayRuns ==
    ASSUME NEW r \in Requests, pc[r] \in MidWay \/ pc[r] = "deleting"
    PROVE  Running(r)
BY DEF MidWay, Running

\* Where no request is between its writes the stores agree.
LEMMA MirroredAgree ==
    ASSUME TypeOK, Staged, MirroredElsewhere
    PROVE  MirrorAgrees
<1> SUFFICES ASSUME NEW s \in Subjects, Settled(s) PROVE Mirrored(s)  BY DEF MirrorAgrees
<1>1. s \notin tainted  BY DEF Settled
<1>2. ASSUME NEW r \in Requests, pc[r] \in MidWay, Subject(r) = s PROVE FALSE
  BY <1>2, MidWayRuns, SubjectKnown DEF Settled
<1> QED BY <1>1, <1>2 DEF MirroredElsewhere

LEMMA GoodStep ==
    ASSUME Inv, NEW q \in Requests, Running(q), NEW s \in Subjects, s = Subject(q), Good(q, s)
    PROVE  Inv'
<1>1. TypeOK /\ Staged /\ Alone /\ HalfDone /\ MirroredElsewhere
  BY DEF Inv, StoresInv
<1>2. TypeOK' /\ tainted \subseteq tainted'  BY DEF Good
<1>3. ASSUME NEW r \in Requests, r # q
      PROVE  Rests(r) /\ Subject(r)' = Subject(r) /\ Running(r)' = Running(r)
             /\ Behind(r)' = Behind(r)
  BY <1>3, SubjectRests DEF Good
<1>4. ASSUME NEW r \in Requests, r # q, Running(r), NEW t \in Touches(op[r].job),
             t \notin tainted
      PROVE  t \in Subjects /\ Kept(t)
  <2>1. t # s /\ t \in Subjects  BY <1>4, Elsewhere
  <2> QED BY <2>1 DEF Good
<1>5. Staged'
  <2>1. ASSUME NEW r \in Requests PROVE StagedAt(r)'
    <3>1. CASE r = q  BY <3>1 DEF Good
    <3>2. CASE r # q
      <4>1. StagedAt(r)  BY <1>1 DEF Staged, StagedAt
      <4> QED BY <4>1, <3>2, <1>3 DEF StagedAt, Rests
    <3> QED BY <3>1, <3>2
  <2> QED BY <2>1 DEF Staged, StagedAt
<1>6. Alone'
  <2>1. \A r \in Requests : Running(r)' => Running(r) /\ op'[r].job = op[r].job
    BY <1>3 DEF Good, Rests
  <2> QED BY <1>1, <1>2, <2>1 DEF Alone
<1>7. HalfDone'
  <2>1. SUFFICES ASSUME NEW r \in Requests, pc'[r] \in MidWay, Subject(r)' \notin tainted'
                 PROVE  Partial(r, Subject(r))'
    BY DEF HalfDone
  <2>2. CASE r = q
    <3>1. Subject(q)' = s /\ (s \notin tainted' => Partial(q, s)')  BY <2>1, <2>2 DEF Good
    <3> QED BY <2>1, <2>2, <3>1
  <2>3. CASE r # q
    <3>1. PICK t : t = Subject(r)  OBVIOUS
    <3>2. Rests(r) /\ Subject(r)' = t  BY <1>3, <2>3, <3>1
    <3>3. pc[r] \in MidWay /\ t \notin tainted  BY <1>2, <2>1, <3>2 DEF Rests
    <3>4. Running(r) /\ t \in Touches(op[r].job)  BY <1>1, <3>1, <3>3, MidWayRuns, SubjectKnown
    <3>5. t \in Subjects /\ Kept(t)  BY <1>4, <2>3, <3>3, <3>4
    <3>6. Partial(r, t)  BY <1>1, <3>1, <3>3 DEF HalfDone
    <3>7. Partial(r, t)'  BY <1>1, <3>2, <3>5, <3>6, PartialFrame
    <3> QED BY <3>2, <3>7
  <2> QED BY <2>2, <2>3
<1>8. MirroredElsewhere'
  <2>1. SUFFICES ASSUME NEW t \in Subjects, t \notin tainted',
                        ~ \E r \in Requests : pc'[r] \in MidWay /\ Subject(r)' = t
                 PROVE  Mirrored(t)'
    BY DEF MirroredElsewhere
  <2>2. CASE t = s
    <3>1. pc'[q] \notin MidWay  BY <2>1, <2>2 DEF Good
    <3> QED BY <2>1, <2>2, <3>1 DEF Good
  <2>3. CASE t # s
    <3>1. Kept(t) /\ t \notin tainted  BY <1>2, <2>1, <2>3 DEF Good
    <3>2. ASSUME NEW r \in Requests, pc[r] \in MidWay, Subject(r) = t PROVE FALSE
      <4>1. r # q  BY <2>3, <3>2
      <4>2. pc'[r] \in MidWay /\ Subject(r)' = t  BY <1>3, <3>2, <4>1 DEF Rests
      <4> QED BY <2>1, <4>2
    <3>3. Mirrored(t)  BY <1>1, <3>1, <3>2 DEF MirroredElsewhere
    <3> QED BY <1>1, <3>1, <3>3, KeptFrame
  <2> QED BY <2>2, <2>3
<1>10. MirrorAgrees'  BY <1>2, <1>5, <1>8, MirroredAgree, PTL
<1>11. UploadedPrefixStored'
  <2>1. SUFFICES ASSUME NEW r \in Requests, Running(r)', op'[r].job.kind = "upload",
                        NEW i \in 1..Behind(r)'
                 PROVE  FileStored(op[r].job, i)'
    BY DEF UploadedPrefixStored
  <2>2. PICK j : j = op[r].job  OBVIOUS
  <2>3. Running(r) /\ op'[r].job = j  BY <1>3, <2>1, <2>2 DEF Good, Rests
  <2>4. j.kind = "upload" /\ j \in Jobs  BY <1>1, <2>1, <2>2, <2>3, KindAt
  <2>5. CASE i \in 1..Behind(r)
    <3>1. FileStored(j, i)  BY <2>2, <2>3, <2>4, <2>5 DEF Inv, UploadedPrefixStored
    <3>2. i \in 1..Len(j.files)
      <4>1. op[r].k \in 1..Len(j.files)  BY <1>1, <2>2, <2>3, <2>4, KindAt
      <4>2. Len(j.files) \in Nat  BY <2>4, JobTyped
      <4> QED BY <2>2, <2>5, <4>1, <4>2 DEF Behind
    <3>3. PICK t : t = _build_subject_name(j, j.files[i])  OBVIOUS
    <3>4. t \in Touches(j) /\ t \in Subjects
      <4>1. DOMAIN j.files = 1..Len(j.files)  BY <2>4, JobTyped
      <4> QED BY <2>4, <3>2, <3>3, <4>1, JobTyped DEF Touches
    <3>5. CASE t \in tainted  BY <1>2, <2>3, <3>3, <3>5 DEF FileStored
    <3>6. CASE t \notin tainted
      <4>1. Grown(j.mode, t)
        <5>1. CASE r # q
          <6>1. Kept(t)  BY <1>4, <2>2, <2>3, <3>4, <3>6, <5>1
          <6> QED BY <1>1, <3>4, <6>1, KeptIsGrown
        <5>2. CASE r = q /\ t # s
          <6>1. Kept(t)  BY <3>4, <5>2 DEF Good
          <6> QED BY <1>1, <3>4, <6>1, KeptIsGrown
        <5>3. CASE r = q /\ t = s
          BY <2>1, <2>2, <2>4, <5>3 DEF Good, Running
        <5> QED BY <5>1, <5>2, <5>3
      <4>2. FileStored(j, i)'  BY <1>1, <1>2, <3>1, <3>3, <3>4, <4>1, StoredFrame
      <4> QED BY <2>3, <4>2
    <3> QED BY <3>5, <3>6
  <2>6. CASE i \notin 1..Behind(r)
    <3>1. r = q  BY <1>3, <2>1, <2>6
    <3> QED BY <2>1, <2>2, <2>4, <2>6, <3>1 DEF Good, Running
  <2> QED BY <2>5, <2>6
<1> QED BY <1>2, <1>5, <1>6, <1>7, <1>8, <1>10, <1>11 DEF Inv, StoresInv

-------------------------------------------------------------------------------
(* The first step of a request. *)

LEMMA NoOpIsOp == NoOp \in Op /\ NoOp.k = 1
BY LifecycleAssumption DEF NoOp, Op

LEMMA TouchesKnown ==
    ASSUME NEW j \in Jobs
    PROVE  Touches(j) \subseteq Subjects
<1>1. j.kind = "upload" => DOMAIN j.files = 1..Len(j.files)  BY JobTyped
<1> QED BY <1>1, JobTyped DEF Touches

LEMMA InitInv == Init => Inv
<1> SUFFICES ASSUME Init PROVE Inv  OBVIOUS
<1>1. PICK start \in Starts :
        /\ sr = [s \in Subjects |-> start[s]]
        /\ top = [s \in Subjects |-> Len(start[s])]
  BY DEF Init
<1>2. MaxVersion \in Nat /\ \A s \in Subjects : Len(start[s]) <= MaxVersion
  BY LifecycleAssumption
<1>3. ASSUME NEW s \in Subjects
      PROVE  /\ start[s] \in Seq(Schemas) /\ Live(s) = 1..Len(start[s])
             /\ Len(start[s]) \in 0..MaxVersion
             /\ sr[s] = [v \in Live(s) |-> sr[s][v]]
             /\ \A v \in Live(s) : sr[s][v] \in Schemas
  <2>1. start \in [Subjects -> Seq(Schemas)]  BY LifecycleAssumption
  <2>2. start[s] \in Seq(Schemas) /\ sr[s] = start[s]  BY <1>1, <2>1
  <2>3. Live(s) = 1..Len(start[s]) /\ Len(start[s]) \in Nat  BY <2>2 DEF Live
  <2>4. \A v \in Live(s) : sr[s][v] \in Schemas  BY <2>2, <2>3
  <2>5. sr[s] = [v \in Live(s) |-> sr[s][v]]
    <3>1. start[s] = [v \in 1..Len(start[s]) |-> start[s][v]]  BY <2>2
    <3> QED BY <2>2, <2>3, <3>1
  <2> QED BY <1>2, <2>2, <2>3, <2>4, <2>5
<1>4. sr = [s \in Subjects |-> [v \in Live(s) |-> sr[s][v]]]  BY <1>1, <1>3
<1>5. /\ top \in [Subjects -> 0..MaxVersion]
      /\ \A s \in Subjects : Live(s) \subseteq 1..top[s]
  BY <1>1, <1>3
<1>6. pc \in [Requests -> Pcs] /\ op \in [Requests -> Op]  BY NoOpIsOp DEF Init, Pcs
<1>7. TypeOK  BY <1>3, <1>4, <1>5, <1>6 DEF Init, TypeOK
<1>8. \A r \in Requests : pc[r] = "idle" /\ ~Running(r)  BY DEF Init, Running
<1>9. Staged /\ Alone /\ UploadedPrefixStored  BY <1>8 DEF Staged, Alone, UploadedPrefixStored
<1>10. HalfDone  BY <1>8 DEF HalfDone, MidWay
<1>11. \A s \in Subjects : Mirrored(s)
  BY DEF Init, NoMeta, Mirrored, ArtifactsLive, OursRecorded, ModeStored
<1> QED BY <1>7, <1>9, <1>10, <1>11 DEF Inv, StoresInv, MirroredElsewhere, MirrorAgrees

LEMMA Starting ==
    ASSUME Inv, NEW q \in Requests, NEW job \in Jobs,
           NEW label \in {"validating", "analyzing", "reading", "looking"},
           label \in Stages(job.kind), Start(q, job, label)
    PROVE  Inv'
<1>1. TypeOK /\ Staged /\ Alone /\ HalfDone /\ MirroredElsewhere
  BY DEF Inv, StoresInv
<1> DEFINE o == [op[q] EXCEPT !.job = job]
<1>2. pc' = [pc EXCEPT ![q] = label] /\ op' = [op EXCEPT ![q] = o]
  BY <1>1 DEF Start, Goto, TypeOK
<1>3. o \in Op /\ o.job = job /\ o.k = 1
  <2>1. op[q] = NoOp  BY <1>1 DEF Start, TypeOK
  <2> QED BY <2>1, NoOpIsOp DEF Op
<1> HIDE DEF o
<1>4. UNCHANGED <<sr, top, config, artifacts, meta, audit, ours>>  BY DEF Start
<1>5. pc'[q] = label /\ op'[q] = o /\ pc[q] = "idle" /\ label \in Pcs
  BY <1>1, <1>2 DEF TypeOK, Start, Pcs
<1>6. \A r \in Requests : r # q => Rests(r)  BY <1>1, <1>2 DEF TypeOK, Rests
<1>7. tainted' \subseteq Subjects /\ tainted \subseteq tainted'
  BY <1>1, TouchesKnown DEF TypeOK, Start
<1>8. TypeOK'
  <2>1. pc' \in [Requests -> Pcs] /\ op' \in [Requests -> Op]
    BY <1>1, <1>2, <1>3, <1>5 DEF TypeOK
  <2>2. \A r \in Requests : IF pc'[r] = "idle" THEN op'[r] = NoOp ELSE op'[r].job \in Jobs
    BY <1>1, <1>3, <1>5, <1>6 DEF TypeOK, Rests
  <2> QED BY <1>1, <1>4, <1>7, <2>1, <2>2 DEF TypeOK, Live
<1>9. \A s \in Subjects : Kept(s)  BY <1>4 DEF Kept
<1>10. \A r \in Requests : r # q =>
         Subject(r)' = Subject(r) /\ Running(r)' = Running(r) /\ Behind(r)' = Behind(r)
  BY <1>6, SubjectRests
<1>11. Staged'
  <2>1. ASSUME NEW r \in Requests PROVE StagedAt(r)'
    <3>1. CASE r = q
      <4>1. job.kind = "upload" => 1 \in 1..Len(job.files)  BY JobTyped
      <4> QED BY <1>3, <1>5, <3>1, <4>1 DEF StagedAt
    <3>2. CASE r # q
      <4>1. StagedAt(r)  BY <1>1 DEF Staged, StagedAt
      <4> QED BY <4>1, <3>2, <1>6, <1>10 DEF StagedAt, Rests
    <3> QED BY <3>1, <3>2
  <2> QED BY <2>1 DEF Staged, StagedAt
<1>12. Alone'
  <2>1. ASSUME NEW r \in Requests, r # q, Running(r)'
        PROVE  Touches(job) \cap Touches(op'[r].job) \subseteq tainted'
    <3>1. Running(r) /\ op'[r].job = op[r].job  BY <1>6, <1>10, <2>1 DEF Rests
    <3> QED BY <2>1, <3>1, TouchesKnown DEF Start
  <2>2. ASSUME NEW r \in Requests, NEW t \in Requests, r # q, t # q, r # t,
               Running(r)', Running(t)'
        PROVE  Touches(op'[r].job) \cap Touches(op'[t].job) \subseteq tainted'
    BY <1>1, <1>6, <1>7, <1>10, <2>2 DEF Alone, Rests
  <2>3. op'[q].job = job  BY <1>3, <1>5
  <2> QED BY <2>1, <2>2, <2>3 DEF Alone
<1>13. label \notin MidWay  BY DEF MidWay
<1>14. HalfDone'
  <2>1. SUFFICES ASSUME NEW r \in Requests, pc'[r] \in MidWay, Subject(r)' \notin tainted'
                 PROVE  Partial(r, Subject(r))'
    BY DEF HalfDone
  <2>2. r # q  BY <1>5, <1>13, <2>1
  <2>3. PICK t : t = Subject(r)  OBVIOUS
  <2>4. Rests(r) /\ Subject(r)' = t  BY <1>6, <1>10, <2>2, <2>3
  <2>5. pc[r] \in MidWay /\ t \notin tainted  BY <1>7, <2>1, <2>4 DEF Rests
  <2>6. t \in Subjects /\ Kept(t)  BY <1>1, <1>9, <2>3, <2>5, MidWayRuns, SubjectKnown
  <2>7. Partial(r, t)  BY <1>1, <2>3, <2>5 DEF HalfDone
  <2>8. Partial(r, t)'  BY <1>1, <2>4, <2>6, <2>7, PartialFrame
  <2> QED BY <2>4, <2>8
<1>15. MirroredElsewhere'
  <2>1. ASSUME NEW t \in Subjects, t \notin tainted', ~Mirrored(t)'
        PROVE  \E r \in Requests : pc'[r] \in MidWay /\ Subject(r)' = t
    <3>1. ~Mirrored(t) /\ t \notin tainted  BY <1>1, <1>7, <1>9, <2>1, KeptFrame
    <3>2. PICK r \in Requests : pc[r] \in MidWay /\ Subject(r) = t
      BY <1>1, <3>1 DEF MirroredElsewhere
    <3>3. r # q  BY <1>5, <3>2 DEF MidWay
    <3> QED BY <1>6, <1>10, <3>2, <3>3 DEF Rests
  <2> QED BY <2>1 DEF MirroredElsewhere
<1>17. MirrorAgrees'  BY <1>8, <1>11, <1>15, MirroredAgree, PTL
<1>18. UploadedPrefixStored'
  <2>1. SUFFICES ASSUME NEW r \in Requests, Running(r)', op'[r].job.kind = "upload",
                        NEW i \in 1..Behind(r)'
                 PROVE  FileStored(op[r].job, i)'
    BY DEF UploadedPrefixStored
  <2>2. r # q
    <3>1. op'[q].k = 1 /\ pc'[q] \notin {"uploaded", "closing"}  BY <1>3, <1>5
    <3>2. Behind(q)' = 0  BY <3>1 DEF Behind
    <3> QED BY <2>1, <3>2
  <2>3. PICK j : j = op[r].job  OBVIOUS
  <2>4. op'[r].job = j /\ Running(r) /\ i \in 1..Behind(r)  BY <1>6, <1>10, <2>1, <2>2, <2>3 DEF Rests
  <2>5. FileStored(j, i)  BY <2>1, <2>3, <2>4 DEF Inv, UploadedPrefixStored
  <2>6. FileStored(j, i)'  BY <1>4, <1>7, <2>5 DEF FileStored, Live
  <2> QED BY <2>4, <2>6
<1> QED BY <1>8, <1>11, <1>12, <1>14, <1>15, <1>17, <1>18 DEF Inv, StoresInv

-------------------------------------------------------------------------------
(* Steps that leave both stores alone. *)

\* Request q has gone to l with locals o.
MovedTo(q, l, o) ==
    /\ pc' \in [Requests -> Pcs] /\ op' \in [Requests -> Op]
    /\ \A r \in Requests : IF pc'[r] = "idle" THEN op'[r] = NoOp ELSE op'[r].job \in Jobs
    /\ \A r \in Requests \ {q} : Rests(r)
    /\ pc'[q] = l /\ op'[q] = o /\ pc'[q] # "idle" /\ op'[q].job = op[q].job
    /\ StagedAt(q)'
    /\ l \in MidWay => Subject(q)' = Subject(q)

LEMMA Moves ==
    ASSUME TypeOK, Staged, NEW q \in Requests, Running(q),
           NEW l \in Pcs \ {"idle", "validating"}, NEW o \in Op, o.job = op[q].job,
           pc' = [pc EXCEPT ![q] = l], op' = [op EXCEPT ![q] = o],
           l # "done" =>
             /\ l \in Stages(op[q].job.kind)
             /\ op[q].job.kind = "upload" => o.k \in 1..Len(op[q].job.files),
           l \in MidWay => o.k = op[q].k,
           l \in MidWay \cap {"versioned", "configured", "described"} => o.version # 0
    PROVE  MovedTo(q, l, o)
<1>1. pc' \in [Requests -> Pcs] /\ op' \in [Requests -> Op]  BY DEF TypeOK
<1>2. pc'[q] = l /\ op'[q] = o /\ \A r \in Requests \ {q} : Rests(r)  BY DEF TypeOK, Rests
<1>3. op[q].job \in Jobs  BY KindAt
<1>4. \A r \in Requests : IF pc'[r] = "idle" THEN op'[r] = NoOp ELSE op'[r].job \in Jobs
  BY <1>2, <1>3 DEF TypeOK, Rests
<1>5. StagedAt(q)'  BY <1>2 DEF StagedAt, Running, MidWay
<1>6. l \in MidWay => Subject(q)' = Subject(q)  BY <1>2 DEF Subject
<1> QED BY <1>1, <1>2, <1>4, <1>5, <1>6 DEF MovedTo

\* A step that only moves the program counter.
LEMMA Goes ==
    ASSUME TypeOK, Staged, NEW q \in Requests, Running(q),
           NEW l \in Pcs \ {"idle", "validating"}, Goto(q, l), op' = op,
           l # "done" => l \in Stages(op[q].job.kind),
           l \in MidWay \cap {"versioned", "configured", "described"} => op[q].version # 0
    PROVE  MovedTo(q, l, op[q])
<1>1. op[q] \in Op /\ op' = [op EXCEPT ![q] = op[q]]  BY DEF TypeOK
<1>2. op[q].job.kind = "upload" => op[q].k \in 1..Len(op[q].job.files)  BY KindAt
<1> QED BY <1>1, <1>2, Moves DEF Goto

\* The files behind an upload that keeps its file in hand.
LEMMA BehindKept ==
    ASSUME TypeOK, Staged, NEW q \in Requests, Running(q), NEW l, NEW o, MovedTo(q, l, o),
           op[q].job.kind = "upload", o.k = op[q].k,
           l \in {"uploaded", "closing"} => pc[q] \in {"uploaded", "closing"}
    PROVE  \A i \in 1..Behind(q)' : i \in 1..Behind(q)
<1>1. op[q].k \in 1..Len(op[q].job.files) /\ Len(op[q].job.files) \in Nat
  BY KindAt, JobTyped
<1>2. op'[q].k = op[q].k /\ op'[q].job = op[q].job /\ pc'[q] = l  BY DEF MovedTo
<1> QED BY <1>1, <1>2 DEF Behind

\* What holds of the subject of a running request where nothing went wrong.
LEMMA Before ==
    ASSUME Inv, NEW q \in Requests, Running(q), NEW s \in Subjects, s = Subject(q),
           s \notin tainted
    PROVE  /\ pc[q] \in MidWay => Partial(q, s)
           /\ pc[q] \notin MidWay => Mirrored(s)
<1>1. TypeOK /\ Staged /\ HalfDone /\ MirroredElsewhere  BY DEF Inv, StoresInv
<1>2. pc[q] \in MidWay => Partial(q, s)  BY <1>1 DEF HalfDone
<1>3. ASSUME pc[q] \notin MidWay PROVE Mirrored(s)
  <2>1. ASSUME NEW r \in Requests, pc[r] \in MidWay, Subject(r) = s PROVE FALSE
    <3>1. r # q /\ Running(r)  BY <1>3, <2>1, MidWayRuns
    <3>2. Subject(r) \in Touches(op[r].job)  BY <1>1, <3>1, SubjectKnown
    <3> QED BY <2>1, <3>1, <3>2, Elsewhere
  <2> QED BY <1>1, <2>1 DEF MirroredElsewhere
<1> QED BY <1>2, <1>3

\* A step that writes to neither store is none that Partial speaks of.
LEMMA Quiet ==
    ASSUME Inv, NEW q \in Requests, Running(q), NEW s \in Subjects, s = Subject(q),
           NEW l, NEW o, MovedTo(q, l, o),
           UNCHANGED <<sr, top, config, artifacts, meta, ours>>,
           audit' \subseteq Requests \X {"COMPLETED", "FAILED", "success", "failed", "completed"},
           tainted' \in {tainted, tainted \cup {s}},
           l \notin MidWay, pc[q] \notin MidWay \/ s \in tainted',
           op[q].job.kind = "upload" /\ l # "done" =>
             /\ o.k = op[q].k
             /\ l \in {"uploaded", "closing"} => pc[q] \in {"uploaded", "closing"}
    PROVE  Good(q, s)
<1>1. TypeOK /\ Staged  BY DEF Inv, StoresInv
<1>2. TypeOK'  BY <1>1 DEF MovedTo, TypeOK, Live
<1>3. \A t \in Subjects : Kept(t)  BY DEF Kept
<1>4. s \in tainted' \/ Mirrored(s)'
  <2>1. ASSUME s \notin tainted' PROVE Mirrored(s)
    BY <2>1, Before
  <2> QED BY <1>1, <1>3, <2>1, KeptFrame
<1>5. op[q].job.kind = "upload" /\ l # "done" =>
        /\ Grown(op[q].job.mode, s)
        /\ \A i \in 1..Behind(q)' : i \in 1..Behind(q)
  <2>1. Grown(op[q].job.mode, s)  BY <1>1, <1>3, KeptIsGrown
  <2> QED BY <1>1, <2>1, BehindKept
<1>6. l = pc'[q]  BY DEF MovedTo
<1> QED BY <1>2, <1>3, <1>4, <1>5, <1>6 DEF Good, MovedTo

\* The steps that only move the program counter.
LEMMA Walks ==
    ASSUME Inv, NEW q \in Requests, Running(q), NEW s \in Subjects, s = Subject(q),
           \/ _validate_files(q) \/ file_refused(q) \/ save_upload_result(q)
           \/ analyze(q) \/ nothing_to_delete(q) \/ save_apply_result(q)
           \/ \E blind \in BOOLEAN : describe_subjects(q, blind)
    PROVE  Good(q, s)
<1>1. TypeOK /\ Staged  BY DEF Inv, StoresInv
<1>2. UNCHANGED <<sr, top, config, artifacts, meta, audit, op, ours, tainted>>
  BY DEF _validate_files, file_refused, save_upload_result, analyze, nothing_to_delete,
         save_apply_result, describe_subjects
<1>3. PICK l \in Pcs \ {"idle", "validating", "deleting"} :
        /\ Goto(q, l) /\ l \notin MidWay /\ pc[q] \notin MidWay
        /\ l # "done" => l \in Stages(op[q].job.kind)
        /\ l = "uploaded" => FALSE
        /\ l = "closing" => pc[q] = "uploaded" \/ op[q].job.kind # "upload"
  <2>1. CASE _validate_files(q)
    <3>1. pc[q] = "validating" /\ (Goto(q, "file") \/ Goto(q, "failing"))
      BY <2>1 DEF _validate_files, Step
    <3> QED BY <1>1, <3>1, KindAt, StagesAre DEF MidWay, Pcs
  <2>2. CASE file_refused(q)
    BY <1>1, <2>2, KindAt, StagesAre DEF file_refused, Step, MidWay, Pcs
  <2>3. CASE save_upload_result(q)
    BY <1>1, <2>3, KindAt, StagesAre DEF save_upload_result, Step, MidWay, Pcs
  <2>4. CASE analyze(q)
    BY <1>1, <2>4, StagesAre DEF analyze, Step, MidWay, Pcs
  <2>5. CASE nothing_to_delete(q)
    BY <1>1, <2>5, KindAt, StagesAre DEF nothing_to_delete, Step, MidWay, Pcs
  <2>6. CASE save_apply_result(q)
    BY <2>6 DEF save_apply_result, Step, MidWay, Pcs
  <2>7. CASE \E blind \in BOOLEAN : describe_subjects(q, blind)
    <3>1. pc[q] = "looking" /\ (Goto(q, "configuring") \/ Goto(q, "done"))
      BY <2>7 DEF describe_subjects, Step
    <3> QED BY <1>1, <3>1, KindAt, StagesAre DEF MidWay, Pcs
  <2> QED BY <2>1, <2>2, <2>3, <2>4, <2>5, <2>6, <2>7
<1>4. MovedTo(q, l, op[q])  BY <1>1, <1>2, <1>3, Goes
<1> QED BY <1>1, <1>2, <1>3, <1>4, Quiet DEF TypeOK

\* The last steps, planned or not.
LEMMA Closes ==
    ASSUME Inv, NEW q \in Requests, Running(q), NEW s \in Subjects, s = Subject(q), Close(q)
    PROVE  Good(q, s)
<1>1. TypeOK /\ Staged  BY DEF Inv, StoresInv
<1>2. UNCHANGED <<sr, top, config, artifacts, meta, op, ours>>
  BY DEF Close, audit_completed, audit_failed, fails, cancelled
<1>3. PICK l \in {"done", "failing"} :
        Goto(q, l) /\ (l # "done" => l \in Stages(op[q].job.kind))
  <2>1. CASE audit_completed(q)  BY <2>1 DEF audit_completed, Step
  <2>2. CASE audit_failed(q)  BY <2>2 DEF audit_failed, Step
  <2>3. CASE fails(q)
    <3>1. Raised(q) = "done" \/ (Raised(q) = "failing" /\ op[q].job.kind \in {"upload", "delete"})
      BY DEF Raised
    <3> QED BY <2>3, <3>1, StagesAre DEF fails
  <2>4. CASE cancelled(q)  BY <2>4 DEF cancelled
  <2> QED BY <2>1, <2>2, <2>3, <2>4 DEF Close
<1>4. audit' \subseteq Requests \X {"COMPLETED", "FAILED", "success", "failed", "completed"}
  <2>1. CASE audit_completed(q)
    <3>1. PICK x \in {"success", "completed", "COMPLETED"} : audit' = audit \cup {<<q, x>>}
      BY <2>1 DEF audit_completed
    <3> QED BY <1>1, <3>1 DEF TypeOK
  <2>2. CASE audit_failed(q)  BY <1>1, <2>2 DEF audit_failed, TypeOK
  <2>3. CASE fails(q) \/ cancelled(q)  BY <1>1, <2>3 DEF fails, cancelled, TypeOK
  <2> QED BY <2>1, <2>2, <2>3 DEF Close
<1>5. tainted' \in {tainted, tainted \cup {s}} /\ (pc[q] \notin MidWay \/ s \in tainted')
  <2>1. CASE audit_completed(q)  BY <2>1 DEF audit_completed, Step, MidWay
  <2>2. CASE audit_failed(q)  BY <2>2 DEF audit_failed, Step, MidWay
  <2>3. CASE fails(q) \/ cancelled(q)
    <3>1. MidWay \subseteq Writing  BY DEF MidWay, Writing, Pcs
    <3> QED BY <2>3, <3>1 DEF fails, cancelled
  <2> QED BY <2>1, <2>2, <2>3 DEF Close
<1>6. l \in Pcs \ {"idle", "validating"} /\ l \notin MidWay
  BY DEF Pcs, MidWay
<1>7. MovedTo(q, l, op[q])  BY <1>1, <1>2, <1>3, <1>6, Goes
<1> QED BY <1>2, <1>4, <1>5, <1>6, <1>7, Quiet

\* A subject is marked.
LEMMA Marks ==
    ASSUME Inv, NEW q \in Requests, Running(q), NEW s \in Subjects, s = Subject(q),
           artifacts_kept(q) \/ version_gone(q)
    PROVE  Good(q, s)
<1>1. TypeOK /\ Staged  BY DEF Inv, StoresInv
<1>2. UNCHANGED <<sr, top, config, artifacts, meta, audit, op, ours>>
  BY DEF artifacts_kept, version_gone
<1>3. op[q].job.kind \in {"delete", "rollback"}
  BY <1>1, KindAt DEF artifacts_kept, version_gone, Step
<1>4. tainted' = tainted \cup {s}  BY <1>3 DEF artifacts_kept, version_gone, Subject
<1>5. PICK l \in {"closing", "done"} :
        Goto(q, l) /\ (l # "done" => l \in Stages(op[q].job.kind))
  BY <1>1, KindAt, StagesAre DEF artifacts_kept, version_gone, Step
<1>6. l \in Pcs \ {"idle", "validating"} /\ l \notin MidWay
  BY DEF Pcs, MidWay
<1>7. MovedTo(q, l, op[q])  BY <1>1, <1>2, <1>5, <1>6, Goes
<1> QED BY <1>1, <1>2, <1>3, <1>4, <1>6, <1>7, Quiet DEF TypeOK

\* A delete is judged.
LEMMA Judges ==
    ASSUME Inv, NEW q \in Requests, Running(q), NEW s \in Subjects, s = Subject(q),
           NEW blind \in BOOLEAN, analyze_delete_impact(q, blind)
    PROVE  Good(q, s)
<1>1. TypeOK /\ Staged  BY DEF Inv, StoresInv
<1> DEFINE o == [op[q] EXCEPT !.blind = blind, !.seen = top[op[q].job.subject]]
<1>2. o \in Op /\ o.job = op[q].job /\ o.k = op[q].k
  <2>1. op[q].job.subject = s  BY DEF analyze_delete_impact, Subject
  <2>2. op[q] \in Op /\ top[s] \in 0..MaxVersion  BY <1>1 DEF TypeOK
  <2> QED BY <2>1, <2>2 DEF Op
<1>3. op' = [op EXCEPT ![q] = o]  BY <1>1 DEF analyze_delete_impact, TypeOK
<1> HIDE DEF o
<1>4. op[q].job.kind = "delete" /\ pc[q] = "analyzing" /\ s = op[q].job.subject
      /\ UNCHANGED <<sr, top, config, artifacts, meta, audit, ours, tainted>>
  BY DEF analyze_delete_impact, Step, Subject
<1>5. PICK l \in {"deleting", "done"} : Goto(q, l)  BY DEF analyze_delete_impact, Step
<1>6. l \in Pcs \ {"idle", "validating"} /\ l \notin MidWay /\ pc[q] \notin MidWay
  BY <1>4 DEF Pcs, MidWay
<1>7. MovedTo(q, l, o)
  <2>1. l # "done" => l \in Stages(op[q].job.kind)  BY <1>4, StagesAre
  <2> QED BY <1>1, <1>2, <1>3, <1>4, <1>5, <1>6, <2>1, Moves DEF Goto
<1> QED BY <1>1, <1>4, <1>6, <1>7, Quiet DEF TypeOK

-------------------------------------------------------------------------------
(* Steps that write. *)

\* What the stores hold of subject s is now f, n, m and x, and some of the rows
\* on s are new or gone.
Written(s, f, n, m, x) ==
    /\ sr' = [sr EXCEPT ![s] = f] /\ top' = [top EXCEPT ![s] = n]
    /\ config' = [config EXCEPT ![s] = m] /\ meta' = [meta EXCEPT ![s] = x]
    /\ artifacts' \cup ours' \subseteq Subjects \X (1..MaxVersion)
    /\ \A t \in Subjects \ {s} : \A v \in 1..MaxVersion :
         /\ <<t, v>> \in artifacts' <=> <<t, v>> \in artifacts
         /\ <<t, v>> \in ours' <=> <<t, v>> \in ours
    /\ audit' = audit /\ tainted' = tainted

Wrote(q, s, f, n, m, x) ==
    /\ Live(s)' = DOMAIN f /\ sr'[s] = f /\ top'[s] = n /\ config'[s] = m /\ meta'[s] = x
    /\ TypeOK'
    /\ \A t \in Subjects \ {s} : Kept(t)

\* Nothing but s changes, and it as asked.
LEMMA Writes ==
    ASSUME Inv, NEW q \in Requests, Running(q), NEW s \in Subjects, s = Subject(q),
           NEW l, NEW o, MovedTo(q, l, o),
           NEW f, NEW n \in 0..MaxVersion, History(f, n),
           NEW m \in Modes \cup {None}, NEW x \in Meta \cup {NoMeta}, Written(s, f, n, m, x)
    PROVE  Wrote(q, s, f, n, m, x)
<1>1. TypeOK  BY DEF Inv, StoresInv
<1>2. /\ sr' = [t \in Subjects |-> IF t = s THEN f ELSE sr[t]]
      /\ top' = [t \in Subjects |-> IF t = s THEN n ELSE top[t]]
      /\ config' = [t \in Subjects |-> IF t = s THEN m ELSE config[t]]
      /\ meta' = [t \in Subjects |-> IF t = s THEN x ELSE meta[t]]
  BY <1>1 DEF Written, TypeOK
<1>3. sr'[s] = f /\ top'[s] = n /\ config'[s] = m /\ meta'[s] = x /\ Live(s)' = DOMAIN f
  BY <1>2 DEF Live
<1>4. \A t \in Subjects \ {s} : Kept(t)  BY <1>2 DEF Written, Kept
<1>5. TypeOK'
  <2>1. ASSUME NEW t \in Subjects
        PROVE  /\ sr'[t] = [v \in Live(t)' |-> sr'[t][v]]
               /\ Live(t)' \subseteq 1..top'[t] /\ \A v \in Live(t)' : sr'[t][v] \in Schemas
    <3>1. CASE t = s  BY <1>3, <3>1 DEF History
    <3>2. CASE t # s
      <4>1. sr'[t] = sr[t] /\ top'[t] = top[t]  BY <1>2, <3>2
      <4>2. sr[t] = [v \in Live(t) |-> sr[t][v]]  BY <1>1 DEF TypeOK
      <4> QED BY <1>1, <4>1, <4>2 DEF TypeOK, Live
    <3> QED BY <3>1, <3>2
  <2>2. sr' = [t \in Subjects |-> [v \in Live(t)' |-> sr'[t][v]]]  BY <1>2, <2>1
  <2>3. /\ top' \in [Subjects -> 0..MaxVersion] /\ config' \in [Subjects -> Modes \cup {None}]
        /\ meta' \in [Subjects -> Meta \cup {NoMeta}]
    BY <1>1, <1>2 DEF TypeOK
  <2> QED BY <1>1, <2>1, <2>2, <2>3 DEF TypeOK, MovedTo, Written
<1> QED BY <1>3, <1>4, <1>5 DEF Wrote

\* What a step of an upload that keeps its file in hand leaves behind it.
LEMMA Finishes ==
    ASSUME Inv, NEW q \in Requests, Running(q), NEW s \in Subjects, s = Subject(q),
           NEW l, NEW o, MovedTo(q, l, o), TypeOK',
           \A t \in Subjects \ {s} : Kept(t), tainted' = tainted,
           op[q].job.kind = "upload" /\ l # "done" =>
             /\ o.k = op[q].k
             /\ l \in {"uploaded", "closing"} => pc[q] \in {"uploaded", "closing"}
             /\ Grown(op[q].job.mode, s),
           s \notin tainted => IF l \in MidWay THEN Partial(q, s)' ELSE Mirrored(s)'
    PROVE  Good(q, s)
<1>1. TypeOK /\ Staged  BY DEF Inv, StoresInv
<1>2. l = pc'[q]  BY DEF MovedTo
<1>3. op[q].job.kind = "upload" /\ l # "done" => \A i \in 1..Behind(q)' : i \in 1..Behind(q)
  BY <1>1, BehindKept
<1> QED BY <1>2, <1>3 DEF Good, MovedTo

\* The registry is asked for a version: it gives a new one or knows the schema.
LEMMA Registers ==
    ASSUME Inv, NEW q \in Requests, Running(q), NEW s \in Subjects, s = Subject(q),
           register_schema(q)
    PROVE  Good(q, s)
<1>1. TypeOK /\ Staged  BY DEF Inv, StoresInv
<1>2. pc[q] = "file" /\ op[q].job.kind = "upload" /\ op[q].job \in Jobs
      /\ op[q].job.mode # None /\ Goto(q, "registered")
  BY <1>1, KindAt DEF register_schema, Step, Accepted
<1>3. UNCHANGED <<config, artifacts, meta, audit, op, tainted>>  BY DEF register_schema
<1>4. MovedTo(q, "registered", op[q])  BY <1>1, <1>2, <1>3, StagesAre, KindAt, Goes DEF Pcs
<1>5. pc'[q] = "registered" /\ op'[q] = op[q]  BY <1>4 DEF MovedTo
<1> PICK x : x = op[q].job.files[op[q].k].schema  OBVIOUS
<1>6. x \in Schemas
  <2>1. op[q].job.files \in Seq(File) /\ op[q].k \in 1..Len(op[q].job.files)
    BY <1>1, <1>2, JobTyped, KindAt
  <2>2. op[q].job.files[op[q].k] \in File  BY <2>1
  <2> QED BY <2>2 DEF File
<1>7. "registered" \in MidWay  BY DEF MidWay
<1>8. s \notin tainted => Mirrored(s)  BY <1>2, Before DEF MidWay
<1>9. CASE \E v \in Live(s) : sr[s][v] = x
  <2>1. UNCHANGED <<sr, top, ours>>  BY <1>9 DEF register_schema
  <2>2. Written(s, sr[s], top[s], config[s], meta[s])
    BY <1>1, <1>3, <2>1, StoresAre DEF Written, TypeOK
  <2>3. TypeOK' /\ \A t \in Subjects : Kept(t)
    <3>1. Wrote(q, s, sr[s], top[s], config[s], meta[s])
      BY <1>1, <1>4, <2>2, StoresAre, Writes
    <3> QED BY <1>3, <2>1, <3>1 DEF Wrote, Kept
  <2>4. Grown(op[q].job.mode, s)  BY <1>1, <2>3, KeptIsGrown
  <2>5. ASSUME s \notin tainted PROVE Partial(q, s)'
    <3>1. Mirrored(s)'  BY <1>1, <1>8, <2>3, <2>5, KeptFrame
    <3>2. \E v \in Live(s)' : sr'[s][v] = x  BY <1>9, <2>1 DEF Live
    <3>3. HalfUploaded(q, s)'
      BY <1>2, <1>5, <3>1, <3>2 DEF HalfUploaded, Mirrored, NewIsLatest, OursRecorded
    <3> QED BY <1>2, <1>5, <3>3 DEF Partial
  <2> QED BY <1>3, <1>4, <1>7, <2>3, <2>4, <2>5, Finishes
<1>10. CASE ~ \E v \in Live(s) : sr[s][v] = x
  <2> PICK n : n = top[s] + 1  OBVIOUS
  <2> PICK f : f = [v \in Live(s) \cup {n} |-> IF v = n THEN x ELSE sr[s][v]]  OBVIOUS
  <2>1. /\ sr' = [sr EXCEPT ![s] = f] /\ top' = [top EXCEPT ![s] = n]
        /\ ours' = ours \cup {<<s, n>>} /\ n <= MaxVersion
    BY <1>10 DEF register_schema
  <2>2. n \in 1..MaxVersion /\ \A v \in Live(s) : v \in 1..MaxVersion /\ v \in 1..n /\ v < n
    <3>1. /\ top[s] \in 0..MaxVersion /\ MaxVersion \in Nat
          /\ \A v \in Live(s) : v \in 1..top[s]
      BY <1>1, StoresAre
    <3> QED BY <2>1, <3>1
  <2>3. /\ History(f, n) /\ DOMAIN f = Live(s) \cup {n} /\ DOMAIN f \subseteq 1..n
        /\ f[n] = x /\ \A v \in Live(s) : f[v] = sr[s][v]
    <3>1. DOMAIN f = Live(s) \cup {n} /\ n \notin Live(s) /\ n \in 1..n  BY <2>2
    <3>2. f[n] = x /\ \A v \in Live(s) : f[v] = sr[s][v]  BY <3>1
    <3> QED BY <1>1, <1>6, <2>2, <3>1, <3>2, StoresAre DEF History
  <2>4. Written(s, f, n, config[s], meta[s])
    <3>1. config' = [config EXCEPT ![s] = config[s]] /\ meta' = [meta EXCEPT ![s] = meta[s]]
      BY <1>1, <1>3, StoresAre
    <3>2. <<s, n>> \in Subjects \X (1..MaxVersion)  BY <2>2
    <3>3. artifacts' \cup ours' \subseteq Subjects \X (1..MaxVersion)
      BY <1>1, <1>3, <2>1, <3>2 DEF TypeOK
    <3>4. \A t \in Subjects \ {s} : \A v : <<t, v>> \in ours' <=> <<t, v>> \in ours  BY <2>1
    <3> QED BY <1>3, <2>1, <3>1, <3>3, <3>4 DEF Written
  <2>5. /\ Live(s)' = DOMAIN f /\ sr'[s] = f /\ config'[s] = config[s] /\ meta'[s] = meta[s]
        /\ TypeOK' /\ \A t \in Subjects \ {s} : Kept(t)
    <3>1. config[s] \in Modes \cup {None} /\ meta[s] \in Meta \cup {NoMeta}  BY <1>1, StoresAre
    <3>2. n \in 0..MaxVersion  BY <2>2
    <3>3. Wrote(q, s, f, n, config[s], meta[s])  BY <1>4, <2>3, <2>4, <3>1, <3>2, Writes
    <3> QED BY <3>3 DEF Wrote
  <2>6. Grown(op[q].job.mode, s)  BY <1>3, <2>3, <2>5 DEF Grown
  <2>7. ASSUME s \notin tainted PROVE Partial(q, s)'
    <3>1. Mirrored(s)  BY <1>8, <2>7
    <3>2. \E v \in Live(s)' : sr'[s][v] = x  BY <2>3, <2>5
    <3>3. ArtifactsLive(s)' /\ ModeStored(s)'
      BY <1>3, <2>3, <2>5, <3>1 DEF Mirrored, ArtifactsLive, ModeStored
    <3>4. Latest(s)' = n
      <4>1. DOMAIN f \in SUBSET (1..MaxVersion) /\ n \in DOMAIN f /\ \A v \in DOMAIN f : v <= n
        <5>1. DOMAIN f = Live(s) \cup {n} /\ n \in 1..MaxVersion  BY <2>2, <2>3
        <5>2. \A v \in Live(s) : v \in 1..MaxVersion /\ v <= n  BY <2>2
        <5>3. n <= n  BY <5>1
        <5> QED BY <5>1, <5>2, <5>3
      <4>2. Max(DOMAIN f) = n  BY <4>1, GreatestVersion
      <4> QED BY <2>5, <4>1, <4>2 DEF Latest
    <3>5. NewIsLatest(s)'
      BY <1>3, <2>1, <2>3, <2>5, <3>1, <3>4 DEF NewIsLatest, Mirrored, OursRecorded
    <3>6. HalfUploaded(q, s)'  BY <1>2, <1>5, <3>2, <3>3, <3>5 DEF HalfUploaded
    <3> QED BY <1>2, <1>5, <3>6 DEF Partial
  <2> QED BY <1>3, <1>4, <1>7, <2>5, <2>6, <2>7, Finishes
<1> QED BY <1>9, <1>10

\* The version read back is the latest.
LEMMA ReadsBack ==
    ASSUME Inv, NEW q \in Requests, Running(q), NEW s \in Subjects, s = Subject(q),
           read_version(q)
    PROVE  Good(q, s)
<1>1. TypeOK /\ Staged  BY DEF Inv, StoresInv
<1>2. pc[q] = "registered" /\ op[q].job.kind = "upload" /\ Goto(q, "versioned")
  BY <1>1, KindAt DEF read_version, Step
<1>3. UNCHANGED <<sr, top, config, artifacts, meta, audit, ours, tainted>>
  BY DEF read_version
<1> DEFINE o == [op[q] EXCEPT !.version = Latest(s)]
<1>4. Latest(s) \in 0..MaxVersion /\ Latest(s) # 0
  <2>1. Live(s) \in SUBSET (1..MaxVersion) /\ Live(s) # {}  BY <1>1, StoresAre DEF read_version
  <2>2. Latest(s) \in Live(s)  BY <2>1, GreatestVersion DEF Latest
  <2>3. \A v \in 1..MaxVersion : v \in 0..MaxVersion /\ v # 0  OBVIOUS
  <2> QED BY <2>1, <2>2, <2>3
<1>5. o \in Op /\ o.job = op[q].job /\ o.k = op[q].k /\ o.version = Latest(s)
  <2>1. op[q] \in Op  BY <1>1 DEF TypeOK
  <2> QED BY <1>4, <2>1 DEF Op
<1>6. op' = [op EXCEPT ![q] = o]  BY <1>1 DEF read_version, TypeOK
<1> HIDE DEF o
<1>7. MovedTo(q, "versioned", o)
  <2>1. op[q].k \in 1..Len(op[q].job.files)  BY <1>1, <1>2, KindAt
  <2> QED BY <1>1, <1>2, <1>4, <1>5, <1>6, <2>1, StagesAre, Moves DEF Goto, Pcs
<1>8. pc'[q] = "versioned" /\ op'[q] = o /\ "versioned" \in MidWay
  BY <1>7 DEF MovedTo, MidWay
<1>9. TypeOK'  BY <1>1, <1>3, <1>7 DEF MovedTo, TypeOK, Live
<1>10. \A t \in Subjects : Kept(t)  BY <1>3 DEF Kept
<1>12. Grown(op[q].job.mode, s)  BY <1>1, <1>10, KeptIsGrown
<1>13. ASSUME s \notin tainted PROVE Partial(q, s)'
  <2>1. HalfUploaded(q, s)  BY <1>2, <1>13, Before DEF Partial, MidWay
  <2>2. ArtifactsLive(s)' /\ NewIsLatest(s)' /\ ModeStored(s)' /\ Latest(s)' = Latest(s)
    BY <1>1, <1>2, <1>10, <2>1, KeptFrame DEF HalfUploaded
  <2>3. op'[q].job = op[q].job /\ op'[q].k = op[q].k /\ op'[q].version = Latest(s)'
    BY <1>5, <1>8, <2>2
  <2>4. \E v \in Live(s)' : sr'[s][v] = op[q].job.files[op[q].k].schema
    BY <1>3, <2>1 DEF HalfUploaded, Live
  <2>5. HalfUploaded(q, s)'  BY <1>8, <2>1, <2>2, <2>3, <2>4 DEF HalfUploaded
  <2> QED BY <1>2, <2>3, <2>5 DEF Partial
<1> QED BY <1>3, <1>5, <1>7, <1>8, <1>9, <1>10, <1>12, <1>13, Finishes

\* The mode is set in the registry; the database follows with the next write.
LEMMA Configures ==
    ASSUME Inv, NEW q \in Requests, Running(q), NEW s \in Subjects, s = Subject(q),
           set_compatibility_mode(q)
    PROVE  Good(q, s)
<1>1. TypeOK /\ Staged  BY DEF Inv, StoresInv
<1> PICK m : m = op[q].job.mode  OBVIOUS
<1>2. pc[q] = "versioned" /\ op[q].job.kind = "upload" /\ Goto(q, "configured")
      /\ m \in Modes \cup {None}
  BY <1>1, KindAt, JobTyped DEF set_compatibility_mode, Step
<1>3. UNCHANGED <<sr, top, artifacts, meta, audit, op, ours, tainted>>
      /\ config' = [config EXCEPT ![s] = m]
  BY DEF set_compatibility_mode
<1>4. MovedTo(q, "configured", op[q])  BY <1>1, <1>2, <1>3, StagesAre, KindAt, Goes DEF Pcs
<1>5. pc'[q] = "configured" /\ op'[q] = op[q] /\ "configured" \in MidWay
  BY <1>4 DEF MovedTo, MidWay
<1>6. Written(s, sr[s], top[s], m, meta[s])
  BY <1>1, <1>3, StoresAre DEF Written, TypeOK
<1>7. Wrote(q, s, sr[s], top[s], m, meta[s])
  BY <1>1, <1>2, <1>4, <1>6, StoresAre, Writes
<1>8. Grown(op[q].job.mode, s)  BY <1>3, <1>7 DEF Grown, Wrote, Live
<1>9. ASSUME s \notin tainted PROVE Partial(q, s)'
  <2>1. HalfUploaded(q, s)  BY <1>2, <1>9, Before DEF Partial, MidWay
  <2>2. Live(s)' = Live(s) /\ Latest(s)' = Latest(s)  BY <1>3 DEF Live, Latest
  <2>3. ArtifactsLive(s)' /\ NewIsLatest(s)' /\ config'[s] = m
    BY <1>3, <1>7, <2>1, <2>2 DEF HalfUploaded, ArtifactsLive, NewIsLatest, Wrote
  <2>4. HalfUploaded(q, s)'  BY <1>2, <1>3, <1>5, <2>1, <2>2, <2>3 DEF HalfUploaded
  <2> QED BY <1>2, <1>5, <2>4 DEF Partial
<1> QED BY <1>3, <1>4, <1>5, <1>7, <1>8, <1>9, Finishes DEF Wrote

LEMMA SavedIs ==
    ASSUME NEW x \in Meta \cup {NoMeta}, NEW owner \in Owners \cup {None},
           NEW mode \in Modes \cup {None}
    PROVE  /\ Saved(x, owner, mode) \in Meta
           /\ Saved(x, owner, mode).mode = IF mode = None THEN x.mode ELSE mode
<1>1. x.mode \in Modes \cup {None}
  <2>1. CASE x \in Meta  BY <2>1 DEF Meta
  <2>2. CASE x = NoMeta  BY <2>2 DEF NoMeta
  <2> QED BY <2>1, <2>2
<1> QED BY <1>1 DEF Saved, Meta

\* The mode of an upload is given, and now stored.
LEMMA Describes ==
    ASSUME Inv, NEW q \in Requests, Running(q), NEW s \in Subjects, s = Subject(q),
           save_schema_metadata(q)
    PROVE  Good(q, s)
<1>1. TypeOK /\ Staged  BY DEF Inv, StoresInv
<1> PICK x : x = Saved(meta[s], op[q].job.owner, op[q].job.mode)  OBVIOUS
<1>2. pc[q] = "configured" /\ op[q].job.kind = "upload" /\ Goto(q, "described")
  BY <1>1, KindAt DEF save_schema_metadata, Step
<1>3. UNCHANGED <<sr, top, config, artifacts, audit, op, ours, tainted>>
      /\ meta' = [meta EXCEPT ![s] = x]
  BY DEF save_schema_metadata
<1>4. MovedTo(q, "described", op[q])  BY <1>1, <1>2, <1>3, StagesAre, KindAt, Goes DEF Pcs
<1>5. pc'[q] = "described" /\ op'[q] = op[q] /\ "described" \in MidWay
  BY <1>4 DEF MovedTo, MidWay
<1>6. x \in Meta /\ (op[q].job.mode # None => x.mode = op[q].job.mode)
  <2>1. op[q].job.mode \in Modes \cup {None} /\ op[q].job.owner \in Owners \cup {None}
    BY <1>1, <1>2, KindAt, JobTyped
  <2>2. meta[s] \in Meta \cup {NoMeta}  BY <1>1, StoresAre
  <2> QED BY <2>1, <2>2, SavedIs
<1>7. Written(s, sr[s], top[s], config[s], x)
  BY <1>1, <1>3, StoresAre DEF Written, TypeOK
<1>8. Wrote(q, s, sr[s], top[s], config[s], x)
  BY <1>1, <1>4, <1>6, <1>7, StoresAre, Writes
<1>9. Grown(op[q].job.mode, s)  BY <1>3, <1>8 DEF Grown, Wrote, Live
<1>10. ASSUME s \notin tainted PROVE Partial(q, s)'
  <2>1. HalfUploaded(q, s)  BY <1>2, <1>10, Before DEF Partial, MidWay
  <2>2. Live(s)' = Live(s) /\ Latest(s)' = Latest(s)  BY <1>3 DEF Live, Latest
  <2>3. ArtifactsLive(s)' /\ NewIsLatest(s)'
    BY <1>3, <2>1, <2>2 DEF HalfUploaded, ArtifactsLive, NewIsLatest
  <2>4. config'[s] = op[q].job.mode /\ ModeStored(s)'
    BY <1>2, <1>6, <1>8, <2>1 DEF HalfUploaded, ModeStored, Wrote
  <2>5. HalfUploaded(q, s)'  BY <1>2, <1>3, <1>5, <2>1, <2>2, <2>3, <2>4 DEF HalfUploaded
  <2> QED BY <1>2, <1>5, <2>5 DEF Partial
<1> QED BY <1>3, <1>4, <1>5, <1>8, <1>9, <1>10, Finishes DEF Wrote

\* The artifact of the version read back closes the gap, and the file counts as
\* stored.
LEMMA Records ==
    ASSUME Inv, NEW q \in Requests, Running(q), NEW s \in Subjects, s = Subject(q),
           record_artifact(q)
    PROVE  Good(q, s)
<1>1. TypeOK /\ Staged  BY DEF Inv, StoresInv
<1> PICK k, n, v : k = op[q].k /\ n = Len(op[q].job.files) /\ v = op[q].version
  OBVIOUS
<1> PICK l : l = AfterFile(q)  OBVIOUS
<1> PICK i : i = IF l = "file" THEN k + 1 ELSE k  OBVIOUS
<1> DEFINE o == [op[q] EXCEPT !.k = i]
<1>2. pc[q] = "described" /\ op[q].job.kind = "upload" /\ op[q].job \in Jobs /\ Goto(q, l)
      /\ k \in 1..n /\ n \in Nat /\ k \in Nat \ {0} /\ v \in 1..MaxVersion
  <2>1. pc[q] = "described" /\ op[q].job.kind = "upload" /\ op[q].job \in Jobs /\ Goto(q, l)
    BY <1>1, KindAt DEF record_artifact, Step
  <2>2. k \in 1..n /\ n \in Nat  BY <1>1, <2>1, KindAt, JobTyped
  <2>3. v \in 0..MaxVersion /\ v # 0  BY <1>1, <2>1, KindAt DEF TypeOK, Op
  <2> QED BY <2>1, <2>2, <2>3
<1>3. l = IF k < n THEN "file" ELSE "uploaded"  BY DEF AfterFile
<1>4. UNCHANGED <<sr, top, config, meta, audit, ours, tainted>>
      /\ artifacts' = artifacts \cup {<<s, v>>}
  BY DEF record_artifact
<1>5. o \in Op /\ o.job = op[q].job /\ o.k = i
  <2>1. i \in Nat \ {0}  BY <1>2
  <2>2. op[q] \in Op  BY <1>1 DEF TypeOK
  <2> QED BY <2>1, <2>2 DEF Op
<1>6. op' = [op EXCEPT ![q] = o]  BY <1>1 DEF record_artifact, TypeOK
<1> HIDE DEF o
<1>7. MovedTo(q, l, o)
  <2>1. o.k \in 1..n
    <3>1. k < n => k + 1 \in 1..n  BY <1>2
    <3> QED BY <1>2, <1>3, <1>5, <3>1
  <2>2. l \in Stages("upload") /\ l \in Pcs \ {"idle", "validating"} /\ l \notin MidWay
    BY <1>3, StagesAre DEF Pcs, MidWay
  <2> QED BY <1>1, <1>2, <1>5, <1>6, <2>1, <2>2, Moves DEF Goto
<1>8. pc'[q] = l /\ op'[q] = o /\ l \notin MidWay
  BY <1>3, <1>7 DEF MovedTo, MidWay
<1>9. Wrote(q, s, sr[s], top[s], config[s], meta[s])
  <2>1. Written(s, sr[s], top[s], config[s], meta[s])
    <3>1. /\ sr' = [sr EXCEPT ![s] = sr[s]] /\ top' = [top EXCEPT ![s] = top[s]]
          /\ config' = [config EXCEPT ![s] = config[s]] /\ meta' = [meta EXCEPT ![s] = meta[s]]
      BY <1>1, <1>4, StoresAre
    <3>2. artifacts' \cup ours' \subseteq Subjects \X (1..MaxVersion)
      BY <1>1, <1>2, <1>4 DEF TypeOK
    <3> QED BY <1>4, <3>1, <3>2 DEF Written
  <2> QED BY <1>1, <1>7, <1>8, <2>1, StoresAre, Writes
<1>10. Live(s)' = Live(s) /\ Latest(s)' = Latest(s)  BY <1>4 DEF Live, Latest
<1>11. ASSUME s \notin tainted
       PROVE  /\ HalfUploaded(q, s) /\ v = Latest(s) /\ v \in Live(s)
              /\ \A w \in Live(s) : w <= v
  <2>1. HalfUploaded(q, s)  BY <1>2, <1>11, Before DEF Partial, MidWay
  <2>2. Live(s) # {} /\ v = Latest(s) /\ Live(s) \in SUBSET (1..MaxVersion)
    BY <1>1, <1>2, <2>1, StoresAre DEF HalfUploaded
  <2> QED BY <2>1, <2>2, GreatestVersion DEF Latest
<1>12. ASSUME s \notin tainted PROVE Mirrored(s)'
  <2>1. HalfUploaded(q, s) /\ v = Latest(s) /\ v \in Live(s)  BY <1>11, <1>12
  <2>2. ArtifactsLive(s)' /\ OursRecorded(s)'
    BY <1>4, <1>10, <2>1 DEF HalfUploaded, ArtifactsLive, NewIsLatest, OursRecorded
  <2>3. ModeStored(s)'  BY <1>2, <1>4, <2>1 DEF HalfUploaded, ModeStored
  <2> QED BY <2>2, <2>3 DEF Mirrored
<1>13. Grown(op[q].job.mode, s)  BY <1>4, <1>10 DEF Grown
<1>14. \A j \in 1..Behind(q)' : j \in 1..Behind(q) \/ FileStored(op[q].job, j)'
  <2>1. Behind(q)' = k /\ Behind(q) = k - 1
    <3>1. Behind(q) = k - 1  BY <1>2 DEF Behind
    <3>2. CASE k < n  BY <1>2, <1>3, <1>5, <1>8, <3>2 DEF Behind
    <3>3. CASE ~(k < n)  BY <1>2, <1>3, <1>5, <1>8, <3>3 DEF Behind
    <3> QED BY <3>1, <3>2, <3>3
  <2>2. FileStored(op[q].job, k)'
    <3>1. PICK job : job = op[q].job  OBVIOUS
    <3>2. op'[q].job = job  BY <1>5, <1>8, <3>1
    <3>3. s = _build_subject_name(job, job.files[k])  BY <1>2, <3>1 DEF Subject
    <3>4. CASE s \in tainted  BY <1>4, <3>2, <3>3, <3>4 DEF FileStored
    <3>5. CASE s \notin tainted
      <4>1. config[s] = job.mode /\ \E w \in Live(s) : sr[s][w] = job.files[k].schema
        BY <1>2, <1>11, <3>1, <3>5 DEF HalfUploaded
      <4>2. \E w, u \in Live(s) :
              sr[s][w] = job.files[k].schema /\ w <= u /\ <<s, u>> \in artifacts'
        BY <1>4, <1>11, <3>5, <4>1
      <4>3. FileStored(job, k)'  BY <1>4, <1>10, <3>3, <4>1, <4>2 DEF FileStored
      <4> QED BY <3>2, <4>3
    <3> QED BY <3>4, <3>5
  <2> QED BY <1>2, <2>1, <2>2
<1> QED BY <1>4, <1>7, <1>8, <1>9, <1>12, <1>13, <1>14 DEF Good, MovedTo, Wrote

-------------------------------------------------------------------------------
(* The writes of a delete. *)

LEMMA EmptyHistory == ASSUME NEW n PROVE History(<<>>, n) /\ DOMAIN <<>> = {}
<1>1. DOMAIN <<>> = {}  OBVIOUS
<1>2. <<>> = [v \in {} |-> <<>>[v]]  BY <1>1
<1> QED BY <1>1, <1>2 DEF History

LEMMA Deletes ==
    ASSUME Inv, NEW q \in Requests, Running(q), NEW s \in Subjects, s = Subject(q),
           delete_subject(q)
    PROVE  Good(q, s)
<1>1. TypeOK /\ Staged  BY DEF Inv, StoresInv
<1>2. pc[q] = "deleting" /\ op[q].job.kind = "delete" /\ Goto(q, "deleted")
  BY <1>1, KindAt DEF delete_subject, Step
<1>3. s = op[q].job.subject  BY <1>2 DEF Subject
<1>4. /\ UNCHANGED <<top, artifacts, meta, audit, op, ours, tainted>>
      /\ sr' = [sr EXCEPT ![s] = <<>>] /\ config' = [config EXCEPT ![s] = None]
  BY <1>3 DEF delete_subject
<1>5. MovedTo(q, "deleted", op[q])  BY <1>1, <1>2, <1>4, StagesAre, KindAt, Goes DEF Pcs
<1>6. pc'[q] = "deleted" /\ op'[q] = op[q] /\ "deleted" \in MidWay
  BY <1>5 DEF MovedTo, MidWay
<1>7. Wrote(q, s, <<>>, top[s], None, meta[s])
  <2>1. Written(s, <<>>, top[s], None, meta[s])
    BY <1>1, <1>4, StoresAre DEF Written, TypeOK
  <2> QED BY <1>1, <1>5, <2>1, EmptyHistory, StoresAre, Writes
<1>8. Partial(q, s)'  BY <1>2, <1>6, <1>7, EmptyHistory DEF Partial, Wrote
<1> QED BY <1>2, <1>4, <1>5, <1>6, <1>7, <1>8, Finishes DEF Wrote

LEMMA ForgetsArtifacts ==
    ASSUME Inv, NEW q \in Requests, Running(q), NEW s \in Subjects, s = Subject(q),
           delete_artifact_by_subject(q)
    PROVE  Good(q, s)
<1>1. TypeOK /\ Staged  BY DEF Inv, StoresInv
<1>2. pc[q] = "deleted" /\ op[q].job.kind = "delete" /\ Goto(q, "closing")
  BY <1>1, KindAt DEF delete_artifact_by_subject, Step
<1>3. s = op[q].job.subject  BY <1>2 DEF Subject
<1>4. /\ UNCHANGED <<sr, top, config, audit, op, ours, tainted>>
      /\ artifacts' = {a \in artifacts : a[1] # s} /\ meta' = [meta EXCEPT ![s] = NoMeta]
  BY <1>3 DEF delete_artifact_by_subject
<1>5. MovedTo(q, "closing", op[q])
  BY <1>1, <1>2, <1>4, StagesAre, KindAt, Goes DEF Pcs, MidWay
<1>6. pc'[q] = "closing" /\ "closing" \notin MidWay  BY <1>5 DEF MovedTo, MidWay
<1>7. \A t \in Subjects, v \in 1..MaxVersion :
        <<t, v>> \in artifacts' <=> <<t, v>> \in artifacts /\ t # s
  BY <1>4
<1>8. Wrote(q, s, sr[s], top[s], config[s], NoMeta)
  <2>1. Written(s, sr[s], top[s], config[s], NoMeta)
    <3>1. /\ sr' = [sr EXCEPT ![s] = sr[s]] /\ top' = [top EXCEPT ![s] = top[s]]
          /\ config' = [config EXCEPT ![s] = config[s]]
      BY <1>1, <1>4, StoresAre
    <3> QED BY <1>1, <1>4, <1>7, <3>1 DEF Written, TypeOK
  <2> QED BY <1>1, <1>5, <2>1, StoresAre, Writes
<1>9. ASSUME s \notin tainted PROVE Mirrored(s)'
  <2>1. Live(s) = {} /\ config[s] = None  BY <1>2, <1>9, Before DEF Partial, MidWay
  <2>2. Live(s)' = {} /\ config'[s] = None  BY <1>4, <2>1 DEF Live
  <2> QED BY <1>7, <1>8, <2>2
       DEF Wrote, Mirrored, ArtifactsLive, OursRecorded, ModeStored, NoMeta
<1> QED BY <1>2, <1>4, <1>5, <1>6, <1>8, <1>9, Finishes DEF Wrote

-------------------------------------------------------------------------------
(* The steps of a rollback. *)

LEMMA Targets ==
    ASSUME Inv, NEW q \in Requests, Running(q), NEW s \in Subjects, s = Subject(q),
           get_schema_by_version(q)
    PROVE  Good(q, s)
<1>1. TypeOK /\ Staged  BY DEF Inv, StoresInv
<1> PICK v, newer : v = op[q].job.version /\ newer = Newer(s, v)  OBVIOUS
<1>2. pc[q] = "reading" /\ op[q].job.kind = "rollback" /\ op[q].job \in Jobs
  BY <1>1, KindAt DEF get_schema_by_version, Step
<1>3. s = op[q].job.subject  BY <1>2 DEF Subject
<1> PICK l : l = IF v \notin Live(s) THEN "done" ELSE IF newer = {} THEN "saving" ELSE "stepping"
  OBVIOUS
<1>4. Goto(q, l) /\ UNCHANGED <<sr, top, config, artifacts, meta, audit, ours, tainted>>
  BY <1>3 DEF get_schema_by_version, Step
<1> DEFINE o == [op[q] EXCEPT !.todo = newer, !.seen = top[s]]
<1>5. o \in Op /\ o.job = op[q].job /\ o.todo = newer
  <2>1. newer \in SUBSET (1..MaxVersion) /\ top[s] \in 0..MaxVersion  BY <1>1, StoresAre DEF Newer
  <2>2. op[q] \in Op  BY <1>1 DEF TypeOK
  <2> QED BY <2>1, <2>2 DEF Op
<1>6. op' = [op EXCEPT ![q] = o]  BY <1>1, <1>3 DEF get_schema_by_version, TypeOK
<1>7. o.k = op[q].k  BY <1>1 DEF TypeOK, Op
<1> HIDE DEF o
<1>8. MovedTo(q, l, o)
  <2>1. l \in {"done", "saving", "stepping"} /\ l \in Pcs \ {"idle", "validating"}  BY DEF Pcs
  <2>2. l # "done" => l \in Stages("rollback")  BY <2>1, StagesAre
  <2> QED BY <1>1, <1>2, <1>4, <1>5, <1>6, <1>7, <2>1, <2>2, Moves DEF Goto
<1>9. pc'[q] = l /\ op'[q] = o  BY <1>8 DEF MovedTo
<1>10. TypeOK'  BY <1>1, <1>4, <1>8 DEF MovedTo, TypeOK, Live
<1>11. \A t \in Subjects : Kept(t)  BY <1>4 DEF Kept
<1>13. s \notin tainted => Mirrored(s)'
  BY <1>1, <1>2, <1>11, Before, KeptFrame DEF MidWay
<1>14. ASSUME s \notin tainted, l \in MidWay PROVE Partial(q, s)'
  <2>1. l = "stepping" /\ v \in Live(s) /\ newer # {}  BY <1>14 DEF MidWay
  <2>2. Live(s)' = Live(s) /\ Newer(s, v)' = newer  BY <1>4 DEF Live, Newer
  <2>3. op'[q].job = op[q].job /\ op'[q].todo = newer /\ op'[q].job.version = v  BY <1>5, <1>9
  <2>4. HalfRolledBack(q, s)'
    BY <1>9, <1>13, <1>14, <2>1, <2>2, <2>3 DEF HalfRolledBack, Mirrored, ArtifactsLive, Newer
  <2> QED BY <1>2, <2>3, <2>4 DEF Partial
<1> QED BY <1>2, <1>4, <1>8, <1>10, <1>11, <1>13, <1>14, Finishes

\* The newest version that is left is the latest of all.
LEMMA NextIsLatest ==
    ASSUME TypeOK, NEW q \in Requests, NEW s \in Subjects, HalfRolledBack(q, s),
           pc[q] = "stepping", op[q].job.version \in Nat
    PROVE  /\ NextVersion(op[q].todo) = Latest(s) /\ Latest(s) \in Live(s)
           /\ Latest(s) \in op[q].todo /\ op[q].job.version < Latest(s)
<1> PICK v, todo : v = op[q].job.version /\ todo = op[q].todo  OBVIOUS
<1>1. todo = Newer(s, v) /\ todo # {}  BY DEF HalfRolledBack
<1>2. Live(s) \in SUBSET (1..MaxVersion) /\ todo \in SUBSET (1..MaxVersion) /\ Live(s) # {}
  BY <1>1, StoresAre DEF Newer
<1> PICK m : m = Max(todo)  OBVIOUS
<1>3. m \in todo /\ \A w \in todo : w <= m  BY <1>1, <1>2, GreatestVersion
<1>4. m \in Live(s) /\ v < m  BY <1>1, <1>3 DEF Newer
<1>5. ASSUME NEW w \in Live(s) PROVE w <= m
  <2>1. w \in Nat /\ m \in Nat  BY <1>2, <1>4
  <2>2. w > v => w \in todo  BY <1>1 DEF Newer
  <2> QED BY <1>3, <1>4, <2>1, <2>2
<1>6. Max(Live(s)) = m  BY <1>2, <1>4, <1>5, GreatestVersion
<1> QED BY <1>2, <1>3, <1>4, <1>6 DEF Latest, NextVersion

LEMMA StepsBack ==
    ASSUME Inv, NEW q \in Requests, Running(q), NEW s \in Subjects, s = Subject(q),
           delete_version(q)
    PROVE  Good(q, s)
<1>1. TypeOK /\ Staged  BY DEF Inv, StoresInv
<1> PICK v, todo, target : v = NextVersion(op[q].todo) /\ todo = op[q].todo
                           /\ target = op[q].job.version
  OBVIOUS
<1>2. pc[q] = "stepping" /\ op[q].job.kind = "rollback" /\ op[q].job \in Jobs /\ target \in Nat
  BY <1>1, KindAt, JobTyped DEF delete_version
<1>3. s = op[q].job.subject  BY <1>2 DEF Subject
<1> PICK l : l = IF todo = {v} THEN "trimming" ELSE "stepping"  OBVIOUS
<1> PICK f : f = [w \in Live(s) \ {v} |-> sr[s][w]]  OBVIOUS
<1>4. /\ Goto(q, l) /\ v \in Live(s) /\ sr' = [sr EXCEPT ![s] = f]
      /\ UNCHANGED <<top, config, artifacts, meta, audit, ours, tainted>>
  BY <1>3 DEF delete_version
<1> DEFINE o == [op[q] EXCEPT !.todo = todo \ {v}]
<1>5. o \in Op /\ o.job = op[q].job /\ o.todo = todo \ {v} /\ o.k = op[q].k
  <2>1. op[q] \in Op  BY <1>1 DEF TypeOK
  <2> QED BY <2>1 DEF Op
<1>6. op' = [op EXCEPT ![q] = o]  BY <1>1 DEF delete_version, TypeOK
<1> HIDE DEF o
<1>7. MovedTo(q, l, o)
  <2>1. l \in Stages("rollback") /\ l \in Pcs \ {"idle", "validating"}  BY StagesAre DEF Pcs
  <2> QED BY <1>1, <1>2, <1>4, <1>5, <1>6, <2>1, Moves DEF Goto
<1>8. pc'[q] = l /\ op'[q] = o /\ l \in MidWay  BY <1>7 DEF MovedTo, MidWay
<1>9. Wrote(q, s, f, top[s], config[s], meta[s])
  <2>1. Written(s, f, top[s], config[s], meta[s])
    <3>1. /\ top' = [top EXCEPT ![s] = top[s]]
          /\ config' = [config EXCEPT ![s] = config[s]] /\ meta' = [meta EXCEPT ![s] = meta[s]]
      BY <1>1, <1>4, StoresAre
    <3> QED BY <1>1, <1>4, <3>1 DEF Written, TypeOK
  <2>2. History(f, top[s])  BY <1>1, StoresAre DEF History
  <2> QED BY <1>1, <1>7, <1>8, <2>1, <2>2, StoresAre, Writes
<1>10. ASSUME s \notin tainted PROVE Partial(q, s)'
  <2>1. HalfRolledBack(q, s)  BY <1>2, <1>10, Before DEF Partial, MidWay
  <2>2. v \in todo /\ target < v /\ target \in Live(s) /\ Newer(s, target) = todo
    BY <1>1, <1>2, <2>1, NextIsLatest DEF HalfRolledBack
  <2>3. Live(s)' = Live(s) \ {v}  BY <1>9 DEF Wrote
  <2>4. Newer(s, target)' = todo \ {v}  BY <2>2, <2>3 DEF Newer
  <2>5. op'[q].job = op[q].job /\ op'[q].todo = todo \ {v} /\ op'[q].job.version = target
    BY <1>5, <1>8
  <2>6. target \in Live(s)'  BY <1>2, <2>2, <2>3
  <2>7. OursRecorded(s)' /\ ModeStored(s)'
    BY <1>4, <2>1, <2>3 DEF HalfRolledBack, OursRecorded, ModeStored
  <2>8. \A w \in 1..MaxVersion : <<s, w>> \in artifacts' => w \in Live(s)' \/ w > target
    <3>1. v > target  BY <1>1, <1>2, <1>4, <2>2, StoresAre
    <3> QED BY <1>4, <2>1, <2>3, <3>1 DEF HalfRolledBack
  <2>9. HalfRolledBack(q, s)'
    <3>1. CASE l = "stepping"
      <4>1. todo \ {v} # {}  BY <2>2, <3>1
      <4> QED BY <1>8, <2>4, <2>5, <2>6, <2>7, <2>8, <3>1, <4>1 DEF HalfRolledBack
    <3>2. CASE l = "trimming"
      <4>1. todo \ {v} = {}  BY <3>2
      <4> QED BY <1>8, <2>4, <2>5, <2>6, <2>7, <2>8, <3>2, <4>1 DEF HalfRolledBack
    <3> QED BY <3>1, <3>2
  <2> QED BY <1>2, <2>5, <2>9 DEF Partial
<1> QED BY <1>2, <1>4, <1>7, <1>8, <1>9, <1>10, Finishes DEF Wrote

LEMMA Trims ==
    ASSUME Inv, NEW q \in Requests, Running(q), NEW s \in Subjects, s = Subject(q),
           delete_artifacts_newer_than(q)
    PROVE  Good(q, s)
<1>1. TypeOK /\ Staged  BY DEF Inv, StoresInv
<1> PICK target : target = op[q].job.version  OBVIOUS
<1>2. pc[q] = "trimming" /\ op[q].job.kind = "rollback" /\ Goto(q, "saving")
  BY <1>1, KindAt DEF delete_artifacts_newer_than, Step
<1>3. s = op[q].job.subject  BY <1>2 DEF Subject
<1>4. /\ UNCHANGED <<sr, top, config, meta, audit, op, ours, tainted>>
      /\ artifacts' = {a \in artifacts : ~(a[1] = s /\ a[2] > target)}
  BY <1>3 DEF delete_artifacts_newer_than
<1>5. MovedTo(q, "saving", op[q])
  BY <1>1, <1>2, <1>4, StagesAre, KindAt, Goes DEF Pcs, MidWay
<1>6. pc'[q] = "saving" /\ "saving" \notin MidWay  BY <1>5 DEF MovedTo, MidWay
<1>7. \A t \in Subjects, v \in 1..MaxVersion :
        <<t, v>> \in artifacts' <=> <<t, v>> \in artifacts /\ ~(t = s /\ v > target)
  BY <1>4
<1>8. Wrote(q, s, sr[s], top[s], config[s], meta[s])
  <2>1. Written(s, sr[s], top[s], config[s], meta[s])
    <3>1. /\ sr' = [sr EXCEPT ![s] = sr[s]] /\ top' = [top EXCEPT ![s] = top[s]]
          /\ config' = [config EXCEPT ![s] = config[s]] /\ meta' = [meta EXCEPT ![s] = meta[s]]
      BY <1>1, <1>4, StoresAre
    <3> QED BY <1>1, <1>4, <1>7, <3>1 DEF Written, TypeOK
  <2> QED BY <1>1, <1>5, <2>1, StoresAre, Writes
<1>9. ASSUME s \notin tainted PROVE Mirrored(s)'
  <2>1. HalfRolledBack(q, s) /\ Newer(s, target) = {}
    BY <1>2, <1>9, Before DEF Partial, MidWay, HalfRolledBack
  <2>2. Live(s)' = Live(s) /\ Live(s) \subseteq 1..MaxVersion
    BY <1>1, <1>4, StoresAre DEF Live
  <2>3. \A v \in Live(s) : ~(v > target)  BY <2>1 DEF Newer
  <2>4. ArtifactsLive(s)'  BY <1>7, <2>1, <2>2 DEF HalfRolledBack, ArtifactsLive
  <2>5. OursRecorded(s)'  BY <1>4, <1>7, <2>1, <2>2, <2>3 DEF HalfRolledBack, OursRecorded
  <2>6. ModeStored(s)'  BY <1>4, <2>1 DEF HalfRolledBack, ModeStored
  <2> QED BY <2>4, <2>5, <2>6 DEF Mirrored
<1> QED BY <1>2, <1>4, <1>5, <1>6, <1>8, <1>9, Finishes DEF Wrote

-------------------------------------------------------------------------------
(* The writes of a change of settings. *)

LEMMA SetsMode ==
    ASSUME Inv, NEW q \in Requests, Running(q), NEW s \in Subjects, s = Subject(q),
           configure(q)
    PROVE  Good(q, s)
<1>1. TypeOK /\ Staged  BY DEF Inv, StoresInv
<1> PICK m : m = IF op[q].job.mode = None THEN config[s] ELSE op[q].job.mode  OBVIOUS
<1>2. pc[q] = "configuring" /\ op[q].job.kind = "settings" /\ Goto(q, "describing")
  BY <1>1, KindAt DEF configure, Step
<1>3. s = op[q].job.subject  BY <1>2 DEF Subject
<1>4. m \in Modes \cup {None}  BY <1>1, <1>2, KindAt, JobTyped, StoresAre
<1>5. /\ UNCHANGED <<sr, top, artifacts, meta, audit, op, ours, tainted>>
      /\ config' = [config EXCEPT ![s] = m]
  BY <1>1, <1>3 DEF configure, TypeOK
<1>6. MovedTo(q, "describing", op[q])
  BY <1>1, <1>2, <1>5, StagesAre, KindAt, Goes DEF Pcs
<1>7. pc'[q] = "describing" /\ op'[q] = op[q] /\ "describing" \in MidWay
  BY <1>6 DEF MovedTo, MidWay
<1>8. Wrote(q, s, sr[s], top[s], m, meta[s])
  <2>1. Written(s, sr[s], top[s], m, meta[s])
    BY <1>1, <1>5, StoresAre DEF Written, TypeOK
  <2> QED BY <1>1, <1>4, <1>6, <2>1, StoresAre, Writes
<1>9. ASSUME s \notin tainted PROVE Partial(q, s)'
  <2>1. Mirrored(s)  BY <1>2, <1>9, Before DEF MidWay
  <2>2. ArtifactsLive(s)' /\ OursRecorded(s)'
    BY <1>5, <2>1 DEF Mirrored, ArtifactsLive, OursRecorded, Live
  <2>3. config'[s] = m /\ meta'[s] = meta[s]  BY <1>8 DEF Wrote
  <2>4. HalfConfigured(q, s)'
    BY <1>7, <2>1, <2>2, <2>3 DEF HalfConfigured, Mirrored, ModeStored
  <2> QED BY <1>2, <1>7, <2>4 DEF Partial
<1> QED BY <1>2, <1>5, <1>6, <1>7, <1>8, <1>9, Finishes DEF Wrote

LEMMA SavesSettings ==
    ASSUME Inv, NEW q \in Requests, Running(q), NEW s \in Subjects, s = Subject(q),
           save_settings(q)
    PROVE  Good(q, s)
<1>1. TypeOK /\ Staged  BY DEF Inv, StoresInv
<1> PICK x : x = Saved(meta[s], op[q].job.owner, op[q].job.mode)  OBVIOUS
<1>2. pc[q] = "describing" /\ op[q].job.kind = "settings" /\ Goto(q, "closing")
  BY <1>1, KindAt DEF save_settings, Step
<1>3. s = op[q].job.subject  BY <1>2 DEF Subject
<1>4. UNCHANGED <<sr, top, config, artifacts, audit, op, ours, tainted>>
      /\ meta' = [meta EXCEPT ![s] = x]
  BY <1>3 DEF save_settings
<1>5. MovedTo(q, "closing", op[q])
  BY <1>1, <1>2, <1>4, StagesAre, KindAt, Goes DEF Pcs, MidWay
<1>6. pc'[q] = "closing" /\ "closing" \notin MidWay  BY <1>5 DEF MovedTo, MidWay
<1>7. x \in Meta /\ x.mode = IF op[q].job.mode = None THEN meta[s].mode ELSE op[q].job.mode
  <2>1. op[q].job.mode \in Modes \cup {None} /\ op[q].job.owner \in Owners \cup {None}
    BY <1>1, <1>2, KindAt, JobTyped
  <2>2. meta[s] \in Meta \cup {NoMeta}  BY <1>1, StoresAre
  <2> QED BY <2>1, <2>2, SavedIs
<1>8. Wrote(q, s, sr[s], top[s], config[s], x)
  <2>1. Written(s, sr[s], top[s], config[s], x)
    BY <1>1, <1>4, StoresAre DEF Written, TypeOK
  <2> QED BY <1>1, <1>5, <1>7, <2>1, StoresAre, Writes
<1>9. ASSUME s \notin tainted PROVE Mirrored(s)'
  <2>1. HalfConfigured(q, s)  BY <1>2, <1>9, Before DEF Partial, MidWay
  <2>2. ArtifactsLive(s)' /\ OursRecorded(s)'
    BY <1>4, <2>1 DEF HalfConfigured, ArtifactsLive, OursRecorded, Live
  <2>3. ModeStored(s)'  BY <1>7, <1>8, <2>1 DEF HalfConfigured, ModeStored, Wrote
  <2> QED BY <2>2, <2>3 DEF Mirrored
<1> QED BY <1>2, <1>4, <1>5, <1>6, <1>8, <1>9, Finishes DEF Wrote

-------------------------------------------------------------------------------
(* The theorems. *)

\* The steps of a running request.
Works(q) == Upload(q) \/ Delete(q) \/ Rollback(q) \/ Settings(q) \/ Close(q)

LEMMA WorksRuns ==
    ASSUME NEW q \in Requests, Works(q)
    PROVE  Running(q)
<1>1. CASE Upload(q)
  BY <1>1 DEF Running, Upload, _validate_files, register_schema, read_version,
     set_compatibility_mode, save_schema_metadata, record_artifact, file_refused,
     save_upload_result, Step
<1>2. CASE Delete(q)
  BY <1>2 DEF Running, Delete, analyze, analyze_delete_impact, delete_subject,
     nothing_to_delete, delete_artifact_by_subject, artifacts_kept, Step
<1>3. CASE Rollback(q)
  BY <1>3 DEF Running, Rollback, get_schema_by_version, delete_version, version_gone,
     delete_artifacts_newer_than, save_apply_result, Step
<1>4. CASE Settings(q)
  BY <1>4 DEF Running, Settings, describe_subjects, configure, save_settings, Step
<1>5. CASE Close(q)
  BY <1>5 DEF Running, Close, audit_completed, audit_failed, fails, cancelled, Step
<1> QED BY <1>1, <1>2, <1>3, <1>4, <1>5 DEF Works

\* Every step of a running request is good.
LEMMA AllGood ==
    ASSUME Inv, NEW q \in Requests, Works(q), NEW s \in Subjects, s = Subject(q)
    PROVE  Good(q, s)
<1>1. Running(q)  BY WorksRuns
<1>2. CASE Upload(q)
  BY <1>1, <1>2, Walks, Registers, ReadsBack, Configures, Describes, Records DEF Upload
<1>3. CASE Delete(q)
  BY <1>1, <1>3, Walks, Judges, Deletes, ForgetsArtifacts, Marks DEF Delete
<1>4. CASE Rollback(q)
  BY <1>1, <1>4, Walks, Targets, StepsBack, Marks, Trims DEF Rollback
<1>5. CASE Settings(q)  BY <1>1, <1>5, Walks, SetsMode, SavesSettings DEF Settings
<1>6. CASE Close(q)  BY <1>1, <1>6, Closes
<1> QED BY <1>2, <1>3, <1>4, <1>5, <1>6 DEF Works

LEMMA StartsKeep ==
    ASSUME Inv, NEW q \in Requests, NEW job \in Jobs,
           \/ upload_schemas(q, job) \/ analyze_schema_delete(q, job) \/ delete_schema(q, job)
           \/ execute_schema_rollback(q, job) \/ update_schema_settings(q, job)
    PROVE  Inv' /\ sr' = sr
<1>1. PICK label \in {"validating", "analyzing", "reading", "looking"} :
        Start(q, job, label) /\ label \in Stages(job.kind)
  BY StagesAre DEF upload_schemas, analyze_schema_delete, delete_schema,
     execute_schema_rollback, update_schema_settings
<1>2. Inv'  BY <1>1, Starting
<1> QED BY <1>1, <1>2 DEF Start

LEMMA NextInv == Inv /\ [Next]_vars => Inv'
<1> SUFFICES ASSUME Inv, [Next]_vars PROVE Inv'  OBVIOUS
<1>1. ASSUME NEW q \in Requests, Works(q) PROVE Inv'
  <2>1. TypeOK /\ Staged /\ Running(q)  BY <1>1, WorksRuns DEF Inv, StoresInv
  <2>2. PICK s \in Subjects : s = Subject(q)  BY <2>1, SubjectKnown
  <2>3. Good(q, s)  BY <1>1, <2>2, AllGood
  <2> QED BY <2>1, <2>2, <2>3, GoodStep
<1>2. ASSUME NEW q \in Requests, NEW job \in Jobs,
             \/ upload_schemas(q, job) \/ analyze_schema_delete(q, job)
             \/ delete_schema(q, job) \/ execute_schema_rollback(q, job)
             \/ update_schema_settings(q, job)
      PROVE  Inv'
  BY <1>2, StartsKeep
<1>3. CASE UNCHANGED vars
  <2>1. TypeOK /\ Staged /\ Alone /\ HalfDone /\ MirroredElsewhere
        /\ UploadedPrefixStored
    BY DEF Inv, StoresInv
  <2>2. \A s \in Subjects : Kept(s)  BY <1>3 DEF vars, Kept
  <2>3. \A r \in Requests : Rests(r)  BY <1>3 DEF vars, Rests
  <2>4. \A r \in Requests :
          Subject(r)' = Subject(r) /\ Running(r)' = Running(r) /\ Behind(r)' = Behind(r)
    BY <2>3, SubjectRests
  <2>5. tainted' = tainted  BY <1>3 DEF vars
  <2>6. TypeOK'  BY <1>3, <2>1 DEF vars, TypeOK, Live
  <2>7. Staged'  BY <2>1, <2>3, <2>4 DEF Staged, Rests
  <2>8. Alone'  BY <2>1, <2>3, <2>4, <2>5 DEF Alone, Rests
  <2>9. HalfDone'
    <3>1. SUFFICES ASSUME NEW r \in Requests, pc'[r] \in MidWay, Subject(r)' \notin tainted'
                   PROVE  Partial(r, Subject(r))'
      BY DEF HalfDone
    <3>2. PICK t : t = Subject(r)  OBVIOUS
    <3>3. pc[r] \in MidWay /\ t \notin tainted /\ Subject(r)' = t
      BY <2>3, <2>4, <2>5, <3>1, <3>2 DEF Rests
    <3>4. t \in Subjects  BY <2>1, <3>2, <3>3, MidWayRuns, SubjectKnown
    <3>5. Partial(r, t)  BY <2>1, <3>2, <3>3 DEF HalfDone
    <3>6. Partial(r, t)'  BY <2>1, <2>2, <2>3, <3>4, <3>5, PartialFrame
    <3> QED BY <3>3, <3>6
  <2>10. MirroredElsewhere'
    <3>1. \A s \in Subjects : Mirrored(s)' <=> Mirrored(s)  BY <2>1, <2>2, KeptFrame
    <3> QED BY <2>1, <2>3, <2>4, <2>5, <3>1 DEF MirroredElsewhere, Rests
  <2>12. MirrorAgrees'  BY <2>6, <2>7, <2>10, MirroredAgree, PTL
  <2>13. UploadedPrefixStored'
    <3>1. ASSUME NEW j, NEW i, FileStored(j, i) PROVE FileStored(j, i)'
      BY <1>3, <3>1 DEF vars, FileStored, Live
    <3>2. SUFFICES ASSUME NEW r \in Requests, Running(r)', op'[r].job.kind = "upload",
                          NEW i \in 1..Behind(r)'
                   PROVE  FileStored(op[r].job, i)'
      BY DEF UploadedPrefixStored
    <3>3. PICK j : j = op[r].job  OBVIOUS
    <3>4. FileStored(j, i) /\ op'[r].job = j
      BY <2>1, <2>3, <2>4, <3>2, <3>3 DEF UploadedPrefixStored, Rests
    <3>5. FileStored(j, i)'  BY <3>1, <3>4
    <3> QED BY <3>4, <3>5
  <2> QED BY <2>6, <2>7, <2>8, <2>9, <2>10, <2>12, <2>13 DEF Inv, StoresInv
<1> QED BY <1>1, <1>2, <1>3 DEF Next, Works, Finished

-------------------------------------------------------------------------------
(* What a delete and a rollback have read, and the others change since.    *)

Scoped == JudgedSafe /\ Listed

JudgedAt(r) ==
    LET s == op[r].job.subject IN
    pc[r] = "deleting" =>
      /\ op[r].seen <= top[s]
      /\ ~op[r].job.force /\ Unsafe(s) => op[r].blind \/ top[s] > op[r].seen
ListedAt(r) ==
    pc[r] \in {"stepping", "trimming", "saving"} =>
      /\ op[r].seen <= top[op[r].job.subject]
      /\ \A v \in op[r].todo : op[r].job.version < v /\ v <= op[r].seen
      /\ IF pc[r] = "stepping" THEN op[r].todo # {} ELSE op[r].todo = {}
      /\ Pending(r) \subseteq op[r].todo

\* A subject loses versions, or gets one past every number ever given.
Onward(s) ==
    /\ top[s] <= top'[s]
    /\ \/ Live(s)' \subseteq Live(s)
       \/ /\ top[s] < top'[s]
          /\ \A v \in Live(s)' : v \in Live(s) \/ top[s] < v

LEMMA UnsafeShrinks ==
    ASSUME TypeOK, TypeOK', NEW s \in Subjects, Live(s)' \subseteq Live(s), Unsafe(s)'
    PROVE  Unsafe(s)
<1>1. Live(s) \in SUBSET (1..MaxVersion) /\ MaxVersion \in Nat  BY StoresAre
<1>2. Live(s)' # {} /\ Live(s) # {}  BY DEF Unsafe
<1>3. CASE _is_production_subject(s)  BY <1>2, <1>3 DEF Unsafe
<1>4. CASE ~_is_production_subject(s)
  <2>1. Latest(s)' > Threshold  BY <1>4 DEF Unsafe
  <2>2. Latest(s)' = Max(Live(s)') /\ Latest(s) = Max(Live(s))  BY <1>2 DEF Latest
  <2>3. Latest(s)' \in Live(s)'  BY <1>1, <1>2, <2>2, GreatestVersion
  <2>4. Latest(s) \in Live(s) /\ Latest(s)' <= Latest(s)
    BY <1>1, <1>2, <2>2, <2>3, GreatestVersion
  <2>5. Latest(s)' \in Nat /\ Latest(s) \in Nat /\ Threshold \in Nat
    BY <1>1, <2>3, <2>4, LifecycleAssumption
  <2>6. Latest(s) > Threshold  BY <2>1, <2>4, <2>5
  <2> QED BY <1>2, <2>6 DEF Unsafe
<1> QED BY <1>3, <1>4

\* What others do takes no excuse away and adds nothing to delete.
LEMMA ScopeFrame ==
    ASSUME TypeOK, TypeOK', Staged, NEW r \in Requests, Rests(r),
           \A s \in Subjects : Onward(s), JudgedAt(r), ListedAt(r)
    PROVE  JudgedAt(r)' /\ ListedAt(r)'
<1> PICK s : s = op[r].job.subject  OBVIOUS
<1>1. pc'[r] = pc[r] /\ op'[r] = op[r]  BY DEF Rests
<1>2. op[r] \in Op /\ op[r].seen \in Nat  BY LifecycleAssumption DEF TypeOK, Op
<1>3. pc[r] \in {"deleting", "stepping", "trimming", "saving"} =>
        /\ s \in Subjects /\ top[s] \in Nat /\ top'[s] \in Nat /\ Onward(s)
        /\ Live(s) \subseteq Nat /\ Live(s)' \subseteq Nat
  <2>1. SUFFICES ASSUME pc[r] \in {"deleting", "stepping", "trimming", "saving"}
                 PROVE  s \in Subjects
    BY LifecycleAssumption DEF TypeOK
  <2>2. Running(r)  BY <2>1 DEF Running
  <2>3. op[r].job \in Jobs /\ op[r].job.kind # "upload"  BY <2>1, <2>2, KindAt
  <2> QED BY <2>3, JobTyped
<1>4. JudgedAt(r)'
  <2>1. SUFFICES ASSUME pc[r] = "deleting"
                 PROVE  /\ op[r].seen <= top'[s]
                        /\ ~op[r].job.force /\ Unsafe(s)' =>
                             op[r].blind \/ top'[s] > op[r].seen
    BY <1>1 DEF JudgedAt
  <2>2. /\ op[r].seen <= top[s]
        /\ ~op[r].job.force /\ Unsafe(s) => op[r].blind \/ top[s] > op[r].seen
    BY <2>1 DEF JudgedAt
  <2>3. op[r].seen <= top'[s]  BY <1>2, <1>3, <2>1, <2>2 DEF Onward
  <2>4. CASE Live(s)' \subseteq Live(s)
    <3>1. Unsafe(s)' => Unsafe(s)  BY <1>3, <2>1, <2>4, UnsafeShrinks
    <3>2. top[s] > op[r].seen => top'[s] > op[r].seen  BY <1>2, <1>3, <2>1 DEF Onward
    <3> QED BY <2>2, <2>3, <3>1, <3>2
  <2>5. CASE ~(Live(s)' \subseteq Live(s))
    <3>1. top[s] < top'[s]  BY <1>3, <2>1, <2>5 DEF Onward
    <3>2. top'[s] > op[r].seen  BY <1>2, <1>3, <2>1, <2>2, <3>1
    <3> QED BY <2>3, <3>2
  <2> QED BY <2>4, <2>5
<1>5. ListedAt(r)'
  <2>1. SUFFICES ASSUME pc[r] \in {"stepping", "trimming", "saving"}
                 PROVE  op[r].seen <= top'[s] /\ Pending(r)' \subseteq Pending(r)
    BY <1>1 DEF ListedAt
  <2>2. op[r].seen <= top[s]  BY <2>1 DEF ListedAt
  <2>3. op[r].seen <= top'[s]  BY <1>2, <1>3, <2>1, <2>2 DEF Onward
  <2>4. ASSUME NEW v \in Pending(r)' PROVE v \in Pending(r)
    <3>1. v \in Live(s)' /\ op[r].job.version < v /\ v <= op[r].seen  BY <1>1, <2>4 DEF Pending
    <3>2. v \in Live(s)  BY <1>2, <1>3, <2>1, <2>2, <3>1 DEF Onward
    <3> QED BY <3>1, <3>2 DEF Pending
  <2> QED BY <2>3, <2>4
<1> QED BY <1>4, <1>5

\* A step of a request moves every subject onward.
LEMMA StepsOnward ==
    ASSUME TypeOK, Staged, NEW q \in Requests, Works(q), NEW s \in Subjects
    PROVE  Onward(s)
<1>1. top[s] \in Nat /\ Live(s) = DOMAIN sr[s]  BY LifecycleAssumption DEF TypeOK, Live
<1>2. CASE UNCHANGED <<sr, top>>  BY <1>1, <1>2 DEF Onward, Live
<1>3. CASE register_schema(q)
  <2> PICK t, x : t = Subject(q) /\ x = op[q].job.files[op[q].k].schema  OBVIOUS
  <2>1. CASE \E v \in Live(t) : sr[t][v] = x
    BY <1>2, <1>3, <2>1 DEF register_schema
  <2>2. CASE ~ \E v \in Live(t) : sr[t][v] = x
    <3> PICK n : n = top[t] + 1  OBVIOUS
    <3>1. /\ sr' = [sr EXCEPT ![t] =
                      [v \in Live(t) \cup {n} |-> IF v = n THEN x ELSE sr[t][v]]]
          /\ top' = [top EXCEPT ![t] = n]
      BY <1>3, <2>2 DEF register_schema
    <3>2. CASE s = t
      <4>1. top'[s] = n /\ n = top[s] + 1 /\ DOMAIN sr'[s] = Live(s) \cup {n}
        BY <3>1, <3>2 DEF TypeOK
      <4>2. Live(s)' = Live(s) \cup {n}  BY <4>1 DEF Live
      <4> QED BY <1>1, <4>1, <4>2 DEF Onward
    <3>3. CASE s # t
      <4>1. sr'[s] = sr[s] /\ top'[s] = top[s]  BY <3>1, <3>3 DEF TypeOK
      <4> QED BY <1>1, <4>1 DEF Onward, Live
    <3> QED BY <3>2, <3>3
  <2> QED BY <2>1, <2>2
<1>4. CASE delete_subject(q)
  <2>1. sr'[s] \in {<<>>, sr[s]} /\ top'[s] = top[s]  BY <1>4 DEF delete_subject, TypeOK
  <2>2. DOMAIN <<>> = {}  OBVIOUS
  <2>3. DOMAIN sr'[s] \subseteq DOMAIN sr[s]  BY <2>1, <2>2
  <2> QED BY <1>1, <2>1, <2>3 DEF Onward, Live
<1>5. CASE delete_version(q)
  <2> PICK t, v : t = op[q].job.subject /\ v = NextVersion(op[q].todo)  OBVIOUS
  <2>1. sr' = [sr EXCEPT ![t] = [w \in Live(t) \ {v} |-> sr[t][w]]] /\ top' = top
    BY <1>5 DEF delete_version
  <2>2. DOMAIN sr'[s] \subseteq DOMAIN sr[s]  BY <2>1 DEF TypeOK, Live
  <2> QED BY <1>1, <2>1, <2>2 DEF Onward, Live
<1>6. CASE Upload(q)
  BY <1>2, <1>3, <1>6 DEF Upload, _validate_files, read_version, set_compatibility_mode,
     save_schema_metadata, record_artifact, file_refused, save_upload_result
<1>7. CASE Delete(q)
  BY <1>2, <1>4, <1>7 DEF Delete, analyze, analyze_delete_impact, nothing_to_delete,
     delete_artifact_by_subject, artifacts_kept
<1>8. CASE Rollback(q)
  BY <1>2, <1>5, <1>8 DEF Rollback, get_schema_by_version, version_gone,
     delete_artifacts_newer_than, save_apply_result
<1>9. CASE Settings(q)
  BY <1>2, <1>9 DEF Settings, describe_subjects, configure, save_settings
<1>10. CASE Close(q)
  BY <1>2, <1>10 DEF Close, audit_completed, audit_failed, fails, cancelled
<1> QED BY <1>6, <1>7, <1>8, <1>9, <1>10 DEF Works

\* A delete is judged on what is there.
LEMMA JudgesSafe ==
    ASSUME TypeOK, Staged, NEW q \in Requests, Running(q), NEW blind \in BOOLEAN,
           analyze_delete_impact(q, blind)
    PROVE  JudgedAt(q)' /\ ListedAt(q)'
<1> PICK s : s = op[q].job.subject  OBVIOUS
<1>1. /\ pc[q] = "analyzing" /\ op[q].job.kind = "delete"
      /\ UNCHANGED <<sr, top, config, artifacts, meta, audit, ours, tainted>>
  BY DEF analyze_delete_impact, Step
<1>2. pc'[q] = IF op[q].job.force \/ blind \/ Live(s) = {} \/ _is_safe_to_delete(s)
               THEN "deleting" ELSE "done"
  BY DEF analyze_delete_impact, Step, Goto, TypeOK
<1>3. op'[q].blind = blind /\ op'[q].seen = top[s] /\ op'[q].job = op[q].job
  BY DEF analyze_delete_impact, TypeOK, Op
<1>4. s \in Subjects  BY <1>1, KindAt, JobTyped
<1>5. top[s] \in Nat  BY <1>4, LifecycleAssumption DEF TypeOK
<1>6. Unsafe(s)' <=> Unsafe(s)  BY <1>1 DEF Unsafe, Latest, Live
<1>7. Unsafe(s) => Live(s) # {} /\ ~ _is_safe_to_delete(s)
  <2>1. Live(s) # {} => Latest(s) \in Nat
    <3>1. Live(s) \in SUBSET (1..MaxVersion) /\ MaxVersion \in Nat  BY <1>4, StoresAre
    <3>2. Live(s) # {} => Latest(s) \in Live(s)  BY <3>1, GreatestVersion DEF Latest
    <3> QED BY <3>1, <3>2
  <2> QED BY <2>1, LifecycleAssumption DEF Unsafe, _is_safe_to_delete
<1>8. JudgedAt(q)'  BY <1>1, <1>2, <1>3, <1>5, <1>6, <1>7 DEF JudgedAt
<1>9. ListedAt(q)'  BY <1>2 DEF ListedAt
<1> QED BY <1>8, <1>9

\* What a rollback lists is what it has in hand, and what it deletes it puts away.
LEMMA ListsAll ==
    ASSUME TypeOK, Staged, NEW q \in Requests, Running(q), get_schema_by_version(q)
    PROVE  JudgedAt(q)' /\ ListedAt(q)'
<1> PICK s, v : s = op[q].job.subject /\ v = op[q].job.version  OBVIOUS
<1>1. /\ pc[q] = "reading" /\ op[q].job.kind = "rollback"
      /\ UNCHANGED <<sr, top, config, artifacts, meta, audit, ours, tainted>>
  BY KindAt DEF get_schema_by_version, Step
<1>2. pc'[q] = IF v \notin Live(s) THEN "done" ELSE IF Newer(s, v) = {} THEN "saving"
               ELSE "stepping"
  BY DEF get_schema_by_version, Step, Goto, TypeOK
<1>3. op'[q].todo = Newer(s, v) /\ op'[q].seen = top[s] /\ op'[q].job = op[q].job
  BY DEF get_schema_by_version, TypeOK, Op
<1>4. s \in Subjects /\ v \in Nat  BY <1>1, KindAt, JobTyped
<1>5. /\ top[s] \in Nat /\ \A w \in Live(s) : w \in Nat /\ w <= top[s]
  <2>1. Live(s) \subseteq 1..top[s] /\ top[s] \in 0..MaxVersion /\ MaxVersion \in Nat
    BY <1>4, StoresAre
  <2> QED BY <2>1
<1>6. Live(s)' = Live(s)  BY <1>1 DEF Live
<1>7. \A w \in Newer(s, v) : v < w /\ w <= top[s]  BY <1>4, <1>5 DEF Newer
<1>8. Pending(q)' \subseteq Newer(s, v)  BY <1>3, <1>4, <1>5, <1>6 DEF Pending, Newer
<1>9. ListedAt(q)'  BY <1>1, <1>2, <1>3, <1>5, <1>7, <1>8 DEF ListedAt
<1>10. JudgedAt(q)'  BY <1>2 DEF JudgedAt
<1> QED BY <1>9, <1>10

LEMMA PutsAway ==
    ASSUME TypeOK, Staged, NEW q \in Requests, Running(q), ListedAt(q), delete_version(q)
    PROVE  JudgedAt(q)' /\ ListedAt(q)'
<1> PICK s, d : s = op[q].job.subject /\ d = NextVersion(op[q].todo)  OBVIOUS
<1>1. pc[q] = "stepping" /\ op[q].job.kind = "rollback"  BY KindAt DEF delete_version
<1>2. s \in Subjects  BY <1>1, KindAt, JobTyped
<1>3. pc'[q] = IF op[q].todo = {d} THEN "trimming" ELSE "stepping"
  BY DEF delete_version, Goto, TypeOK
<1>4. op'[q].todo = op[q].todo \ {d} /\ op'[q].seen = op[q].seen /\ op'[q].job = op[q].job
  BY DEF delete_version, TypeOK, Op
<1>5. top' = top /\ Live(s)' = Live(s) \ {d}  BY <1>2 DEF delete_version, Live, TypeOK
<1>6. /\ op[q].seen <= top[s] /\ op[q].todo # {} /\ Pending(q) \subseteq op[q].todo
      /\ \A v \in op[q].todo : op[q].job.version < v /\ v <= op[q].seen
  BY <1>1 DEF ListedAt
<1>7. Pending(q)' = Pending(q) \ {d}  BY <1>4, <1>5 DEF Pending
<1>8. pc'[q] = "stepping" => op'[q].todo # {}  BY <1>3, <1>4, <1>6
<1>9. pc'[q] = "trimming" => op'[q].todo = {}  BY <1>3, <1>4
<1>10. ListedAt(q)'  BY <1>3, <1>4, <1>5, <1>6, <1>7, <1>8, <1>9 DEF ListedAt
<1>11. JudgedAt(q)'  BY <1>3 DEF JudgedAt
<1> QED BY <1>10, <1>11

LEMMA TrimsListed ==
    ASSUME TypeOK, Staged, NEW q \in Requests, Running(q), ListedAt(q),
           delete_artifacts_newer_than(q)
    PROVE  JudgedAt(q)' /\ ListedAt(q)'
<1>1. pc[q] = "trimming" /\ pc'[q] = "saving" /\ op' = op /\ sr' = sr /\ top' = top
  BY DEF delete_artifacts_newer_than, Step, Goto, TypeOK
<1>2. Pending(q)' = Pending(q)  BY <1>1 DEF Pending, Live
<1> QED BY <1>1, <1>2 DEF ListedAt, JudgedAt

LEMMA ScopedStep ==
    ASSUME Inv, Inv', Scoped, NEW q \in Requests, Works(q)
    PROVE  Scoped'
<1>1. TypeOK /\ Staged /\ TypeOK' /\ Running(q)  BY WorksRuns DEF Inv, StoresInv
<1>2. \A s \in Subjects : Onward(s)  BY <1>1, StepsOnward
<1>3. \A r \in Requests \ {q} : Rests(r)
  <2>1. PICK s \in Subjects : s = Subject(q)  BY <1>1, SubjectKnown
  <2> QED BY <2>1, AllGood DEF Good
<1>4. \A r \in Requests : JudgedAt(r) /\ ListedAt(r)
  BY DEF Scoped, JudgedSafe, Listed, JudgedAt, ListedAt
<1>5. ASSUME pc'[q] \notin {"deleting", "stepping", "trimming", "saving"}
      PROVE  JudgedAt(q)' /\ ListedAt(q)'
  BY <1>5 DEF JudgedAt, ListedAt
<1>6. JudgedAt(q)' /\ ListedAt(q)'
  <2>1. CASE \E blind \in BOOLEAN : analyze_delete_impact(q, blind)
    BY <1>1, <2>1, JudgesSafe
  <2>2. CASE get_schema_by_version(q)  BY <1>1, <2>2, ListsAll
  <2>3. CASE delete_version(q)  BY <1>1, <1>4, <2>3, PutsAway
  <2>4. CASE delete_artifacts_newer_than(q)  BY <1>1, <1>4, <2>4, TrimsListed
  <2>5. CASE Upload(q)
    <3>1. pc'[q] \in {"file", "failing", "registered", "versioned", "configured",
                      "described", "uploaded", "closing"}
      BY <1>1, <2>5 DEF Upload, _validate_files, register_schema, read_version,
         set_compatibility_mode, save_schema_metadata, record_artifact, file_refused,
         save_upload_result, AfterFile, Step, Goto, TypeOK
    <3> QED BY <1>5, <3>1
  <2>6. CASE analyze(q) \/ delete_subject(q) \/ nothing_to_delete(q)
             \/ delete_artifact_by_subject(q) \/ artifacts_kept(q)
    <3>1. pc'[q] \in {"closing", "deleted", "failing"}
      BY <1>1, <2>6 DEF analyze, delete_subject, nothing_to_delete,
         delete_artifact_by_subject, artifacts_kept, Step, Goto, TypeOK
    <3> QED BY <1>5, <3>1
  <2>7. CASE version_gone(q) \/ save_apply_result(q)
    <3>1. pc'[q] = "done"
      BY <1>1, <2>7 DEF version_gone, save_apply_result, Step, Goto, TypeOK
    <3> QED BY <1>5, <3>1
  <2>8. CASE Settings(q)
    <3>1. pc'[q] \in {"configuring", "done", "describing", "closing"}
      BY <1>1, <2>8 DEF Settings, describe_subjects, configure, save_settings, Step, Goto,
         TypeOK
    <3> QED BY <1>5, <3>1
  <2>9. CASE Close(q)
    <3>1. pc'[q] \in {"done", "failing"}
      BY <1>1, <2>9 DEF Close, audit_completed, audit_failed, fails, cancelled, Raised, Step,
         Goto, TypeOK
    <3> QED BY <1>5, <3>1
  <2> QED BY <2>1, <2>2, <2>3, <2>4, <2>5, <2>6, <2>7, <2>8, <2>9
       DEF Works, Delete, Rollback
<1>7. ASSUME NEW r \in Requests PROVE JudgedAt(r)' /\ ListedAt(r)'
  <2>1. CASE r = q  BY <1>6, <2>1
  <2>2. CASE r # q  BY <1>1, <1>2, <1>3, <1>4, <2>2, ScopeFrame
  <2> QED BY <2>1, <2>2
<1> QED BY <1>7 DEF Scoped, JudgedSafe, Listed, JudgedAt, ListedAt

\* Neither the start of a request nor a stutter touches what another has read.
LEMMA ScopedElse ==
    ASSUME TypeOK, Scoped, UNCHANGED <<sr, top>>,
           \A r \in Requests : Rests(r) \/ pc'[r] \in {"validating", "analyzing", "reading", "looking"}
    PROVE  Scoped'
<1>1. ASSUME NEW r \in Requests PROVE JudgedAt(r)' /\ ListedAt(r)'
  <2>1. CASE Rests(r)
    <3>1. JudgedAt(r) /\ ListedAt(r)  BY DEF Scoped, JudgedSafe, Listed, JudgedAt, ListedAt
    <3>2. Unsafe(op[r].job.subject)' <=> Unsafe(op[r].job.subject)
      BY <2>1 DEF Unsafe, Latest, Live, Rests
    <3>3. Pending(r)' = Pending(r)  BY <2>1 DEF Pending, Live, Rests
    <3>4. JudgedAt(r)'  BY <2>1, <3>1, <3>2 DEF JudgedAt, Rests
    <3>5. ListedAt(r)'  BY <2>1, <3>1, <3>3 DEF ListedAt, Rests
    <3> QED BY <3>4, <3>5
  <2>2. CASE pc'[r] \in {"validating", "analyzing", "reading", "looking"}
    BY <2>2 DEF JudgedAt, ListedAt
  <2> QED BY <1>1, <2>1, <2>2
<1> QED BY <1>1 DEF Scoped, JudgedSafe, Listed, JudgedAt, ListedAt

Full == Inv /\ Scoped

LEMMA InitFull == Init => Full
<1>1. Init => Scoped  BY DEF Init, Scoped, JudgedSafe, Listed
<1> QED BY <1>1, InitInv DEF Full

LEMMA NextFull == Full /\ [Next]_vars => Full'
<1> SUFFICES ASSUME Full, [Next]_vars PROVE Full'  OBVIOUS
<1>1. Inv /\ Scoped /\ TypeOK  BY DEF Full, Inv, StoresInv
<1>2. Inv'  BY <1>1, NextInv
<1>3. CASE \E q \in Requests : Works(q)  BY <1>1, <1>2, <1>3, ScopedStep DEF Full
<1>4. ASSUME NEW q \in Requests, NEW job \in Jobs,
             \/ upload_schemas(q, job) \/ analyze_schema_delete(q, job)
             \/ delete_schema(q, job) \/ execute_schema_rollback(q, job)
             \/ update_schema_settings(q, job)
      PROVE  Full'
  <2>1. PICK label \in {"validating", "analyzing", "reading", "looking"} : Start(q, job, label)
    BY <1>4 DEF upload_schemas, analyze_schema_delete, delete_schema,
       execute_schema_rollback, update_schema_settings
  <2>2. UNCHANGED <<sr, top>> /\ pc'[q] = label /\ \A r \in Requests \ {q} : Rests(r)
    BY <1>1, <2>1 DEF Start, Goto, TypeOK, Rests
  <2>3. Scoped'  BY <1>1, <2>2, ScopedElse
  <2> QED BY <1>2, <2>3 DEF Full
<1>5. CASE UNCHANGED vars
  <2>1. UNCHANGED <<sr, top>> /\ \A r \in Requests : Rests(r)  BY <1>5 DEF vars, Rests
  <2>2. Scoped'  BY <1>1, <2>1, ScopedElse
  <2> QED BY <1>2, <2>2 DEF Full
<1> QED BY <1>3, <1>4, <1>5 DEF Next, Works, Finished

LEMMA AlwaysFull == Spec => []Full
BY InitFull, NextFull, PTL DEF Spec

-------------------------------------------------------------------------------
(* The theorems. *)

\* LifecycleInv holds: between requests the database mirrors the registry
\* wherever no call failed and no two requests met, within a request the two
\* differ by what it has still to do, and on every subject what a delete and a
\* rollback have read bounds what they will delete.
THEOREM Invariance == Spec => []LifecycleInv
<1>1. Full => LifecycleInv  BY DEF Full, Inv, Scoped, LifecycleInv
<1> QED BY <1>1, AlwaysFull, PTL

\* UploadedPrefixStored holds: an upload, ended or not, has stored every file
\* behind it where nothing went wrong.
THEOREM PrefixStored == Spec => []UploadedPrefixStored
<1>1. Full => UploadedPrefixStored  BY DEF Full, Inv
<1> QED BY <1>1, AlwaysFull, PTL

\* What a rollback may do to the registry.
StepBack ==
    \A r \in Requests :
      pc[r] = "stepping" /\ op'[r] # op[r] =>
        LET s == op[r].job.subject
            left == DOMAIN sr'[s] IN
        /\ \E d \in Live(s) :
             /\ Live(s) \ left = {d} /\ op[r].job.version < d
             /\ \A v \in left : d < v => op[r].seen < v
        /\ pc'[r] = "trimming" =>
             \A v \in left : op[r].job.version < v => op[r].seen < v

LEMMA StepsAlone ==
    ASSUME Full, [Next]_vars
    PROVE  StepBack
<1> SUFFICES ASSUME NEW r \in Requests, pc[r] = "stepping", op'[r] # op[r],
                    NEW s, s = op[r].job.subject, NEW left, left = DOMAIN sr'[s]
             PROVE  /\ \E d \in Live(s) :
                         /\ Live(s) \ left = {d} /\ op[r].job.version < d
                         /\ \A v \in left : d < v => op[r].seen < v
                    /\ pc'[r] = "trimming" =>
                         \A v \in left : op[r].job.version < v => op[r].seen < v
  BY DEF StepBack
<1>1. TypeOK /\ Staged /\ Inv /\ ListedAt(r)
  BY DEF Full, Inv, StoresInv, Scoped, Listed, ListedAt
<1>2. Running(r)  BY DEF Running
<1>3. op[r].job.kind = "rollback" /\ op[r].job.version \in Nat /\ s \in Subjects
  BY <1>1, <1>2, KindAt, JobTyped
<1>4. PICK q \in Requests : Works(q)
  <2>1. ASSUME NEW q \in Requests, NEW job \in Jobs,
               \/ upload_schemas(q, job) \/ analyze_schema_delete(q, job)
               \/ delete_schema(q, job) \/ execute_schema_rollback(q, job)
               \/ update_schema_settings(q, job)
        PROVE  FALSE
    <3>1. PICK label : Start(q, job, label)
      BY <2>1 DEF upload_schemas, analyze_schema_delete, delete_schema,
         execute_schema_rollback, update_schema_settings
    <3>2. q # r /\ op' = [op EXCEPT ![q].job = job]  BY <3>1 DEF Start
    <3> QED BY <1>1, <3>2 DEF TypeOK
  <2> QED BY <2>1 DEF Next, Works, Finished, vars
<1>5. q = r
  <2>1. PICK t \in Subjects : t = Subject(q)  BY <1>1, <1>4, WorksRuns, SubjectKnown
  <2>2. Good(q, t)  BY <1>1, <1>4, <2>1, AllGood
  <2> QED BY <2>2 DEF Good, Rests
<1>6. delete_version(r)
  <2>1. CASE Upload(r)
    BY <2>1 DEF Upload, _validate_files, register_schema, read_version,
       set_compatibility_mode, save_schema_metadata, record_artifact, file_refused,
       save_upload_result, Step
  <2>2. CASE Delete(r)
    BY <2>2 DEF Delete, analyze, analyze_delete_impact, delete_subject,
       nothing_to_delete, delete_artifact_by_subject, artifacts_kept, Step
  <2>3. CASE Rollback(r)
    BY <2>3 DEF Rollback, get_schema_by_version, version_gone,
       delete_artifacts_newer_than, save_apply_result, Step
  <2>4. CASE Settings(r)  BY <2>4 DEF Settings, describe_subjects, configure, save_settings, Step
  <2>5. CASE Close(r)  BY <2>5 DEF Close, audit_completed, audit_failed, fails, cancelled
  <2> QED BY <1>4, <1>5, <2>1, <2>2, <2>3, <2>4, <2>5 DEF Works
<1> PICK d, todo, seen, target : /\ d = NextVersion(op[r].todo) /\ todo = op[r].todo
                                 /\ seen = op[r].seen /\ target = op[r].job.version
  OBVIOUS
<1>7. d \in Live(s) /\ left = Live(s) \ {d}  BY <1>1, <1>3, <1>6 DEF delete_version, TypeOK, Live
<1>8. /\ todo # {} /\ \A v \in todo : target < v /\ v <= seen
      /\ \A v \in Live(s) : target < v /\ v <= seen => v \in todo
  BY <1>1 DEF ListedAt, Pending
<1>9. todo \in SUBSET (1..MaxVersion) /\ seen \in Nat
  BY <1>1, LifecycleAssumption DEF TypeOK, Op
<1>10. d \in todo /\ \A v \in todo : v <= d  BY <1>8, <1>9, GreatestVersion DEF NextVersion
<1>11. Live(s) \subseteq Nat /\ target \in Nat
  <2>1. Live(s) \subseteq 1..MaxVersion /\ MaxVersion \in Nat  BY <1>1, <1>3, StoresAre
  <2> QED BY <1>3, <2>1
<1>12. ASSUME NEW v \in left, d < v PROVE seen < v
  <2>1. v \in Live(s) /\ v \in Nat /\ d \in Nat /\ target < d  BY <1>7, <1>8, <1>10, <1>11
  <2>2. target < v  BY <1>11, <1>12, <2>1
  <2>3. v \notin todo  BY <1>10, <1>12, <2>1
  <2> QED BY <1>8, <1>9, <2>1, <2>2, <2>3
<1>13. ASSUME pc'[r] = "trimming", NEW v \in left, target < v PROVE seen < v
  <2>1. todo = {d}  BY <1>1, <1>6, <1>13 DEF delete_version, Goto, TypeOK
  <2>2. v \in Live(s) /\ v \in Nat /\ v \notin todo  BY <1>7, <1>11, <1>13, <2>1
  <2> QED BY <1>8, <1>9, <1>13, <2>2
<1> QED BY <1>7, <1>8, <1>10, <1>12, <1>13

\* RollbackStepsBack holds: on any subject, whoever else works on it, a rollback
\* takes the versions it listed away from the newest down, and never its target
\* or an older one.
THEOREM RollbackOrdered == Spec => RollbackStepsBack
<1>1. Full /\ [Next]_vars => StepBack  BY StepsAlone
<1>2. StepBack =>
        \A r \in Requests :
          pc[r] = "stepping" /\ op'[r] # op[r] =>
            LET s == op[r].job.subject
                left == DOMAIN sr'[s] IN
            /\ \E d \in Live(s) :
                 /\ Live(s) \ left = {d} /\ op[r].job.version < d
                 /\ \A v \in left : d < v => op[r].seen < v
            /\ pc'[r] = "trimming" =>
                 \A v \in left : op[r].job.version < v => op[r].seen < v
  BY DEF StepBack
<1> QED BY <1>1, <1>2, AlwaysFull, PTL DEF Spec, RollbackStepsBack

\* UnsafeDeleteHasCause holds: an unsafe subject is erased without force only
\* after a failed description, or when it got a version since it was analysed.
THEOREM EraseHasCause == Spec => UnsafeDeleteHasCause
<1>1. Full => \A r \in Requests : Erases(r) =>
        op[r].blind \/ top[op[r].job.subject] > op[r].seen
  BY DEF Full, Scoped, JudgedSafe, Erases
<1> QED BY <1>1, AlwaysFull, PTL DEF Spec, UnsafeDeleteHasCause
==============================================================================
