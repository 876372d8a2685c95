--------------------------- MODULE CatalogSyncProofs ---------------------------
(***************************************************************************)
(* What CatalogSync promises, for any subjects, versions and number of     *)
(* concurrent tasks.  TasksInv is inductive; every part of it but typing is *)
(* about one subject (Fine), and a step touches the task of one subject    *)
(* and, by a commit or a rollback of the shared session, the rows of all.  *)
(***************************************************************************)
EXTENDS CatalogSync, Extremes, TLAPS

-------------------------------------------------------------------------------
(* Versions and rows. *)

LEMMA Bounds == MaxVersion \in Nat /\ \A v \in Versions : v \in Nat /\ v \in 0..MaxVersion
<1>1. MaxVersion \in Nat  BY SyncAssumption
<1> QED BY <1>1 DEF Versions

LEMMA LatestIs ==
    ASSUME TypeOK, NEW s \in Subjects
    PROVE  /\ Latest(s) \in 0..top[s] /\ top[s] \in 0..MaxVersion /\ top[s] \in Nat
           /\ Latest(s) \in Nat
           /\ \A v \in live[s] : v <= Latest(s) /\ v \in Versions /\ v <= top[s] /\ v \in Nat
           /\ live[s] # {} => Latest(s) \in live[s] /\ Latest(s) \in Versions
           /\ live[s] = {} => Latest(s) = 0
<1>1. MaxVersion \in Nat  BY Bounds
<1>2. /\ live[s] \in SUBSET (1..MaxVersion) /\ live[s] \subseteq 1..top[s]
      /\ top[s] \in 0..MaxVersion /\ top[s] \in Nat
  BY <1>1 DEF TypeOK, Versions
<1>3. CASE live[s] = {}  BY <1>2, <1>3 DEF Latest
<1>4. CASE live[s] # {}
  <2>1. Latest(s) \in live[s] /\ \A v \in live[s] : v <= Latest(s)
    BY <1>1, <1>2, <1>4, MaxIsGreatest DEF Latest
  <2> QED BY <1>2, <1>4, <2>1 DEF Versions
<1> QED BY <1>3, <1>4

LEMMA NewLatest ==
    ASSUME NEW S \in SUBSET Versions, NEW m \in S, \A v \in S : v <= m
    PROVE  Max(S) = m
BY Bounds, MaxIsUnique DEF Versions

\* A commit puts what is pending into the tables.
LEMMA CommittedRows ==
    ASSUME TypeOK, Committed
    PROVE  /\ pending' = {} /\ versions' \subseteq Subjects \X Versions
           /\ catalog' \in [Subjects -> 0..MaxVersion]
           /\ \A s \in Subjects, v \in Versions :
                <<s, v>> \in versions' <=> <<s, v>> \in versions \/ <<"version", s, v>> \in pending
           /\ \A s \in Subjects :
                \/ catalog'[s] = catalog[s] /\ \A v \in Versions : <<"subject", s, v>> \notin pending
                \/ <<"subject", s, catalog'[s]>> \in pending /\ catalog'[s] \in Versions
<1>1. pending \subseteq Rows  BY DEF TypeOK
<1>2. \A x \in pending :
        /\ x[2] \in Subjects /\ x[3] \in Versions /\ x = <<x[1], x[2], x[3]>>
        /\ x[1] \in {"version", "subject"}
  BY <1>1 DEF Rows
<1>3. versions' = versions \cup {<<r[2], r[3]>> : r \in {x \in pending : x[1] = "version"}}
      /\ pending' = {}
  BY DEF Committed
<1>4. versions' \subseteq Subjects \X Versions  BY <1>2, <1>3 DEF TypeOK
<1>5. ASSUME NEW s \in Subjects, NEW v \in Versions
      PROVE  <<s, v>> \in versions' <=> <<s, v>> \in versions \/ <<"version", s, v>> \in pending
  <2>1. ASSUME <<"version", s, v>> \in pending PROVE <<s, v>> \in versions'
    <3>1. PICK x \in pending : x = <<"version", s, v>>  BY <2>1
    <3>2. x[1] = "version" /\ x[2] = s /\ x[3] = v  BY <3>1
    <3> QED BY <1>3, <3>1, <3>2
  <2>2. ASSUME <<s, v>> \in versions', <<s, v>> \notin versions
        PROVE  <<"version", s, v>> \in pending
    <3>1. PICK x \in pending : x[1] = "version" /\ <<x[2], x[3]>> = <<s, v>>  BY <1>3, <2>2
    <3>2. x = <<"version", s, v>>  BY <1>2, <3>1
    <3> QED BY <3>1, <3>2
  <2> QED BY <1>3, <2>1, <2>2
<1>6. ASSUME NEW s \in Subjects
      PROVE  \/ catalog'[s] = catalog[s] /\ \A v \in Versions : <<"subject", s, v>> \notin pending
             \/ <<"subject", s, catalog'[s]>> \in pending /\ catalog'[s] \in Versions
  <2> DEFINE rows == {y \in pending : y[1] = "subject" /\ y[2] = s}
             new  == {x[3] : x \in rows}
  <2>1. catalog'[s] = IF new = {} THEN catalog[s] ELSE CHOOSE v \in new : TRUE
    BY DEF Committed
  <2>2. CASE new = {}
    <3>1. ASSUME NEW v \in Versions, <<"subject", s, v>> \in pending PROVE FALSE
      <4>1. <<"subject", s, v>> \in rows  BY <3>1
      <4>2. <<"subject", s, v>>[3] \in new  BY <4>1
      <4> QED BY <2>2, <4>2
    <3> QED BY <2>1, <2>2, <3>1
  <2>3. CASE new # {}
    <3>1. catalog'[s] \in new  BY <2>1, <2>3
    <3>2. PICK x \in rows : catalog'[s] = x[3]  BY <3>1
    <3> QED BY <1>2, <3>2
  <2> QED BY <2>2, <2>3
<1>7. catalog' \in [Subjects -> 0..MaxVersion]
  <2>1. catalog' = [s \in Subjects |-> catalog'[s]]  BY DEF Committed
  <2>2. \A s \in Subjects : catalog'[s] \in 0..MaxVersion  BY <1>6, Bounds DEF TypeOK
  <2> QED BY <2>1, <2>2
<1> QED BY <1>3, <1>4, <1>5, <1>6, <1>7

\* A rollback loses them.
LEMMA RolledBackRows ==
    ASSUME TypeOK, NEW own \in SUBSET (Subjects \X Versions), RolledBack(own)
    PROVE  /\ pending' = {} /\ lost' \subseteq Subjects \X Versions
           /\ \A s \in Subjects, v \in Versions :
                <<s, v>> \in lost' <=>
                  <<s, v>> \in lost \cup own \/ <<"version", s, v>> \in pending
<1>1. pending \subseteq Rows  BY DEF TypeOK
<1>2. \A x \in pending :
        x[2] \in Subjects /\ x[3] \in Versions /\ x = <<x[1], x[2], x[3]>>
  BY <1>1 DEF Rows
<1>3. lost' = lost \cup {<<r[2], r[3]>> : r \in {x \in pending : x[1] = "version"}} \cup own
      /\ pending' = {}
  BY DEF RolledBack
<1>4. lost' \subseteq Subjects \X Versions  BY <1>2, <1>3 DEF TypeOK
<1>5. ASSUME NEW s \in Subjects, NEW v \in Versions
      PROVE  <<s, v>> \in lost' <=>
               <<s, v>> \in lost \cup own \/ <<"version", s, v>> \in pending
  <2>1. ASSUME <<"version", s, v>> \in pending PROVE <<s, v>> \in lost'
    <3>1. PICK x \in pending : x = <<"version", s, v>>  BY <2>1
    <3>2. x[1] = "version" /\ x[2] = s /\ x[3] = v  BY <3>1
    <3> QED BY <1>3, <3>1, <3>2
  <2>2. ASSUME <<s, v>> \in lost', <<s, v>> \notin lost \cup own
        PROVE  <<"version", s, v>> \in pending
    <3>1. PICK x \in pending : x[1] = "version" /\ <<x[2], x[3]>> = <<s, v>>  BY <1>3, <2>2
    <3>2. x = <<"version", s, v>>  BY <1>2, <3>1
    <3> QED BY <3>1, <3>2
  <2> QED BY <1>3, <2>1, <2>2
<1> QED BY <1>3, <1>4, <1>5

-------------------------------------------------------------------------------
(* The invariant, subject by subject. *)

\* RowsKnown and HolesHaveCause
Stored(s) ==
    /\ catalog[s] <= top[s]
    /\ \A v \in Versions : <<s, v>> \in versions => v <= top[s]
    /\ s \notin shrunk => live[s] = 1..top[s]
    /\ \A v \in live[s] : v <= catalog[s] => <<s, v>> \in versions \cup lost

\* PendingOwned
Owned(s) ==
    /\ pc # "tasks" \/ s \notin listed => task[s] = NoTask
    /\ \A v \in Versions :
         /\ <<"version", s, v>> \in pending => task[s].at = "merged" /\ task[s].v = v
         /\ <<"subject", s, v>> \in pending => task[s].at = "described" /\ task[s].to = v

\* TasksOrdered
Ordered(s) ==
    /\ task[s].at = "started" => task[s].v = catalog[s] + 1
    /\ task[s].at \in Fetched => task[s].to \in 1..top[s] /\ task[s].v \in 1..(task[s].to + 1)
    /\ task[s].at = "merged" => More(s)
    /\ task[s].at = "described" => ~More(s)

\* BehindCovered
Behind(s) ==
    /\ task[s].at \in Fetched \cup {"started"} =>
         \A v \in live[s] : v < task[s].v => Covered(s, v)
    /\ task[s].at = "merged" => Covered(s, task[s].v)

\* QuietTasks
Calm(s) ==
    quiet /\ pc \in {"removing", "tasks"} =>
      /\ s \in listed <=> live[s] # {}
      /\ task[s].at \in Fetched => task[s].to = Latest(s)
      /\ task[s].at = "described" =>
           catalog[s] = Latest(s) \/ <<"subject", s, Latest(s)>> \in pending
      /\ task[s].at = "ended" => Latest(s) <= catalog[s]

Fine(s) == Stored(s) /\ Owned(s) /\ Ordered(s) /\ Behind(s) /\ Calm(s)

LEMMA InvIsFine == TasksInv <=> TypeOK /\ \A s \in Subjects : Fine(s)
<1>1. RowsKnown /\ HolesHaveCause <=> \A s \in Subjects : Stored(s)
  BY DEF RowsKnown, HolesHaveCause, Stored
<1>2. PendingOwned <=> \A s \in Subjects : Owned(s)  BY DEF PendingOwned, Owned
<1>3. TasksOrdered <=> \A s \in Subjects : Ordered(s)  BY DEF TasksOrdered, Ordered
<1>4. BehindCovered <=> \A s \in Subjects : Behind(s)  BY DEF BehindCovered, Behind
<1>5. TypeOK => (QuietTasks <=> \A s \in Subjects : Calm(s))
  BY DEF QuietTasks, Calm, TypeOK
<1> QED BY <1>1, <1>2, <1>3, <1>4, <1>5 DEF TasksInv, Fine

LEMMA FineIsInv == ASSUME TypeOK', \A s \in Subjects : Fine(s)' PROVE TasksInv'
<1>1. RowsKnown' /\ HolesHaveCause'  BY DEF RowsKnown, HolesHaveCause, Fine, Stored
<1>2. PendingOwned'  BY DEF PendingOwned, Fine, Owned
<1>3. TasksOrdered'  BY DEF TasksOrdered, Fine, Ordered
<1>4. BehindCovered'  BY DEF BehindCovered, Fine, Behind
<1>5. QuietTasks'  BY DEF QuietTasks, Fine, Calm, TypeOK
<1> QED BY <1>1, <1>2, <1>3, <1>4, <1>5 DEF TasksInv

LEMMA NoTaskIs == NoTask.at = "waiting" /\ NoTask \in [at : Ats, v : 0..(MaxVersion + 1), to : 0..MaxVersion]
BY Bounds DEF NoTask, Ats

\* Nothing about subject s has changed.
Same(s) ==
    /\ live'[s] = live[s] /\ top'[s] = top[s] /\ catalog'[s] = catalog[s] /\ task'[s] = task[s]
    /\ s \in listed' <=> s \in listed
    /\ s \in shrunk' <=> s \in shrunk
    /\ \A v \in Versions :
         /\ <<s, v>> \in versions' <=> <<s, v>> \in versions
         /\ <<s, v>> \in lost' <=> <<s, v>> \in lost
         /\ <<"version", s, v>> \in pending' <=> <<"version", s, v>> \in pending
         /\ <<"subject", s, v>> \in pending' <=> <<"subject", s, v>> \in pending

LEMMA SameFine ==
    ASSUME TypeOK, NEW s \in Subjects, Fine(s), Same(s), pc' = pc, quiet' => quiet
    PROVE  Fine(s)'
<1>1. Latest(s)' = Latest(s) /\ More(s)' = More(s)  BY DEF Same, Latest, More
<1>2. \A v \in live[s] : v \in Versions  BY DEF TypeOK
<1>3. Stored(s)'  BY <1>2 DEF Fine, Stored, Same
<1>4. Owned(s)'  BY DEF Fine, Owned, Same
<1>5. Ordered(s)'  BY <1>1 DEF Fine, Ordered, Same
<1>6. \A v \in Versions : Covered(s, v)' <=> Covered(s, v)  BY DEF Covered, Same
<1>7. task[s].at = "merged" => task[s].v \in Versions
  <2>1. task[s].at = "merged" => More(s) /\ task[s].to <= top[s]
    BY DEF Fine, Ordered, Fetched
  <2>2. task[s].at = "merged" => Covered(s, task[s].v)  BY DEF Fine, Behind
  <2>3. \A v : <<s, v>> \in versions \cup lost => v \in Versions  BY DEF TypeOK
  <2>4. \A v : <<"version", s, v>> \in pending => v \in Versions  BY DEF TypeOK, Rows
  <2> QED BY <2>2, <2>3, <2>4 DEF Covered
<1>8. Behind(s)'  BY <1>2, <1>6, <1>7 DEF Fine, Behind, Same
<1>9. Calm(s)'
  <2>1. live[s] # {} => Latest(s) \in Versions  BY LatestIs
  <2>2. \A v : <<"subject", s, v>> \in pending => v \in Versions  BY DEF TypeOK, Rows
  <2>3. Latest(s) \in Versions =>
          (<<"subject", s, Latest(s)>> \in pending' <=> <<"subject", s, Latest(s)>> \in pending)
    BY DEF Same
  <2> QED BY <1>1, <2>1, <2>2, <2>3 DEF Fine, Calm, Same
<1> QED BY <1>3, <1>4, <1>5, <1>8, <1>9 DEF Fine

\* A subject whose task has not begun.
LEMMA WaitingFine ==
    ASSUME NEW s \in Subjects, Stored(s)', task'[s] = NoTask,
           \A v \in Versions : <<"version", s, v>> \notin pending' /\ <<"subject", s, v>> \notin pending',
           quiet' /\ pc' \in {"removing", "tasks"} => (s \in listed' <=> live'[s] # {})
    PROVE  Fine(s)'
<1>1. task'[s].at = "waiting"  BY NoTaskIs
<1> QED BY <1>1 DEF Fine, Owned, Ordered, Behind, Calm, Fetched

LEMMA NotPending ==
    ASSUME NEW s \in Subjects, Fine(s), pc # "tasks"
    PROVE  /\ task[s] = NoTask
           /\ \A v \in Versions : <<"version", s, v>> \notin pending /\ <<"subject", s, v>> \notin pending
BY NoTaskIs DEF Fine, Owned

LEMMA InitInv == Init => TasksInv
<1> SUFFICES ASSUME Init PROVE TasksInv  OBVIOUS
<1>1. live \in [Subjects -> SUBSET Versions] /\ \A s \in Subjects : live[s] \in SUBSET (1..MaxVersion)
  BY SyncAssumption DEF Init, Versions
<1>2. ASSUME NEW s \in Subjects
      PROVE  /\ top[s] = Latest(s) /\ Latest(s) \in 0..MaxVersion /\ Latest(s) \in Nat
             /\ live[s] \subseteq 1..Latest(s)
  <2>1. top[s] = Latest(s)  BY DEF Init
  <2>2. CASE live[s] = {}  BY <2>1, <2>2, Bounds DEF Latest
  <2>3. CASE live[s] # {}
    <3>1. Latest(s) \in live[s] /\ \A v \in live[s] : v <= Latest(s)
      BY <1>1, <2>3, Bounds, MaxIsGreatest DEF Latest
    <3> QED BY <1>1, <2>1, <3>1, Bounds
  <2> QED BY <2>2, <2>3
<1>3. TypeOK
  <2>1. top \in [Subjects -> 0..MaxVersion]  BY <1>2 DEF Init
  <2>2. \A s \in Subjects : live[s] \subseteq 1..top[s]  BY <1>2
  <2>3. task \in [Subjects -> [at : Ats, v : 0..(MaxVersion + 1), to : 0..MaxVersion]]
    BY NoTaskIs DEF Init
  <2>4. /\ catalog \in [Subjects -> 0..MaxVersion] /\ changes \in 0..MaxChanges
        /\ observed \in [Subjects -> 0..MaxVersion] /\ \A s \in Subjects : observed[s] <= top[s]
    BY <1>2, SyncAssumption DEF Init
  <2> QED BY <1>1, <2>1, <2>2, <2>3, <2>4 DEF Init, TypeOK
<1>4. ASSUME NEW s \in Subjects PROVE Fine(s)
  <2>1. Stored(s)
    <3>1. catalog[s] = 0 /\ \A v \in live[s] : ~(v <= 0)  BY <1>2 DEF Init
    <3> QED BY <1>2, <3>1 DEF Init, Stored
  <2>2. task[s] = NoTask /\ pc = "idle" /\ pending = {}  BY DEF Init
  <2>3. task[s].at = "waiting"  BY <2>2, NoTaskIs
  <2> QED BY <2>1, <2>2, <2>3 DEF Fine, Owned, Ordered, Behind, Calm, Fetched
<1> QED BY <1>3, <1>4, InvIsFine

-------------------------------------------------------------------------------
(* The rest of the system. *)

LEMMA Registers ==
    ASSUME TasksInv, NEW s \in Subjects, NEW here \in BOOLEAN, Register(s, here)
    PROVE  TasksInv'
<1>1. TypeOK /\ \A t \in Subjects : Fine(t)  BY InvIsFine
<1> PICK n : n = top[s] + 1  OBVIOUS
<1>2. top[s] \in Nat /\ n \in 1..MaxVersion /\ n \in Nat /\ n \in Versions
  <2>1. top[s] \in Nat /\ top[s] < MaxVersion  BY <1>1, LatestIs DEF Register
  <2> QED BY <2>1, Bounds DEF Versions
<1>3. live' = [live EXCEPT ![s] = live[s] \cup {n}] /\ top' = [top EXCEPT ![s] = n]
      /\ UNCHANGED <<observed, catalog, versions, pc, infos, listed, task, pending, lost, shrunk>>
      /\ quiet' = FALSE
  BY <1>1 DEF Register, TypeOK
<1>4. live'[s] = live[s] \cup {n} /\ top'[s] = n
      /\ \A t \in Subjects : t # s => live'[t] = live[t] /\ top'[t] = top[t]
  BY <1>1, <1>3 DEF TypeOK
<1>5. TypeOK'
  <2>1. live' \in [Subjects -> SUBSET Versions] /\ top' \in [Subjects -> 0..MaxVersion]
    BY <1>1, <1>2, <1>3, Bounds DEF TypeOK
  <2>2. \A t \in Subjects : live'[t] \subseteq 1..top'[t]
    <3>1. \A v \in live[s] : v \in 1..n  BY <1>1, <1>2, LatestIs DEF Versions
    <3> QED BY <1>1, <1>2, <1>4, <3>1 DEF TypeOK
  <2>3. /\ artifacts' \subseteq Subjects \X Versions /\ meta' \subseteq Subjects
        /\ recorded' \subseteq Subjects \X Versions /\ late' \subseteq Subjects \X Versions
    BY <1>1, <1>2 DEF Register, TypeOK
  <2>4. changes' \in 0..MaxChanges  BY <1>1, SyncAssumption DEF Register, Changed, TypeOK
  <2>5. \A t \in Subjects : observed'[t] <= top'[t]
    <3>1. observed[s] \in Nat /\ observed[s] <= n  BY <1>1, <1>2, Bounds DEF TypeOK
    <3> QED BY <1>1, <1>3, <1>4, <3>1 DEF TypeOK
  <2> QED BY <1>1, <1>3, <2>1, <2>2, <2>3, <2>4, <2>5 DEF TypeOK
<1>6. ASSUME NEW t \in Subjects, t # s PROVE Fine(t)'
  BY <1>1, <1>3, <1>4, <1>6, SameFine DEF Same
<1>7. Fine(s)'
  <2>1. Stored(s) /\ Owned(s) /\ Ordered(s) /\ Behind(s)  BY <1>1 DEF Fine
  <2>2. catalog[s] \in Nat /\ task[s].v \in Nat /\ task[s].to \in Nat
    BY <1>1, Bounds DEF TypeOK
  <2>3. Stored(s)'
    <3>1. catalog[s] <= n /\ ~(n <= catalog[s])  BY <1>2, <2>1, <2>2 DEF Stored
    <3>2. \A v \in Versions : <<s, v>> \in versions => v <= n
      BY <1>2, <2>1, Bounds DEF Stored
    <3>3. s \notin shrunk => live'[s] = 1..n  BY <1>2, <1>4, <2>1 DEF Stored
    <3> QED BY <1>3, <1>4, <2>1, <3>1, <3>2, <3>3 DEF Stored
  <2>4. Owned(s)'  BY <1>3, <2>1 DEF Owned
  <2>5. Ordered(s)'  BY <1>2, <1>3, <1>4, <2>1, <2>2 DEF Ordered, More
  <2>6. Behind(s)'
    <3>1. task[s].at \in Fetched \cup {"started"} => ~(n < task[s].v)
      BY <1>2, <2>1, <2>2 DEF Ordered, Stored
    <3> QED BY <1>3, <1>4, <2>1, <3>1 DEF Behind, Covered
  <2> QED BY <1>3, <2>3, <2>4, <2>5, <2>6 DEF Fine, Calm
<1>8. \A t \in Subjects : Fine(t)'  BY <1>6, <1>7
<1> QED BY <1>5, <1>8, FineIsInv

LEMMA Shrinks ==
    ASSUME TasksInv, NEW s \in Subjects, NEW to \in Nat, NEW here \in BOOLEAN,
           DeleteVersions(s, to, here)
    PROVE  TasksInv'
<1>1. TypeOK /\ \A t \in Subjects : Fine(t)  BY InvIsFine
<1>2. /\ UNCHANGED <<top, observed, catalog, versions, recorded, late>>
      /\ UNCHANGED <<pc, infos, listed, task, pending, lost>>
      /\ live' = [live EXCEPT ![s] = {v \in live[s] : v <= to}]
      /\ quiet' = FALSE /\ shrunk' = shrunk \cup {s}
  BY <1>1 DEF DeleteVersions, TypeOK
<1>3. live'[s] \subseteq live[s] /\ \A t \in Subjects : t # s => live'[t] = live[t]
  BY <1>1, <1>2 DEF TypeOK
<1>4. TypeOK'
  <2>1. live' \in [Subjects -> SUBSET Versions] /\ \A t \in Subjects : live'[t] \subseteq 1..top[t]
    BY <1>1, <1>2, <1>3 DEF TypeOK
  <2>2. changes' \in 0..MaxChanges  BY <1>1, SyncAssumption DEF DeleteVersions, Changed, TypeOK
  <2>3. artifacts' \subseteq artifacts /\ meta' \subseteq meta  BY DEF DeleteVersions
  <2> QED BY <1>1, <1>2, <2>1, <2>2, <2>3 DEF TypeOK
<1>5. ASSUME NEW t \in Subjects, t # s PROVE Fine(t)'
  BY <1>1, <1>2, <1>3, <1>5, SameFine DEF Same
<1>6. Fine(s)'
  <2>1. Stored(s) /\ Owned(s) /\ Ordered(s) /\ Behind(s)  BY <1>1 DEF Fine
  <2>2. Stored(s)'  BY <1>2, <1>3, <2>1 DEF Stored
  <2>3. Owned(s)' /\ Ordered(s)'  BY <1>2, <2>1 DEF Owned, Ordered, More
  <2>4. Behind(s)'  BY <1>2, <1>3, <2>1 DEF Behind, Covered
  <2> QED BY <1>2, <2>2, <2>3, <2>4 DEF Fine, Calm
<1>7. \A t \in Subjects : Fine(t)'  BY <1>5, <1>6
<1> QED BY <1>4, <1>7, FineIsInv

LEMMA Observes ==
    ASSUME TasksInv, NEW s \in Subjects, NEW v \in live[s], Observe(s, v) PROVE TasksInv'
<1>1. TypeOK /\ \A t \in Subjects : Fine(t)  BY InvIsFine
<1>2. /\ observed' = [observed EXCEPT ![s] = v]
      /\ UNCHANGED <<live, top, tables, pc, infos, listed, task, pending, lost, quiet, shrunk>>
  BY DEF Observe
<1>3. TypeOK'
  <2>1. changes' \in 0..MaxChanges  BY <1>1, SyncAssumption DEF Observe, Changed, TypeOK
  <2>2. v <= top[s] /\ v \in 0..MaxVersion  BY <1>1, LatestIs, Bounds
  <2>3. observed' \in [Subjects -> 0..MaxVersion] /\ \A t \in Subjects : observed'[t] <= top[t]
    BY <1>1, <1>2, <2>2 DEF TypeOK
  <2> QED BY <1>1, <1>2, <2>1, <2>3 DEF TypeOK, tables, records
<1>4. ASSUME NEW t \in Subjects PROVE Fine(t)'
  BY <1>1, <1>2, SameFine DEF Same, tables
<1> QED BY <1>3, <1>4, FineIsInv

-------------------------------------------------------------------------------
(* The request, before the tasks start: no task has begun, nothing is pending. *)

LEMMA IdleFine ==
    ASSUME NEW s \in Subjects, Fine(s), pc # "tasks", task' = task, pending' = pending, Stored(s)',
           quiet' /\ pc' \in {"removing", "tasks"} => (s \in listed' <=> live'[s] # {})
    PROVE  Fine(s)'
BY NotPending, WaitingFine

LEMMA StoredSame ==
    ASSUME NEW s \in Subjects, Stored(s),
           UNCHANGED <<live, top, catalog, versions, lost, shrunk>>
    PROVE  Stored(s)'
BY DEF Stored

LEMMA Records ==
    ASSUME TasksInv,
           \/ \E seen \in SUBSET Subjects : execute(seen)
           \/ \E i \in infos : record_skipped(i) \/ \E both \in BOOLEAN : record_synced(i, both)
           \/ get_subjects \/ listing_fails \/ removal_fails
    PROVE  TasksInv'
<1>1. TypeOK /\ \A t \in Subjects : Fine(t)  BY InvIsFine
<1>2. /\ pc # "tasks" /\ UNCHANGED <<live, top, observed, changes, catalog, versions, lost, shrunk, task, pending>>
      /\ pc' \in {"idle", "recording", "removing"}
      /\ pc' = "removing" => listed' = {s \in Subjects : live[s] # {}}
      /\ listed' \subseteq Subjects
  BY <1>1 DEF execute, record_skipped, record_synced, get_subjects, listing_fails, removal_fails,
              registry, tables, records, TypeOK
<1>3. infos' \subseteq Subjects \X Versions
  <2>1. \A s \in Subjects : live[s] # {} => Latest(s) \in Versions  BY <1>1, LatestIs
  <2>2. ASSUME NEW seen \in SUBSET Subjects, execute(seen) PROVE infos' \subseteq Subjects \X Versions
    BY <2>1, <2>2 DEF execute
  <2> QED BY <1>1, <2>2 DEF record_skipped, record_synced, get_subjects, listing_fails,
                            removal_fails, TypeOK
<1>4. /\ artifacts' \subseteq Subjects \X Versions /\ meta' \subseteq Subjects /\ quiet' \in BOOLEAN
      /\ recorded' \subseteq Subjects \X Versions /\ late' \subseteq Subjects \X Versions
  <2>1. \A i \in infos : i \in Subjects \X Versions /\ i[1] \in Subjects  BY <1>1 DEF TypeOK
  <2>2. /\ artifacts \subseteq Subjects \X Versions /\ meta \subseteq Subjects /\ quiet \in BOOLEAN
        /\ recorded \subseteq Subjects \X Versions /\ late \subseteq Subjects \X Versions
    BY <1>1 DEF TypeOK
  <2>3. ASSUME NEW i \in infos, NEW both \in BOOLEAN, record_synced(i, both)
        PROVE  /\ artifacts' \subseteq Subjects \X Versions /\ meta' \subseteq Subjects
               /\ recorded' \subseteq Subjects \X Versions /\ late' \subseteq Subjects \X Versions
               /\ quiet' \in BOOLEAN
    BY <2>1, <2>2, <2>3 DEF record_synced
  <2> QED BY <2>2, <2>3 DEF execute, record_skipped, get_subjects, listing_fails, removal_fails,
                            tables, records
<1>5. TypeOK'  BY <1>1, <1>2, <1>3, <1>4 DEF TypeOK
<1>6. ASSUME NEW t \in Subjects PROVE Fine(t)'
  <2>1. Stored(t)'  BY <1>1, <1>2, StoredSame DEF Fine
  <2>2. pc' \in {"removing", "tasks"} => (t \in listed' <=> live'[t] # {})  BY <1>2
  <2> QED BY <1>1, <1>2, <2>1, <2>2, IdleFine
<1> QED BY <1>5, <1>6, FineIsInv

LEMMA Removes == ASSUME TasksInv, remove_stale PROVE TasksInv'
<1>1. TypeOK /\ \A t \in Subjects : Fine(t)  BY InvIsFine
<1> PICK stale : stale = stale_subjects  OBVIOUS
<1>2. /\ pc = "removing" /\ pc' = "tasks"
      /\ UNCHANGED <<live, top, observed, changes, recorded, late, infos, listed, task, pending, quiet, shrunk>>
      /\ versions' = {x \in versions : x[1] \notin stale}
      /\ artifacts' = {x \in artifacts : x[1] \notin stale}
      /\ meta' = meta \ stale
      /\ catalog' = [s \in Subjects |-> IF s \in stale THEN 0 ELSE catalog[s]]
      /\ lost' = {x \in lost : x[1] \notin stale}
  BY DEF remove_stale, registry
<1>3. TypeOK'
  <2>1. catalog' \in [Subjects -> 0..MaxVersion]  BY <1>1, <1>2, Bounds DEF TypeOK
  <2> QED BY <1>1, <1>2, <2>1 DEF TypeOK
<1>4. ASSUME NEW t \in Subjects PROVE Fine(t)'
  <2>1. Stored(t)  BY <1>1 DEF Fine
  <2>2. Stored(t)'
    <3>1. \A v : <<t, v>>[1] = t  OBVIOUS
    <3>2. CASE t \in stale
      <4>1. catalog'[t] = 0 /\ \A v \in live[t] : ~(v <= 0)
        BY <1>1, <1>2, <3>2, Bounds DEF TypeOK, Versions
      <4>2. 0 <= top[t]  BY <1>1, LatestIs
      <4> QED BY <1>2, <2>1, <4>1, <4>2 DEF Stored
    <3>3. CASE t \notin stale
      <4>1. \A v : <<t, v>> \in versions' \cup lost' <=> <<t, v>> \in versions \cup lost
        BY <1>2, <3>1, <3>3
      <4> QED BY <1>2, <2>1, <3>3, <4>1 DEF Stored
    <3> QED BY <3>2, <3>3
  <2>3. quiet => (t \in listed <=> live[t] # {})  BY <1>1, <1>2 DEF Fine, Calm
  <2> QED BY <1>1, <1>2, <2>2, <2>3, IdleFine
<1> QED BY <1>3, <1>4, FineIsInv

-------------------------------------------------------------------------------
(* The tasks. *)

TaskState == [at : Ats, v : 0..(MaxVersion + 1), to : 0..MaxVersion]

\* What a task knows in the middle of its loop.
LEMMA InLoop ==
    ASSUME TypeOK, NEW s \in Subjects, Fine(s)
    PROVE  /\ task[s] \in TaskState /\ task[s].v \in Nat /\ task[s].to \in Nat
           /\ catalog[s] \in Nat /\ top[s] \in Nat /\ top[s] <= MaxVersion
           /\ task[s].at \in Fetched =>
                /\ task[s].to \in Versions /\ task[s].to <= top[s]
                /\ task[s].v <= task[s].to + 1 /\ 1 <= task[s].v
                /\ More(s) => task[s].v \in Versions
<1>1. task[s] \in TaskState /\ catalog[s] \in 0..MaxVersion  BY DEF TypeOK, TaskState
<1>2. task[s].v \in Nat /\ task[s].to \in Nat /\ catalog[s] \in Nat
  BY <1>1, Bounds DEF TaskState
<1>3. top[s] \in Nat /\ top[s] <= MaxVersion  BY LatestIs, Bounds
<1>4. task[s].at \in Fetched => task[s].to \in 1..top[s] /\ task[s].v \in 1..(task[s].to + 1)
  BY DEF Fine, Ordered
<1> QED BY <1>1, <1>2, <1>3, <1>4, Bounds DEF More, Versions

\* A step of one task leaves the other subjects alone.
LEMMA OthersFine ==
    ASSUME TasksInv, NEW s \in Subjects, NEW t, NEW new \in SUBSET ({"version", "subject"} \X {s} \X Versions),
           task' = [task EXCEPT ![s] = t], pending' = pending \cup new, pc' = pc, quiet' => quiet,
           UNCHANGED <<live, top, catalog, versions, listed, lost, shrunk>>
    PROVE  \A u \in Subjects \ {s} : Fine(u)'
<1>1. TypeOK /\ \A u \in Subjects : Fine(u)  BY InvIsFine
<1>2. ASSUME NEW u \in Subjects \ {s} PROVE Fine(u)'
  <2>1. task'[u] = task[u]  BY <1>1 DEF TypeOK
  <2>2. \A x, v : <<x, u, v>> \notin new  OBVIOUS
  <2>3. Same(u)  BY <2>1, <2>2 DEF Same
  <2> QED BY <1>1, <2>3, SameFine
<1> QED BY <1>2

\* The types of a step of one task.
LEMMA TaskTyped ==
    ASSUME TypeOK, NEW s \in Subjects, NEW t \in TaskState, task' = [task EXCEPT ![s] = t],
           pending' \subseteq Rows, quiet' \in BOOLEAN, pc' = pc,
           versions' \subseteq Subjects \X Versions, lost' \subseteq Subjects \X Versions,
           catalog' \in [Subjects -> 0..MaxVersion],
           UNCHANGED <<registry, records, infos, listed, shrunk>>
    PROVE  TypeOK' /\ task'[s] = t
BY DEF TypeOK, TaskState, registry, records

LEMMA Ended ==
    ASSUME TypeOK, NEW s \in Subjects, EndTask(s)
    PROVE  \E t \in TaskState : task' = [task EXCEPT ![s] = t] /\ t.at = "ended"
<1>1. task[s] \in TaskState  BY DEF TypeOK, TaskState
<1>2. [task[s] EXCEPT !.at = "ended"] \in TaskState  BY <1>1 DEF TaskState, Ats
<1>3. [task[s] EXCEPT !.at = "ended"].at = "ended"  BY <1>1 DEF TaskState
<1> QED BY <1>2, <1>3 DEF EndTask, Move

LEMMA EndedFine ==
    ASSUME NEW s \in Subjects, Stored(s)', pc' = "tasks", s \in listed', task'[s].at = "ended",
           \A v \in Versions : <<"version", s, v>> \notin pending' /\ <<"subject", s, v>> \notin pending',
           quiet' => (s \in listed' <=> live'[s] # {}) /\ Latest(s)' <= catalog'[s]
    PROVE  Fine(s)'
BY DEF Fine, Owned, Ordered, Behind, Calm, Fetched

LEMMA ReadsCurrent == ASSUME TasksInv, NEW s \in Subjects, read_current(s) PROVE TasksInv'
<1>1. TypeOK /\ \A u \in Subjects : Fine(u)  BY InvIsFine
<1> PICK t : t = [at |-> "started", v |-> catalog[s] + 1, to |-> 0]  OBVIOUS
<1>2. /\ pc = "tasks" /\ s \in listed /\ task[s].at = "waiting"
      /\ task' = [task EXCEPT ![s] = t]
      /\ UNCHANGED <<registry, tables, pc, infos, listed, pending, lost, quiet, shrunk>>
  BY DEF read_current, At, Move, FirstVersion
<1>3. t \in TaskState /\ t.at = "started" /\ t.v = catalog[s] + 1
  <2>1. catalog[s] \in 0..MaxVersion  BY <1>1 DEF TypeOK
  <2> QED BY <2>1, Bounds DEF TaskState, Ats
<1>4. TypeOK' /\ task'[s] = t
  BY <1>1, <1>2, <1>3, TaskTyped DEF TypeOK, tables
<1>5. \A u \in Subjects \ {s} : Fine(u)'
  <2>1. pending' = pending \cup {}  BY <1>2
  <2> QED BY <1>2, <2>1, OthersFine DEF registry, tables
<1>6. Fine(s)'
  <2>1. Stored(s) /\ Owned(s) /\ Calm(s)  BY <1>1 DEF Fine
  <2>2. \A v \in live[s] : v < catalog[s] + 1 => v <= catalog[s]
    BY <1>1, InLoop, LatestIs
  <2>3. Stored(s)'  BY <1>2, <2>1, StoredSame DEF registry, tables
  <2>4. Owned(s)'  BY <1>2, <2>1 DEF Owned
  <2>5. Ordered(s)'  BY <1>2, <1>3, <1>4 DEF Ordered, Fetched, tables
  <2>6. Behind(s)'
    BY <1>2, <1>3, <1>4, <2>1, <2>2 DEF Behind, Stored, Covered, Fetched, registry, tables
  <2>7. Calm(s)'  BY <1>2, <1>3, <1>4, <2>1 DEF Calm, Fetched, registry
  <2> QED BY <2>3, <2>4, <2>5, <2>6, <2>7 DEF Fine
<1> QED BY <1>4, <1>5, <1>6, FineIsInv

LEMMA ReadsLatest ==
    ASSUME TasksInv, NEW s \in Subjects, _get_latest_version_with_retry(s) PROVE TasksInv'
<1>1. TypeOK /\ \A u \in Subjects : Fine(u)  BY InvIsFine
<1>2. /\ pc = "tasks" /\ s \in listed /\ task[s].at = "started" /\ live[s] # {}
      /\ UNCHANGED <<registry, tables, pc, infos, listed, pending, lost, quiet, shrunk>>
  BY DEF _get_latest_version_with_retry, At
<1>3. pending' = pending \cup {}  BY <1>2
<1>4. /\ Latest(s) \in Nat /\ Latest(s) \in Versions /\ Latest(s) <= top[s] /\ Latest(s) \in 1..top[s]
      /\ Latest(s)' = Latest(s)
  <2>1. Latest(s) \in live[s] /\ Latest(s) \in Nat /\ top[s] \in Nat
    BY <1>1, <1>2, LatestIs
  <2>2. Latest(s) \in Versions /\ Latest(s) <= top[s]  BY <1>1, <2>1, LatestIs
  <2> QED BY <1>2, <2>1, <2>2 DEF Versions, Latest, registry
<1>5. task[s].v = catalog[s] + 1 /\ task[s].v \in Nat /\ catalog[s] \in Nat
  BY <1>1, <1>2, InLoop DEF Fine, Ordered
<1>6. Stored(s)'  BY <1>1, <1>2, StoredSame DEF Fine, registry, tables
<1>7. \A v \in Versions : <<"version", s, v>> \notin pending' /\ <<"subject", s, v>> \notin pending'
  BY <1>1, <1>2 DEF Fine, Owned
<1>8. CASE UpToDate(s)
  <2>1. EndTask(s)  BY <1>8 DEF _get_latest_version_with_retry
  <2>2. PICK t \in TaskState : task' = [task EXCEPT ![s] = t] /\ t.at = "ended"
    BY <1>1, <2>1, Ended
  <2>3. TypeOK' /\ task'[s] = t  BY <1>1, <1>2, <2>2, TaskTyped DEF TypeOK, tables
  <2>4. \A u \in Subjects \ {s} : Fine(u)'
    BY <1>2, <1>3, <2>2, OthersFine DEF registry, tables
  <2>5. quiet' => (s \in listed' <=> live'[s] # {})
    BY <1>1, <1>2 DEF Fine, Calm, registry
  <2>6. Latest(s)' <= catalog'[s]  BY <1>2, <1>4, <1>5, <1>8 DEF UpToDate, tables
  <2>7. Fine(s)'  BY <1>2, <1>6, <1>7, <2>2, <2>3, <2>5, <2>6, EndedFine
  <2> QED BY <2>3, <2>4, <2>7, FineIsInv
<1>9. CASE ~UpToDate(s)
  <2> PICK t : t = [task[s] EXCEPT !.at = "fetching", !.to = Latest(s)]  OBVIOUS
  <2>1. task' = [task EXCEPT ![s] = t]  BY <1>9 DEF _get_latest_version_with_retry, Move
  <2>2. t \in TaskState /\ t.at = "fetching" /\ t.v = task[s].v /\ t.to = Latest(s)
    <3>1. task[s] \in TaskState /\ Latest(s) \in 0..MaxVersion  BY <1>1, <1>4, InLoop, Bounds
    <3> QED BY <3>1 DEF TaskState, Ats
  <2>3. TypeOK' /\ task'[s] = t  BY <1>1, <1>2, <2>1, <2>2, TaskTyped DEF TypeOK, tables
  <2>4. \A u \in Subjects \ {s} : Fine(u)'
    BY <1>2, <1>3, <2>1, OthersFine DEF registry, tables
  <2>5. Owned(s)'  BY <1>2, <1>7 DEF Owned
  <2>6. Ordered(s)'
    <3>1. t.v \in 1..(t.to + 1)  BY <1>4, <1>5, <1>9, <2>2 DEF UpToDate
    <3> QED BY <1>2, <1>4, <2>2, <2>3, <3>1 DEF Ordered, Fetched, registry
  <2>7. Behind(s)'
    BY <1>1, <1>2, <2>2, <2>3 DEF Fine, Behind, Covered, Fetched, registry, tables
  <2>8. Calm(s)'  BY <1>1, <1>2, <1>4, <2>2, <2>3 DEF Fine, Calm, Fetched, registry
  <2>9. Fine(s)'  BY <1>6, <2>5, <2>6, <2>7, <2>8 DEF Fine
  <2> QED BY <2>3, <2>4, <2>9, FineIsInv
<1> QED BY <1>8, <1>9

LEMMA Fails == ASSUME TasksInv, NEW s \in Subjects, subject_fails(s) PROVE TasksInv'
<1>1. TypeOK /\ \A u \in Subjects : Fine(u)  BY InvIsFine
<1>2. /\ pc = "tasks" /\ s \in listed /\ task[s].at \in {"waiting", "started"} /\ EndTask(s)
      /\ UNCHANGED <<registry, tables, pc, infos, listed, pending, lost, shrunk>> /\ quiet' = FALSE
  BY DEF subject_fails
<1>3. PICK t \in TaskState : task' = [task EXCEPT ![s] = t] /\ t.at = "ended"
  BY <1>1, <1>2, Ended
<1>4. TypeOK' /\ task'[s] = t  BY <1>1, <1>2, <1>3, TaskTyped DEF TypeOK, tables
<1>5. \A u \in Subjects \ {s} : Fine(u)'
  <2>1. pending' = pending \cup {}  BY <1>2
  <2> QED BY <1>2, <1>3, <2>1, OthersFine DEF registry, tables
<1>6. Fine(s)'
  <2>1. Stored(s)'  BY <1>1, <1>2, StoredSame DEF Fine, registry, tables
  <2>2. \A v \in Versions : <<"version", s, v>> \notin pending' /\ <<"subject", s, v>> \notin pending'
    BY <1>1, <1>2 DEF Fine, Owned
  <2> QED BY <1>2, <1>3, <1>4, <2>1, <2>2, EndedFine
<1> QED BY <1>4, <1>5, <1>6, FineIsInv

LEMMA MergesVersion == ASSUME TasksInv, NEW s \in Subjects, merge_version(s) PROVE TasksInv'
<1>1. TypeOK /\ \A u \in Subjects : Fine(u)  BY InvIsFine
<1> PICK t : t = [task[s] EXCEPT !.at = "merged"]  OBVIOUS
<1> PICK new : new = {<<"version", s, task[s].v>>}  OBVIOUS
<1>2. /\ pc = "tasks" /\ s \in listed /\ task[s].at = "fetching" /\ More(s)
      /\ task' = [task EXCEPT ![s] = t] /\ pending' = pending \cup new
      /\ UNCHANGED <<registry, tables, pc, infos, listed, lost, quiet, shrunk>>
  BY DEF merge_version, At, Move
<1>3. task[s].v \in Versions /\ task[s] \in TaskState
  BY <1>1, <1>2, InLoop DEF Fetched
<1>4. t \in TaskState /\ t.at = "merged" /\ t.v = task[s].v /\ t.to = task[s].to
  BY <1>3 DEF TaskState, Ats
<1>5. new \in SUBSET ({"version", "subject"} \X {s} \X Versions) /\ new \subseteq Rows
  BY <1>3 DEF Rows
<1>6. TypeOK' /\ task'[s] = t
  <2>1. pending' \subseteq Rows  BY <1>1, <1>2, <1>5 DEF TypeOK
  <2> QED BY <1>1, <1>2, <1>4, <2>1, TaskTyped DEF TypeOK, tables
<1>7. \A u \in Subjects \ {s} : Fine(u)'  BY <1>2, <1>5, OthersFine DEF registry, tables
<1>8. Fine(s)'
  <2>1. Stored(s)'  BY <1>1, <1>2, StoredSame DEF Fine, registry, tables
  <2>2. \A v \in Versions : <<"version", s, v>> \notin pending /\ <<"subject", s, v>> \notin pending
    BY <1>1, <1>2 DEF Fine, Owned
  <2>3. Owned(s)'  BY <1>2, <1>4, <1>6, <2>2 DEF Owned
  <2>4. Ordered(s)'  BY <1>1, <1>2, <1>4, <1>6 DEF Fine, Ordered, Fetched, More, registry
  <2>5. Behind(s)'
    <3>1. <<"version", s, t.v>> \in pending'  BY <1>2, <1>4
    <3> QED BY <1>1, <1>2, <1>4, <1>6, <3>1 DEF Fine, Behind, Covered, Fetched, registry, tables
  <2>6. Calm(s)'
    <3>1. Latest(s)' = Latest(s)  BY <1>2 DEF Latest, registry
    <3> QED BY <1>1, <1>2, <1>4, <1>6, <3>1 DEF Fine, Calm, Fetched, registry
  <2> QED BY <2>1, <2>3, <2>4, <2>5, <2>6 DEF Fine
<1> QED BY <1>6, <1>7, <1>8, FineIsInv

LEMMA MergesSubject == ASSUME TasksInv, NEW s \in Subjects, merge_subject(s) PROVE TasksInv'
<1>1. TypeOK /\ \A u \in Subjects : Fine(u)  BY InvIsFine
<1> PICK t : t = [task[s] EXCEPT !.at = "described"]  OBVIOUS
<1> PICK new : new = {<<"subject", s, task[s].to>>}  OBVIOUS
<1>2. /\ pc = "tasks" /\ s \in listed /\ task[s].at = "fetching" /\ ~More(s)
      /\ task' = [task EXCEPT ![s] = t] /\ pending' = pending \cup new
      /\ UNCHANGED <<registry, tables, pc, infos, listed, lost, quiet, shrunk>>
  BY DEF merge_subject, At, Move
<1>3. task[s].to \in Versions /\ task[s] \in TaskState
  BY <1>1, <1>2, InLoop DEF Fetched
<1>4. t \in TaskState /\ t.at = "described" /\ t.v = task[s].v /\ t.to = task[s].to
  BY <1>3 DEF TaskState, Ats
<1>5. new \in SUBSET ({"version", "subject"} \X {s} \X Versions) /\ new \subseteq Rows
  BY <1>3 DEF Rows
<1>6. TypeOK' /\ task'[s] = t
  <2>1. pending' \subseteq Rows  BY <1>1, <1>2, <1>5 DEF TypeOK
  <2> QED BY <1>1, <1>2, <1>4, <2>1, TaskTyped DEF TypeOK, tables
<1>7. \A u \in Subjects \ {s} : Fine(u)'  BY <1>2, <1>5, OthersFine DEF registry, tables
<1>8. Fine(s)'
  <2>1. Stored(s)'  BY <1>1, <1>2, StoredSame DEF Fine, registry, tables
  <2>2. \A v \in Versions : <<"version", s, v>> \notin pending /\ <<"subject", s, v>> \notin pending
    BY <1>1, <1>2 DEF Fine, Owned
  <2>3. Owned(s)'  BY <1>2, <1>4, <1>6, <2>2 DEF Owned
  <2>4. Ordered(s)'  BY <1>1, <1>2, <1>4, <1>6 DEF Fine, Ordered, Fetched, More, registry
  <2>5. Behind(s)'
    BY <1>1, <1>2, <1>4, <1>6 DEF Fine, Behind, Covered, Fetched, registry, tables
  <2>6. Calm(s)'
    <3>1. Latest(s)' = Latest(s)  BY <1>2 DEF Latest, registry
    <3>2. <<"subject", s, t.to>> \in pending'  BY <1>2, <1>4
    <3> QED BY <1>1, <1>2, <1>4, <1>6, <3>1, <3>2 DEF Fine, Calm, Fetched, registry
  <2> QED BY <2>1, <2>3, <2>4, <2>5, <2>6 DEF Fine
<1> QED BY <1>6, <1>7, <1>8, FineIsInv

-------------------------------------------------------------------------------
(* A commit, by whichever task, writes the rows of every task: each subject  *)
(* keeps no row in the session, its catalog row moves only to the version    *)
(* its own task has read, and by then everything up to it is covered.        *)

LEMMA CommittedFor ==
    ASSUME TypeOK, NEW s \in Subjects, Fine(s), Committed, UNCHANGED <<live, top, lost, shrunk>>
    PROVE  /\ Stored(s)'
           /\ \A v \in Versions : <<"version", s, v>> \notin pending' /\ <<"subject", s, v>> \notin pending'
           /\ task[s].at # "described" => catalog'[s] = catalog[s]
           /\ quiet /\ pc = "tasks" /\ task[s].at = "described" => catalog'[s] = Latest(s)
           /\ \A v \in Versions : Covered(s, v) => <<s, v>> \in versions' \cup lost'
<1>1. /\ pending' = {}
      /\ \A v \in Versions :
           <<s, v>> \in versions' <=> <<s, v>> \in versions \/ <<"version", s, v>> \in pending
      /\ \/ catalog'[s] = catalog[s] /\ \A v \in Versions : <<"subject", s, v>> \notin pending
         \/ <<"subject", s, catalog'[s]>> \in pending /\ catalog'[s] \in Versions
  BY CommittedRows
<1>2. Stored(s) /\ Owned(s) /\ Ordered(s) /\ Behind(s) /\ Calm(s)  BY DEF Fine
<1>3. \A v \in Versions : Covered(s, v) => <<s, v>> \in versions' \cup lost'
  BY <1>1 DEF Covered
<1>4. \/ catalog'[s] = catalog[s] /\ \A v \in Versions : <<"subject", s, v>> \notin pending
      \/ catalog'[s] = task[s].to /\ task[s].at = "described"
  BY <1>1, <1>2 DEF Owned
<1>5. /\ task[s].v \in Nat /\ task[s].to \in Nat /\ catalog[s] \in Nat /\ top[s] \in Nat
      /\ task[s].at \in Fetched => task[s].to <= top[s]
  BY InLoop
<1>6. \A v \in live[s] : v \in Versions /\ v \in Nat  BY LatestIs
<1>7. Stored(s)'
  <2>1. catalog'[s] <= top[s]  BY <1>2, <1>4, <1>5 DEF Stored, Fetched
  <2>2. ASSUME NEW v \in Versions, <<s, v>> \in versions' PROVE v <= top[s]
    <3>1. CASE <<s, v>> \in versions  BY <1>2, <3>1 DEF Stored
    <3>2. CASE <<"version", s, v>> \in pending
      <4>1. task[s].at = "merged" /\ task[s].v = v  BY <1>2, <3>2 DEF Owned
      <4>2. v <= task[s].to /\ task[s].to <= top[s]  BY <1>2, <1>5, <4>1 DEF Ordered, More, Fetched
      <4>3. v \in Nat  BY Bounds
      <4> QED BY <1>5, <4>2, <4>3
    <3> QED BY <1>1, <2>2, <3>1, <3>2
  <2>3. ASSUME NEW v \in live[s], v <= catalog'[s] PROVE <<s, v>> \in versions' \cup lost'
    <3>1. CASE v <= catalog[s]  BY <1>1, <1>2, <1>6, <3>1 DEF Stored
    <3>2. CASE ~(v <= catalog[s])
      <4>1. catalog'[s] = task[s].to /\ task[s].at = "described"  BY <1>4, <2>3, <3>2
      <4>2. v < task[s].v  BY <1>2, <1>5, <1>6, <2>3, <4>1 DEF Ordered, More
      <4>3. Covered(s, v)  BY <1>2, <4>1, <4>2 DEF Behind, Fetched
      <4> QED BY <1>3, <1>6, <4>3
    <3> QED BY <3>1, <3>2
  <2> QED BY <1>2, <2>1, <2>2, <2>3 DEF Stored
<1>8. quiet /\ pc = "tasks" /\ task[s].at = "described" => catalog'[s] = Latest(s)
  <2> SUFFICES ASSUME quiet, pc = "tasks", task[s].at = "described"
               PROVE  catalog'[s] = Latest(s)
    OBVIOUS
  <2>1. task[s].to = Latest(s) /\ task[s].to \in Versions  BY <1>2, InLoop DEF Calm, Fetched
  <2>2. catalog[s] = Latest(s) \/ <<"subject", s, Latest(s)>> \in pending  BY <1>2 DEF Calm
  <2> QED BY <1>4, <2>1, <2>2
<1> QED BY <1>1, <1>3, <1>4, <1>7, <1>8

LEMMA InBehind ==
    ASSUME TypeOK, NEW s \in Subjects, Fine(s)
    PROVE  /\ \A v \in live[s] : v \in Versions /\ v \in Nat
           /\ task[s].at = "merged" => task[s].v \in Versions
BY InLoop, LatestIs DEF Fine, Ordered, Fetched

LEMMA OthersCommitted ==
    ASSUME TasksInv, NEW s \in Subjects, NEW t, Committed, task' = [task EXCEPT ![s] = t],
           UNCHANGED <<live, top, listed, lost, shrunk, pc, quiet>>, pc = "tasks"
    PROVE  \A u \in Subjects \ {s} : Fine(u)'
<1>1. TypeOK /\ \A u \in Subjects : Fine(u)  BY InvIsFine
<1>2. ASSUME NEW u \in Subjects \ {s} PROVE Fine(u)'
  <2>1. task'[u] = task[u]  BY <1>1 DEF TypeOK
  <2>2. /\ Stored(u)'
        /\ \A v \in Versions : <<"version", u, v>> \notin pending' /\ <<"subject", u, v>> \notin pending'
        /\ task[u].at # "described" => catalog'[u] = catalog[u]
        /\ quiet /\ task[u].at = "described" => catalog'[u] = Latest(u)
        /\ \A v \in Versions : Covered(u, v) => <<u, v>> \in versions' \cup lost'
    BY <1>1, CommittedFor
  <2>3. Owned(u) /\ Ordered(u) /\ Behind(u) /\ Calm(u)  BY <1>1 DEF Fine
  <2>4. Latest(u)' = Latest(u) /\ More(u)' = More(u)  BY <2>1 DEF Latest, More
  <2>5. Owned(u)'  BY <2>1, <2>2, <2>3 DEF Owned
  <2>6. Ordered(u)'  BY <2>1, <2>2, <2>3, <2>4 DEF Ordered
  <2>7. Behind(u)'  BY <1>1, <2>1, <2>2, <2>3, InBehind DEF Behind, Covered
  <2>8. Calm(u)'  BY <2>1, <2>2, <2>3, <2>4 DEF Calm
  <2> QED BY <2>2, <2>5, <2>6, <2>7, <2>8 DEF Fine
<1> QED BY <1>2

LEMMA CommitsVersion == ASSUME TasksInv, NEW s \in Subjects, commit_version(s) PROVE TasksInv'
<1>1. TypeOK /\ \A u \in Subjects : Fine(u)  BY InvIsFine
<1> PICK t : t = [task[s] EXCEPT !.at = "fetching", !.v = task[s].v + 1]  OBVIOUS
<1>2. task[s] \in TaskState /\ task[s].v \in Nat /\ task[s].to \in Nat  BY <1>1, InLoop
<1>3. /\ pc = "tasks" /\ s \in listed /\ task[s].at = "merged" /\ Committed
      /\ UNCHANGED <<registry, records, pc, infos, listed, lost, quiet, shrunk>>
  BY DEF commit_version, At
<1>4. task' = [task EXCEPT ![s] = t]
  BY <1>2 DEF commit_version, Move, TaskState
<1>5. More(s) /\ task[s].v <= task[s].to /\ task[s].to <= MaxVersion
      /\ task[s].to \in 1..top[s] /\ task[s].v \in 1..(task[s].to + 1)
  BY <1>1, <1>2, <1>3, Bounds DEF Fine, Ordered, More, Fetched, TaskState
<1>6. t \in TaskState /\ t.at = "fetching" /\ t.v = task[s].v + 1 /\ t.to = task[s].to
  <2>1. task[s].v + 1 \in 0..(MaxVersion + 1)  BY <1>2, <1>5, Bounds
  <2> QED BY <1>2, <2>1 DEF TaskState, Ats
<1>7. TypeOK' /\ task'[s] = t
  BY <1>1, <1>3, <1>4, <1>6, CommittedRows, TaskTyped DEF TypeOK
<1>8. \A u \in Subjects \ {s} : Fine(u)'  BY <1>3, <1>4, OthersCommitted DEF registry
<1>9. Fine(s)'
  <2>1. /\ Stored(s)'
        /\ \A v \in Versions : <<"version", s, v>> \notin pending' /\ <<"subject", s, v>> \notin pending'
        /\ \A v \in Versions : Covered(s, v) => <<s, v>> \in versions' \cup lost'
    BY <1>1, <1>3, CommittedFor DEF registry
  <2>2. Owned(s) /\ Behind(s) /\ Calm(s)  BY <1>1 DEF Fine
  <2>3. Owned(s)'  BY <1>3, <2>1 DEF Owned
  <2>4. Ordered(s)'
    <3>1. t.v \in 1..(t.to + 1)  BY <1>2, <1>5, <1>6
    <3> QED BY <1>3, <1>5, <1>6, <1>7, <3>1 DEF Ordered, Fetched, registry
  <2>5. Behind(s)'
    <3>1. ASSUME NEW v \in live[s], v < t.v PROVE <<s, v>> \in versions' \cup lost'
      <4>1. v \in Versions /\ v \in Nat  BY <1>1, InBehind
      <4>2. v < task[s].v \/ v = task[s].v  BY <1>2, <1>6, <3>1, <4>1
      <4>3. Covered(s, v)  BY <1>3, <2>2, <4>2 DEF Behind, Fetched
      <4> QED BY <2>1, <4>1, <4>3
    <3> QED BY <1>3, <1>6, <1>7, <3>1 DEF Behind, Covered, registry
  <2>6. Calm(s)'
    <3>1. Latest(s)' = Latest(s)  BY <1>3 DEF Latest, registry
    <3> QED BY <1>3, <1>6, <1>7, <2>2, <3>1 DEF Calm, Fetched, registry
  <2> QED BY <2>1, <2>3, <2>4, <2>5, <2>6 DEF Fine
<1> QED BY <1>7, <1>8, <1>9, FineIsInv

LEMMA CommitsSubject == ASSUME TasksInv, NEW s \in Subjects, commit_subject(s) PROVE TasksInv'
<1>1. TypeOK /\ \A u \in Subjects : Fine(u)  BY InvIsFine
<1>2. /\ pc = "tasks" /\ s \in listed /\ task[s].at = "described" /\ Committed /\ EndTask(s)
      /\ UNCHANGED <<registry, records, pc, infos, listed, lost, quiet, shrunk>>
  BY DEF commit_subject, At
<1>3. PICK t \in TaskState : task' = [task EXCEPT ![s] = t] /\ t.at = "ended"
  BY <1>1, <1>2, Ended
<1>4. TypeOK' /\ task'[s] = t
  BY <1>1, <1>2, <1>3, CommittedRows, TaskTyped DEF TypeOK
<1>5. \A u \in Subjects \ {s} : Fine(u)'  BY <1>2, <1>3, OthersCommitted DEF registry
<1>6. Fine(s)'
  <2>1. /\ Stored(s)'
        /\ \A v \in Versions : <<"version", s, v>> \notin pending' /\ <<"subject", s, v>> \notin pending'
        /\ quiet => catalog'[s] = Latest(s)
    BY <1>1, <1>2, CommittedFor DEF registry
  <2>2. quiet => (s \in listed <=> live[s] # {})  BY <1>1, <1>2 DEF Fine, Calm
  <2>3. Latest(s)' = Latest(s) /\ Latest(s) \in Nat
    <3>1. Latest(s) \in Nat  BY <1>1, LatestIs
    <3> QED BY <1>2, <3>1 DEF Latest, registry
  <2>4. quiet' => (s \in listed' <=> live'[s] # {}) /\ Latest(s)' <= catalog'[s]
    BY <1>2, <2>1, <2>2, <2>3 DEF registry
  <2> QED BY <1>2, <1>3, <1>4, <2>1, <2>4, EndedFine
<1> QED BY <1>4, <1>5, <1>6, FineIsInv

-------------------------------------------------------------------------------
(* A rollback loses what any task had in the session; the loss is recorded,  *)
(* and the sync is no longer a quiet one.                                    *)

LEMMA RolledBackFor ==
    ASSUME TypeOK, NEW own \in SUBSET (Subjects \X Versions), RolledBack(own),
           NEW s \in Subjects, Fine(s), UNCHANGED <<live, top, catalog, versions, shrunk>>
    PROVE  /\ Stored(s)'
           /\ \A v \in Versions : <<"version", s, v>> \notin pending' /\ <<"subject", s, v>> \notin pending'
           /\ \A v \in Versions : Covered(s, v) \/ <<s, v>> \in own => <<s, v>> \in versions' \cup lost'
<1>1. /\ pending' = {}
      /\ \A v \in Versions :
           <<s, v>> \in lost' <=> <<s, v>> \in lost \cup own \/ <<"version", s, v>> \in pending
  BY RolledBackRows
<1>2. \A v \in live[s] : v \in Versions  BY InBehind
<1>3. Stored(s)'  BY <1>1, <1>2 DEF Fine, Stored
<1>4. \A v \in Versions : Covered(s, v) \/ <<s, v>> \in own => <<s, v>> \in versions' \cup lost'
  BY <1>1 DEF Covered
<1> QED BY <1>1, <1>3, <1>4

LEMMA OthersRolledBack ==
    ASSUME TasksInv, NEW s \in Subjects, NEW t, NEW own \in SUBSET (Subjects \X Versions),
           RolledBack(own), task' = [task EXCEPT ![s] = t], quiet' = FALSE,
           UNCHANGED <<live, top, catalog, versions, listed, shrunk, pc>>
    PROVE  \A u \in Subjects \ {s} : Fine(u)'
<1>1. TypeOK /\ \A u \in Subjects : Fine(u)  BY InvIsFine
<1>2. ASSUME NEW u \in Subjects \ {s} PROVE Fine(u)'
  <2>1. task'[u] = task[u]  BY <1>1 DEF TypeOK
  <2>2. /\ Stored(u)'
        /\ \A v \in Versions : <<"version", u, v>> \notin pending' /\ <<"subject", u, v>> \notin pending'
        /\ \A v \in Versions : Covered(u, v) => <<u, v>> \in versions' \cup lost'
    BY <1>1, RolledBackFor
  <2>3. Owned(u) /\ Ordered(u) /\ Behind(u)  BY <1>1 DEF Fine
  <2>4. Owned(u)'  BY <2>1, <2>2, <2>3 DEF Owned
  <2>5. Ordered(u)'  BY <2>1, <2>3 DEF Ordered, More
  <2>6. Behind(u)'  BY <1>1, <2>1, <2>2, <2>3, InBehind DEF Behind, Covered
  <2> QED BY <2>2, <2>4, <2>5, <2>6 DEF Fine, Calm
<1> QED BY <1>2

LEMMA VersionFails == ASSUME TasksInv, NEW s \in Subjects, version_fails(s) PROVE TasksInv'
<1>1. TypeOK /\ \A u \in Subjects : Fine(u)  BY InvIsFine
<1> PICK t : t = [task[s] EXCEPT !.at = "fetching", !.v = task[s].v + 1]  OBVIOUS
<1> PICK own : own = {<<s, task[s].v>>}  OBVIOUS
<1>2. task[s] \in TaskState /\ task[s].v \in Nat /\ task[s].to \in Nat  BY <1>1, InLoop
<1>3. /\ pc = "tasks" /\ s \in listed /\ task[s].at \in Fetched /\ More(s) /\ RolledBack(own)
      /\ UNCHANGED <<registry, tables, pc, infos, listed, shrunk>> /\ quiet' = FALSE
  BY DEF version_fails, Fetched
<1>4. task' = [task EXCEPT ![s] = t]
  BY <1>2 DEF version_fails, Move, TaskState
<1>5. task[s].v <= task[s].to /\ task[s].to <= MaxVersion /\ task[s].v \in Versions
      /\ task[s].to \in 1..top[s] /\ task[s].v \in 1..(task[s].to + 1)
  BY <1>1, <1>2, <1>3, InLoop, Bounds DEF Fine, Ordered, More, TaskState
<1>6. t \in TaskState /\ t.at = "fetching" /\ t.v = task[s].v + 1 /\ t.to = task[s].to
  <2>1. task[s].v + 1 \in 0..(MaxVersion + 1)  BY <1>2, <1>5, Bounds
  <2> QED BY <1>2, <2>1 DEF TaskState, Ats
<1>7. own \in SUBSET (Subjects \X Versions) /\ <<s, task[s].v>> \in own  BY <1>5
<1>8. TypeOK' /\ task'[s] = t
  <2>1. pending' \subseteq Rows /\ lost' \subseteq Subjects \X Versions
    BY <1>1, <1>3, <1>7, RolledBackRows
  <2> QED BY <1>1, <1>3, <1>4, <1>6, <2>1, TaskTyped DEF TypeOK, tables
<1>9. \A u \in Subjects \ {s} : Fine(u)'
  BY <1>3, <1>4, <1>7, OthersRolledBack DEF registry, tables
<1>10. Fine(s)'
  <2>1. /\ Stored(s)'
        /\ \A v \in Versions : <<"version", s, v>> \notin pending' /\ <<"subject", s, v>> \notin pending'
        /\ \A v \in Versions : Covered(s, v) \/ <<s, v>> \in own => <<s, v>> \in versions' \cup lost'
    BY <1>1, <1>3, <1>7, RolledBackFor DEF registry, tables
  <2>2. Behind(s)  BY <1>1 DEF Fine
  <2>3. Owned(s)'  BY <1>3, <2>1 DEF Owned
  <2>4. Ordered(s)'
    <3>1. t.v \in 1..(t.to + 1)  BY <1>2, <1>5, <1>6
    <3> QED BY <1>3, <1>5, <1>6, <1>8, <3>1 DEF Ordered, Fetched, registry
  <2>5. Behind(s)'
    <3>1. ASSUME NEW v \in live[s], v < t.v PROVE <<s, v>> \in versions' \cup lost'
      <4>1. v \in Versions /\ v \in Nat  BY <1>1, InBehind
      <4>2. v < task[s].v \/ v = task[s].v  BY <1>2, <1>6, <3>1, <4>1
      <4>3. Covered(s, v) \/ <<s, v>> \in own  BY <1>3, <1>7, <2>2, <4>2 DEF Behind
      <4> QED BY <2>1, <4>1, <4>3
    <3> QED BY <1>3, <1>6, <1>8, <3>1 DEF Behind, Covered, registry
  <2>6. Calm(s)'  BY <1>3 DEF Calm
  <2> QED BY <2>1, <2>3, <2>4, <2>5, <2>6 DEF Fine
<1> QED BY <1>8, <1>9, <1>10, FineIsInv

LEMMA SubjectRolledBack ==
    ASSUME TasksInv, NEW s \in Subjects, subject_rolled_back(s) PROVE TasksInv'
<1>1. TypeOK /\ \A u \in Subjects : Fine(u)  BY InvIsFine
<1>2. /\ pc = "tasks" /\ s \in listed /\ RolledBack({}) /\ EndTask(s)
      /\ UNCHANGED <<registry, tables, pc, infos, listed, shrunk>> /\ quiet' = FALSE
  BY DEF subject_rolled_back, At
<1>3. PICK t \in TaskState : task' = [task EXCEPT ![s] = t] /\ t.at = "ended"
  BY <1>1, <1>2, Ended
<1>4. TypeOK' /\ task'[s] = t
  <2>1. pending' \subseteq Rows /\ lost' \subseteq Subjects \X Versions
    BY <1>1, <1>2, RolledBackRows
  <2> QED BY <1>1, <1>2, <1>3, <2>1, TaskTyped DEF TypeOK, tables
<1>5. \A u \in Subjects \ {s} : Fine(u)'
  BY <1>2, <1>3, OthersRolledBack DEF registry, tables
<1>6. Fine(s)'
  <2>1. /\ Stored(s)'
        /\ \A v \in Versions : <<"version", s, v>> \notin pending' /\ <<"subject", s, v>> \notin pending'
    BY <1>1, <1>2, RolledBackFor DEF registry, tables
  <2> QED BY <1>2, <1>3, <1>4, <2>1, EndedFine
<1> QED BY <1>4, <1>5, <1>6, FineIsInv

LEMMA Gathers == ASSUME TasksInv, gathered PROVE TasksInv'
<1>1. TypeOK /\ \A u \in Subjects : Fine(u)  BY InvIsFine
<1>2. /\ \A s \in listed : task[s].at = "ended"
      /\ pc' = "idle" /\ task' = [s \in Subjects |-> NoTask]
      /\ UNCHANGED <<registry, tables, infos, listed, pending, lost, quiet, shrunk>>
  BY DEF gathered
<1>3. TypeOK'
  <2>1. task' \in [Subjects -> [at : Ats, v : 0..(MaxVersion + 1), to : 0..MaxVersion]]
    BY <1>2, NoTaskIs
  <2> QED BY <1>1, <1>2, <2>1 DEF TypeOK, registry, tables, records
<1>4. ASSUME NEW u \in Subjects PROVE Fine(u)'
  <2>1. Stored(u)'  BY <1>1, <1>2, StoredSame DEF Fine, registry, tables
  <2>2. \A v \in Versions : <<"version", u, v>> \notin pending' /\ <<"subject", u, v>> \notin pending'
    BY <1>1, <1>2, NoTaskIs DEF Fine, Owned
  <2> QED BY <1>2, <2>1, <2>2, WaitingFine
<1> QED BY <1>3, <1>4, FineIsInv

-------------------------------------------------------------------------------
(* What the request has recorded.  The tasks only write the catalog, and of  *)
(* subjects that were listed, so they leave all of it alone.                 *)

Rest == QuietRecords /\ NoneAhead /\ Unlisted /\ RecordsKept
Full == SyncInv /\ RecordsKept

LEMMA FullIs == Full <=> TasksInv /\ Rest
BY DEF Full, Rest, SyncInv

LEMMA AsPair ==
    ASSUME TypeOK, NEW x \in artifacts \cup infos \cup recorded
    PROVE  x[1] \in Subjects /\ x[2] \in Versions /\ x = <<x[1], x[2]>>
BY DEF TypeOK

\* Who is still in a table.
LEMMA ExistingIs ==
    ASSUME TypeOK, NEW s \in Subjects
    PROVE  s \in Existing <=> catalog[s] > 0 \/ s \in meta \/ \E x \in artifacts : x[1] = s
BY DEF Existing, TypeOK

LEMMA RestSame ==
    ASSUME TasksInv, Rest, pc' = pc, quiet' => quiet,
           UNCHANGED <<live, top, records, infos, listed>>,
           \A s \in Subjects : s \notin listed \/ pc # "tasks" => catalog'[s] = catalog[s]
    PROVE  Rest'
<1>1. TypeOK  BY DEF TasksInv
<1>2. UNCHANGED <<artifacts, meta, recorded, late>>  BY DEF records
<1>3. \A s \in Subjects : Latest(s)' = Latest(s)  BY DEF Latest
<1>4. ASSUME quiet', pc' = "tasks", NEW s \in Subjects, live'[s] = {} PROVE (s \notin Existing)'
  <2>1. s \notin listed  BY <1>4 DEF TasksInv, QuietTasks
  <2>2. s \notin Existing /\ catalog'[s] = catalog[s]  BY <1>4, <2>1 DEF Rest, QuietRecords
  <2> QED BY <1>2, <2>2 DEF Existing
<1>5. QuietRecords'  BY <1>2, <1>3, <1>4 DEF Rest, QuietRecords
<1>6. NoneAhead' /\ Unlisted' /\ RecordsKept'
  BY <1>2 DEF Rest, NoneAhead, Unlisted, RecordsKept
<1> QED BY <1>5, <1>6 DEF Rest

LEMMA RestRegisters ==
    ASSUME TasksInv, Rest, NEW s \in Subjects, NEW here \in BOOLEAN, Register(s, here)
    PROVE  Rest'
<1>1. TypeOK  BY DEF TasksInv
<1> PICK n : n = top[s] + 1  OBVIOUS
<1>2. /\ live' = [live EXCEPT ![s] = live[s] \cup {n}] /\ top' = [top EXCEPT ![s] = n]
      /\ artifacts' = IF here THEN artifacts \cup {<<s, n>>} ELSE artifacts
      /\ meta' = IF here THEN meta \cup {s} ELSE meta
      /\ recorded' = IF here THEN recorded \cup {<<s, n>>} ELSE recorded
      /\ late' = IF pc = "removing" /\ s \notin listed THEN late \cup {<<s, n>>} ELSE late
      /\ quiet' = FALSE /\ UNCHANGED <<pc, infos, listed>>
  BY <1>1 DEF Register, TypeOK
<1>3. top[s] \in Nat /\ n \in Nat /\ top[s] < n  BY <1>1, LatestIs
<1>4. \A t \in Subjects : /\ live'[t] = IF t = s THEN live[s] \cup {n} ELSE live[t]
                          /\ top'[t] = IF t = s THEN n ELSE top[t]
  BY <1>1, <1>2 DEF TypeOK
<1>5. \A x \in recorded \cup infos : x[1] \in Subjects /\ x[2] \in Nat /\ x[2] <= top[x[1]] /\ top[x[1]] \in Nat
  <2>1. \A x \in recorded \cup infos : x[1] \in Subjects /\ x[2] \in Versions  BY <1>1, AsPair
  <2> QED BY <1>1, <2>1, LatestIs, Bounds DEF Rest, NoneAhead
<1>6. NoneAhead'
  <2>1. ASSUME NEW x \in recorded' \cup infos' PROVE x[2] <= top'[x[1]]
    <3>1. CASE x \in recorded \cup infos  BY <1>3, <1>4, <1>5, <3>1
    <3>2. CASE x = <<s, n>>  BY <1>3, <1>4, <3>2
    <3> QED BY <1>2, <2>1, <3>1, <3>2
  <2> QED BY <2>1 DEF NoneAhead
<1>7. Unlisted'
  <2>1. ASSUME pc = "removing", NEW t \in Subjects, t \notin listed, NEW v \in live'[t]
        PROVE  <<t, v>> \in late'
    <3>1. CASE v \in live[t]  BY <1>2, <2>1, <3>1 DEF Rest, Unlisted
    <3>2. CASE v \notin live[t]
      <4>1. t = s /\ v = n  BY <1>4, <2>1, <3>2
      <4> QED BY <1>2, <2>1, <4>1
    <3> QED BY <3>1, <3>2
  <2> QED BY <1>2, <2>1 DEF Unlisted
<1>8. RecordsKept'
  <2>1. <<s, n>> \notin recorded
    <3>1. <<s, n>>[1] = s /\ <<s, n>>[2] = n  OBVIOUS
    <3> QED BY <1>3, <1>5, <3>1
  <2>2. ASSUME NEW t \in Subjects, NEW v \in live'[t], <<t, v>> \in recorded' \ late'
        PROVE  <<t, v>> \in artifacts' /\ t \in meta'
    <3>1. CASE t = s /\ v = n  BY <1>2, <2>1, <2>2, <3>1
    <3>2. CASE ~(t = s /\ v = n)
      <4>1. v \in live[t]  BY <1>4, <3>2
      <4>2. <<t, v>> \in recorded \ late  BY <1>2, <2>2, <3>2
      <4> QED BY <1>2, <4>1, <4>2 DEF Rest, RecordsKept
    <3> QED BY <3>1, <3>2
  <2> QED BY <2>2 DEF RecordsKept
<1>9. QuietRecords'  BY <1>2 DEF Rest, QuietRecords
<1> QED BY <1>6, <1>7, <1>8, <1>9 DEF Rest

LEMMA RestShrinks ==
    ASSUME TasksInv, Rest, NEW s \in Subjects, NEW to \in Nat, NEW here \in BOOLEAN,
           DeleteVersions(s, to, here)
    PROVE  Rest'
<1>1. TypeOK  BY DEF TasksInv
<1>2. /\ live' = [live EXCEPT ![s] = {v \in live[s] : v <= to}]
      /\ artifacts' = IF here THEN {x \in artifacts : x[1] = s => x[2] <= to} ELSE artifacts
      /\ meta' = IF here /\ to = 0 THEN meta \ {s} ELSE meta
      /\ quiet' = FALSE /\ UNCHANGED <<top, recorded, late, pc, infos, listed>>
  BY <1>1 DEF DeleteVersions, TypeOK
<1>3. \A t \in Subjects : live'[t] = IF t = s THEN {v \in live[s] : v <= to} ELSE live[t]
  BY <1>1, <1>2 DEF TypeOK
<1>4. RecordsKept'
  <2>1. ASSUME NEW t \in Subjects, NEW v \in live'[t], <<t, v>> \in recorded' \ late'
        PROVE  <<t, v>> \in artifacts' /\ t \in meta'
    <3>1. v \in live[t] /\ (t = s => v <= to)  BY <1>3
    <3>2. <<t, v>> \in artifacts /\ t \in meta  BY <1>2, <2>1, <3>1 DEF Rest, RecordsKept
    <3>3. <<t, v>> \in artifacts'
      <4>1. <<t, v>>[1] = t /\ <<t, v>>[2] = v  OBVIOUS
      <4> QED BY <1>2, <3>1, <3>2, <4>1
    <3>4. t = s => to # 0
      <4>1. v \in Nat /\ v >= 1  BY <1>1, <3>1, LatestIs, Bounds DEF Versions
      <4> QED BY <3>1, <4>1
    <3> QED BY <1>2, <3>2, <3>3, <3>4
  <2> QED BY <2>1 DEF RecordsKept
<1>5. Unlisted'
  <2>1. \A t \in Subjects : live'[t] \subseteq live[t]  BY <1>3
  <2> QED BY <1>2, <2>1 DEF Rest, Unlisted
<1>6. QuietRecords' /\ NoneAhead'  BY <1>2 DEF Rest, QuietRecords, NoneAhead
<1> QED BY <1>4, <1>5, <1>6 DEF Rest

LEMMA RestRecords ==
    ASSUME TasksInv, Rest,
           \/ \E seen \in SUBSET Subjects : execute(seen)
           \/ \E i \in infos : record_skipped(i) \/ \E both \in BOOLEAN : record_synced(i, both)
           \/ get_subjects \/ listing_fails \/ removal_fails
    PROVE  Rest'
<1>1. TypeOK  BY DEF TasksInv
<1>2. \A s \in Subjects : UNCHANGED <<live, top>> => Latest(s)' = Latest(s)  BY DEF Latest
<1>3. ASSUME NEW seen \in SUBSET Subjects, execute(seen) PROVE Rest'
  <2>1. /\ pc' = "recording" /\ infos' = {<<s, Latest(s)>> : s \in seen}
        /\ seen \subseteq {s \in Subjects : live[s] # {}}
        /\ quiet' = (seen = {s \in Subjects : live[s] # {}})
        /\ UNCHANGED <<live, top, artifacts, meta, recorded, late, listed>>
    BY <1>3 DEF execute, registry, tables, records
  <2>2. ASSUME NEW x \in infos' PROVE x[2] <= top[x[1]]
    <3>1. PICK s \in seen : x = <<s, Latest(s)>>  BY <2>1
    <3>2. Latest(s) \in live[s] /\ Latest(s) <= top[s]  BY <1>1, <2>1, <3>1, LatestIs
    <3> QED BY <3>1, <3>2
  <2>3. NoneAhead'  BY <2>1, <2>2 DEF Rest, NoneAhead
  <2>4. QuietRecords'  BY <1>2, <2>1 DEF QuietRecords
  <2> QED BY <2>1, <2>3, <2>4 DEF Rest, Unlisted, RecordsKept
<1>4. ASSUME NEW i \in infos, record_skipped(i) PROVE Rest'
  BY <1>4 DEF record_skipped, registry, tables, records, Rest, QuietRecords, NoneAhead, Unlisted,
              RecordsKept
<1>5. ASSUME NEW i \in infos, NEW both \in BOOLEAN, record_synced(i, both) PROVE Rest'
  <2>1. /\ pc = "recording" /\ pc' = pc /\ infos' = infos \ {i} /\ artifacts' = artifacts \cup {i}
        /\ meta' = IF both THEN meta \cup {i[1]} ELSE meta
        /\ recorded' = IF both THEN recorded \cup {i} ELSE recorded
        /\ late' = IF both THEN late \ {i} ELSE late
        /\ quiet' = (quiet /\ both) /\ UNCHANGED <<live, top, listed>>
    BY <1>5 DEF record_synced, registry
  <2>2. i = <<i[1], i[2]>>  BY <1>1, AsPair
  <2>3. NoneAhead'  BY <2>1 DEF Rest, NoneAhead
  <2>4. QuietRecords'
    <3>1. ASSUME quiet', NEW s \in Subjects, live[s] # {}
          PROVE  <<s, Latest(s)>> \in infos' \/ (<<s, Latest(s)>> \in artifacts' /\ s \in meta')
      <4>1. both /\ quiet  BY <2>1, <3>1
      <4>2. <<s, Latest(s)>> \in infos \/ (<<s, Latest(s)>> \in artifacts /\ s \in meta)
        BY <2>1, <3>1, <4>1 DEF Rest, QuietRecords
      <4>3. <<s, Latest(s)>> = i => s = i[1]  BY <2>2
      <4> QED BY <2>1, <4>1, <4>2, <4>3
    <3> QED BY <1>2, <2>1, <3>1 DEF QuietRecords
  <2>5. RecordsKept'
    <3>1. ASSUME NEW t \in Subjects, NEW v \in live[t], <<t, v>> \in recorded' \ late'
          PROVE  <<t, v>> \in artifacts' /\ t \in meta'
      <4>1. CASE <<t, v>> = i
        <5>1. CASE both  BY <2>1, <2>2, <4>1, <5>1
        <5>2. CASE ~both  BY <2>1, <3>1, <5>2 DEF Rest, RecordsKept
        <5> QED BY <5>1, <5>2
      <4>2. CASE <<t, v>> # i  BY <2>1, <3>1, <4>2 DEF Rest, RecordsKept
      <4> QED BY <4>1, <4>2
    <3> QED BY <2>1, <3>1 DEF RecordsKept
  <2> QED BY <2>1, <2>3, <2>4, <2>5 DEF Rest, Unlisted
<1>6. ASSUME get_subjects PROVE Rest'
  <2>1. /\ infos = {} /\ pc = "recording" /\ pc' = "removing" /\ quiet' = quiet
        /\ listed' = {s \in Subjects : live[s] # {}}
        /\ UNCHANGED <<live, top, artifacts, meta, recorded, late, infos>>
    BY <1>6 DEF get_subjects, registry, tables, records
  <2>2. Unlisted'  BY <2>1 DEF Unlisted
  <2>3. QuietRecords'  BY <1>2, <2>1 DEF Rest, QuietRecords
  <2> QED BY <2>1, <2>2, <2>3 DEF Rest, NoneAhead, RecordsKept
<1>7. ASSUME listing_fails \/ removal_fails PROVE Rest'
  BY <1>7 DEF listing_fails, removal_fails, registry, tables, records, Rest, QuietRecords, NoneAhead,
              Unlisted, RecordsKept
<1> QED BY <1>3, <1>4, <1>5, <1>6, <1>7

\* A recorded version that is not late belongs to a subject that was listed.
LEMMA RestRemoves == ASSUME TasksInv, Rest, remove_stale PROVE Rest'
<1>1. TypeOK  BY DEF TasksInv
<1> PICK stale : stale = stale_subjects  OBVIOUS
<1>2. /\ pc = "removing" /\ pc' = "tasks" /\ quiet' = quiet
      /\ UNCHANGED <<live, top, recorded, late, infos, listed>>
      /\ artifacts' = {x \in artifacts : x[1] \notin stale}
      /\ meta' = meta \ stale
      /\ catalog' = [s \in Subjects |-> IF s \in stale THEN 0 ELSE catalog[s]]
  BY DEF remove_stale, registry
<1>3. \A s \in listed : s \notin stale  BY DEF stale_subjects
<1>4. \A s, v : <<s, v>>[1] = s  OBVIOUS
<1>5. RecordsKept'
  <2>1. ASSUME NEW t \in Subjects, NEW v \in live[t], <<t, v>> \in recorded \ late
        PROVE  <<t, v>> \in artifacts' /\ t \in meta'
    <3>1. t \in listed  BY <1>2, <2>1 DEF Rest, Unlisted
    <3>2. <<t, v>> \in artifacts /\ t \in meta  BY <2>1 DEF Rest, RecordsKept
    <3> QED BY <1>2, <1>3, <1>4, <3>1, <3>2
  <2> QED BY <1>2, <2>1 DEF RecordsKept
<1>6. QuietRecords'
  <2>1. quiet => listed = {s \in Subjects : live[s] # {}}  BY <1>2 DEF TasksInv, QuietTasks
  <2>2. ASSUME quiet, NEW s \in Subjects, live[s] # {}
        PROVE  <<s, Latest(s)>> \in artifacts' /\ s \in meta'
    <3>1. s \notin stale  BY <1>3, <2>1, <2>2
    <3>2. <<s, Latest(s)>> \in artifacts /\ s \in meta  BY <1>2, <2>2 DEF Rest, QuietRecords
    <3> QED BY <1>2, <1>4, <3>1, <3>2
  <2>3. ASSUME quiet, NEW s \in Subjects, live[s] = {} PROVE (s \notin Existing)'
    <3>1. s \notin listed  BY <2>1, <2>3
    <3>2. s \notin Existing \/ s \in stale  BY <3>1 DEF stale_subjects
    <3>3. ~(catalog'[s] > 0) /\ s \notin meta' /\ ~ \E x \in artifacts' : x[1] = s
      BY <1>1, <1>2, <3>2, ExistingIs
    <3> QED BY <3>3 DEF Existing
  <2>4. \A s \in Subjects : Latest(s)' = Latest(s)  BY <1>2 DEF Latest
  <2> QED BY <1>2, <2>2, <2>3, <2>4 DEF Rest, QuietRecords
<1> QED BY <1>2, <1>5, <1>6 DEF Rest, NoneAhead, Unlisted

\* A commit moves the catalog row of a listed subject only.
LEMMA RestTasks ==
    ASSUME TasksInv, Rest, NEW s \in Subjects,
           \/ read_current(s) \/ _get_latest_version_with_retry(s) \/ subject_fails(s)
           \/ merge_version(s) \/ commit_version(s) \/ version_fails(s)
           \/ merge_subject(s) \/ commit_subject(s) \/ subject_rolled_back(s)
    PROVE  Rest'
<1>1. TypeOK /\ \A u \in Subjects : Fine(u)  BY InvIsFine
<1>2. /\ pc' = pc /\ (quiet' => quiet) /\ UNCHANGED <<live, top, records, infos, listed, shrunk>>
      /\ catalog' = catalog \/ (Committed /\ lost' = lost)
  BY DEF read_current, _get_latest_version_with_retry, subject_fails, merge_version, commit_version,
         version_fails, merge_subject, commit_subject, subject_rolled_back, registry, tables
<1>3. pc = "tasks"
  BY DEF read_current, _get_latest_version_with_retry, subject_fails, merge_version, commit_version,
         version_fails, merge_subject, commit_subject, subject_rolled_back, At
<1>4. ASSUME NEW u \in Subjects, u \notin listed PROVE catalog'[u] = catalog[u]
  <2>1. task[u].at = "waiting"  BY <1>1, <1>4, NoTaskIs DEF Fine, Owned
  <2> QED BY <1>1, <1>2, <2>1, CommittedFor
<1> QED BY <1>2, <1>3, <1>4, RestSame

LEMMA RestGathers == ASSUME TasksInv, Rest, gathered PROVE Rest'
BY DEF gathered, registry, tables, records, Rest, QuietRecords, NoneAhead, Unlisted, RecordsKept

-------------------------------------------------------------------------------
(* The theorems. *)

LEMMA AlwaysFull == Spec => []Full
<1>1. Init => Full
  <2>1. Init => Rest  BY DEF Init, Rest, QuietRecords, NoneAhead, Unlisted, RecordsKept
  <2> QED BY <2>1, InitInv, FullIs
<1>2. Full /\ [Next]_vars => Full'
  <2> SUFFICES ASSUME TasksInv, Rest, [Next]_vars PROVE TasksInv' /\ Rest'
    BY FullIs DEF Full, Rest, SyncInv
  <2>1. ASSUME NEW s \in Subjects, NEW here \in BOOLEAN, Register(s, here) PROVE TasksInv' /\ Rest'
    BY <2>1, Registers, RestRegisters
  <2>2. ASSUME NEW s \in Subjects, NEW to \in live[s] \cup {0}, NEW here \in BOOLEAN,
               DeleteVersions(s, to, here)
        PROVE  TasksInv' /\ Rest'
    <3>1. to \in Nat  BY Bounds DEF TasksInv, TypeOK
    <3> QED BY <2>2, <3>1, Shrinks, RestShrinks
  <2>3. ASSUME NEW s \in Subjects, NEW v \in live[s], Observe(s, v) PROVE TasksInv' /\ Rest'
    BY <2>3, Observes, RestSame DEF Observe, tables
  <2>4. ASSUME SyncStep PROVE TasksInv' /\ Rest'
    <3>1. CASE \/ \E seen \in SUBSET Subjects : execute(seen)
               \/ \E i \in infos : record_skipped(i) \/ \E both \in BOOLEAN : record_synced(i, both)
               \/ get_subjects \/ listing_fails \/ removal_fails
      BY <3>1, Records, RestRecords
    <3>2. CASE remove_stale  BY <3>2, Removes, RestRemoves
    <3>3. ASSUME NEW s \in Subjects,
                 \/ read_current(s) \/ _get_latest_version_with_retry(s) \/ subject_fails(s)
                 \/ merge_version(s) \/ commit_version(s) \/ version_fails(s)
                 \/ merge_subject(s) \/ commit_subject(s) \/ subject_rolled_back(s)
          PROVE  TasksInv' /\ Rest'
      BY <3>3, RestTasks, ReadsCurrent, ReadsLatest, Fails, MergesVersion, CommitsVersion,
         VersionFails, MergesSubject, CommitsSubject, SubjectRolledBack
    <3>4. CASE gathered  BY <3>4, Gathers, RestGathers
    <3> QED BY <2>4, <3>1, <3>2, <3>3, <3>4 DEF SyncStep
  <2>5. ASSUME UNCHANGED vars PROVE TasksInv' /\ Rest'
    <3>1. TypeOK /\ \A u \in Subjects : Fine(u)  BY InvIsFine
    <3>2. TypeOK'  BY <2>5, <3>1 DEF vars, registry, tables, records, TypeOK
    <3>3. ASSUME NEW u \in Subjects PROVE Fine(u)'
      <4>1. Same(u) /\ pc' = pc /\ quiet' = quiet  BY <2>5 DEF vars, registry, tables, Same
      <4> QED BY <3>1, <4>1, SameFine
    <3>4. Rest'  BY <2>5, RestSame DEF vars, registry, tables
    <3> QED BY <3>2, <3>3, <3>4, FineIsInv
  <2> QED BY <2>1, <2>2, <2>3, <2>4, <2>5 DEF Next
<1> QED BY <1>1, <1>2, PTL DEF Spec

\* SyncInv holds of every sync, whatever the rest of the system does to the
\* registry meanwhile: a live version at or below the stored latest version is
\* stored, or its fetch failed or a rollback took its row; every task is where
\* its rows, the session and the catalog say it is; and what a quiet request has
\* behind it is recorded.
THEOREM SyncInvariance == Spec => []SyncInv
BY AlwaysFull, PTL DEF Full

\* The artifact and the metadata of a live version this service has recorded are
\* only taken by the removal of a sync that listed the subjects before the
\* version was there, whatever requests, deletions and failures come between.
THEOREM KeepsRecords == Spec => []RecordsKept
BY AlwaysFull, PTL DEF Full

\* The highest row of a subject.
LEMMA LatestRowIs ==
    ASSUME TypeOK, NEW s \in Subjects, Stored(s)
    PROVE  /\ LatestRow(s) = 0 => \A v \in Versions : <<s, v>> \notin versions
           /\ LatestRow(s) # 0 => LatestRow(s) \in Versions /\ LatestRow(s) <= top[s]
           /\ \A v \in Versions : <<s, v>> \in versions => v <= LatestRow(s)
<1> DEFINE rows == {x[2] : x \in {y \in versions : y[1] = s}}
<1>1. LatestRow(s) = IF rows = {} THEN 0 ELSE Max(rows)  BY DEF LatestRow
<1>2. ASSUME NEW v \in Versions, <<s, v>> \in versions PROVE v \in rows
  <2>1. <<s, v>> \in {y \in versions : y[1] = s}
    <3>1. <<s, v>>[1] = s  OBVIOUS
    <3> QED BY <1>2, <3>1
  <2>2. <<s, v>>[2] = v  OBVIOUS
  <2> QED BY <2>1, <2>2
<1>3. ASSUME NEW v \in rows PROVE v \in Versions /\ v <= top[s]
  <2>1. PICK x \in versions : x[1] = s /\ x[2] = v  BY <1>3
  <2>2. x \in Subjects \X Versions  BY DEF TypeOK
  <2>3. x = <<s, v>> /\ v \in Versions  BY <2>1, <2>2
  <2> QED BY <2>1, <2>3 DEF Stored
<1>4. rows \in SUBSET (1..MaxVersion)  BY <1>3 DEF Versions
<1>5. CASE rows = {}  BY <1>1, <1>2, <1>5
<1>6. CASE rows # {}
  <2>1. Max(rows) \in rows /\ \A v \in rows : v <= Max(rows)
    BY <1>4, <1>6, Bounds, MaxIsGreatest
  <2>2. LatestRow(s) = Max(rows)  BY <1>1, <1>6
  <2>3. LatestRow(s) \in Versions  BY <1>3, <2>1, <2>2
  <2>4. LatestRow(s) # 0  BY <2>3, Bounds DEF Versions
  <2> HIDE DEF rows
  <2> QED BY <1>2, <1>3, <2>1, <2>2, <2>3, <2>4
<1> QED BY <1>5, <1>6

\* When the tasks of a quiet sync are all back, a subject in the registry is
\* recorded and every flag the drift report raises for its mirror has its cause, whatever was
\* deleted or lost before; a subject that is not has no row left.
THEOREM QuietSync == Spec => []QuietSyncClearsDrift
<1>1. SyncInv => QuietSyncClearsDrift
  <2> SUFFICES ASSUME SyncInv, QuietEnd, NEW s \in Subjects
               PROVE  IF live[s] # {} THEN Mirrored(s) ELSE s \notin Existing
    BY DEF QuietSyncClearsDrift
  <2>1. TypeOK /\ Fine(s) /\ QuietRecords  BY InvIsFine DEF SyncInv
  <2>2. CASE live[s] = {}  BY <2>1, <2>2 DEF QuietEnd, QuietRecords
  <2>3. CASE live[s] # {}
    <3>1. Stored(s) /\ s \in listed /\ task[s].at = "ended" /\ Latest(s) <= catalog[s]
      BY <2>1, <2>3 DEF Fine, Calm, QuietEnd
    <3>2. /\ top[s] \in Nat /\ top[s] \in 0..MaxVersion /\ Latest(s) \in Nat /\ catalog[s] \in Nat
          /\ Latest(s) \in live[s] /\ Latest(s) \in Versions /\ Latest(s) >= 1
          /\ \A v \in live[s] : v <= Latest(s) /\ v \in Nat
      BY <2>1, <2>3, LatestIs, InLoop, Bounds DEF Versions
    <3>3. s \in meta /\ <<s, Latest(s)>> \in artifacts
      BY <2>1, <2>3 DEF QuietEnd, QuietRecords
    <3>4. catalog[s] # 0 /\ catalog[s] <= top[s]  BY <3>1, <3>2 DEF Stored
    <3>5. \A v \in Nat : Latest(s) < v /\ v <= top[s] => v \in Deleted(s)
      BY <3>2 DEF Deleted
    <3>6. catalog[s] # Latest(s) => catalog[s] \in Deleted(s)  BY <3>1, <3>2, <3>4, <3>5
    <3>7. <<s, Latest(s)>> \in versions \cup lost  BY <3>1, <3>2 DEF Stored
    <3>8. LatestRow(s) = 0 => <<s, Latest(s)>> \in lost  BY <2>1, <3>1, <3>2, <3>7, LatestRowIs
    <3>9. LatestRow(s) # 0 /\ LatestRow(s) # Latest(s) =>
            LatestRow(s) \in Deleted(s) \/ <<s, Latest(s)>> \in lost
      <4> SUFFICES ASSUME LatestRow(s) # 0, LatestRow(s) # Latest(s), <<s, Latest(s)>> \in versions
                   PROVE  LatestRow(s) \in Deleted(s)
        BY <3>7
      <4>1. LatestRow(s) \in Versions /\ LatestRow(s) <= top[s] /\ Latest(s) <= LatestRow(s)
        BY <2>1, <3>1, <3>2, LatestRowIs
      <4>2. LatestRow(s) \in Nat  BY <4>1, Bounds
      <4> QED BY <3>2, <3>5, <4>1, <4>2
    <3>10. "catalog_subject_missing" \notin drift_flags(s)  BY <3>4 DEF drift_flags
    <3>11. "catalog_subject_version_mismatch" \in drift_flags(s) => catalog[s] # Latest(s)
      BY DEF drift_flags
    <3>12. "catalog_version_missing" \in drift_flags(s) => LatestRow(s) = 0
      BY DEF drift_flags
    <3>13. drift_flags(s) \cap RowFlags # {} => LatestRow(s) # 0 /\ LatestRow(s) # Latest(s)
      BY DEF drift_flags, RowFlags
    <3>14. Mirrored(s)
      BY <3>3, <3>6, <3>8, <3>9, <3>10, <3>11, <3>12, <3>13 DEF Mirrored
    <3> QED BY <2>3, <3>14
  <2> QED BY <2>2, <2>3
<1> QED BY <1>1, SyncInvariance, PTL
==============================================================================
