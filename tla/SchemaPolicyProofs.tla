--------------------------- MODULE SchemaPolicyProofs ---------------------------
(***************************************************************************)
(* What SchemaPolicy promises, for any number of clients, policies and     *)
(* versions.  IInv is inductive; its parts follow the requests through     *)
(* the transactions between which other requests run.                      *)
(***************************************************************************)
EXTENDS SchemaPolicy, Extremes, TLAPS

------------------------------------------------------------------------------
(* The repository. *)

LEMMA LatestStored ==
    ASSUME NEW p \in Policies, Stored(p) # {}
    PROVE  get_latest(p) \in Stored(p) /\ get_latest(p) \in Versions
<1>1. Stored(p) \subseteq 1..MaxVersion /\ MaxVersion \in Nat
  BY BoundAssumption DEF Stored, Versions
<1>2. \E m \in Stored(p) : \A x \in Stored(p) : x <= m  BY <1>1, GreatestExists
<1> QED BY <1>1, <1>2 DEF get_latest, Versions

LEMMA NoRowIsNoRow == NoRow \notin Row
BY DEF NoRow, Row, Types

\* The content of a version, whatever its status.
Text(row) == [row EXCEPT !.status = "draft"]

\* The cell of version v of policy p now holds r.
CellHolds(p, v, r) ==
    /\ rows' \in [Policies -> [Versions -> Row \cup {NoRow}]]
    /\ \A q \in Policies, w \in Versions :
          rows'[q][w] = IF q = p /\ w = v THEN r ELSE rows[q][w]
    /\ \A q \in Policies : q # p => Stored(q)' = Stored(q) /\ Active(q)' = Active(q)
    /\ r = NoRow => Stored(p)' = Stored(p) \ {v} /\ Active(p)' = Active(p) \ {v}
    /\ r # NoRow => Stored(p)' = Stored(p) \cup {v}
    /\ r # NoRow /\ r.status = "active" => Active(p)' = Active(p) \cup {v}
    /\ r # NoRow /\ r.status # "active" => Active(p)' = Active(p) \ {v}

\* One cell of the table is written.
LEMMA Written ==
    ASSUME TypeOK, NEW p \in Policies, NEW v \in Versions, NEW r \in Row \cup {NoRow},
           rows' = [rows EXCEPT ![p][v] = r]
    PROVE  CellHolds(p, v, r)
<1>1. /\ rows' \in [Policies -> [Versions -> Row \cup {NoRow}]]
      /\ \A q \in Policies, w \in Versions :
            rows'[q][w] = IF q = p /\ w = v THEN r ELSE rows[q][w]
  BY DEF TypeOK
<1>2. \A q \in Policies : q # p => Stored(q)' = Stored(q) /\ Active(q)' = Active(q)
  BY <1>1 DEF Stored, Active
<1>3. CASE r = NoRow
  <2>1. Stored(p)' = Stored(p) \ {v}  BY <1>1, <1>3 DEF Stored
  <2>2. Active(p)' = Active(p) \ {v}  BY <1>1, <2>1 DEF Active
  <2> QED BY <1>1, <1>2, <1>3, <2>1, <2>2 DEF CellHolds
<1>4. CASE r # NoRow
  <2>1. Stored(p)' = Stored(p) \cup {v}  BY <1>1, <1>4 DEF Stored
  <2>2. r.status = "active" => Active(p)' = Active(p) \cup {v}  BY <1>1, <2>1 DEF Active
  <2>3. r.status # "active" => Active(p)' = Active(p) \ {v}  BY <1>1, <2>1 DEF Active
  <2> QED BY <1>1, <1>2, <1>4, <2>1, <2>2, <2>3 DEF CellHolds
<1> QED BY <1>3, <1>4

\* A status is written: nothing else changes, and nothing at all when the row
\* is gone.
LEMMA StatusWritten ==
    ASSUME TypeOK, NEW p \in Policies, NEW v \in Versions, NEW status \in Statuses,
           rows' = WithStatus(p, v, status)
    PROVE  /\ rows' \in [Policies -> [Versions -> Row \cup {NoRow}]]
           /\ \A q \in Policies : Stored(q)' = Stored(q)
           /\ \A q \in Policies : q # p => Active(q)' = Active(q)
           /\ Active(p)' = IF status = "active" /\ v \in Stored(p)
                             THEN Active(p) \cup {v} ELSE Active(p) \ {v}
           /\ \A q \in Policies, w \in Versions :
                 w \in Stored(q) => Text(rows'[q][w]) = Text(rows[q][w])
<1>1. CASE v \notin Stored(p)
  BY <1>1 DEF WithStatus, TypeOK, Stored, Active
<1>2. CASE v \in Stored(p)
  <2> DEFINE r == [rows[p][v] EXCEPT !.status = status]
  <2>1. rows[p][v] \in Row /\ rows[p][v] # NoRow  BY <1>2 DEF TypeOK, Stored
  <2>2. r \in Row /\ r.status = status /\ Text(r) = Text(rows[p][v])
    BY <2>1 DEF Row, Text, Statuses
  <2>3. r # NoRow  BY <2>2, NoRowIsNoRow
  <2>4. rows' = [rows EXCEPT ![p][v] = r]  BY <1>2 DEF WithStatus, TypeOK
  <2> HIDE DEF r
  <2>5. CellHolds(p, v, r)  BY <2>2, <2>4, Written
  <2>6. \A q \in Policies, w \in Versions : Text(rows'[q][w]) = Text(rows[q][w])
    BY <2>2, <2>5 DEF CellHolds
  <2>7. Stored(p)' = Stored(p)  BY <1>2, <2>3, <2>5 DEF CellHolds
  <2>8. \A q \in Policies : Stored(q)' = Stored(q)  BY <2>5, <2>7 DEF CellHolds
  <2> QED BY <1>2, <2>2, <2>3, <2>5, <2>6, <2>8 DEF CellHolds
<1> QED BY <1>1, <1>2
------------------------------------------------------------------------------
(* The requests. *)

Rests(d) == pc'[d] = pc[d] /\ op'[d] = op[d]

\* No stored version says something else than before.
TextKept ==
    \A q \in Policies, w \in Versions :
        w \in Stored(q) /\ rows'[q][w] # NoRow => Text(rows'[q][w]) = Text(rows[q][w])

Known == TypeOK /\ OpOK /\ IdsHandedOut

\* The requests after client c has gone to l.
WentTo(c, l) ==
    /\ pc' \in [Clients -> {"idle", "updating", "activating", "activated"}]
    /\ op' \in [Clients -> Op]
    /\ OpOK'
    /\ \A d \in Clients : pc'[d] # "idle" => op'[d].policy \in used'
    /\ pc'[c] = l
    /\ \A d \in Clients \ {c} : Rests(d)

\* A request moves from one call to the next.
LEMMA Moves ==
    ASSUME Known, NEW c \in Clients, NEW o \in Op,
           NEW l \in {"idle", "updating", "activating", "activated"},
           pc' = [pc EXCEPT ![c] = l], op' = [op EXCEPT ![c] = o],
           l # "idle" => o.policy \in used /\ o.version \in Versions,
           l = "updating" => o.row \in Row /\ o.row.status = "draft",
           used' = used
    PROVE  WentTo(c, l) /\ op'[c] = o
<1>1. /\ pc' \in [Clients -> {"idle", "updating", "activating", "activated"}]
      /\ op' \in [Clients -> Op]
      /\ pc'[c] = l /\ op'[c] = o
      /\ \A d \in Clients \ {c} : Rests(d)
  BY DEF Known, TypeOK, Rests
<1>2. used \subseteq Policies  BY DEF Known, TypeOK
<1>3. ASSUME NEW d \in Clients
      PROVE  /\ pc'[d] # "idle" => /\ op'[d].policy \in Policies /\ op'[d].policy \in used'
                                   /\ op'[d].version \in Versions
             /\ pc'[d] = "updating" => op'[d].row \in Row /\ op'[d].row.status = "draft"
  <2>1. CASE d = c  BY <1>1, <1>2, <2>1
  <2>2. CASE d # c  BY <1>1, <2>2 DEF Known, OpOK, IdsHandedOut, Rests
  <2> QED BY <2>1, <2>2
<1> QED BY <1>1, <1>3 DEF OpOK, WentTo

LEMMA NoOpIsOp == NoOp \in Op
BY DEF NoOp, Op

LEMMA NamesInit == Init => Known
<1> SUFFICES ASSUME Init PROVE Known  OBVIOUS
<1>1. TypeOK  BY NoOpIsOp DEF Init, TypeOK
<1>2. \A p \in Policies : Stored(p) = {}  BY DEF Init, Stored
<1> QED BY <1>1, <1>2 DEF Init, Known, OpOK, IdsHandedOut

\* create_policy writes the first version of an id that had no rows.
LEMMA Creates ==
    ASSUME Known, NEW c \in Clients, NEW p \in Policies, NEW t \in Types, NEW x \in Contents,
           NEW e \in Targets, create_policy(c, p, t, x, e)
    PROVE  /\ Known'
           /\ \A q \in Policies : Active(q)' = Active(q)
           /\ \A d \in Clients : Rests(d)
           /\ TextKept
<1> DEFINE r == [type |-> t, content |-> x, env |-> e, by |-> c, status |-> "draft"]
<1>1. r \in Row /\ r # NoRow /\ r.status # "active"
  <2>1. r \in Row  BY DEF Row, Statuses
  <2> QED BY <2>1, NoRowIsNoRow
<1>2. 1 \in Versions  BY BoundAssumption DEF Versions
<1>3. rows' = [rows EXCEPT ![p][1] = r]  BY DEF create_policy
<1> HIDE DEF r
<1>4. TypeOK  BY DEF Known
<1>5. CellHolds(p, 1, r)  BY <1>1, <1>2, <1>3, <1>4, Written
<1>6. Stored(p) = {} /\ Active(p) = {}  BY DEF create_policy, Known, IdsHandedOut, Active
<1>7. pc' = pc /\ op' = op /\ used' = used \cup {p}  BY DEF create_policy
<1>8. TypeOK'  BY <1>4, <1>5, <1>7 DEF CellHolds, create_policy, TypeOK
<1>9. OpOK'  BY <1>7 DEF Known, OpOK
<1>10. IdsHandedOut'  BY <1>5, <1>7 DEF CellHolds, Known, IdsHandedOut
<1>11. \A q \in Policies : Active(q)' = Active(q)  BY <1>1, <1>5, <1>6 DEF CellHolds
<1>12. \A q \in Policies, w \in Versions : w \in Stored(q) => rows'[q][w] = rows[q][w]
  BY <1>5, <1>6 DEF CellHolds
<1> QED BY <1>7, <1>8, <1>9, <1>10, <1>11, <1>12 DEF Known, Rests, TextKept

\* A step that leaves the rows alone.
LEMMA RowsKept == rows' = rows => TextKept /\ \A q \in Policies : Active(q)' = Active(q)
BY DEF TextKept, Active, Stored

LEMMA IdsKept ==
    ASSUME Known, used' = used, \A q \in Policies : Stored(q)' \subseteq Stored(q),
           \A d \in Clients : pc'[d] # "idle" => op'[d].policy \in used'
    PROVE  IdsHandedOut'
BY DEF Known, IdsHandedOut

\* update_policy takes down what it will insert.
LEMMA Updates ==
    ASSUME Known, NEW c \in Clients, NEW p \in Policies, NEW x \in Contents, NEW e \in Targets,
           update_policy(c, p, x, e)
    PROVE  Known' /\ rows' = rows /\ pc'[c] = "updating" /\ \A d \in Clients \ {c} : Rests(d)
<1> DEFINE n == get_latest(p)
           r == [type |-> rows[p][n].type, content |-> x, env |-> e, by |-> c,
                 status |-> "draft"]
           o == [NoOp EXCEPT !.policy = p, !.version = n + 1, !.row = r]
<1>1. n \in Stored(p) /\ n \in Versions /\ n < MaxVersion
  BY LatestStored DEF update_policy
<1>2. rows[p][n] \in Row  BY <1>1 DEF Known, TypeOK, Stored
<1>3. r \in Row /\ r.status = "draft"  BY <1>2 DEF Row, Statuses
<1>4. n + 1 \in Versions /\ n + 1 \in Nat  BY <1>1, BoundAssumption DEF Versions
<1>5. p \in used  BY DEF update_policy, Known, IdsHandedOut
<1>6. pc' = [pc EXCEPT ![c] = "updating"] /\ op' = [op EXCEPT ![c] = o]
  BY DEF update_policy, Goto
<1> HIDE DEF r, n
<1>7. o \in Op /\ o.policy = p /\ o.version = n + 1 /\ o.row = r
  BY <1>3, <1>4 DEF NoOp, Op
<1> HIDE DEF o
<1>8. UNCHANGED <<rows, used, split, cause, governed>>  BY DEF update_policy
<1>9. WentTo(c, "updating")  BY <1>3, <1>4, <1>5, <1>6, <1>7, <1>8, Moves
<1>10. TypeOK'  BY <1>8, <1>9 DEF Known, TypeOK, WentTo
<1>11. IdsHandedOut'  BY <1>8, <1>9, IdsKept DEF Stored, WentTo
<1> QED BY <1>8, <1>9, <1>10, <1>11 DEF Known, WentTo

\* The end of a request.
LEMMA Ends ==
    ASSUME Known, NEW c \in Clients, End(c), used' = used
    PROVE  WentTo(c, "idle")
<1>1. pc' = [pc EXCEPT ![c] = "idle"] /\ op' = [op EXCEPT ![c] = NoOp]  BY DEF End, Goto
<1> QED BY <1>1, NoOpIsOp, Moves

\* save inserts a draft where there was no row.
LEMMA Saves ==
    ASSUME Known, NEW c \in Clients, save(c), NEW p \in Policies, NEW v \in Versions, NEW r,
           p = op[c].policy, v = op[c].version, r = op[c].row
    PROVE  /\ Known' /\ TextKept /\ pc'[c] = "idle" /\ \A d \in Clients \ {c} : Rests(d)
           /\ \A q \in Policies : Active(q)' = Active(q)
<1>1. r \in Row /\ r.status = "draft" /\ p \in used
  BY DEF save, Known, OpOK, IdsHandedOut
<1>2. rows' = [rows EXCEPT ![p][v] = r] /\ rows[p][v] = NoRow  BY DEF save, Insertable
<1>3. TypeOK /\ End(c) /\ UNCHANGED <<used, split, cause, governed>>  BY DEF save, Known
<1>4. r # NoRow /\ r.status # "active"  BY <1>1, NoRowIsNoRow
<1>5. CellHolds(p, v, r)  BY <1>1, <1>2, <1>3, Written
<1>6. v \notin Active(p) /\ v \notin Stored(p)  BY <1>2 DEF Active, Stored
<1>7. \A q \in Policies : Active(q)' = Active(q)
  <2>1. Active(p)' = Active(p) \ {v}  BY <1>4, <1>5 DEF CellHolds
  <2>2. Active(p)' = Active(p)  BY <1>6, <2>1
  <2> QED BY <1>5, <2>2 DEF CellHolds
<1>8. TextKept
  <2>1. \A q \in Policies, w \in Versions : w \in Stored(q) => rows'[q][w] = rows[q][w]
    BY <1>5, <1>6 DEF CellHolds
  <2> QED BY <2>1 DEF TextKept
<1>9. TypeOK'  BY <1>3, <1>5, Ends DEF CellHolds, TypeOK, WentTo
<1>10. IdsHandedOut'
  <2>1. \A q \in Policies : Stored(q)' # {} => q \in used'
    BY <1>1, <1>3, <1>5 DEF CellHolds, Known, IdsHandedOut
  <2>2. \A d \in Clients : pc'[d] # "idle" => op'[d].policy \in used'  BY <1>3, Ends DEF WentTo
  <2> QED BY <2>1, <2>2 DEF IdsHandedOut
<1> QED BY <1>3, <1>7, <1>8, <1>9, <1>10, Ends DEF Known, WentTo

\* activate_policy lists every other active version.
LEMMA Activates ==
    ASSUME Known, NEW c \in Clients, NEW p \in Policies, NEW v \in Versions,
           activate_policy(c, p, v)
    PROVE  /\ Known' /\ rows' = rows /\ pc'[c] = "activating"
           /\ op'[c].policy = p /\ Active(p) \subseteq op'[c].todo \cup {op'[c].version}
           /\ \A d \in Clients \ {c} : Rests(d)
<1> DEFINE todo == ActiveOthers(p, v)
           o    == [NoOp EXCEPT !.policy = p, !.version = v, !.todo = todo]
<1>1. todo = Active(p) \ {v}
  BY DEF ActiveOthers, list_active_policies, Matches, Active, Stored
<1>2. todo \subseteq Versions  BY <1>1 DEF Active, Stored
<1>3. p \in used /\ v \in Nat  BY BoundAssumption DEF activate_policy, Versions
<1>4. pc' = [pc EXCEPT ![c] = "activating"] /\ op' = [op EXCEPT ![c] = o]
  BY DEF activate_policy, Goto
<1>5. UNCHANGED <<rows, used, split, cause, governed>>  BY DEF activate_policy
<1> HIDE DEF todo
<1>6. o \in Op /\ o.policy = p /\ o.version = v /\ o.todo = todo
  BY <1>2, <1>3 DEF NoOp, Op
<1> HIDE DEF o
<1>7. WentTo(c, "activating") /\ op'[c] = o  BY <1>3, <1>4, <1>5, <1>6, Moves
<1>8. TypeOK'  BY <1>5, <1>7 DEF Known, TypeOK, WentTo
<1>9. IdsHandedOut'  BY <1>5, <1>7, IdsKept DEF Stored, WentTo
<1>10. Active(p) \subseteq op'[c].todo \cup {op'[c].version}  BY <1>1, <1>6, <1>7
<1> QED BY <1>5, <1>6, <1>7, <1>8, <1>9, <1>10 DEF Known, WentTo

\* archive takes one version off the list and out of force.
LEMMA Archives ==
    ASSUME Known, NEW c \in Clients, NEW w \in Versions, archive(c, w),
           NEW p \in Policies, p = op[c].policy
    PROVE  /\ Known' /\ TextKept
           /\ Active(p)' = Active(p) \ {w}
           /\ \A q \in Policies : q # p => Active(q)' = Active(q)
           /\ pc'[c] = "activating" /\ op'[c].policy = p
           /\ op'[c].version = op[c].version /\ op'[c].raced = op[c].raced
           /\ op'[c].todo = op[c].todo \ {w}
           /\ \A d \in Clients \ {c} : Rests(d)
<1> DEFINE o == [op[c] EXCEPT !.todo = @ \ {w}]
<1>1. p \in used /\ op[c].version \in Versions /\ op[c] \in Op
  BY DEF archive, Known, OpOK, IdsHandedOut, TypeOK
<1>2. TypeOK /\ rows' = WithStatus(p, w, "archived") /\ "archived" \in Statuses
  BY DEF archive, Known, Statuses
<1>3. op' = [op EXCEPT ![c] = o] /\ pc' = [pc EXCEPT ![c] = "activating"]
  BY DEF archive, Known, TypeOK
<1>4. UNCHANGED <<used, split, cause, governed>>  BY DEF archive
<1>5. /\ o \in Op /\ o.policy = p /\ o.version = op[c].version /\ o.raced = op[c].raced
      /\ o.todo = op[c].todo \ {w}
  BY <1>1 DEF Op
<1> HIDE DEF o
<1>6. /\ rows' \in [Policies -> [Versions -> Row \cup {NoRow}]]
      /\ \A q \in Policies : Stored(q)' = Stored(q)
      /\ \A q \in Policies : q # p => Active(q)' = Active(q)
      /\ Active(p)' = Active(p) \ {w}
      /\ TextKept
  BY <1>1, <1>2, StatusWritten DEF TextKept
<1>7. WentTo(c, "activating") /\ op'[c] = o  BY <1>1, <1>3, <1>4, <1>5, Moves
<1>8. TypeOK'  BY <1>2, <1>4, <1>6, <1>7 DEF TypeOK, WentTo
<1>9. IdsHandedOut'  BY <1>4, <1>6, <1>7, IdsKept DEF WentTo
<1> QED BY <1>5, <1>6, <1>7, <1>8, <1>9 DEF Known, WentTo

\* set_active writes the requested version, if it is there, and is news to the
\* activations of other versions of the policy.
LEMMA SetsActive ==
    ASSUME Known, NEW c \in Clients, set_active(c),
           NEW p \in Policies, p = op[c].policy, NEW v \in Versions, v = op[c].version
    PROVE  /\ Known' /\ TextKept
           /\ \A q \in Policies : q # p => Active(q)' = Active(q)
           /\ v \in Stored(p) => Active(p)' = Active(p) \cup {v}
           /\ v \notin Stored(p) => Active(p)' = Active(p) \ {v}
           /\ pc'[c] = "activated" /\ \A d \in Clients \ {c} : pc'[d] = pc[d]
           /\ \A d \in Clients :
                 /\ op'[d].policy = op[d].policy /\ op'[d].version = op[d].version
                 /\ op'[d].todo = op[d].todo
                 /\ op'[d].raced = (op[d].raced \/ (/\ pc[d] = "activating"
                                                    /\ op[d].policy = p /\ op[d].version # v
                                                    /\ v \in Stored(p)))
<1>1. TypeOK /\ rows' = WithStatus(p, v, "active") /\ "active" \in Statuses
  BY DEF set_active, Known, Statuses
<1>2. /\ rows' \in [Policies -> [Versions -> Row \cup {NoRow}]]
      /\ \A q \in Policies : Stored(q)' = Stored(q)
      /\ \A q \in Policies : q # p => Active(q)' = Active(q)
      /\ v \in Stored(p) => Active(p)' = Active(p) \cup {v}
      /\ v \notin Stored(p) => Active(p)' = Active(p) \ {v}
      /\ TextKept
  BY <1>1, StatusWritten DEF TextKept
<1>3. /\ pc' \in [Clients -> {"idle", "updating", "activating", "activated"}]
      /\ pc'[c] = "activated" /\ \A d \in Clients \ {c} : pc'[d] = pc[d]
  BY <1>1 DEF set_active, TypeOK
<1>4. op' = Raced(p, v)  BY DEF set_active
<1>5. ASSUME NEW d \in Clients
      PROVE  /\ op'[d] \in Op
             /\ op'[d].policy = op[d].policy /\ op'[d].version = op[d].version
             /\ op'[d].todo = op[d].todo /\ op'[d].row = op[d].row
             /\ op'[d].raced = (op[d].raced \/ (/\ pc[d] = "activating"
                                                /\ op[d].policy = p /\ op[d].version # v
                                                /\ v \in Stored(p)))
  <2> DEFINE b == /\ pc[d] = "activating" /\ op[d].policy = p /\ op[d].version # v
                  /\ v \in Stored(p)
  <2>1. op'[d] = [op[d] EXCEPT !.raced = @ \/ b]  BY <1>4 DEF Raced
  <2>2. op[d] \in Op /\ b \in BOOLEAN  BY <1>1 DEF TypeOK
  <2> HIDE DEF b
  <2>3. /\ op'[d] \in Op
        /\ op'[d].policy = op[d].policy /\ op'[d].version = op[d].version
        /\ op'[d].todo = op[d].todo /\ op'[d].row = op[d].row
        /\ op'[d].raced = (op[d].raced \/ b)
    BY <2>1, <2>2 DEF Op
  <2> QED BY <2>3 DEF b
<1>6. op' \in [Clients -> Op]  BY <1>4, <1>5 DEF Raced
<1>7. TypeOK'
  <2>1. used' = used /\ split' \in [Policies -> BOOLEAN]
    BY <1>1 DEF set_active, TypeOK, Op
  <2>2. cause' \in [Policies -> SUBSET Causes] /\ governed' \subseteq Policies
    BY <1>1 DEF set_active, TypeOK, Causes
  <2> QED BY <1>1, <1>2, <1>3, <1>6, <2>1, <2>2 DEF TypeOK
<1>8. pc[c] = "activating" /\ used' = used  BY DEF set_active
<1>9. \A d \in Clients : (pc'[d] # "idle" => pc[d] # "idle")
                         /\ (pc'[d] = "updating" => pc[d] = "updating")
  BY <1>3, <1>8
<1>10. OpOK' /\ IdsHandedOut'
  BY <1>2, <1>5, <1>8, <1>9 DEF Known, OpOK, IdsHandedOut
<1> QED BY <1>2, <1>3, <1>5, <1>7, <1>10 DEF Known

\* A request that only ends.
LEMMA OnlyEnds ==
    ASSUME Known, NEW c \in Clients, save_fails(c) \/ status_updated(c) \/ activate_fails(c)
    PROVE  Known' /\ rows' = rows /\ pc'[c] = "idle" /\ \A d \in Clients \ {c} : Rests(d)
<1>1. End(c) /\ UNCHANGED <<rows, used, split, governed>>
  BY DEF save_fails, status_updated, activate_fails
<1>2. WentTo(c, "idle")  BY <1>1, Ends
<1>3. cause' \in [Policies -> SUBSET Causes]
  BY DEF save_fails, status_updated, activate_fails, Known, TypeOK, Causes
<1>4. TypeOK'  BY <1>1, <1>2, <1>3 DEF WentTo, Known, TypeOK
<1>5. IdsHandedOut'  BY <1>1, <1>2, IdsKept DEF WentTo, Stored
<1> QED BY <1>1, <1>2, <1>4, <1>5 DEF WentTo, Known

\* Somebody takes a version of p out of force.
LEMMA Withdraws ==
    ASSUME Known, NEW c \in Clients, NEW p \in Policies,
           \/ delete_policy(c, p)
           \/ \E v \in Versions :
                 delete_version(c, p, v) \/ \E s \in {"draft", "archived"} : update_status(c, p, v, s)
    PROVE  /\ Known' /\ TextKept /\ \A d \in Clients : Rests(d)
           /\ \A q \in Policies : Active(q)' \subseteq Active(q)
           /\ \A q \in Policies : q # p => Active(q)' = Active(q)
           /\ cause'[p] # {} /\ \A q \in Policies : cause[q] \subseteq cause'[q]
<1>1. UNCHANGED <<pc, op, used, split, governed>>
  BY DEF delete_policy, delete_version, update_status
<1>2. PICK why \in Causes : cause' = [cause EXCEPT ![p] = @ \cup {why}]
  BY DEF delete_policy, delete_version, update_status, Causes
<1>3. TypeOK  BY DEF Known
<1>4. /\ cause' \in [Policies -> SUBSET Causes]
      /\ cause'[p] # {} /\ \A q \in Policies : cause[q] \subseteq cause'[q]
  BY <1>2, <1>3 DEF TypeOK
<1>5. /\ rows' \in [Policies -> [Versions -> Row \cup {NoRow}]] /\ TextKept
      /\ \A q \in Policies : Stored(q)' \subseteq Stored(q) /\ Active(q)' \subseteq Active(q)
      /\ \A q \in Policies : q # p => Active(q)' = Active(q)
  <2>1. CASE delete_policy(c, p)
    <3>1. /\ rows' \in [Policies -> [Versions -> Row \cup {NoRow}]]
          /\ \A q \in Policies, w \in Versions :
                rows'[q][w] = IF q = p THEN NoRow ELSE rows[q][w]
      BY <1>3, <2>1 DEF delete_policy, TypeOK
    <3> QED BY <3>1 DEF TextKept, Stored, Active
  <2>2. ASSUME NEW v \in Versions, delete_version(c, p, v)
        PROVE  /\ rows' \in [Policies -> [Versions -> Row \cup {NoRow}]] /\ TextKept
               /\ \A q \in Policies : Stored(q)' \subseteq Stored(q) /\ Active(q)' \subseteq Active(q)
               /\ \A q \in Policies : q # p => Active(q)' = Active(q)
    <3>1. CellHolds(p, v, NoRow)  BY <1>3, <2>2, Written DEF delete_version
    <3>2. TextKept  BY <3>1 DEF CellHolds, TextKept
    <3>3. Stored(p)' \subseteq Stored(p) /\ Active(p)' \subseteq Active(p)
      BY <3>1 DEF CellHolds
    <3> QED BY <3>1, <3>2, <3>3 DEF CellHolds
  <2>3. ASSUME NEW v \in Versions, NEW s \in {"draft", "archived"}, update_status(c, p, v, s)
        PROVE  /\ rows' \in [Policies -> [Versions -> Row \cup {NoRow}]] /\ TextKept
               /\ \A q \in Policies : Stored(q)' \subseteq Stored(q) /\ Active(q)' \subseteq Active(q)
               /\ \A q \in Policies : q # p => Active(q)' = Active(q)
    <3>1. rows' = WithStatus(p, v, s) /\ s \in Statuses /\ s # "active"
      BY <2>3 DEF update_status, Statuses
    <3>2. /\ rows' \in [Policies -> [Versions -> Row \cup {NoRow}]] /\ TextKept
          /\ \A q \in Policies : Stored(q)' = Stored(q)
          /\ \A q \in Policies : q # p => Active(q)' = Active(q)
          /\ Active(p)' = Active(p) \ {v}
      BY <1>3, <3>1, StatusWritten DEF TextKept
    <3>3. Active(p)' \subseteq Active(p)  BY <3>2
    <3> QED BY <3>2, <3>3
  <2> QED BY <2>1, <2>2, <2>3
<1>6. TypeOK'  BY <1>1, <1>3, <1>4, <1>5 DEF TypeOK
<1>7. OpOK'  BY <1>1 DEF Known, OpOK
<1>8. \A d \in Clients : pc'[d] # "idle" => op'[d].policy \in used'
  BY <1>1 DEF Known, IdsHandedOut
<1>9. IdsHandedOut'  BY <1>1, <1>5, <1>8, IdsKept
<1> QED BY <1>1, <1>4, <1>5, <1>6, <1>7, <1>9 DEF Known, Rests

------------------------------------------------------------------------------
(* The invariant. *)

LEMMA InvInit == Init => IInv
<1> SUFFICES ASSUME Init PROVE IInv  OBVIOUS
<1>1. Known  BY NamesInit
<1>2. ListedAll /\ ProtectionLostHasCause  BY DEF Init, ListedAll, ProtectionLostHasCause
<1>3. OneActiveUnlessRaced  BY DEF Init, OneActiveUnlessRaced, Active, Stored
<1> QED BY <1>1, <1>2, <1>3 DEF IInv, Known

\* A step that is not the last call of an activation: it puts no version in
\* force, and when it takes the last one out, or gives up an activation, it
\* leaves a cause or is on the way to its last call itself.
LEMMA QuietStep ==
    ASSUME IInv, NEW c \in Clients,
           \A d \in Clients \ {c} : Rests(d),
           \A q \in Policies : Active(q)' \subseteq Active(q),
           UNCHANGED <<split, governed>>,
           \A q \in Policies : cause[q] # {} => cause'[q] # {},
           \A q \in Policies : \/ Active(q)' = Active(q)
                               \/ cause'[q] # {}
                               \/ pc'[c] = "activating" /\ op'[c].policy = q,
           pc[c] = "activating" => \/ cause'[op[c].policy] # {}
                                   \/ pc'[c] = "activating" /\ op'[c].policy = op[c].policy,
           pc'[c] = "activating" /\ ~op'[c].raced =>
               Active(op[c].policy)' \subseteq op'[c].todo \cup {op'[c].version}
    PROVE  ListedAll' /\ OneActiveUnlessRaced' /\ ProtectionLostHasCause'
<1>1. ListedAll'
  <2>1. ASSUME NEW d \in Clients, pc'[d] = "activating", ~op'[d].raced
        PROVE  Active(op[d].policy)' \subseteq op'[d].todo \cup {op'[d].version}
    <3>1. CASE d = c  BY <2>1, <3>1
    <3>2. CASE d # c
      <4>1. pc[d] = "activating" /\ op'[d] = op[d]  BY <2>1, <3>2 DEF Rests
      <4>2. op[d].policy \in Policies  BY <4>1 DEF IInv, OpOK
      <4>3. Active(op[d].policy) \subseteq op[d].todo \cup {op[d].version}
        BY <2>1, <4>1 DEF IInv, ListedAll
      <4>4. PICK q \in Policies : q = op[d].policy  BY <4>2
      <4>5. Active(q)' \subseteq Active(q) /\ op'[d].policy = q
        BY <4>1, <4>4
      <4> QED BY <4>1, <4>3, <4>4, <4>5
    <3> QED BY <3>1, <3>2
  <2> QED BY <2>1 DEF ListedAll
<1>2. OneActiveUnlessRaced'
  BY DEF IInv, OneActiveUnlessRaced
<1>3. ProtectionLostHasCause'
  <2>1. ASSUME NEW q \in governed', Active(q)' = {}, cause'[q] = {}
        PROVE  \E d \in Clients : pc'[d] = "activating" /\ op'[d].policy = q
    <3>1. q \in governed /\ q \in Policies  BY DEF IInv, TypeOK
    <3>2. CASE Active(q) # {}  BY <2>1, <3>1, <3>2
    <3>3. CASE Active(q) = {}
      <4>1. PICK d \in Clients : pc[d] = "activating" /\ op[d].policy = q
        BY <2>1, <3>1, <3>3 DEF IInv, ProtectionLostHasCause
      <4> QED BY <2>1, <4>1 DEF Rests
    <3> QED BY <3>2, <3>3
  <2> QED BY <2>1 DEF ProtectionLostHasCause
<1> QED BY <1>1, <1>2, <1>3

\* The last call of an activation that met no rival finds the other versions
\* archived; a rival of it is told.
LEMMA LastCall ==
    ASSUME IInv, NEW c \in Clients, set_active(c)
    PROVE  ListedAll' /\ OneActiveUnlessRaced' /\ ProtectionLostHasCause'
<1>1. PICK p \in Policies : p = op[c].policy  BY DEF set_active, IInv, OpOK
<1>2. PICK v \in Versions : v = op[c].version  BY DEF set_active, IInv, OpOK
<1>3. Known  BY DEF IInv, Known
<1>4. /\ pc[c] = "activating" /\ op[c].todo = {}
      /\ split' = [split EXCEPT ![p] = op[c].raced]
      /\ cause' = [cause EXCEPT ![p] = IF v \in Stored(p) THEN {} ELSE @ \cup {"missing"}]
      /\ governed' = IF v \in Stored(p) THEN governed \cup {p} ELSE governed
  BY <1>1, <1>2 DEF set_active
<1>5. /\ \A q \in Policies : q # p => Active(q)' = Active(q)
      /\ v \in Stored(p) => Active(p)' = Active(p) \cup {v}
      /\ v \notin Stored(p) => Active(p)' = Active(p) \ {v}
      /\ pc'[c] = "activated" /\ \A d \in Clients \ {c} : pc'[d] = pc[d]
      /\ \A d \in Clients :
            /\ op'[d].policy = op[d].policy /\ op'[d].version = op[d].version
            /\ op'[d].todo = op[d].todo
            /\ op'[d].raced = (op[d].raced \/ (/\ pc[d] = "activating"
                                               /\ op[d].policy = p /\ op[d].version # v
                                               /\ v \in Stored(p)))
  BY <1>1, <1>2, <1>3, SetsActive
<1>6. ListedAll'
  <2>1. ASSUME NEW d \in Clients, pc'[d] = "activating", ~op'[d].raced
        PROVE  Active(op[d].policy)' \subseteq op'[d].todo \cup {op'[d].version}
    <3>1. d # c /\ pc[d] = "activating" /\ ~op[d].raced  BY <1>5, <2>1
    <3>2. PICK q \in Policies : q = op[d].policy  BY <3>1 DEF IInv, OpOK
    <3>3. Active(q) \subseteq op[d].todo \cup {op[d].version}
      BY <3>1, <3>2 DEF IInv, ListedAll
    <3>4. Active(q)' \subseteq op[d].todo \cup {op[d].version}
      <4>1. CASE q # p  BY <1>5, <3>3, <4>1
      <4>2. CASE q = p /\ v \in Stored(p)
        <5>1. op[d].version = v  BY <1>5, <2>1, <3>1, <3>2, <4>2
        <5>2. Active(q)' = Active(q) \cup {v}  BY <1>5, <4>2
        <5> QED BY <3>3, <5>1, <5>2
      <4>3. CASE q = p /\ v \notin Stored(p)
        <5>1. Active(q)' \subseteq Active(q)  BY <1>5, <4>3
        <5> QED BY <3>3, <5>1
      <4> QED BY <4>1, <4>2, <4>3
    <3>5. op'[d].policy = q /\ op'[d].todo = op[d].todo /\ op'[d].version = op[d].version
      BY <1>5, <3>2
    <3> QED BY <3>4, <3>5
  <2> QED BY <2>1 DEF ListedAll
<1>7. OneActiveUnlessRaced'
  <2>1. ASSUME NEW q \in Policies, ~split'[q], NEW x \in Active(q)', NEW y \in Active(q)'
        PROVE  x = y
    <3>1. CASE q # p
      <4>1. ~split[q] /\ Active(q)' = Active(q)  BY <1>4, <1>5, <2>1, <3>1 DEF IInv, TypeOK
      <4>2. x \in Active(q) /\ y \in Active(q)  BY <4>1
      <4> QED BY <4>1, <4>2 DEF IInv, OneActiveUnlessRaced
    <3>2. CASE q = p
      <4>1. ~op[c].raced  BY <1>4, <2>1, <3>2 DEF IInv, TypeOK
      <4>2. Active(p) \subseteq {v}  BY <1>1, <1>2, <1>4, <4>1 DEF IInv, ListedAll
      <4>3. Active(p)' \subseteq {v}  BY <1>5, <4>2
      <4> QED BY <3>2, <4>3
    <3> QED BY <3>1, <3>2
  <2> QED BY <2>1 DEF OneActiveUnlessRaced
<1>8. ProtectionLostHasCause'
  <2>1. ASSUME NEW q \in governed', Active(q)' = {}, cause'[q] = {}
        PROVE  \E d \in Clients : pc'[d] = "activating" /\ op'[d].policy = q
    <3>1. q \in Policies /\ cause \in [Policies -> SUBSET Causes]
      BY <1>4 DEF IInv, TypeOK
    <3>2. q # p
      <4>1. CASE v \in Stored(p)  BY <1>5, <2>1, <4>1
      <4>2. CASE v \notin Stored(p)  BY <1>4, <2>1, <3>1, <4>2
      <4> QED BY <4>1, <4>2
    <3>3. q \in governed /\ Active(q) = {} /\ cause[q] = {}
      BY <1>4, <1>5, <2>1, <3>1, <3>2
    <3>4. PICK d \in Clients : pc[d] = "activating" /\ op[d].policy = q
      BY <3>3 DEF IInv, ProtectionLostHasCause
    <3> QED BY <1>1, <1>5, <3>2, <3>4
  <2> QED BY <2>1 DEF ProtectionLostHasCause
<1> QED BY <1>6, <1>7, <1>8

\* Every step keeps the invariant, and no step rewrites a version.
LEMMA InvStep ==
    ASSUME IInv, Next
    PROVE  IInv' /\ TextKept
<1>1. Known  BY DEF IInv, Known
<1>2. PICK c \in Clients :
        \/ \E p \in Policies, x \in Contents, e \in Targets :
             \/ \E t \in Types : create_policy(c, p, t, x, e)
             \/ update_policy(c, p, x, e)
        \/ save(c) \/ save_fails(c)
        \/ \E p \in Policies, v \in Versions :
             \/ activate_policy(c, p, v)
             \/ \E status \in {"draft", "archived"} : update_status(c, p, v, status)
             \/ delete_version(c, p, v)
        \/ \E w \in Versions : archive(c, w)
        \/ set_active(c) \/ status_updated(c) \/ activate_fails(c)
        \/ \E p \in Policies : delete_policy(c, p)
  BY DEF Next
<1>3. ASSUME NEW p \in Policies, NEW x \in Contents, NEW e \in Targets, NEW t \in Types,
             create_policy(c, p, t, x, e)
      PROVE  IInv' /\ TextKept
  <2>1. /\ Known' /\ TextKept /\ \A q \in Policies : Active(q)' = Active(q)
        /\ \A d \in Clients : Rests(d)
    BY <1>1, <1>3, Creates
  <2>2. pc[c] = "idle" /\ UNCHANGED <<split, governed, cause>>  BY <1>3 DEF create_policy
  <2>3. pc'[c] = "idle"  BY <2>1, <2>2 DEF Rests
  <2> QED BY <2>1, <2>2, <2>3, QuietStep DEF IInv, Known
<1>4. ASSUME NEW p \in Policies, NEW x \in Contents, NEW e \in Targets,
             update_policy(c, p, x, e)
      PROVE  IInv' /\ TextKept
  <2>1. Known' /\ rows' = rows /\ pc'[c] = "updating" /\ \A d \in Clients \ {c} : Rests(d)
    BY <1>1, <1>4, Updates
  <2>2. pc[c] = "idle" /\ UNCHANGED <<split, governed, cause>>  BY <1>4 DEF update_policy
  <2> QED BY <2>1, <2>2, QuietStep, RowsKept DEF IInv, Known
<1>5. CASE save(c)
  <2>1. PICK p \in Policies, v \in Versions : p = op[c].policy /\ v = op[c].version
    BY <1>1, <1>5 DEF save, Known, OpOK
  <2>2. /\ Known' /\ TextKept /\ pc'[c] = "idle" /\ \A d \in Clients \ {c} : Rests(d)
        /\ \A q \in Policies : Active(q)' = Active(q)
    BY <1>1, <1>5, <2>1, Saves
  <2>3. pc[c] = "updating" /\ UNCHANGED <<split, governed, cause>>  BY <1>5 DEF save
  <2> QED BY <2>2, <2>3, QuietStep DEF IInv, Known
<1>6. CASE save_fails(c) \/ status_updated(c) \/ activate_fails(c)
  <2>1. Known' /\ rows' = rows /\ pc'[c] = "idle" /\ \A d \in Clients \ {c} : Rests(d)
    BY <1>1, <1>6, OnlyEnds
  <2>2. UNCHANGED <<split, governed>> /\ \A q \in Policies : cause[q] \subseteq cause'[q]
    BY <1>1, <1>6 DEF save_fails, status_updated, activate_fails, Known, TypeOK
  <2>3. pc[c] = "activating" => cause'[op[c].policy] # {}
    BY <1>1, <1>6 DEF save_fails, status_updated, activate_fails, Known, OpOK, TypeOK
  <2> QED BY <2>1, <2>2, <2>3, QuietStep, RowsKept DEF IInv, Known
<1>7. ASSUME NEW p \in Policies, NEW v \in Versions, activate_policy(c, p, v)
      PROVE  IInv' /\ TextKept
  <2>1. /\ Known' /\ rows' = rows /\ pc'[c] = "activating"
        /\ op'[c].policy = p /\ Active(p) \subseteq op'[c].todo \cup {op'[c].version}
        /\ \A d \in Clients \ {c} : Rests(d)
    BY <1>1, <1>7, Activates
  <2>2. pc[c] = "idle" /\ UNCHANGED <<split, governed, cause>>  BY <1>7 DEF activate_policy
  <2>3. Active(op[c].policy)' \subseteq op'[c].todo \cup {op'[c].version}
    BY <2>1, RowsKept
  <2> QED BY <2>1, <2>2, <2>3, QuietStep, RowsKept DEF IInv, Known
<1>8. ASSUME NEW p \in Policies,
             \/ delete_policy(c, p)
             \/ \E v \in Versions :
                   \/ delete_version(c, p, v)
                   \/ \E s \in {"draft", "archived"} : update_status(c, p, v, s)
      PROVE  IInv' /\ TextKept
  <2>1. /\ Known' /\ TextKept /\ \A d \in Clients : Rests(d)
        /\ \A q \in Policies : Active(q)' \subseteq Active(q)
        /\ \A q \in Policies : q # p => Active(q)' = Active(q)
        /\ cause'[p] # {} /\ \A q \in Policies : cause[q] \subseteq cause'[q]
    BY <1>1, <1>8, Withdraws
  <2>2. pc[c] = "idle" /\ UNCHANGED <<split, governed>>
    BY <1>8 DEF delete_policy, delete_version, update_status
  <2>3. pc'[c] = "idle"  BY <2>1, <2>2 DEF Rests
  <2> QED BY <2>1, <2>2, <2>3, QuietStep DEF IInv, Known
<1>9. ASSUME NEW w \in Versions, archive(c, w)
      PROVE  IInv' /\ TextKept
  <2>1. PICK p \in Policies : p = op[c].policy  BY <1>1, <1>9 DEF archive, Known, OpOK
  <2>2. /\ Known' /\ TextKept
        /\ Active(p)' = Active(p) \ {w}
        /\ \A q \in Policies : q # p => Active(q)' = Active(q)
        /\ pc'[c] = "activating" /\ op'[c].policy = p
        /\ op'[c].version = op[c].version /\ op'[c].raced = op[c].raced
        /\ op'[c].todo = op[c].todo \ {w}
        /\ \A d \in Clients \ {c} : Rests(d)
    BY <1>1, <1>9, <2>1, Archives
  <2>3. pc[c] = "activating" /\ UNCHANGED <<split, governed, cause>>  BY <1>9 DEF archive
  <2>4. \A q \in Policies : Active(q)' \subseteq Active(q)  BY <2>2
  <2>5. ~op'[c].raced => Active(op[c].policy)' \subseteq op'[c].todo \cup {op'[c].version}
    <3>1. ~op[c].raced => Active(p) \subseteq op[c].todo \cup {op[c].version}
      BY <2>1, <2>3 DEF IInv, ListedAll
    <3>2. ~op'[c].raced => Active(p)' \subseteq op'[c].todo \cup {op'[c].version}
      BY <2>2, <3>1
    <3> QED BY <2>2, <3>2
  <2> QED BY <2>1, <2>2, <2>3, <2>4, <2>5, QuietStep DEF IInv, Known
<1>10. CASE set_active(c)
  <2>1. PICK p \in Policies, v \in Versions : p = op[c].policy /\ v = op[c].version
    BY <1>1, <1>10 DEF set_active, Known, OpOK
  <2>2. Known' /\ TextKept  BY <1>1, <1>10, <2>1, SetsActive
  <2> QED BY <1>10, <2>2, LastCall DEF IInv, Known
<1> QED BY <1>2, <1>3, <1>4, <1>5, <1>6, <1>7, <1>8, <1>9, <1>10

LEMMA InvStutter == IInv /\ UNCHANGED vars => IInv'
<1> SUFFICES ASSUME IInv, UNCHANGED vars PROVE IInv'  OBVIOUS
<1>1. UNCHANGED <<rows, pc, op, used, split, cause, governed>>  BY DEF vars
<1>2. TypeOK' /\ OpOK'  BY <1>1 DEF IInv, TypeOK, OpOK
<1>3. IdsHandedOut' /\ ListedAll'
  BY <1>1 DEF IInv, IdsHandedOut, ListedAll, Stored, Active
<1>4. OneActiveUnlessRaced' /\ ProtectionLostHasCause'
  BY <1>1 DEF IInv, OneActiveUnlessRaced, ProtectionLostHasCause, Stored, Active
<1> QED BY <1>2, <1>3, <1>4 DEF IInv

\* IInv holds in every reachable state, for any number of clients, policies
\* and versions, wherever the transactions of activate_policy, update_policy
\* and the deletions interleave and whichever of them fail.
THEOREM Invariance == Spec => []IInv
<1>1. IInv /\ [Next]_vars => IInv'  BY InvStep, InvStutter
<1> QED BY <1>1, InvInit, PTL DEF Spec

\* Two versions of a policy are active together only when activations raced
\* (policy/management.py:99).
THEOREM OneActive == Spec => []OneActiveUnlessRaced
<1>1. IInv => OneActiveUnlessRaced  BY DEF IInv
<1> QED BY <1>1, Invariance, PTL

\* A policy once in force is unenforced only for a reason: a failed or void
\* activation, a withdrawal, a deletion, or one still under way
\* (policy/management.py:105).
THEOREM ProtectionKept == Spec => []ProtectionLostHasCause
<1>1. IInv => ProtectionLostHasCause  BY DEF IInv
<1> QED BY <1>1, Invariance, PTL

\* The content of a version never changes while the version exists: racing
\* updates do not overwrite each other and no status change touches it.
THEOREM TextsAreImmutable == Spec => VersionsAreImmutable
<1>1. IInv /\ [Next]_vars =>
        [\A p \in Policies, v \in Versions :
           v \in Stored(p) /\ rows'[p][v] # NoRow =>
             [rows[p][v] EXCEPT !.status = "draft"] = [rows'[p][v] EXCEPT !.status = "draft"]]_vars
  BY InvStep DEF TextKept, Text
<1> QED BY <1>1, Invariance, PTL DEF Spec, VersionsAreImmutable
=============================================================================
