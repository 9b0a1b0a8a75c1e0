---------------------------- MODULE VaultProofs ----------------------------
(***************************************************************************)
(* Proofs about the vault, for any number of processes, apps, keys and     *)
(* memories, whenever the operator rotates and whatever ring the others    *)
(* hold: types; that a returned rotation and a returned migration cover    *)
(* every row but the named exceptions, for good, and lock none of them     *)
(* away; and that a memory leaves its app only by an upsert of another.    *)
(***************************************************************************)
EXTENDS Vault, TLAPS

OpenStore(c) == held[c] # Closed
Walking(c, job) == op[c].at \in {"walk", "rewrite"} /\ op[c].job = job

-----------------------------------------------------------------------------
(* Types *)

\* What each process may be in the middle of.
TouchCall == [at : {"touch"}, id : Ids, body : Bodies, key : Keys \cup {Plain, Bare}]
IdCall    == [at : {"tag", "erase"}, id : Ids]
Walk0     == [at : {"walk"}, job : {"rotate", "encrypt"}, todo : SUBSET Ids]
Walk1     == [at : {"rewrite"}, job : {"rotate", "encrypt"}, todo : SUBSET Ids,
              id : Ids, body : Bodies]

\* A row that is there is no row marker.
LEMMA PresentRow ==
  ASSUME TypeOK, NEW id \in Ids, id \in Present
  PROVE  rows[id] \in Row
BY DEF TypeOK, Present

\* A row is never mistaken for a missing one.
LEMMA RowIsNotGone ==
  ASSUME NEW r \in Row PROVE r # Gone
BY VaultAssumption

\* An upsert writes a row.
LEMMA StoredType ==
  ASSUME TypeOK, NEW id \in Ids, NEW body \in Bodies,
         NEW key \in Keys \cup {Plain, Bare}
  PROVE  Stored(id, body, key) \in Row
BY PresentRow DEF Stored, Row

\* And keeps the history of what strayed within its type.
LEMMA StrayedType ==
  ASSUME TypeOK, NEW id \in Ids, NEW key
  PROVE  Strayed(id, key) \subseteq Ids
BY DEF TypeOK, Strayed

\* TypeOK, over every step of the vault.
LEMMA TypeStep == TypeOK /\ [Next]_vars => TypeOK'
<1> SUFFICES ASSUME TypeOK, [Next]_vars PROVE TypeOK'
  OBVIOUS
<1> USE VaultAssumption
<1> DEFINE Calls == {Idle} \cup TouchCall \cup IdCall \cup Walk0 \cup Walk1
<1>0. /\ rows \in [Ids -> Row \cup {Gone}]
      /\ ring \in Ring
      /\ held \in [Clients -> Store \cup {PlainEngine, Closed}]
      /\ op \in [Clients -> Calls]
      /\ drawn \subseteq Keys
      /\ rotated \in Keys \cup {Plain} /\ migrated \in BOOLEAN
      /\ astray \subseteq Ids /\ handed \subseteq Apps \X Ids
      /\ \A c \in Clients :
           /\ held[c] = Closed => op[c] = Idle
           /\ op[c].at = "tag" => held[c].scope # NoApp
           /\ op[c].at \in {"walk", "rewrite"} => held[c].proxy
  BY DEF TypeOK, TouchCall, IdCall, Walk0, Walk1
<1>1. ASSUME NEW k \in Keys, Rekey(k) PROVE TypeOK'
  BY <1>1, <1>0 DEF Rekey, TypeOK, Ring
<1>2. CASE DropRetired
  BY <1>2, <1>0 DEF DropRetired, TypeOK, Ring
<1>3. ASSUME NEW c \in Clients, NEW scope \in Apps \cup {NoApp}, Open(c, scope)
      PROVE  TypeOK'
  <2>1. [primary |-> ring.primary, retired |-> ring.retired,
         scope |-> scope, proxy |-> TRUE] \in Store
    BY <1>0 DEF Ring, Store
  <2>2. held' \in [Clients -> Store \cup {PlainEngine, Closed}]
    BY <1>3, <1>0, <2>1 DEF Open
  <2>3. \A o \in Clients : op'[o].at \in {"tag", "walk", "rewrite"} => o # c
    BY <1>3, <1>0 DEF Open, Idle
  <2> QED
    BY <1>3, <1>0, <2>2, <2>3 DEF Open, TypeOK
<1>4. ASSUME NEW c \in Clients, OpenPlain(c) PROVE TypeOK'
  <2>1. \A o \in Clients : op'[o].at \in {"tag", "walk", "rewrite"} => o # c
    BY <1>4, <1>0 DEF OpenPlain, Idle
  <2> QED
    BY <1>4, <1>0, <2>1 DEF OpenPlain, TypeOK
<1>5. ASSUME NEW c \in Clients, Stop(c) PROVE TypeOK'
  BY <1>5, <1>0 DEF Stop, TypeOK, Idle
<1>6. ASSUME NEW c \in Clients, NEW id \in Ids, NEW body \in Bodies, Upsert(c, id, body)
      PROVE  TypeOK'
  <2>1. held[c] \in Store
    BY <1>6, <1>0 DEF Upsert, VaultReady, Ready
  <2>2. Stored(id, body, held[c].primary) \in Row
    BY <2>1, StoredType DEF Store
  <2>3. rows' \in [Ids -> Row \cup {Gone}]
    BY <1>6, <1>0, <2>2 DEF Upsert
  <2>4. AfterWrite(c, id) \in {Idle} \cup IdCall
    BY DEF AfterWrite, IdCall
  <2>5. op' \in [Clients -> Calls]
    BY <1>6, <1>0, <2>4 DEF Upsert
  <2>6. handed' \subseteq Apps \X Ids
    BY <1>6, <1>0, <2>1 DEF Upsert, Store
  <2>7. astray' \subseteq Ids
    BY <1>6, StrayedType DEF Upsert
  <2>8. \A o \in Clients :
          /\ held'[o] = Closed => op'[o] = Idle
          /\ op'[o].at = "tag" => held'[o].scope # NoApp
          /\ op'[o].at \in {"walk", "rewrite"} => held'[o].proxy
    BY <1>6, <1>0 DEF Upsert, VaultReady, Ready, AfterWrite, Idle
  <2> QED
    BY <1>6, <1>0, <2>3, <2>5, <2>6, <2>7, <2>8 DEF Upsert, TypeOK, TouchCall, IdCall, Walk0, Walk1
<1>7. ASSUME NEW c \in Clients, NEW id \in Ids, NEW body \in Bodies, PlainCapture(c, id, body)
      PROVE  TypeOK'
  <2>1. Stored(id, body, Bare) \in Row
    BY StoredType
  <2>2. rows' \in [Ids -> Row \cup {Gone}]
    BY <1>7, <1>0, <2>1 DEF PlainCapture
  <2>3. astray' \subseteq Ids
    BY <1>7, StrayedType DEF PlainCapture
  <2> QED
    BY <1>7, <1>0, <2>2, <2>3 DEF PlainCapture, TypeOK
<1>8. ASSUME NEW c \in Clients, NEW id \in Ids, NEW body \in Bodies, Touch(c, id, body)
      PROVE  TypeOK'
  <2>1. held[c] \in Store
    BY <1>8, <1>0 DEF Touch, VaultReady, Ready
  <2>2. op' \in [Clients -> Calls]
    BY <1>8, <1>0, <2>1 DEF Touch, TouchCall, Store
  <2> QED
    BY <1>8, <1>0, <2>2 DEF Touch, VaultReady, Ready, TypeOK, TouchCall, IdCall, Walk0, Walk1
<1>9. ASSUME NEW c \in Clients, NEW id \in Ids, NEW body \in Bodies, PlainTouch(c, id, body)
      PROVE  TypeOK'
  <2>1. rows[id] \in Row
    BY <1>9, PresentRow DEF PlainTouch
  <2>2. op' \in [Clients -> Calls]
    BY <1>9, <1>0, <2>1 DEF PlainTouch, TouchCall, Row
  <2> QED
    BY <1>9, <1>0, <2>2 DEF PlainTouch, Ready, TypeOK, TouchCall, IdCall, Walk0, Walk1
<1>10. ASSUME NEW c \in Clients, TouchWrite(c) PROVE TypeOK'
  <2>1. op[c] \in TouchCall
    BY <1>10, <1>0 DEF TouchWrite, Idle, TouchCall, IdCall, Walk0, Walk1
  <2>2. Stored(op[c].id, op[c].body, op[c].key) \in Row
    BY <2>1, StoredType DEF TouchCall
  <2>3. rows' \in [Ids -> Row \cup {Gone}]
    BY <1>10, <1>0, <2>1, <2>2 DEF TouchWrite, TouchCall
  <2>4. AfterWrite(c, op[c].id) \in {Idle} \cup IdCall
    BY <2>1 DEF AfterWrite, IdCall, TouchCall
  <2>5. op' \in [Clients -> Calls]
    BY <1>10, <1>0, <2>4 DEF TouchWrite
  <2>6. astray' \subseteq Ids
    BY <1>10, <2>1, StrayedType DEF TouchWrite, TouchCall
  <2>7. \A o \in Clients :
          /\ held'[o] = Closed => op'[o] = Idle
          /\ op'[o].at = "tag" => held'[o].scope # NoApp
          /\ op'[o].at \in {"walk", "rewrite"} => held'[o].proxy
    BY <1>10, <1>0, <2>1 DEF TouchWrite, AfterWrite, Idle, TouchCall
  <2> QED
    BY <1>10, <1>0, <2>3, <2>5, <2>6, <2>7 DEF TouchWrite, TypeOK, TouchCall, IdCall, Walk0, Walk1
<1>11. ASSUME NEW c \in Clients, Tag(c) PROVE TypeOK'
  <2>1. op[c] \in IdCall /\ held[c] # Closed /\ held[c].scope # NoApp
    BY <1>11, <1>0 DEF Tag, Idle, TouchCall, IdCall, Walk0, Walk1
  <2>2. held[c].scope \in Apps
    BY <1>0, <2>1 DEF Store, PlainEngine
  <2>3. rows' \in [Ids -> Row \cup {Gone}]
    <3>1. CASE op[c].id \in Present
      <4>1. rows[op[c].id] \in Row
        BY <3>1, <2>1, PresentRow DEF IdCall
      <4>2. [rows[op[c].id] EXCEPT !.app = held[c].scope] \in Row
        BY <4>1, <2>2 DEF Row
      <4> QED
        BY <1>11, <1>0, <2>1, <3>1, <4>2 DEF Tag, IdCall
    <3>2. CASE op[c].id \notin Present
      BY <1>11, <1>0, <3>2 DEF Tag
    <3> QED
      BY <3>1, <3>2
  <2> QED
    BY <1>11, <1>0, <2>3 DEF Tag, TypeOK, Idle
<1>12. ASSUME NEW c \in Clients, NEW id \in Ids, FetchToDelete(c, id) PROVE TypeOK'
  <2>1. op' \in [Clients -> Calls]
    BY <1>12, <1>0 DEF FetchToDelete, IdCall
  <2> QED
    BY <1>12, <1>0, <2>1 DEF FetchToDelete, Ready, TypeOK, TouchCall, IdCall, Walk0, Walk1
<1>13. ASSUME NEW c \in Clients, Erase(c) PROVE TypeOK'
  BY <1>13, <1>0 DEF Erase, TypeOK, Idle
<1>14. ASSUME NEW c \in Clients, NEW job \in {"rotate", "encrypt"}, StartWalk(c, job)
       PROVE  TypeOK'
  <2>1. op' \in [Clients -> Calls]
    BY <1>14, <1>0 DEF StartWalk, WalkIds, Present, Walk0
  <2> QED
    BY <1>14, <1>0, <2>1 DEF StartWalk, VaultReady, Ready, TypeOK, TouchCall, IdCall, Walk0, Walk1
<1>15. ASSUME NEW c \in Clients, NEW id \in Ids, WalkOver(c, id) PROVE TypeOK'
  <2>1. op[c] \in Walk0
    BY <1>15, <1>0 DEF WalkOver, Idle, TouchCall, IdCall, Walk0, Walk1
  <2>2. Passed(c, id) \in Walk0
    BY <2>1 DEF Passed, Walk0
  <2>3. op' \in [Clients -> Calls]
    BY <1>15, <1>0, <2>2 DEF WalkOver
  <2> QED
    BY <1>15, <1>0, <2>1, <2>3 DEF WalkOver, Passed, Idle, TypeOK, TouchCall, IdCall, Walk0, Walk1
<1>16. ASSUME NEW c \in Clients, NEW id \in Ids, WalkRaises(c, id) PROVE TypeOK'
  BY <1>16, <1>0 DEF WalkRaises, TypeOK, Idle
<1>17. ASSUME NEW c \in Clients, NEW id \in Ids, WalkRead(c, id) PROVE TypeOK'
  <2>1. op[c] \in Walk0
    BY <1>17, <1>0 DEF WalkRead, Idle, TouchCall, IdCall, Walk0, Walk1
  <2>2. rows[id].body \in Bodies
    <3>1. id \in Present
      BY <1>17 DEF WalkRead, Settled
    <3> QED
      BY <3>1, PresentRow DEF Row
  <2>3. op' \in [Clients -> Calls]
    BY <1>17, <1>0, <2>1, <2>2 DEF WalkRead, Walk0, Walk1
  <2> QED
    BY <1>17, <1>0, <2>1, <2>3 DEF WalkRead, Idle, TypeOK, TouchCall, IdCall, Walk0, Walk1
<1>18. ASSUME NEW c \in Clients, Rewrite(c) PROVE TypeOK'
  <2>1. op[c] \in Walk1
    BY <1>18, <1>0 DEF Rewrite, Idle, TouchCall, IdCall, Walk0, Walk1
  <2>2. held[c] \in Store
    BY <1>0, <2>1 DEF Walk1, Idle, PlainEngine
  <2>3. Stored(op[c].id, op[c].body, held[c].primary) \in Row
    BY <2>1, <2>2, StoredType DEF Walk1, Store
  <2>4. rows' \in [Ids -> Row \cup {Gone}]
    BY <1>18, <1>0, <2>1, <2>3 DEF Rewrite, Walk1
  <2>5. Passed(c, op[c].id) \in Walk0
    BY <2>1 DEF Passed, Walk0, Walk1
  <2>6. op' \in [Clients -> Calls]
    BY <1>18, <1>0, <2>5 DEF Rewrite
  <2>7. astray' \subseteq Ids
    BY <1>18, <2>1, StrayedType DEF Rewrite, Walk1
  <2> QED
    BY <1>18, <1>0, <2>1, <2>4, <2>6, <2>7 DEF Rewrite, Passed, Idle, TypeOK, TouchCall, IdCall, Walk0, Walk1
<1>19. ASSUME NEW c \in Clients, WalkReturns(c) PROVE TypeOK'
  <2>1. held[c] \in Store
    BY <1>19, <1>0 DEF WalkReturns, Idle, PlainEngine
  <2> QED
    BY <1>19, <1>0, <2>1 DEF WalkReturns, TypeOK, Idle, Store
<1>20. ASSUME NEW c \in Clients, NEW app \in Apps, RegisterApp(c, app) PROVE TypeOK'
  <2>1. AppStore(app) \in Store
    BY DEF AppStore, Store
  <2>2. held' \in [Clients -> Store \cup {PlainEngine, Closed}]
    BY <1>20, <1>0, <2>1 DEF RegisterApp
  <2>3. \A o \in Clients : op'[o].at \in {"tag", "walk", "rewrite"} => o # c
    BY <1>20, <1>0 DEF RegisterApp, Idle
  <2> QED
    BY <1>20, <1>0, <2>2, <2>3 DEF RegisterApp, TypeOK
<1>21. CASE UNCHANGED vars
  BY <1>21, <1>0 DEF vars, TypeOK
<1> QED
  BY <1>1, <1>2, <1>3, <1>4, <1>5, <1>6, <1>7, <1>8, <1>9, <1>10, <1>11, <1>12, <1>13,
     <1>14, <1>15, <1>16, <1>17, <1>18, <1>19, <1>20, <1>21 DEF Next, RowOp, Walk

\* Nothing is stored and no process is open.
LEMMA InitTypes == Init => TypeOK
<1> SUFFICES ASSUME Init PROVE TypeOK
  OBVIOUS
<1>1. PICK k \in Keys \cup {Plain} : ring = [primary |-> k, retired |-> {}]
  BY DEF Init
<1>2. ring \in Ring /\ rotated \in Keys \cup {Plain} /\ drawn \subseteq Keys
  BY <1>1 DEF Init, Ring
<1> QED
  BY <1>2 DEF Init, TypeOK, Idle

\* The types hold, whatever the rings the processes hold.
THEOREM VaultTypes == Spec => []TypeOK
<1> QED
  BY InitTypes, TypeStep, PTL DEF Spec


-----------------------------------------------------------------------------
(* Key rotation *)

\* A rotation to the present primary, under way.
RotatingNow(c) == Walking(c, "rotate") /\ held[c].primary = ring.primary

\* Nobody has, or is about to write, a key the operator never configured.
KeysDrawn ==
  /\ ring.primary \in drawn \cup {Plain}
  /\ ring.primary = Plain => drawn = {}
  /\ rotated \in drawn \cup {Plain}
  /\ \A c \in Clients :
       /\ OpenStore(c) => held[c].primary \in drawn \cup {Plain, Bare}
       /\ op[c].at = "touch" => op[c].key \in drawn \cup {Plain, Bare}
  /\ \A id \in Present : rows[id].key \in drawn \cup {Plain, Bare}

RowsKeepTheirKey ==
  \A id \in Present \ astray :
    rows[id].key \in {ring.primary, Plain, Bare} \cup ring.retired

\* What a walk has behind it, rows it never saw included, is rotated or excepted.
PassedRowsRotated ==
  \A c \in Clients : RotatingNow(c) =>
    \A id \in (Present \ astray) \ op[c].todo : rows[id].key \in {ring.primary, Bare}

RotationInv ==
  /\ TypeOK
  /\ KeysDrawn
  /\ RowsKeepTheirKey
  /\ PassedRowsRotated
  /\ RotationIsComplete

\* A step that writes no row keeps the invariant, if a rotation gets no row
\* behind it that is not under its primary.
LEMMA NoKeyWritten ==
  ASSUME RotationInv, TypeOK', UNCHANGED <<ring, held, drawn, rotated>>,
         \A id \in Present' : /\ id \in Present /\ rows'[id].key = rows[id].key
                              /\ id \in astray => id \in astray',
         \A o \in Clients : op'[o].at = "touch" =>
                              op'[o].key \in drawn \cup {Plain, Bare},
         \A o \in Clients : RotatingNow(o)' =>
           /\ RotatingNow(o)
           /\ \A id \in (Present \ astray) \ op'[o].todo :
                id \in op[o].todo => rows[id].key \in {ring.primary, Bare}
  PROVE  RotationInv'
<1>1. KeysDrawn' /\ RowsKeepTheirKey' /\ RotationIsComplete'
  BY DEF RotationInv, KeysDrawn, RowsKeepTheirKey, RotationIsComplete, OpenStore
<1>2. PassedRowsRotated'
  <2> SUFFICES ASSUME NEW o \in Clients, RotatingNow(o)',
                      NEW id \in Present', id \notin astray', id \notin op'[o].todo
               PROVE  rows'[id].key \in {ring.primary, Bare}
    BY DEF PassedRowsRotated
  <2>1. RotatingNow(o) /\ id \in Present \ astray /\ rows'[id].key = rows[id].key
    OBVIOUS
  <2>2. CASE id \in op[o].todo
    BY <2>1, <2>2
  <2>3. CASE id \notin op[o].todo
    BY <2>1, <2>3 DEF RotationInv, PassedRowsRotated
  <2> QED
    BY <2>2, <2>3
<1> QED
  BY <1>1, <1>2 DEF RotationInv

\* Neither does the write of one row, under whatever key: it is the primary,
\* or the row carries no token, or it is noted as astray.
LEMMA OneRowWritten ==
  ASSUME RotationInv, TypeOK', UNCHANGED <<ring, held, drawn, rotated>>,
         NEW one \in Ids, NEW body \in Bodies, NEW key \in drawn \cup {Plain, Bare},
         rows' = [rows EXCEPT ![one] = Stored(one, body, key)],
         astray' = Strayed(one, key),
         \A o \in Clients : op'[o].at = "touch" =>
                              op'[o].key \in drawn \cup {Plain, Bare},
         \A o \in Clients : RotatingNow(o)' =>
           RotatingNow(o) /\ op[o].todo \subseteq op'[o].todo \cup {one}
  PROVE  RotationInv'
<1>1. rows'[one].key = key /\ (one \notin astray' => key \in {ring.primary, Bare})
  BY DEF RotationInv, TypeOK, Stored, Strayed
<1>2. \A id \in Ids : id # one => rows'[id] = rows[id] /\ (id \in astray' <=> id \in astray)
  BY DEF RotationInv, TypeOK, Strayed
<1>3. \A id \in Present' : id = one \/ (id \in Present /\ rows'[id].key = rows[id].key)
  BY <1>2 DEF Present
<1>4. KeysDrawn'
  BY <1>1, <1>3 DEF RotationInv, KeysDrawn, OpenStore
<1>5. RowsKeepTheirKey' /\ RotationIsComplete'
  BY <1>1, <1>2, <1>3 DEF RotationInv, RowsKeepTheirKey, RotationIsComplete, Present
<1>6. PassedRowsRotated'
  <2> SUFFICES ASSUME NEW o \in Clients, RotatingNow(o)',
                      NEW id \in Present', id \notin astray', id \notin op'[o].todo
               PROVE  rows'[id].key \in {ring.primary, Bare}
    BY DEF PassedRowsRotated
  <2>1. CASE id = one
    BY <1>1, <2>1
  <2>2. CASE id # one
    BY <1>2, <1>3, <2>2 DEF RotationInv, PassedRowsRotated, Present
  <2> QED
    BY <2>1, <2>2
<1> QED
  BY <1>4, <1>5, <1>6 DEF RotationInv

\* The invariant, over every step.
LEMMA RotationStep ==
  ASSUME RotationInv, [Next]_vars
  PROVE  RotationInv'
<1> USE VaultAssumption
<1>1. TypeOK /\ TypeOK'
  BY TypeStep DEF RotationInv
<1>2. ASSUME NEW k \in Keys, Rekey(k) PROVE RotationInv'
  <2>1. /\ ring' = [primary |-> k, retired |-> ring.retired \cup ({ring.primary} \ {Plain})]
        /\ drawn' = drawn \cup {k} /\ k \notin drawn /\ k # Plain
        /\ UNCHANGED <<rows, held, op, rotated, astray>>
    BY <1>2 DEF Rekey
  <2>2. ring'.primary = k /\ ring'.retired = ring.retired \cup ({ring.primary} \ {Plain})
    BY <2>1
  <2>3. rotated # k /\ \A c \in Clients : OpenStore(c) => held[c].primary # k
    BY <2>1 DEF RotationInv, KeysDrawn
  <2>4. \A c \in Clients : ~RotatingNow(c)'
    BY <2>1, <2>2, <2>3, <1>1 DEF RotatingNow, Walking, OpenStore, TypeOK, Idle
  <2>5. KeysDrawn'
    BY <2>1, <2>2 DEF RotationInv, KeysDrawn, Present, OpenStore
  <2>6. RowsKeepTheirKey'
    BY <2>1, <2>2 DEF RotationInv, RowsKeepTheirKey, Present
  <2> QED
    BY <1>1, <2>1, <2>2, <2>3, <2>4, <2>5, <2>6
       DEF RotationInv, PassedRowsRotated, RotationIsComplete
<1>3. CASE DropRetired
  <2>1. UNCHANGED <<rows, held, op, drawn, rotated, astray>> /\ ring'.primary = ring.primary
    BY <1>3, <1>1 DEF DropRetired, TypeOK, Ring
  <2>2. RotationIsComplete' /\ PassedRowsRotated' /\ KeysDrawn'
    BY <2>1 DEF RotationInv, RotationIsComplete, PassedRowsRotated, RotatingNow, Walking,
       KeysDrawn, Present, OpenStore
  <2>3. RowsKeepTheirKey'
    BY <1>3, <2>1 DEF DropRetired, RotationInv, RotationIsComplete, RowsKeepTheirKey, Present
  <2> QED
    BY <1>1, <2>2, <2>3 DEF RotationInv
<1>4. ASSUME NEW c \in Clients, held[c] = Closed,
             held' = [held EXCEPT ![c] = held'[c]],
             held'[c].primary \in drawn \cup {Plain, Bare},
             UNCHANGED <<rows, ring, op, drawn, rotated, astray>>
      PROVE  RotationInv'
  <2>1. \A o \in Clients : o # c => held'[o] = held[o]
    BY <1>4, <1>1 DEF TypeOK
  <2>2. op[c] = Idle
    BY <1>4, <1>1 DEF TypeOK
  <2>3. \A o \in Clients : RotatingNow(o)' => RotatingNow(o)
    BY <1>4, <2>1, <2>2 DEF RotatingNow, Walking, Idle
  <2> QED
    BY <1>1, <1>4, <2>1, <2>3 DEF RotationInv, KeysDrawn, RowsKeepTheirKey,
       PassedRowsRotated, RotationIsComplete, Present, OpenStore
<1>5. ASSUME NEW c \in Clients, NEW scope \in Apps \cup {NoApp}, Open(c, scope)
      PROVE  RotationInv'
  <2>1. held'[c].primary = ring.primary /\ held' = [held EXCEPT ![c] = held'[c]]
    BY <1>5, <1>1 DEF Open, TypeOK
  <2>2. held'[c].primary \in drawn \cup {Plain, Bare}
    BY <2>1 DEF RotationInv, KeysDrawn
  <2> QED
    BY <1>4, <1>5, <2>1, <2>2 DEF Open
<1>6. ASSUME NEW c \in Clients, OpenPlain(c) PROVE RotationInv'
  <2>1. held'[c] = PlainEngine /\ held' = [held EXCEPT ![c] = held'[c]]
    BY <1>6, <1>1 DEF OpenPlain, TypeOK
  <2>2. held'[c].primary = Bare
    BY <2>1 DEF PlainEngine
  <2> QED
    BY <1>4, <1>6, <2>1, <2>2 DEF OpenPlain
<1>7. ASSUME NEW c \in Clients, Stop(c) PROVE RotationInv'
  <2>1. /\ UNCHANGED <<rows, ring, drawn, rotated, astray>>
        /\ held' = [held EXCEPT ![c] = Closed] /\ op' = [op EXCEPT ![c] = Idle]
    BY <1>7 DEF Stop
  <2>2. \A o \in Clients : /\ held'[o] = (IF o = c THEN Closed ELSE held[o])
                           /\ op'[o] = (IF o = c THEN Idle ELSE op[o])
    BY <2>1, <1>1 DEF TypeOK
  <2>3. \A o \in Clients : RotatingNow(o)' => RotatingNow(o) /\ op'[o] = op[o]
    BY <2>1, <2>2 DEF RotatingNow, Walking, Idle
  <2>4. KeysDrawn'
    BY <2>1, <2>2 DEF RotationInv, KeysDrawn, Present, OpenStore, Idle
  <2> QED
    BY <1>1, <2>1, <2>3, <2>4 DEF RotationInv, RowsKeepTheirKey,
       PassedRowsRotated, RotationIsComplete, Present
<1>8. ASSUME NEW c \in Clients, NEW id \in Ids, NEW body \in Bodies, Touch(c, id, body) PROVE RotationInv'
  <2>1. UNCHANGED <<rows, ring, held, drawn, rotated, astray>>
    BY <1>8 DEF Touch
  <2>2. \A o \in Clients : RotatingNow(o)' => RotatingNow(o) /\ op'[o] = op[o]
    BY <1>8, <1>1, <2>1 DEF Touch, VaultReady, Ready, RotatingNow, Walking, TypeOK
  <2>3. \A o \in Clients : op'[o].at = "touch" => op'[o].key \in drawn \cup {Plain, Bare}
    BY <1>8, <1>1 DEF Touch, VaultReady, Ready, OpenStore, TypeOK, RotationInv, KeysDrawn
  <2> QED
    BY <1>1, <2>1, <2>2, <2>3, NoKeyWritten DEF Present
<1>9. ASSUME NEW c \in Clients, NEW id \in Ids, NEW body \in Bodies, PlainTouch(c, id, body)
      PROVE  RotationInv'
  <2>1. UNCHANGED <<rows, ring, held, drawn, rotated, astray>>
    BY <1>9 DEF PlainTouch
  <2>2. \A o \in Clients : RotatingNow(o)' => RotatingNow(o) /\ op'[o] = op[o]
    BY <1>9, <1>1, <2>1 DEF PlainTouch, RotatingNow, Walking, TypeOK
  <2>3. \A o \in Clients : op'[o].at = "touch" => op'[o].key \in drawn \cup {Plain, Bare}
    BY <1>9, <1>1 DEF PlainTouch, OpenStore, TypeOK, RotationInv, KeysDrawn
  <2> QED
    BY <1>1, <2>1, <2>2, <2>3, NoKeyWritten DEF Present
<1>10. ASSUME NEW c \in Clients, NEW id \in Ids, FetchToDelete(c, id) PROVE RotationInv'
  <2>1. UNCHANGED <<rows, ring, held, drawn, rotated, astray>>
    BY <1>10 DEF FetchToDelete
  <2>2. \A o \in Clients : RotatingNow(o)' => RotatingNow(o) /\ op'[o] = op[o]
    BY <1>10, <1>1, <2>1 DEF FetchToDelete, RotatingNow, Walking, TypeOK
  <2>3. \A o \in Clients : op'[o].at = "touch" => op'[o].key \in drawn \cup {Plain, Bare}
    BY <1>10, <1>1 DEF FetchToDelete, TypeOK, RotationInv, KeysDrawn
  <2> QED
    BY <1>1, <2>1, <2>2, <2>3, NoKeyWritten DEF Present
<1>11. ASSUME NEW c \in Clients, NEW id \in Ids, WalkRaises(c, id) PROVE RotationInv'
  <2>1. UNCHANGED <<rows, ring, held, drawn, rotated, astray>>
    BY <1>11 DEF WalkRaises
  <2>2. \A o \in Clients : RotatingNow(o)' => RotatingNow(o) /\ op'[o] = op[o]
    BY <1>11, <1>1, <2>1 DEF WalkRaises, Idle, RotatingNow, Walking, TypeOK
  <2>3. \A o \in Clients : op'[o].at = "touch" => op'[o].key \in drawn \cup {Plain, Bare}
    BY <1>11, <1>1 DEF WalkRaises, Idle, TypeOK, RotationInv, KeysDrawn
  <2> QED
    BY <1>1, <2>1, <2>2, <2>3, NoKeyWritten DEF Present
<1>12. ASSUME NEW c \in Clients, Tag(c) PROVE RotationInv'
  <2>1. UNCHANGED <<ring, held, drawn, rotated, astray>>
    BY <1>12 DEF Tag
  <2>2. \A o \in Clients : RotatingNow(o)' => RotatingNow(o) /\ op'[o] = op[o]
    BY <1>12, <1>1, <2>1 DEF Tag, RotatingNow, Walking, TypeOK, Idle
  <2>3. \A o \in Clients : op'[o].at = "touch" => op'[o].key \in drawn \cup {Plain, Bare}
    BY <1>12, <1>1 DEF Tag, Idle, TypeOK, RotationInv, KeysDrawn
  <2>4. \A id \in Present' : id \in Present /\ rows'[id].key = rows[id].key
    BY <1>12, <1>1, PresentRow DEF Tag, Present, TypeOK, Row
  <2> QED
    BY <1>1, <2>1, <2>2, <2>3, <2>4, NoKeyWritten
<1>13. ASSUME NEW c \in Clients, Erase(c) PROVE RotationInv'
  <2>1. UNCHANGED <<ring, held, drawn, rotated>>
    BY <1>13 DEF Erase
  <2>2. \A o \in Clients : RotatingNow(o)' => RotatingNow(o) /\ op'[o] = op[o]
    BY <1>13, <1>1, <2>1 DEF Erase, RotatingNow, Walking, TypeOK, Idle
  <2>3. \A o \in Clients : op'[o].at = "touch" => op'[o].key \in drawn \cup {Plain, Bare}
    BY <1>13, <1>1 DEF Erase, Idle, TypeOK, RotationInv, KeysDrawn
  <2>4. op[c].id \in Ids
    BY <1>13, <1>1 DEF Erase, TypeOK, Idle
  <2>5. \A id \in Present' : /\ id \in Present /\ rows'[id].key = rows[id].key
                             /\ id \in astray => id \in astray'
    BY <1>13, <1>1, <2>4 DEF Erase, Present, TypeOK
  <2> QED
    BY <1>1, <2>1, <2>2, <2>3, <2>5, NoKeyWritten
<1>14. ASSUME NEW c \in Clients, NEW id \in Ids, NEW body \in Bodies, Upsert(c, id, body)
      PROVE  RotationInv'
  <2>1. UNCHANGED <<ring, held, drawn, rotated>>
    BY <1>14 DEF Upsert
  <2>2. /\ id \in Ids /\ body \in Bodies
        /\ held[c].primary \in drawn \cup {Plain, Bare}
    BY <1>14, <1>1 DEF Upsert, VaultReady, Ready, TypeOK, Idle, OpenStore, RotationInv, KeysDrawn
  <2>3. \A o \in Clients : RotatingNow(o)' => RotatingNow(o) /\ op'[o] = op[o]
    BY <1>14, <1>1, <2>1 DEF Upsert, VaultReady, Ready, AfterWrite, Passed, RotatingNow, Walking, TypeOK, Idle
  <2>4. \A o \in Clients : op'[o].at = "touch" => op'[o].key \in drawn \cup {Plain, Bare}
    BY <1>14, <1>1 DEF Upsert, VaultReady, Ready, AfterWrite, Passed, Idle, TypeOK, RotationInv, KeysDrawn
  <2> QED
    BY <1>1, <1>14, <2>1, <2>2, <2>3, <2>4, OneRowWritten DEF Upsert
<1>15. ASSUME NEW c \in Clients, NEW id \in Ids, NEW body \in Bodies, PlainCapture(c, id, body)
      PROVE  RotationInv'
  <2>1. UNCHANGED <<ring, held, drawn, rotated>>
    BY <1>15 DEF PlainCapture
  <2>2. /\ id \in Ids /\ body \in Bodies
        /\ Bare \in drawn \cup {Plain, Bare}
    BY <1>15, <1>1 DEF PlainCapture, TypeOK, Idle, OpenStore, RotationInv, KeysDrawn
  <2>3. \A o \in Clients : RotatingNow(o)' => RotatingNow(o) /\ op'[o] = op[o]
    BY <1>15, <1>1, <2>1 DEF PlainCapture, AfterWrite, Passed, RotatingNow, Walking, TypeOK, Idle
  <2>4. \A o \in Clients : op'[o].at = "touch" => op'[o].key \in drawn \cup {Plain, Bare}
    BY <1>15, <1>1 DEF PlainCapture, AfterWrite, Passed, Idle, TypeOK, RotationInv, KeysDrawn
  <2> QED
    BY <1>1, <1>15, <2>1, <2>2, <2>3, <2>4, OneRowWritten DEF PlainCapture
<1>16. ASSUME NEW c \in Clients, TouchWrite(c)
      PROVE  RotationInv'
  <2>1. UNCHANGED <<ring, held, drawn, rotated>>
    BY <1>16 DEF TouchWrite
  <2>2. /\ op[c].id \in Ids /\ op[c].body \in Bodies
        /\ op[c].key \in drawn \cup {Plain, Bare}
    BY <1>16, <1>1 DEF TouchWrite, TypeOK, Idle, OpenStore, RotationInv, KeysDrawn
  <2>3. \A o \in Clients : RotatingNow(o)' => RotatingNow(o) /\ op'[o] = op[o]
    BY <1>16, <1>1, <2>1 DEF TouchWrite, AfterWrite, Passed, RotatingNow, Walking, TypeOK, Idle
  <2>4. \A o \in Clients : op'[o].at = "touch" => op'[o].key \in drawn \cup {Plain, Bare}
    BY <1>16, <1>1 DEF TouchWrite, AfterWrite, Passed, Idle, TypeOK, RotationInv, KeysDrawn
  <2> QED
    BY <1>1, <1>16, <2>1, <2>2, <2>3, <2>4, OneRowWritten DEF TouchWrite
<1>17. ASSUME NEW c \in Clients, Rewrite(c)
      PROVE  RotationInv'
  <2>1. UNCHANGED <<ring, held, drawn, rotated>>
    BY <1>17 DEF Rewrite
  <2>2. /\ op[c].id \in Ids /\ op[c].body \in Bodies
        /\ held[c].primary \in drawn \cup {Plain, Bare}
    BY <1>17, <1>1 DEF Rewrite, TypeOK, Idle, OpenStore, RotationInv, KeysDrawn
  <2>3. \A o \in Clients : RotatingNow(o)' => RotatingNow(o) /\ op[o].todo \subseteq op'[o].todo \cup {op[c].id}
    BY <1>17, <1>1, <2>1 DEF Rewrite, AfterWrite, Passed, RotatingNow, Walking, TypeOK, Idle
  <2>4. \A o \in Clients : op'[o].at = "touch" => op'[o].key \in drawn \cup {Plain, Bare}
    BY <1>17, <1>1 DEF Rewrite, AfterWrite, Passed, Idle, TypeOK, RotationInv, KeysDrawn
  <2> QED
    BY <1>1, <1>17, <2>1, <2>2, <2>3, <2>4, OneRowWritten DEF Rewrite
<1>18. ASSUME NEW c \in Clients, NEW id \in Ids, WalkOver(c, id) PROVE RotationInv'
  <2>1. UNCHANGED <<rows, ring, held, drawn, rotated, astray>>
    BY <1>18 DEF WalkOver
  <2>2. \A o \in Clients \ {c} : op'[o] = op[o]
    BY <1>18, <1>1 DEF WalkOver, TypeOK
  <2>3. op'[c] = [at |-> "walk", job |-> op[c].job, todo |-> op[c].todo \ {id}]
    BY <1>18, <1>1 DEF WalkOver, Passed, TypeOK
  <2>4. \A o \in Clients : RotatingNow(o)' => RotatingNow(o)
    BY <1>18, <2>1, <2>2, <2>3 DEF WalkOver, RotatingNow, Walking
  <2>5. RotatingNow(c) /\ id \in Present => rows[id].key \in {ring.primary, Bare}
    BY <1>18 DEF WalkOver, Settled, RotatingNow, Walking, RotationInv, KeysDrawn
  <2>6. \A o \in Clients : RotatingNow(o)' =>
          \A j \in Present \ op'[o].todo :
            j \in op[o].todo => rows[j].key \in {ring.primary, Bare}
    BY <2>2, <2>3, <2>4, <2>5
  <2>7. \A o \in Clients : op'[o].at = "touch" => op'[o].key \in drawn \cup {Plain, Bare}
    BY <2>2, <2>3 DEF RotationInv, KeysDrawn
  <2> QED
    BY <1>1, <2>1, <2>4, <2>6, <2>7, NoKeyWritten DEF Present
<1>19. ASSUME NEW c \in Clients, NEW id \in Ids, WalkRead(c, id) PROVE RotationInv'
  <2>1. UNCHANGED <<rows, ring, held, drawn, rotated, astray>>
    BY <1>19 DEF WalkRead
  <2>2. \A o \in Clients : RotatingNow(o)' =>
          RotatingNow(o) /\ op'[o].todo = op[o].todo
    BY <1>19, <1>1, <2>1 DEF WalkRead, RotatingNow, Walking, TypeOK
  <2>3. \A o \in Clients : op'[o].at = "touch" => op'[o].key \in drawn \cup {Plain, Bare}
    BY <1>19, <1>1 DEF WalkRead, TypeOK, RotationInv, KeysDrawn
  <2> QED
    BY <1>1, <2>1, <2>2, <2>3, NoKeyWritten DEF Present
<1>20. ASSUME NEW c \in Clients, NEW job \in {"rotate", "encrypt"}, StartWalk(c, job)
       PROVE  RotationInv'
  <2>1. UNCHANGED <<rows, ring, held, drawn, rotated, astray>>
    BY <1>20 DEF StartWalk
  <2>2. \A o \in Clients : o # c => op'[o] = op[o]
    BY <1>20, <1>1 DEF StartWalk, TypeOK
  <2>3. op'[c] = [at |-> "walk", job |-> job, todo |-> Present]
    BY <1>20, <1>1 DEF StartWalk, TypeOK, WalkIds
  <2>4. PassedRowsRotated'
    BY <2>1, <2>2, <2>3 DEF RotationInv, PassedRowsRotated, RotatingNow, Walking, Present
  <2>5. KeysDrawn'
    BY <2>1, <2>2, <2>3 DEF RotationInv, KeysDrawn, Present, OpenStore
  <2> QED
    BY <1>1, <2>1, <2>4, <2>5 DEF RotationInv, RowsKeepTheirKey, RotationIsComplete, Present
<1>21. ASSUME NEW c \in Clients, WalkReturns(c) PROVE RotationInv'
  <2>1. UNCHANGED <<rows, ring, held, drawn, astray>>
    BY <1>21 DEF WalkReturns
  <2>2. \A o \in Clients : RotatingNow(o)' => RotatingNow(o) /\ op'[o] = op[o]
    BY <1>21, <1>1, <2>1 DEF WalkReturns, RotatingNow, Walking, TypeOK, Idle
  <2>3. \A o \in Clients : op'[o].at = "touch" => op'[o].key \in drawn \cup {Plain, Bare}
    BY <1>21, <1>1 DEF WalkReturns, Idle, TypeOK, RotationInv, KeysDrawn
  <2>4. CASE rotated' = rotated
    BY <1>1, <2>1, <2>2, <2>3, <2>4, NoKeyWritten DEF Present
  <2>5. CASE rotated' # rotated
    <3>1. /\ op[c].at = "walk" /\ op[c].job = "rotate" /\ op[c].todo = {}
          /\ rotated' = held[c].primary
      BY <1>21, <2>5 DEF WalkReturns
    <3>2. held[c].primary \in drawn \cup {Plain}
      BY <1>1, <3>1 DEF TypeOK, Idle, OpenStore, Store, RotationInv, KeysDrawn
    <3>3. rotated' = ring.primary => RotatingNow(c)
      BY <3>1 DEF RotatingNow, Walking
    <3>4. KeysDrawn'
      BY <2>1, <2>3, <3>1, <3>2 DEF RotationInv, KeysDrawn, Present, OpenStore
    <3>5. RotationIsComplete'
      BY <2>1, <3>1, <3>3 DEF RotationInv, PassedRowsRotated, RotationIsComplete, Present
    <3>6. PassedRowsRotated' /\ RowsKeepTheirKey'
      BY <2>1, <2>2 DEF RotationInv, PassedRowsRotated, RowsKeepTheirKey, Present
    <3> QED
      BY <1>1, <3>4, <3>5, <3>6 DEF RotationInv
  <2> QED
    BY <2>4, <2>5
<1>22. CASE UNCHANGED vars
  <2>1. \A o \in Clients : RotatingNow(o)' => RotatingNow(o) /\ op'[o] = op[o]
    BY <1>22 DEF vars, RotatingNow, Walking
  <2>2. \A o \in Clients : op'[o].at = "touch" => op'[o].key \in drawn \cup {Plain, Bare}
    BY <1>22 DEF vars, RotationInv, KeysDrawn
  <2> QED
    BY <1>1, <1>22, <2>1, <2>2, NoKeyWritten DEF vars, Present
<1>23. ASSUME NEW c \in Clients, NEW app \in Apps, RegisterApp(c, app) PROVE RotationInv'
  <2>1. held'[c] = AppStore(app) /\ held' = [held EXCEPT ![c] = held'[c]]
    BY <1>23, <1>1 DEF RegisterApp, TypeOK
  <2>2. held'[c].primary = Plain
    BY <2>1 DEF AppStore
  <2> QED
    BY <1>4, <1>23, <2>1, <2>2 DEF RegisterApp
<1> QED
  BY <1>2, <1>3, <1>5, <1>6, <1>7, <1>8, <1>9, <1>10, <1>11, <1>12, <1>13, <1>14,
     <1>15, <1>16, <1>17, <1>18, <1>19, <1>20, <1>21, <1>22, <1>23 DEF Next, RowOp, Walk

\* Nobody rotates and there is no row.
LEMMA RotationInit == Init => RotationInv
<1> SUFFICES ASSUME Init PROVE RotationInv
  OBVIOUS
<1>1. PICK k \in Keys \cup {Plain} : ring = [primary |-> k, retired |-> {}]
  BY DEF Init
<1>2. Present = {} /\ \A c \in Clients : /\ ~OpenStore(c) /\ ~RotatingNow(c)
                                        /\ op[c].at # "touch"
  BY DEF Init, Present, OpenStore, RotatingNow, Walking, Idle
<1>3. KeysDrawn
  BY <1>1, <1>2 DEF Init, KeysDrawn
<1> QED
  BY InitTypes, <1>2, <1>3 DEF RotationInv, RowsKeepTheirKey, PassedRowsRotated,
     RotationIsComplete

\* docs/vault.md, steps 1 to 3, with every process live: a rotation to the
\* present primary that returned has left each row under it, and each later
\* write keeps that so, except rows without a token and rows written under
\* another key than the primary (by a store that was not reopened, or a plain
\* engine), until a walk or a store with the present ring writes them again.
THEOREM RotationSafety == Spec => []RotationIsComplete
<1>1. RotationInv /\ [Next]_vars => RotationInv'
  BY RotationStep
<1>2. RotationInv => RotationIsComplete
  BY DEF RotationInv
<1> QED
  BY RotationInit, <1>1, <1>2, PTL DEF Spec

\* Dropping the retired keys once a rotation has returned locks no memory away
\* that was last written under what was then the primary: the keys the operator
\* has read it, or it is in plaintext.
THEOREM ReadableSafety == Spec => []RowsStayReadable
<1>1. RotationInv /\ [Next]_vars => RotationInv'
  BY RotationStep
<1>2. RotationInv => RowsStayReadable
  BY DEF RotationInv, KeysDrawn, RowsKeepTheirKey, RowsStayReadable, Readable
<1> QED
  BY RotationInit, <1>1, <1>2, PTL DEF Spec

-----------------------------------------------------------------------------
(* The keyless days end *)

Migrating(c) == Walking(c, "encrypt")

\* Once a key was configured the vault is never keyless again: from the start
\* of a migration on, plaintext is written only behind the operator.
KeyedOnly ==
  /\ \A c \in Clients : OpenStore(c) /\ held[c].primary \in Keys => ring.primary # Plain
  /\ \A c \in Clients : Migrating(c) => held[c].primary \in Keys
  /\ migrated => ring.primary # Plain

PassedRowsEncrypted ==
  \A c \in Clients : Migrating(c) =>
    \A id \in (Present \ astray) \ op[c].todo : rows[id].key # Plain

MigrationInv ==
  /\ TypeOK
  /\ KeyedOnly
  /\ PassedRowsEncrypted
  /\ MigrationIsComplete

\* A step that writes no row keeps the invariant, if a migration gets no
\* plaintext behind it.
LEMMA NoPlainWritten ==
  ASSUME MigrationInv, TypeOK', UNCHANGED <<ring, held, migrated>>,
         \A id \in Present' : /\ id \in Present /\ rows'[id].key = rows[id].key
                              /\ id \in astray => id \in astray',
         \A o \in Clients : Migrating(o)' =>
           /\ Migrating(o)
           /\ \A id \in (Present \ astray) \ op'[o].todo :
                id \in op[o].todo => rows[id].key # Plain
  PROVE  MigrationInv'
<1>1. MigrationIsComplete' /\ KeyedOnly'
  BY DEF MigrationInv, MigrationIsComplete, KeyedOnly, OpenStore
<1>2. PassedRowsEncrypted'
  <2> SUFFICES ASSUME NEW o \in Clients, Migrating(o)',
                      NEW id \in Present', id \notin astray', id \notin op'[o].todo
               PROVE  rows'[id].key # Plain
    BY DEF PassedRowsEncrypted
  <2>1. Migrating(o) /\ id \in Present \ astray /\ rows'[id].key = rows[id].key
    OBVIOUS
  <2>2. CASE id \in op[o].todo
    BY <2>1, <2>2
  <2>3. CASE id \notin op[o].todo
    BY <2>1, <2>3 DEF MigrationInv, PassedRowsEncrypted
  <2> QED
    BY <2>2, <2>3
<1> QED
  BY <1>1, <1>2 DEF MigrationInv

\* Neither does the write of one row: what is not astray is under the primary,
\* which is a key, or has no token.
LEMMA OneRowKeyed ==
  ASSUME MigrationInv, TypeOK', UNCHANGED <<ring, held, migrated>>,
         NEW one \in Ids, NEW body \in Bodies, NEW key \in Keys \cup {Plain, Bare},
         rows' = [rows EXCEPT ![one] = Stored(one, body, key)],
         astray' = Strayed(one, key),
         \A o \in Clients : Migrating(o)' =>
           Migrating(o) /\ op[o].todo \subseteq op'[o].todo \cup {one}
  PROVE  MigrationInv'
<1>1. rows'[one].key = key /\ (one \notin astray' => key \in {ring.primary, Bare})
  BY DEF MigrationInv, TypeOK, Stored, Strayed
<1>2. \A id \in Ids : id # one => rows'[id] = rows[id] /\ (id \in astray' <=> id \in astray)
  BY DEF MigrationInv, TypeOK, Strayed
<1>3. KeyedOnly'
  BY DEF MigrationInv, KeyedOnly, OpenStore
<1>4. \A o \in Clients : Migrating(o) => ring.primary # Plain
  BY DEF MigrationInv, KeyedOnly, OpenStore, TypeOK, Migrating, Walking, Idle
<1>5. ring.primary # Plain => (one \notin astray' => rows'[one].key # Plain)
  BY <1>1, VaultAssumption
<1>6. MigrationIsComplete'
  BY <1>2, <1>5 DEF MigrationInv, MigrationIsComplete, KeyedOnly, Present
<1>7. PassedRowsEncrypted'
  <2> SUFFICES ASSUME NEW o \in Clients, Migrating(o)',
                      NEW id \in Present', id \notin astray', id \notin op'[o].todo
               PROVE  rows'[id].key # Plain
    BY DEF PassedRowsEncrypted
  <2>1. CASE id = one
    BY <1>4, <1>5, <2>1
  <2>2. CASE id # one
    BY <1>2, <2>2 DEF MigrationInv, PassedRowsEncrypted, Present
  <2> QED
    BY <2>1, <2>2
<1> QED
  BY <1>3, <1>6, <1>7 DEF MigrationInv

\* The invariant, over every step.
LEMMA MigrationStep ==
  ASSUME MigrationInv, [Next]_vars
  PROVE  MigrationInv'
<1> USE VaultAssumption
<1>1. TypeOK /\ TypeOK'
  BY TypeStep DEF MigrationInv
<1>2. ASSUME NEW k \in Keys, Rekey(k) PROVE MigrationInv'
  <2>1. UNCHANGED <<rows, held, op, migrated, astray>> /\ ring'.primary \in Keys
    BY <1>2 DEF Rekey
  <2> QED
    BY <1>1, <2>1 DEF MigrationInv, KeyedOnly, PassedRowsEncrypted, MigrationIsComplete,
       Migrating, Walking, Present, OpenStore
<1>3. CASE DropRetired
  <2>1. UNCHANGED <<rows, held, op, migrated, astray>> /\ ring'.primary = ring.primary
    BY <1>3, <1>1 DEF DropRetired, TypeOK, Ring
  <2> QED
    BY <1>1, <2>1 DEF MigrationInv, KeyedOnly, PassedRowsEncrypted, MigrationIsComplete,
       Migrating, Walking, Present, OpenStore
<1>4. ASSUME NEW c \in Clients, held[c] = Closed,
             held' = [held EXCEPT ![c] = held'[c]],
             held'[c].primary \in {ring.primary, Plain, Bare},
             UNCHANGED <<rows, ring, op, migrated, astray>>
      PROVE  MigrationInv'
  <2>1. \A o \in Clients : o # c => held'[o] = held[o]
    BY <1>4, <1>1 DEF TypeOK
  <2>2. op[c] = Idle
    BY <1>4, <1>1 DEF TypeOK
  <2>3. KeyedOnly'
    BY <1>4, <2>1, <2>2 DEF MigrationInv, KeyedOnly, Migrating, Walking, Idle, OpenStore
  <2> QED
    BY <1>1, <1>4, <2>3 DEF MigrationInv, PassedRowsEncrypted, MigrationIsComplete,
       Migrating, Walking, Present
<1>5. ASSUME NEW c \in Clients, NEW scope \in Apps \cup {NoApp}, Open(c, scope)
      PROVE  MigrationInv'
  <2>1. held'[c].primary = ring.primary /\ held' = [held EXCEPT ![c] = held'[c]]
    BY <1>5, <1>1 DEF Open, TypeOK
  <2> QED
    BY <1>4, <1>5, <2>1 DEF Open
<1>6. ASSUME NEW c \in Clients, OpenPlain(c) PROVE MigrationInv'
  <2>1. held'[c] = PlainEngine /\ held' = [held EXCEPT ![c] = held'[c]]
    BY <1>6, <1>1 DEF OpenPlain, TypeOK
  <2>2. held'[c].primary = Bare
    BY <2>1 DEF PlainEngine
  <2> QED
    BY <1>4, <1>6, <2>1, <2>2 DEF OpenPlain
<1>7. ASSUME NEW c \in Clients, Stop(c) PROVE MigrationInv'
  <2>1. /\ UNCHANGED <<rows, ring, migrated, astray>>
        /\ held' = [held EXCEPT ![c] = Closed] /\ op' = [op EXCEPT ![c] = Idle]
    BY <1>7 DEF Stop
  <2>2. \A o \in Clients : /\ held'[o] = (IF o = c THEN Closed ELSE held[o])
                           /\ op'[o] = (IF o = c THEN Idle ELSE op[o])
    BY <2>1, <1>1 DEF TypeOK
  <2>3. \A o \in Clients : Migrating(o)' =>
          Migrating(o) /\ op'[o] = op[o] /\ held'[o] = held[o]
    BY <2>2 DEF Migrating, Walking, Idle
  <2>4. KeyedOnly'
    BY <2>1, <2>2, <2>3 DEF MigrationInv, KeyedOnly, OpenStore
  <2> QED
    BY <1>1, <2>1, <2>3, <2>4 DEF MigrationInv, PassedRowsEncrypted, MigrationIsComplete, Present
<1>8. ASSUME NEW c \in Clients, NEW id \in Ids, NEW body \in Bodies, Touch(c, id, body) PROVE MigrationInv'
  <2>1. UNCHANGED <<rows, ring, held, migrated, astray>>
    BY <1>8 DEF Touch
  <2>2. \A o \in Clients : Migrating(o)' => Migrating(o) /\ op'[o] = op[o]
    BY <1>8, <1>1 DEF Touch, Migrating, Walking, TypeOK
  <2> QED
    BY <1>1, <2>1, <2>2, NoPlainWritten DEF Present
<1>9. ASSUME NEW c \in Clients, NEW id \in Ids, NEW body \in Bodies, PlainTouch(c, id, body)
      PROVE  MigrationInv'
  <2>1. UNCHANGED <<rows, ring, held, migrated, astray>>
    BY <1>9 DEF PlainTouch
  <2>2. \A o \in Clients : Migrating(o)' => Migrating(o) /\ op'[o] = op[o]
    BY <1>9, <1>1 DEF PlainTouch, Migrating, Walking, TypeOK
  <2> QED
    BY <1>1, <2>1, <2>2, NoPlainWritten DEF Present
<1>10. ASSUME NEW c \in Clients, NEW id \in Ids, FetchToDelete(c, id) PROVE MigrationInv'
  <2>1. UNCHANGED <<rows, ring, held, migrated, astray>>
    BY <1>10 DEF FetchToDelete
  <2>2. \A o \in Clients : Migrating(o)' => Migrating(o) /\ op'[o] = op[o]
    BY <1>10, <1>1 DEF FetchToDelete, Migrating, Walking, TypeOK
  <2> QED
    BY <1>1, <2>1, <2>2, NoPlainWritten DEF Present
<1>11. ASSUME NEW c \in Clients, NEW id \in Ids, WalkRaises(c, id) PROVE MigrationInv'
  <2>1. UNCHANGED <<rows, ring, held, migrated, astray>>
    BY <1>11 DEF WalkRaises
  <2>2. \A o \in Clients : Migrating(o)' => Migrating(o) /\ op'[o] = op[o]
    BY <1>11, <1>1 DEF WalkRaises, Idle, Migrating, Walking, TypeOK
  <2> QED
    BY <1>1, <2>1, <2>2, NoPlainWritten DEF Present
<1>12. ASSUME NEW c \in Clients, Tag(c) PROVE MigrationInv'
  <2>1. UNCHANGED <<ring, held, migrated, astray>>
    BY <1>12 DEF Tag
  <2>2. \A o \in Clients : Migrating(o)' => Migrating(o) /\ op'[o] = op[o]
    BY <1>12, <1>1 DEF Tag, Migrating, Walking, TypeOK, Idle
  <2>3. \A id \in Present' : id \in Present /\ rows'[id].key = rows[id].key
    BY <1>12, <1>1, PresentRow DEF Tag, Present, TypeOK, Row
  <2> QED
    BY <1>1, <2>1, <2>2, <2>3, NoPlainWritten
<1>13. ASSUME NEW c \in Clients, Erase(c) PROVE MigrationInv'
  <2>1. UNCHANGED <<ring, held, migrated>>
    BY <1>13 DEF Erase
  <2>2. \A o \in Clients : Migrating(o)' => Migrating(o) /\ op'[o] = op[o]
    BY <1>13, <1>1 DEF Erase, Migrating, Walking, TypeOK, Idle
  <2>3. op[c].id \in Ids
    BY <1>13, <1>1 DEF Erase, TypeOK, Idle
  <2>4. \A id \in Present' : /\ id \in Present /\ rows'[id].key = rows[id].key
                             /\ id \in astray => id \in astray'
    BY <1>13, <1>1, <2>3 DEF Erase, Present, TypeOK
  <2> QED
    BY <1>1, <2>1, <2>2, <2>4, NoPlainWritten
<1>14. ASSUME NEW c \in Clients, NEW id \in Ids, NEW body \in Bodies, Upsert(c, id, body)
      PROVE  MigrationInv'
  <2>1. UNCHANGED <<ring, held, migrated>>
    BY <1>14 DEF Upsert
  <2>2. /\ id \in Ids /\ body \in Bodies
        /\ held[c].primary \in Keys \cup {Plain, Bare}
    BY <1>14, <1>1 DEF Upsert, VaultReady, Ready, TypeOK, Idle, Store, PlainEngine
  <2>3. \A o \in Clients : Migrating(o)' => Migrating(o) /\ op'[o] = op[o]
    BY <1>14, <1>1 DEF Upsert, VaultReady, Ready, AfterWrite, Passed, Migrating, Walking, TypeOK, Idle
  <2> QED
    BY <1>1, <1>14, <2>1, <2>2, <2>3, OneRowKeyed DEF Upsert
<1>15. ASSUME NEW c \in Clients, NEW id \in Ids, NEW body \in Bodies, PlainCapture(c, id, body)
      PROVE  MigrationInv'
  <2>1. UNCHANGED <<ring, held, migrated>>
    BY <1>15 DEF PlainCapture
  <2>2. /\ id \in Ids /\ body \in Bodies
        /\ Bare \in Keys \cup {Plain, Bare}
    BY <1>15, <1>1 DEF PlainCapture, TypeOK, Idle, Store, PlainEngine
  <2>3. \A o \in Clients : Migrating(o)' => Migrating(o) /\ op'[o] = op[o]
    BY <1>15, <1>1 DEF PlainCapture, AfterWrite, Passed, Migrating, Walking, TypeOK, Idle
  <2> QED
    BY <1>1, <1>15, <2>1, <2>2, <2>3, OneRowKeyed DEF PlainCapture
<1>16. ASSUME NEW c \in Clients, TouchWrite(c)
      PROVE  MigrationInv'
  <2>1. UNCHANGED <<ring, held, migrated>>
    BY <1>16 DEF TouchWrite
  <2>2. /\ op[c].id \in Ids /\ op[c].body \in Bodies
        /\ op[c].key \in Keys \cup {Plain, Bare}
    BY <1>16, <1>1 DEF TouchWrite, TypeOK, Idle, Store, PlainEngine
  <2>3. \A o \in Clients : Migrating(o)' => Migrating(o) /\ op'[o] = op[o]
    BY <1>16, <1>1 DEF TouchWrite, AfterWrite, Passed, Migrating, Walking, TypeOK, Idle
  <2> QED
    BY <1>1, <1>16, <2>1, <2>2, <2>3, OneRowKeyed DEF TouchWrite
<1>17. ASSUME NEW c \in Clients, Rewrite(c)
      PROVE  MigrationInv'
  <2>1. UNCHANGED <<ring, held, migrated>>
    BY <1>17 DEF Rewrite
  <2>2. /\ op[c].id \in Ids /\ op[c].body \in Bodies
        /\ held[c].primary \in Keys \cup {Plain, Bare}
    BY <1>17, <1>1 DEF Rewrite, TypeOK, Idle, Store, PlainEngine
  <2>3. \A o \in Clients : Migrating(o)' => Migrating(o) /\ op[o].todo \subseteq op'[o].todo \cup {op[c].id}
    BY <1>17, <1>1 DEF Rewrite, AfterWrite, Passed, Migrating, Walking, TypeOK, Idle
  <2> QED
    BY <1>1, <1>17, <2>1, <2>2, <2>3, OneRowKeyed DEF Rewrite
<1>18. ASSUME NEW c \in Clients, NEW id \in Ids, WalkOver(c, id) PROVE MigrationInv'
  <2>1. UNCHANGED <<rows, ring, held, migrated, astray>>
    BY <1>18 DEF WalkOver
  <2>2. \A o \in Clients \ {c} : op'[o] = op[o]
    BY <1>18, <1>1 DEF WalkOver, TypeOK
  <2>3. op'[c] = [at |-> "walk", job |-> op[c].job, todo |-> op[c].todo \ {id}]
    BY <1>18, <1>1 DEF WalkOver, Passed, TypeOK
  <2>4. \A o \in Clients : Migrating(o)' => Migrating(o)
    BY <1>18, <2>2, <2>3 DEF WalkOver, Migrating, Walking
  <2>5. Migrating(c) /\ id \in Present => rows[id].key # Plain
    BY <1>18 DEF WalkOver, Settled, Migrating, Walking
  <2>6. \A o \in Clients : Migrating(o)' =>
          \A j \in Present \ op'[o].todo : j \in op[o].todo => rows[j].key # Plain
    BY <2>2, <2>3, <2>4, <2>5
  <2> QED
    BY <1>1, <2>1, <2>4, <2>6, NoPlainWritten DEF Present
<1>19. ASSUME NEW c \in Clients, NEW id \in Ids, WalkRead(c, id) PROVE MigrationInv'
  <2>1. UNCHANGED <<rows, ring, held, migrated, astray>>
    BY <1>19 DEF WalkRead
  <2>2. \A o \in Clients : Migrating(o)' => Migrating(o) /\ op'[o].todo = op[o].todo
    BY <1>19, <1>1 DEF WalkRead, Migrating, Walking, TypeOK
  <2> QED
    BY <1>1, <2>1, <2>2, NoPlainWritten DEF Present
<1>20. ASSUME NEW c \in Clients, NEW job \in {"rotate", "encrypt"}, StartWalk(c, job)
       PROVE  MigrationInv'
  <2>1. UNCHANGED <<rows, ring, held, migrated, astray>>
    BY <1>20 DEF StartWalk
  <2>2. \A o \in Clients : o # c => op'[o] = op[o]
    BY <1>20, <1>1 DEF StartWalk, TypeOK
  <2>3. op'[c] = [at |-> "walk", job |-> job, todo |-> Present]
    BY <1>20, <1>1 DEF StartWalk, TypeOK, WalkIds
  <2>4. job = "encrypt" => held[c].primary \in Keys
    BY <1>20, <1>1 DEF StartWalk, Ready, TypeOK, Store, PlainEngine
  <2>5. KeyedOnly'
    BY <2>1, <2>2, <2>3, <2>4 DEF MigrationInv, KeyedOnly, Migrating, Walking, OpenStore
  <2>6. PassedRowsEncrypted'
    BY <2>1, <2>2, <2>3 DEF MigrationInv, PassedRowsEncrypted, Migrating, Walking, Present
  <2> QED
    BY <1>1, <2>1, <2>5, <2>6 DEF MigrationInv, MigrationIsComplete, Present
<1>21. ASSUME NEW c \in Clients, WalkReturns(c) PROVE MigrationInv'
  <2>1. UNCHANGED <<rows, ring, held, astray>>
    BY <1>21 DEF WalkReturns
  <2>2. \A o \in Clients : Migrating(o)' => Migrating(o) /\ op'[o] = op[o]
    BY <1>21, <1>1 DEF WalkReturns, Migrating, Walking, TypeOK, Idle
  <2>3. migrated' => migrated \/ (Migrating(c) /\ op[c].todo = {})
    BY <1>21 DEF WalkReturns, Migrating, Walking
  <2>4. Migrating(c) => ring.primary # Plain
    BY <1>1 DEF MigrationInv, KeyedOnly, OpenStore, TypeOK, Migrating, Walking, Idle
  <2>5. KeyedOnly'
    BY <2>1, <2>2, <2>3, <2>4 DEF MigrationInv, KeyedOnly, OpenStore
  <2>6. PassedRowsEncrypted' /\ MigrationIsComplete'
    BY <2>1, <2>2, <2>3 DEF MigrationInv, PassedRowsEncrypted, MigrationIsComplete, Present
  <2> QED
    BY <1>1, <2>5, <2>6 DEF MigrationInv
<1>22. CASE UNCHANGED vars
  <2>1. \A o \in Clients : Migrating(o)' => Migrating(o) /\ op'[o] = op[o]
    BY <1>22 DEF vars, Migrating, Walking
  <2> QED
    BY <1>1, <1>22, <2>1, NoPlainWritten DEF vars, Present
<1>23. ASSUME NEW c \in Clients, NEW app \in Apps, RegisterApp(c, app) PROVE MigrationInv'
  <2>1. held'[c] = AppStore(app) /\ held' = [held EXCEPT ![c] = held'[c]]
    BY <1>23, <1>1 DEF RegisterApp, TypeOK
  <2>2. held'[c].primary = Plain
    BY <2>1 DEF AppStore
  <2> QED
    BY <1>4, <1>23, <2>1, <2>2 DEF RegisterApp
<1> QED
  BY <1>2, <1>3, <1>5, <1>6, <1>7, <1>8, <1>9, <1>10, <1>11, <1>12, <1>13, <1>14,
     <1>15, <1>16, <1>17, <1>18, <1>19, <1>20, <1>21, <1>22, <1>23 DEF Next, RowOp, Walk

\* docs/vault.md, "Encrypting a previously-keyless vault", with every process
\* live: once the migration has returned, what is left in plaintext is without
\* a vault token, or was written by a process that holds no present key.
THEOREM MigrationSafety == Spec => []MigrationIsComplete
<1>1. Init => MigrationInv
  BY InitTypes DEF Init, MigrationInv, KeyedOnly, PassedRowsEncrypted,
     MigrationIsComplete, Migrating, Walking, Idle, OpenStore
<1>2. MigrationInv /\ [Next]_vars => MigrationInv'
  BY MigrationStep
<1>3. MigrationInv => MigrationIsComplete
  BY DEF MigrationInv
<1> QED
  BY <1>1, <1>2, <1>3, PTL DEF Spec

-----------------------------------------------------------------------------
(* Apps and their rows *)

\* An app's store that is about to write a row or to tag it.
Writing(c) == op[c].at \in {"touch", "tag"} /\ held[c].scope # NoApp

\* A tag, on a row or under way, is one of a store that was handed the id.
TagsHanded ==
  /\ \A id \in Present : rows[id].app # NoApp => <<rows[id].app, id>> \in handed
  /\ \A c \in Clients : Writing(c) => <<held[c].scope, op[c].id>> \in handed

AppInv == TypeOK /\ TagsHanded

\* What the insertion or update of a row does to the tags.
LEMMA StoredTags ==
  ASSUME TypeOK, NEW one \in Ids, NEW body, NEW key,
         rows' = [rows EXCEPT ![one] = Stored(one, body, key)]
  PROVE  /\ Present' \subseteq Present \cup {one}
         /\ \A id \in Present' :
              rows'[id].app = IF id \in Present THEN rows[id].app ELSE NoApp
BY DEF TypeOK, Stored, Present

\* A step that begins no write of an app, and tags nothing.
LEMMA NoTagWritten ==
  ASSUME AppInv, TypeOK', handed \subseteq handed',
         \A id \in Present' :
           rows'[id].app = IF id \in Present THEN rows[id].app ELSE NoApp,
         \A c \in Clients : Writing(c)' =>
           \/ Writing(c) /\ held'[c].scope = held[c].scope /\ op'[c].id = op[c].id
           \/ <<held'[c].scope, op'[c].id>> \in handed'
  PROVE  AppInv'
BY DEF AppInv, TagsHanded

\* The invariant, over every step.
LEMMA AppStep ==
  ASSUME AppInv, [Next]_vars
  PROVE  AppInv'
<1> USE VaultAssumption
<1> DEFINE SameWriter(o) ==
      Writing(o) /\ held'[o].scope = held[o].scope /\ op'[o].id = op[o].id
<1>1. TypeOK /\ TypeOK'
  BY TypeStep DEF AppInv
<1>2. ASSUME NEW k \in Keys, Rekey(k) PROVE AppInv'
  <2>1. UNCHANGED <<rows, handed>>
    BY <1>2 DEF Rekey
  <2>2. \A o \in Clients : Writing(o)' => SameWriter(o)
    BY <1>2, <1>1 DEF Rekey, Writing, TypeOK
  <2> QED
    BY <1>1, <2>1, <2>2, NoTagWritten DEF Present
<1>3. CASE DropRetired
  <2>1. UNCHANGED <<rows, handed>>
    BY <1>3 DEF DropRetired
  <2>2. \A o \in Clients : Writing(o)' => SameWriter(o)
    BY <1>3, <1>1 DEF DropRetired, Writing, TypeOK
  <2> QED
    BY <1>1, <2>1, <2>2, NoTagWritten DEF Present
<1>4. ASSUME NEW c \in Clients, NEW scope \in Apps \cup {NoApp}, Open(c, scope)
      PROVE  AppInv'
  <2>1. UNCHANGED <<rows, handed>>
    BY <1>4 DEF Open
  <2>2. \A o \in Clients : Writing(o)' => SameWriter(o)
    BY <1>4, <1>1 DEF Open, Idle, Writing, TypeOK
  <2> QED
    BY <1>1, <2>1, <2>2, NoTagWritten DEF Present
<1>5. ASSUME NEW c \in Clients, OpenPlain(c)
      PROVE  AppInv'
  <2>1. UNCHANGED <<rows, handed>>
    BY <1>5 DEF OpenPlain
  <2>2. \A o \in Clients : Writing(o)' => SameWriter(o)
    BY <1>5, <1>1 DEF OpenPlain, Idle, Writing, TypeOK
  <2> QED
    BY <1>1, <2>1, <2>2, NoTagWritten DEF Present
<1>6. ASSUME NEW c \in Clients, Stop(c)
      PROVE  AppInv'
  <2>1. UNCHANGED <<rows, handed>>
    BY <1>6 DEF Stop
  <2>2. \A o \in Clients : Writing(o)' => SameWriter(o)
    BY <1>6, <1>1 DEF Stop, Idle, Writing, TypeOK
  <2> QED
    BY <1>1, <2>1, <2>2, NoTagWritten DEF Present
<1>7. ASSUME NEW c \in Clients, NEW id \in Ids, NEW body \in Bodies, PlainTouch(c, id, body)
      PROVE  AppInv'
  <2>1. UNCHANGED <<rows, handed>>
    BY <1>7 DEF PlainTouch
  <2>2. \A o \in Clients : Writing(o)' => SameWriter(o)
    BY <1>7, <1>1 DEF PlainTouch, PlainEngine, Writing, TypeOK
  <2> QED
    BY <1>1, <2>1, <2>2, NoTagWritten DEF Present
<1>8. ASSUME NEW c \in Clients, NEW id \in Ids, FetchToDelete(c, id)
      PROVE  AppInv'
  <2>1. UNCHANGED <<rows, handed>>
    BY <1>8 DEF FetchToDelete
  <2>2. \A o \in Clients : Writing(o)' => SameWriter(o)
    BY <1>8, <1>1 DEF FetchToDelete, Writing, TypeOK
  <2> QED
    BY <1>1, <2>1, <2>2, NoTagWritten DEF Present
<1>9. ASSUME NEW c \in Clients, NEW job \in {"rotate", "encrypt"}, StartWalk(c, job)
      PROVE  AppInv'
  <2>1. UNCHANGED <<rows, handed>>
    BY <1>9 DEF StartWalk
  <2>2. \A o \in Clients : Writing(o)' => SameWriter(o)
    BY <1>9, <1>1 DEF StartWalk, Writing, TypeOK
  <2> QED
    BY <1>1, <2>1, <2>2, NoTagWritten DEF Present
<1>10. ASSUME NEW c \in Clients, NEW id \in Ids, WalkOver(c, id)
      PROVE  AppInv'
  <2>1. UNCHANGED <<rows, handed>>
    BY <1>10 DEF WalkOver
  <2>2. \A o \in Clients : Writing(o)' => SameWriter(o)
    BY <1>10, <1>1 DEF WalkOver, Passed, Writing, TypeOK
  <2> QED
    BY <1>1, <2>1, <2>2, NoTagWritten DEF Present
<1>11. ASSUME NEW c \in Clients, NEW id \in Ids, WalkRaises(c, id)
      PROVE  AppInv'
  <2>1. UNCHANGED <<rows, handed>>
    BY <1>11 DEF WalkRaises
  <2>2. \A o \in Clients : Writing(o)' => SameWriter(o)
    BY <1>11, <1>1 DEF WalkRaises, Idle, Writing, TypeOK
  <2> QED
    BY <1>1, <2>1, <2>2, NoTagWritten DEF Present
<1>12. ASSUME NEW c \in Clients, NEW id \in Ids, WalkRead(c, id)
      PROVE  AppInv'
  <2>1. UNCHANGED <<rows, handed>>
    BY <1>12 DEF WalkRead
  <2>2. \A o \in Clients : Writing(o)' => SameWriter(o)
    BY <1>12, <1>1 DEF WalkRead, Writing, TypeOK
  <2> QED
    BY <1>1, <2>1, <2>2, NoTagWritten DEF Present
<1>13. ASSUME NEW c \in Clients, WalkReturns(c)
      PROVE  AppInv'
  <2>1. UNCHANGED <<rows, handed>>
    BY <1>13 DEF WalkReturns
  <2>2. \A o \in Clients : Writing(o)' => SameWriter(o)
    BY <1>13, <1>1 DEF WalkReturns, Idle, Writing, TypeOK
  <2> QED
    BY <1>1, <2>1, <2>2, NoTagWritten DEF Present
<1>14. ASSUME NEW c \in Clients, NEW id \in Ids, NEW body \in Bodies, Upsert(c, id, body)
      PROVE  AppInv'
  <2>1. /\ id \in Ids /\ handed \subseteq handed'
        /\ rows' = [rows EXCEPT ![id] = Stored(id, body, held[c].primary)]
    BY <1>14, <1>1 DEF Upsert, TypeOK, Idle
  <2>2. \A o \in Clients : Writing(o)' =>
          SameWriter(o) \/ <<held'[o].scope, op'[o].id>> \in handed'
    BY <1>14, <1>1 DEF Upsert, AfterWrite, VaultReady, Ready, Writing, TypeOK, Idle
  <2>3. /\ Present' \subseteq Present \cup {id}
        /\ \A j \in Present' :
             rows'[j].app = IF j \in Present THEN rows[j].app ELSE NoApp
    BY <1>1, <2>1, StoredTags
  <2> QED
    BY <1>1, <2>1, <2>2, <2>3, NoTagWritten
<1>15. ASSUME NEW c \in Clients, NEW id \in Ids, NEW body \in Bodies, PlainCapture(c, id, body)
      PROVE  AppInv'
  <2>1. /\ id \in Ids /\ handed \subseteq handed'
        /\ rows' = [rows EXCEPT ![id] = Stored(id, body, Bare)]
    BY <1>15, <1>1 DEF PlainCapture, TypeOK, Idle
  <2>2. \A o \in Clients : Writing(o)' =>
          SameWriter(o) \/ <<held'[o].scope, op'[o].id>> \in handed'
    BY <1>15, <1>1 DEF PlainCapture, Writing, TypeOK, Idle
  <2>3. /\ Present' \subseteq Present \cup {id}
        /\ \A j \in Present' :
             rows'[j].app = IF j \in Present THEN rows[j].app ELSE NoApp
    BY <1>1, <2>1, StoredTags
  <2> QED
    BY <1>1, <2>1, <2>2, <2>3, NoTagWritten
<1>16. ASSUME NEW c \in Clients, TouchWrite(c)
      PROVE  AppInv'
  <2>1. /\ op[c].id \in Ids /\ handed \subseteq handed'
        /\ rows' = [rows EXCEPT ![op[c].id] = Stored(op[c].id, op[c].body, op[c].key)]
    BY <1>16, <1>1 DEF TouchWrite, TypeOK, Idle
  <2>2. \A o \in Clients : Writing(o)' =>
          SameWriter(o) \/ <<held'[o].scope, op'[o].id>> \in handed'
    BY <1>16, <1>1 DEF TouchWrite, AfterWrite, Writing, TypeOK, Idle
  <2>3. /\ Present' \subseteq Present \cup {op[c].id}
        /\ \A j \in Present' :
             rows'[j].app = IF j \in Present THEN rows[j].app ELSE NoApp
    BY <1>1, <2>1, StoredTags
  <2> QED
    BY <1>1, <2>1, <2>2, <2>3, NoTagWritten
<1>17. ASSUME NEW c \in Clients, Rewrite(c)
      PROVE  AppInv'
  <2>1. /\ op[c].id \in Ids /\ handed \subseteq handed'
        /\ rows' = [rows EXCEPT ![op[c].id] = Stored(op[c].id, op[c].body, held[c].primary)]
    BY <1>17, <1>1 DEF Rewrite, TypeOK, Idle
  <2>2. \A o \in Clients : Writing(o)' =>
          SameWriter(o) \/ <<held'[o].scope, op'[o].id>> \in handed'
    BY <1>17, <1>1 DEF Rewrite, Passed, Writing, TypeOK, Idle
  <2>3. /\ Present' \subseteq Present \cup {op[c].id}
        /\ \A j \in Present' :
             rows'[j].app = IF j \in Present THEN rows[j].app ELSE NoApp
    BY <1>1, <2>1, StoredTags
  <2> QED
    BY <1>1, <2>1, <2>2, <2>3, NoTagWritten
<1>18. ASSUME NEW c \in Clients, NEW id \in Ids, NEW body \in Bodies, Touch(c, id, body)
      PROVE  AppInv'
  <2>1. UNCHANGED <<rows, handed, held>> /\ id \in Present
    BY <1>18 DEF Touch
  <2>2. held[c].scope # NoApp => rows[id].app = held[c].scope
    BY <1>18 DEF Touch, InScope
  <2>3. op'[c].id = id /\ \A o \in Clients : o # c => op'[o] = op[o]
    BY <1>18, <1>1 DEF Touch, TypeOK
  <2>4. held[c].scope # NoApp => <<held[c].scope, id>> \in handed
    BY <2>1, <2>2 DEF AppInv, TagsHanded
  <2>5. \A o \in Clients : Writing(o)' =>
          SameWriter(o) \/ <<held'[o].scope, op'[o].id>> \in handed'
    BY <2>1, <2>3, <2>4 DEF Writing
  <2> QED
    BY <1>1, <2>1, <2>5, NoTagWritten DEF Present
<1>19. ASSUME NEW c \in Clients, Tag(c) PROVE AppInv'
  <2>1. op[c].id \in Ids /\ <<held[c].scope, op[c].id>> \in handed
    BY <1>19, <1>1 DEF Tag, AppInv, TagsHanded, Writing, TypeOK, Idle
  <2>2. /\ UNCHANGED <<held, handed>> /\ op'[c].at = "idle"
        /\ \A o \in Clients : o # c => op'[o] = op[o]
    BY <1>19, <1>1 DEF Tag, TypeOK, Idle
  <2>3. \A id \in Present' : /\ id \in Present
                             /\ rows'[id].app \in {rows[id].app} \cup
                                  (IF id = op[c].id THEN {held[c].scope} ELSE {})
    BY <1>19, <1>1, <2>1, PresentRow DEF Tag, Present, TypeOK, Row
  <2>4. TagsHanded'
    BY <2>1, <2>2, <2>3 DEF AppInv, TagsHanded, Writing
  <2> QED
    BY <1>1, <2>4 DEF AppInv
<1>20. ASSUME NEW c \in Clients, Erase(c) PROVE AppInv'
  <2>1. op[c].id \in Ids /\ UNCHANGED handed
    BY <1>20, <1>1 DEF Erase, TypeOK, Idle
  <2>2. \A o \in Clients : Writing(o)' => SameWriter(o)
    BY <1>20, <1>1 DEF Erase, Writing, TypeOK, Idle
  <2>3. \A id \in Present' : id \in Present /\ rows'[id] = rows[id]
    BY <1>20, <1>1, <2>1 DEF Erase, Present, TypeOK
  <2> QED
    BY <1>1, <2>1, <2>2, <2>3, NoTagWritten
<1>21. ASSUME NEW c \in Clients, NEW app \in Apps, RegisterApp(c, app)
      PROVE  AppInv'
  <2>1. UNCHANGED <<rows, handed>>
    BY <1>21 DEF RegisterApp
  <2>2. \A o \in Clients : Writing(o)' => SameWriter(o)
    BY <1>21, <1>1 DEF RegisterApp, Idle, Writing, TypeOK
  <2> QED
    BY <1>1, <2>1, <2>2, NoTagWritten DEF Present
<1>22. CASE UNCHANGED vars
  <2>1. UNCHANGED <<rows, handed>>
    BY <1>22 DEF vars
  <2>2. \A o \in Clients : Writing(o)' => SameWriter(o)
    BY <1>22, <1>1 DEF vars, Writing, TypeOK
  <2> QED
    BY <1>1, <2>1, <2>2, NoTagWritten DEF Present
<1> QED
  BY <1>2, <1>3, <1>4, <1>5, <1>6, <1>7, <1>8, <1>9, <1>10, <1>11,
     <1>12, <1>13, <1>14, <1>15, <1>16, <1>17, <1>18, <1>19, <1>20, <1>21, <1>22 DEF Next, RowOp, Walk

\* Whoever interleaves with whom, the tag of a row that is there moves only to
\* an app whose store was handed the row's id in an upsert, and never to none.
THEOREM AppSafety == Spec => AppsKeepTheirRows
<1> DEFINE KeepTags ==
      \A id \in Present :
        rows[id].app # NoApp /\ rows'[id] # Gone /\ rows'[id].app # rows[id].app
          => <<rows'[id].app, id>> \in handed
<1>1. Init => AppInv
  BY InitTypes DEF Init, AppInv, TagsHanded, Writing, Present, Idle
<1>2. AppInv /\ [Next]_vars => AppInv'
  BY AppStep
<1>3. AppInv /\ [Next]_vars => [KeepTags]_vars
  <2> SUFFICES ASSUME AppInv, [Next]_vars, NEW id \in Present, rows'[id] # Gone,
                      rows'[id].app # rows[id].app
               PROVE  <<rows'[id].app, id>> \in handed
    OBVIOUS
  <2>1. TypeOK /\ id \in Present'
    BY DEF AppInv, Present
  <2>2. ASSUME NEW one \in Ids, NEW body, NEW key,
               rows' = [rows EXCEPT ![one] = Stored(one, body, key)]
        PROVE  FALSE
    BY <2>1, <2>2, StoredTags
  <2>3. ASSUME NEW c \in Clients, NEW i \in Ids, NEW body \in Bodies,
               Upsert(c, i, body) \/ PlainCapture(c, i, body)
        PROVE  FALSE
    BY <2>2, <2>3 DEF Upsert, PlainCapture
  <2>4. ASSUME NEW c \in Clients, TouchWrite(c) \/ Rewrite(c) PROVE FALSE
    <3>1. op[c].id \in Ids
      BY <2>1, <2>4 DEF TouchWrite, Rewrite, TypeOK, Idle
    <3> QED
      BY <2>2, <2>4, <3>1 DEF TouchWrite, Rewrite
  <2>5. ASSUME NEW c \in Clients, Tag(c) PROVE <<rows'[id].app, id>> \in handed
    <3>1. op[c].id \in Ids /\ <<held[c].scope, op[c].id>> \in handed
      BY <2>1, <2>5 DEF Tag, AppInv, TagsHanded, Writing, TypeOK, Idle
    <3>2. rows[id] \in Row
      BY <2>1, PresentRow DEF Present
    <3>3. id = op[c].id /\ rows'[id].app = held[c].scope
      BY <2>1, <2>5, <3>1, <3>2 DEF Tag, TypeOK, Present, Row
    <3> QED
      BY <3>1, <3>3
  <2>6. ASSUME NEW c \in Clients, Erase(c) PROVE FALSE
    BY <2>1, <2>6 DEF Erase, TypeOK, Present
  <2>7. rows' # rows
    OBVIOUS
  <2> QED
    BY <2>3, <2>4, <2>5, <2>6, <2>7 DEF Next, RowOp, Walk, vars, Rekey, DropRetired, Open,
       OpenPlain, RegisterApp, Stop, Touch, PlainTouch, FetchToDelete, StartWalk, WalkOver, WalkRaises,
       WalkRead, WalkReturns
<1> QED
  BY <1>1, <1>2, <1>3, PTL DEF Spec, AppsKeepTheirRows

=============================================================================
