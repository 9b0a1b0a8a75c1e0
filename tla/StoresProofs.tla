---------------------------- MODULE StoresProofs ----------------------------
(***************************************************************************)
(* For every set of droplets, embeddings and connections: what the two     *)
(* stores promise.                                                         *)
(*                                                                         *)
(* Postgres: the invariant says, of each call in progress that no other    *)
(* has disturbed, how what it has written relates to the tables.  SQLite:  *)
(* it says of which ids the index in memory and the index file are right,  *)
(* at every step between a statement and the write of the file.            *)
(***************************************************************************)
EXTENDS Stores, TLAPS

-----------------------------------------------------------------------------
(* Postgres. *)

From(d)  == {p \in links : p[1] = d}
About(d) == {p \in links : d \in {p[1], p[2]}}

\* What a call writes is about its droplet, whatever the others do.
Shape(k) ==
    /\ \A p \in k.drop \cup k.put : p[1] = k.of \/ (k.op = "delete" /\ p[2] = k.of)
    /\ k.op = "upsert" => k.row \in Row /\ k.of \notin k.out
    /\ k.op = "delete" => k.put = {} /\ k.row \in {NoRow, Same}
    /\ k.op = "touch" => /\ k.drop = {} /\ k.put = {}
                         /\ k.at = "cycle" => k.row \in Row
    /\ k.op \in {"link", "unlink"} => k.row = Same

\* How a call that was not disturbed stands to the tables.
Fits(k) ==
    /\ k.op = "upsert" /\ k.at = "commit" => k.drop = From(k.of) /\ k.put = {k.of} \X k.out
    /\ k.op = "delete" /\ k.row = Same => table[k.of] = NoRow
    /\ k.op = "delete" /\ k.at = "commit" => k.drop = About(k.of)
    /\ k.op = "touch" => /\ table[k.of] # NoRow /\ k.row \in Row
                         /\ k.row = [vec |-> table[k.of].vec, count |-> table[k.of].count + 1]
    /\ k.op = "link" => /\ k.drop = {}
                        /\ \E x \in Id : k.out = {x} /\ k.put = {<<k.of, x>>} \ links
    /\ k.op = "unlink" => /\ k.put = {}
                          /\ \E x \in Id : k.out = {x} /\ k.drop = {<<k.of, x>>} \cap links

Calls == \A c \in Conn : Busy(c) => Shape(conn[c]) /\ (conn[c].alone => Fits(conn[c]))

IInv == TypeOK /\ Calls /\ OnlyRacesLose

LEMMA Initially == Init => IInv
<1> SUFFICES ASSUME Init PROVE IInv
  OBVIOUS
<1>1. TypeOK
  BY DEF Init, TypeOK
<1>2. Calls
  BY DEF Init, Calls, Busy, Closed
<1>3. OnlyRacesLose
  BY DEF Init, OnlyRacesLose, Stored
<1> QED
  BY <1>1, <1>2, <1>3 DEF IInv

\* A statement changes one connection and no table.
LEMMA Statement ==
    ASSUME IInv, NEW c \in Conn, NEW k \in Call \cup {Closed, Idle, Aborted},
           k.state = "busy" => Shape(k) /\ (k.alone => Fits(k)), Becomes(c, k)
    PROVE  IInv'
<1> USE DEF IInv, Becomes
<1>1. TypeOK'
  BY DEF TypeOK
<1>2. Calls'
  <2> SUFFICES ASSUME NEW f \in Conn, Busy(f)'
               PROVE  (Shape(conn[f]) /\ (conn[f].alone => Fits(conn[f])))'
    BY DEF Calls
  <2>1. CASE f = c
    <3>1. conn'[f] = k
      BY <2>1 DEF TypeOK
    <3>2. Shape(k) /\ (k.alone => Fits(k))
      BY <3>1 DEF Busy
    <3> QED
      BY <3>1, <3>2 DEF Shape, Fits, From, About
  <2>2. CASE f # c
    <3>1. conn'[f] = conn[f]
      BY <2>2 DEF TypeOK
    <3>2. Shape(conn[f]) /\ (conn[f].alone => Fits(conn[f]))
      BY <3>1 DEF Busy, Calls
    <3> QED
      BY <3>1, <3>2 DEF Shape, Fits, From, About
  <2> QED
    BY <2>1, <2>2
<1>3. OnlyRacesLose'
  BY DEF OnlyRacesLose, Stored
<1> QED
  BY <1>1, <1>2, <1>3

\* What is known of a connection in a call.
LEMMA InCall == ASSUME IInv, NEW c \in Conn, Busy(c)
                PROVE  /\ conn[c] \in Call /\ Shape(conn[c])
                       /\ conn[c].alone => Fits(conn[c])
  BY DEF IInv, TypeOK, Calls, Busy, Closed, Idle, Aborted

LEMMA Upserts ==
    ASSUME IInv, NEW c \in Conn, UpsertRow(c) \/ UpsertLinks(c) PROVE IInv'
<1>1. CASE UpsertRow(c)
  <2>1. PICK d \in Id, r \in Row, out \in SUBSET Id :
           d \notin out /\ Becomes(c, Begun("upsert", d, "links", r, out))
    BY <1>1 DEF UpsertRow
  <2> DEFINE k == Begun("upsert", d, "links", r, out)
  <2>2. k \in Call /\ Shape(k) /\ Fits(k)
    BY <2>1 DEF Begun, Call, Shape, Fits
  <2> QED
    BY <2>1, <2>2, Statement
<1>2. CASE UpsertLinks(c)
  <2> DEFINE m == conn[c]
             k == [m EXCEPT !.drop = From(m.of), !.put = {m.of} \X m.out, !.at = "commit"]
  <2>1. m \in Call /\ Shape(m) /\ m.op = "upsert" /\ Becomes(c, k)
    BY <1>2, InCall DEF UpsertLinks, At, From
  <2>2. From(m.of) \in SUBSET Link /\ {m.of} \X m.out \in SUBSET Link
    BY <2>1 DEF IInv, TypeOK, From, Link, Call, Shape
  <2>3. k \in Call
    BY <2>1, <2>2 DEF Call
  <2>4. Shape(k)
    BY <2>1, <2>2 DEF Call, Shape, From
  <2>5. Fits(k)
    BY <2>1 DEF Call, Fits
  <2> QED
    BY <2>1, <2>3, <2>4, <2>5, Statement
<1> QED
  BY <1>1, <1>2

LEMMA Deletes ==
    ASSUME IInv, NEW c \in Conn, DeleteRow(c) \/ DeleteLinks(c) PROVE IInv'
<1>1. CASE DeleteRow(c)
  <2>1. PICK d \in Id, r \in {Same, NoRow} :
           (r = Same => table[d] = NoRow) /\ Becomes(c, Begun("delete", d, "links", r, {}))
    BY <1>1, SameIsNoRow DEF DeleteRow
  <2> DEFINE k == Begun("delete", d, "links", r, {})
  <2>2. k \in Call /\ Shape(k) /\ Fits(k)
    BY <2>1 DEF Begun, Call, Shape, Fits
  <2> QED
    BY <2>1, <2>2, Statement
<1>2. CASE DeleteLinks(c)
  <2> DEFINE m == conn[c]
             k == [m EXCEPT !.drop = About(m.of), !.at = "commit"]
  <2>1. /\ m \in Call /\ Shape(m) /\ m.op = "delete" /\ Becomes(c, k)
        /\ m.alone => Fits(m)
    BY <1>2, InCall DEF DeleteLinks, At, About
  <2>2. About(m.of) \in SUBSET Link
    BY DEF IInv, TypeOK, About
  <2>3. k \in Call
    BY <2>1, <2>2 DEF Call
  <2>4. Shape(k)
    BY <2>1, <2>2 DEF Call, Shape, About
  <2>5. k.alone => Fits(k)
    BY <2>1 DEF Call, Fits
  <2> QED
    BY <2>1, <2>3, <2>4, <2>5, Statement
<1> QED
  BY <1>1, <1>2

LEMMA Touches ==
    ASSUME IInv, NEW c \in Conn, ReadCycle(c) \/ WriteCycle(c) PROVE IInv'
<1>0. \A d \in Id : table[d] # NoRow => table[d] \in Row
  BY DEF IInv, TypeOK
<1>1. CASE ReadCycle(c)
  <2>1. PICK d \in Id :
           /\ table[d] # NoRow /\ table[d].count < MaxCount
           /\ Becomes(c, Begun("touch", d, "cycle",
                               [table[d] EXCEPT !.count = table[d].count + 1], {}))
    BY <1>1 DEF ReadCycle
  <2> DEFINE r == [table[d] EXCEPT !.count = table[d].count + 1]
             k == Begun("touch", d, "cycle", r, {})
  <2>2. r \in Row /\ r = [vec |-> table[d].vec, count |-> table[d].count + 1]
    BY <1>0, <2>1, MaxCountIsNat DEF Row
  <2>3. k \in Call /\ Shape(k) /\ Fits(k)
    BY <2>1, <2>2 DEF Begun, Call, Shape, Fits
  <2> QED
    BY <2>1, <2>3, Statement
<1>2. CASE WriteCycle(c)
  <2> DEFINE m == conn[c]
  <2>1. /\ m \in Call /\ Shape(m) /\ m.op = "touch" /\ m.at = "cycle"
        /\ m.alone => Fits(m)
    BY <1>2, InCall DEF WriteCycle, At
  <2>2. CASE table[m.of] = NoRow
    <3> DEFINE k == [m EXCEPT !.row = Same, !.at = "commit"]
    <3>1. Becomes(c, k)
      BY <1>2, <2>2 DEF WriteCycle
    <3>2. k \in Call /\ Shape(k) /\ ~k.alone
      BY <2>1, <2>2 DEF Call, Shape, Fits
    <3> QED
      BY <3>1, <3>2, Statement
  <2>3. CASE table[m.of] # NoRow
    <3> DEFINE r == [table[m.of] EXCEPT !.count = m.row.count]
               k == [m EXCEPT !.at = "commit", !.row = r]
    <3>1. Becomes(c, k)
      BY <1>2, <2>3 DEF WriteCycle
    <3>2. table[m.of] \in Row /\ m.row \in Row
      BY <1>0, <2>1, <2>3 DEF Call, Shape
    <3>3. r \in Row /\ r.vec = table[m.of].vec /\ r.count = m.row.count
      BY <3>2 DEF Row
    <3>4. k \in Call /\ Shape(k)
      BY <2>1, <3>3 DEF Call, Shape
    <3>5. ASSUME m.alone PROVE Fits(k)
      <4>1. m.row.count = table[m.of].count + 1
        BY <2>1, <3>5 DEF Fits
      <4>2. r = [vec |-> table[m.of].vec, count |-> table[m.of].count + 1]
        BY <3>2, <4>1 DEF Row
      <4> QED
        BY <2>1, <2>3, <3>3, <4>2 DEF Call, Fits
    <3>6. k.alone => Fits(k)
      BY <2>1, <3>5 DEF Call
    <3> HIDE DEF k
    <3> QED
      BY <3>1, <3>4, <3>6, Statement
  <2> QED
    BY <2>2, <2>3
<1> QED
  BY <1>1, <1>2

LEMMA Linkings ==
    ASSUME IInv, NEW c \in Conn, AddLink(c) \/ RemoveLink(c) PROVE IInv'
<1>1. CASE AddLink(c)
  <2>1. PICK p \in Link : Becomes(c, [Begun("link", p[1], "commit", Same, {p[2]}) EXCEPT
                                          !.put = {p} \ links])
    BY <1>1 DEF AddLink
  <2> DEFINE k == [Begun("link", p[1], "commit", Same, {p[2]}) EXCEPT !.put = {p} \ links]
  <2>2. p[1] \in Id /\ p[2] \in Id /\ p = <<p[1], p[2]>>
    BY DEF Link
  <2>3. k \in Call /\ Shape(k) /\ Fits(k)
    BY <2>2 DEF Begun, Call, Shape, Fits
  <2> QED
    BY <2>1, <2>3, Statement
<1>2. CASE RemoveLink(c)
  <2>1. PICK p \in Link : Becomes(c, [Begun("unlink", p[1], "commit", Same, {p[2]}) EXCEPT
                                          !.drop = {p} \cap links])
    BY <1>2 DEF RemoveLink
  <2> DEFINE k == [Begun("unlink", p[1], "commit", Same, {p[2]}) EXCEPT !.drop = {p} \cap links]
  <2>2. p[1] \in Id /\ p[2] \in Id /\ p = <<p[1], p[2]>>
    BY DEF Link
  <2>3. k \in Call /\ Shape(k) /\ Fits(k)
    BY <2>2 DEF Begun, Call, Shape, Fits
  <2> QED
    BY <2>1, <2>3, Statement
<1> QED
  BY <1>1, <1>2

-----------------------------------------------------------------------------
(* Commit. *)

\* Records of a row and links, with one field replaced.
LEMMA NewOut == ASSUME NEW r, NEW out, NEW was, was = [row |-> r, out |-> out], NEW now
                PROVE  [was EXCEPT !.out = now] = [row |-> r, out |-> now] /\ was.out = out
  OBVIOUS

LEMMA NewCount ==
    ASSUME NEW r \in Row, NEW out, NEW was, was = [row |-> r, out |-> out]
    PROVE  [was EXCEPT !.row.count = was.row.count + 1] =
               [row |-> [vec |-> r.vec, count |-> r.count + 1], out |-> out]
  BY DEF Row

\* A droplet the committing call is not about, and which it owes something.
LEMMA OthersStand ==
    ASSUME IInv, NEW c \in Conn, Commit(c), NEW d \in Id, d # conn[c].of, owed'[d] # Raced
    PROVE  Stored(d)' = owed'[d]
<1> DEFINE k == conn[c]
<1>1. k \in Call /\ Shape(k) /\ (k.alone => Fits(k))
  BY InCall DEF Commit
<1>2. table'[d] = table[d]
  BY <1>1 DEF Commit, IInv, TypeOK, Call
<1>3. links' = (links \ k.drop) \cup k.put /\ owed' = Owed(k)
  BY DEF Commit
<1>4. owed[d] # Raced /\ Stored(d) = owed[d]
  BY <1>3 DEF Owed, IInv, OnlyRacesLose
<1>5. CASE k.op # "delete"
  <2>1. owed'[d] = owed[d]
    BY <1>3, <1>5 DEF Owed
  <2>2. \A x \in Id : <<d, x>> \in links' <=> <<d, x>> \in links
    BY <1>1, <1>3, <1>5 DEF Shape
  <2> QED
    BY <1>2, <1>4, <2>1, <2>2 DEF Stored
<1>6. CASE k.op = "delete" /\ k.of \notin owed[d].out
  <2>1. owed'[d] = owed[d]
    BY <1>3, <1>6 DEF Owed
  <2>2. <<d, k.of>> \notin links
    BY <1>1, <1>4, <1>6 DEF Stored, Call
  <2>3. \A x \in Id : <<d, x>> \in links' <=> <<d, x>> \in links
    BY <1>1, <1>3, <1>6, <2>2 DEF Shape
  <2> QED
    BY <1>2, <1>4, <2>1, <2>3 DEF Stored
<1>7. CASE k.op = "delete" /\ k.of \in owed[d].out
  <2>1. k.alone /\ owed'[d] = [owed[d] EXCEPT !.out = owed[d].out \ {k.of}]
    BY <1>3, <1>4, <1>7 DEF Owed
  <2>2. \A x \in Id : <<d, x>> \in links' <=> <<d, x>> \in links /\ x # k.of
    <3>1. k.put = {} /\ (k.drop = About(k.of))
      BY <1>1, <1>7, <2>1 DEF Shape, Fits, Commit
    <3> QED
      BY <1>3, <3>1 DEF About
  <2> DEFINE out == {x \in Id : <<d, x>> \in links}
  <2>3. owed[d] = [row |-> table[d], out |-> out]
    BY <1>4 DEF Stored
  <2>5. {x \in Id : <<d, x>> \in links'} = out \ {k.of}
    BY <2>2
  <2> HIDE DEF out
  <2>4. owed'[d] = [row |-> table[d], out |-> out \ {k.of}]
    BY <2>1, <2>3, NewOut
  <2>6. Stored(d)' = [row |-> table'[d], out |-> {x \in Id : <<d, x>> \in links'}]
    BY DEF Stored
  <2> QED
    BY <1>2, <2>4, <2>5, <2>6
<1> QED
  BY <1>5, <1>6, <1>7

\* The droplet it is about, when no other call disturbed it.
LEMMA OwnStands ==
    ASSUME IInv, NEW c \in Conn, Commit(c), NEW d \in Id, d = conn[c].of, owed'[d] # Raced
    PROVE  Stored(d)' = owed'[d]
<1> DEFINE k == conn[c]
           out == {x \in Id : <<d, x>> \in links}
<1>1. k \in Call /\ Shape(k) /\ k.of = d /\ k.at = "commit"
  BY InCall DEF Commit
<1>2. /\ table'[d] = IF k.row = Same THEN table[d] ELSE k.row
      /\ links' = (links \ k.drop) \cup k.put
  BY <1>1 DEF Commit, IInv, TypeOK
<1>3. k.alone /\ Fits(k) /\ owed'[d] = After(k, owed[d])
  BY <1>1, InCall DEF Commit, Owed
<1>4. CASE k.op = "upsert"
  <2>1. owed'[d] = [row |-> k.row, out |-> k.out]
    BY <1>3, <1>4 DEF After
  <2>2. table'[d] = k.row
    BY <1>1, <1>2, <1>4, SameIsNoRow DEF Shape
  <2>3. \A x \in Id : <<d, x>> \in links' <=> x \in k.out
    BY <1>1, <1>2, <1>3, <1>4 DEF Fits, From
  <2>4. k.out \subseteq Id
    BY <1>1 DEF Call
  <2> QED
    BY <2>1, <2>2, <2>3, <2>4 DEF Stored
<1>5. CASE k.op = "delete"
  <2>1. owed'[d] = [row |-> NoRow, out |-> {}]
    BY <1>3, <1>5 DEF After
  <2>2. table'[d] = NoRow
    BY <1>1, <1>2, <1>3, <1>5 DEF Shape, Fits
  <2>3. \A x \in Id : <<d, x>> \notin links'
    BY <1>1, <1>2, <1>3, <1>5 DEF Shape, Fits, About
  <2> QED
    BY <2>1, <2>2, <2>3 DEF Stored
<1>6. ASSUME k.op \in {"touch", "link", "unlink"}
      PROVE  owed[d] # Raced /\ owed[d] = [row |-> table[d], out |-> out]
  <2>1. k.op # "upsert" /\ k.op # "delete"
    BY <1>6
  <2>2. owed[d] = Raced => owed'[d] = Raced
    <3>1. After(k, Raced) = Raced
      BY <1>6, <2>1 DEF After
    <3> QED
      BY <1>3, <3>1
  <2> QED
    BY <2>2 DEF IInv, OnlyRacesLose, Stored
<1>10. Stored(d)' = [row |-> table'[d], out |-> {x \in Id : <<d, x>> \in links'}]
  BY DEF Stored
<1> HIDE DEF out
<1>7. CASE k.op = "touch"
  <2>1. owed'[d] = [owed[d] EXCEPT !.row.count = owed[d].row.count + 1]
    BY <1>3, <1>6, <1>7 DEF After
  <2>2. table[d] \in Row /\ k.row = [vec |-> table[d].vec, count |-> table[d].count + 1]
    BY <1>1, <1>3, <1>7 DEF Fits, IInv, TypeOK
  <2>3. k.row # Same
    BY <1>3, <1>7, SameIsNoRow DEF Fits
  <2>4. table'[d] = k.row /\ links' = links
    BY <1>1, <1>2, <1>7, <2>3 DEF Shape
  <2>5. owed'[d] = [row |-> k.row, out |-> out]
    BY <1>6, <1>7, <2>1, <2>2, NewCount
  <2> QED
    BY <1>10, <2>4, <2>5 DEF out
<1>8. CASE k.op = "link"
  <2>1. owed'[d] = [owed[d] EXCEPT !.out = owed[d].out \cup k.out]
    BY <1>3, <1>6, <1>8 DEF After
  <2>2. table'[d] = table[d]
    BY <1>1, <1>2, <1>8 DEF Shape
  <2>3. PICK y \in Id : k.drop = {} /\ k.out = {y} /\ k.put = {<<d, y>>} \ links
    BY <1>3, <1>8 DEF Fits
  <2>4. \A x \in Id : <<d, x>> \in links' <=> <<d, x>> \in links \/ x = y
    BY <1>2, <2>3
  <2>5. owed'[d] = [row |-> table[d], out |-> out \cup {y}]
    <3>1. owed[d] = [row |-> table[d], out |-> out]
      BY <1>6, <1>8
    <3>2. owed[d].out = out
      BY <3>1
    <3>3. owed'[d] = [owed[d] EXCEPT !.out = out \cup {y}]
      BY <2>1, <2>3, <3>2
    <3> QED
      BY <3>1, <3>3, NewOut
  <2>6. {x \in Id : <<d, x>> \in links'} = out \cup {y}
    BY <2>4 DEF out
  <2> QED
    BY <1>10, <2>2, <2>5, <2>6
<1>9. CASE k.op = "unlink"
  <2>1. owed'[d] = [owed[d] EXCEPT !.out = owed[d].out \ k.out]
    BY <1>3, <1>6, <1>9 DEF After
  <2>2. table'[d] = table[d]
    BY <1>1, <1>2, <1>9 DEF Shape
  <2>3. PICK y \in Id : k.put = {} /\ k.out = {y} /\ k.drop = {<<d, y>>} \cap links
    BY <1>3, <1>9 DEF Fits
  <2>4. \A x \in Id : <<d, x>> \in links' <=> <<d, x>> \in links /\ x # y
    BY <1>2, <2>3
  <2>5. owed'[d] = [row |-> table[d], out |-> out \ {y}]
    <3>1. owed[d] = [row |-> table[d], out |-> out]
      BY <1>6, <1>9
    <3>2. owed[d].out = out
      BY <3>1
    <3>3. owed'[d] = [owed[d] EXCEPT !.out = out \ {y}]
      BY <2>1, <2>3, <3>2
    <3> QED
      BY <3>1, <3>3, NewOut
  <2>6. {x \in Id : <<d, x>> \in links'} = out \ {y}
    BY <2>4 DEF out
  <2> QED
    BY <1>10, <2>2, <2>5, <2>6
<1> QED
  BY <1>1, <1>4, <1>5, <1>7, <1>8, <1>9 DEF Call

LEMMA Commits == ASSUME IInv, NEW c \in Conn, Commit(c) PROVE IInv'
<1> DEFINE k == conn[c]
<1>1. k \in Call /\ Shape(k) /\ (k.alone => Fits(k)) /\ k.of \in Id
  BY InCall DEF Commit, Call
<1>2. /\ table' = IF k.row = Same THEN table ELSE [table EXCEPT ![k.of] = k.row]
      /\ links' = (links \ k.drop) \cup k.put /\ owed' = Owed(k)
      /\ conn' = [f \in Conn |->
                    IF f = c THEN Idle
                    ELSE IF Busy(f) /\ Disturbs(k, conn[f])
                         THEN [conn[f] EXCEPT !.alone = FALSE] ELSE conn[f]]
  BY DEF Commit
<1>3. OnlyRacesLose'
  <2> SUFFICES ASSUME NEW d \in Id, owed'[d] # Raced PROVE Stored(d)' = owed'[d]
    BY DEF OnlyRacesLose
  <2> QED
    BY OthersStand, OwnStands
<1>4. Calls'
  <2> SUFFICES ASSUME NEW f \in Conn, Busy(f)'
               PROVE  (Shape(conn[f]) /\ (conn[f].alone => Fits(conn[f])))'
    BY DEF Calls
  <2>1. f # c /\ Busy(f)
    BY <1>2 DEF Busy, Idle
  <2> DEFINE m == conn[f]
  <2>2. m \in Call /\ Shape(m) /\ (m.alone => Fits(m))
    BY <2>1, InCall
  <2>3. CASE Disturbs(k, m)
    <3>1. conn'[f] = [m EXCEPT !.alone = FALSE]
      BY <1>2, <2>1, <2>3
    <3> QED
      BY <2>2, <3>1 DEF Call, Shape
  <2>4. CASE ~Disturbs(k, m)
    <3>1. conn'[f] = m
      BY <1>2, <2>1, <2>4
    <3>2. m.of # k.of /\ \A p \in k.drop \cup k.put : p[1] # m.of
      BY <2>4 DEF Disturbs
    <3>3. table'[m.of] = table[m.of]
      BY <1>1, <1>2, <2>2, <3>2 DEF IInv, TypeOK, Call
    <3>5. {p \in links' : p[1] = m.of} = {p \in links : p[1] = m.of}
      BY <1>2, <3>2
    <3>6. m.op = "delete" => {p \in links' : m.of \in {p[1], p[2]}} = About(m.of)
      <4>1. m.op = "delete" => \A p \in k.drop \cup k.put : m.of \notin {p[1], p[2]}
        BY <2>4 DEF Disturbs
      <4> QED
        BY <1>2, <4>1 DEF About
    <3>7. \A x \in Id : <<m.of, x>> \in links' <=> <<m.of, x>> \in links
      BY <1>2, <3>2
    <3>8. \A x \in Id : /\ {<<m.of, x>>} \ links' = {<<m.of, x>>} \ links
                        /\ {<<m.of, x>>} \cap links' = {<<m.of, x>>} \cap links
      BY <3>7
    <3>9. Shape(conn[f])'
      BY <2>2, <3>1 DEF Shape
    <3>10. ASSUME conn'[f].alone PROVE Fits(conn[f])'
      BY <2>2, <3>1, <3>3, <3>5, <3>6, <3>8, <3>10 DEF Fits, From, About
    <3> QED
      BY <3>9, <3>10
  <2> QED
    BY <2>3, <2>4
<1>5. TypeOK'
  <2> USE DEF IInv, TypeOK
  <2>1. table' \in [Id -> Row \cup {NoRow}]
    BY <1>1, <1>2 DEF Call
  <2>2. links' \in SUBSET Link
    BY <1>1, <1>2 DEF Call
  <2>3. conn' \in [Conn -> Call \cup {Closed, Idle, Aborted}]
    <3> SUFFICES ASSUME NEW f \in Conn, Busy(f)
                 PROVE  [conn[f] EXCEPT !.alone = FALSE] \in Call
      BY <1>2
    <3> QED
      BY InCall DEF Call
  <2>4. owed' \in [Id -> [row : Row \cup {NoRow}, out : SUBSET Id] \cup {Raced}]
    <3>1. ASSUME NEW d \in Id, owed'[d] # Raced
          PROVE  owed'[d] \in [row : Row \cup {NoRow}, out : SUBSET Id]
      <4>1. owed'[d] = [row |-> table'[d], out |-> {x \in Id : <<d, x>> \in links'}]
        BY <1>3, <3>1 DEF OnlyRacesLose, Stored
      <4>2. table'[d] \in Row \cup {NoRow}
        BY <2>1
      <4> QED
        BY <4>1, <4>2
    <3> QED
      BY <1>2, <3>1 DEF Owed
  <2> QED
    BY <2>1, <2>2, <2>3, <2>4
<1> QED
  BY <1>3, <1>4, <1>5 DEF IInv

LEMMA Steps == IInv /\ [Next]_vars => IInv'
<1> SUFFICES ASSUME IInv, [Next]_vars PROVE IInv'
  OBVIOUS
<1>1. ASSUME NEW c \in Conn, Open(c) \/ Refuse(c) \/ Close(c) PROVE IInv'
  <2>1. PICK k \in {Closed, Idle, Aborted} : Becomes(c, k)
    BY <1>1 DEF Open, Refuse, Close
  <2>2. k.state # "busy"
    BY DEF Closed, Idle, Aborted
  <2> QED
    BY <2>1, <2>2, Statement
<1>2. CASE UNCHANGED vars
  BY <1>2 DEF vars, IInv, TypeOK, Calls, Busy, Shape, Fits, From, About, OnlyRacesLose, Stored
<1> QED
  BY <1>1, <1>2, Upserts, Deletes, Touches, Linkings, Commits DEF Next

\* Tables, calls and debts keep their types: what a commit leaves owed is typed
\* only because it is what the tables have.
THEOREM TypeCorrect == Spec => []TypeOK
  BY Initially, Steps, PTL DEF Spec, IInv

\* A call that returned is in the tables whole and one that raised or died is in
\* them not at all, for any number of droplets and connections, except where two
\* calls on one droplet overlapped (upsert, delete, touch_cycle, add_link,
\* remove_link of postgres_repository.py).
THEOREM OnlyRaces == Spec => []OnlyRacesLose
  BY Initially, Steps, PTL DEF Spec, IInv

-----------------------------------------------------------------------------
(* SQLite: types and dimensions, for any number of engines. *)

\* An open engine's record, and the parts of it the actions replace.
LEMMA EngineRecord ==
    ASSUME Sqlite!TypeOK, NEW e \in Engine, engine[e].open
    PROVE  /\ engine[e] \in Sqlite!OpenEngine
           /\ engine[e].dim \in Dim
           /\ engine[e].index \in Sqlite!Index
           /\ engine[e].of \in SUBSET Id
           /\ Sqlite!View(e) \in Sqlite!Table
  <1>1. engine[e] \in Sqlite!OpenEngine \cup {Sqlite!Closed}
    BY DEF Sqlite!TypeOK
  <1>2. Sqlite!Closed.open = FALSE
    BY DEF Sqlite!Closed
  <1>3. engine[e] \in Sqlite!OpenEngine
    BY <1>1, <1>2
  <1>4. engine[e].tx \in Sqlite!Table \cup {NoTx}
    BY <1>3 DEF Sqlite!OpenEngine
  <1>5. Sqlite!View(e) \in Sqlite!Table
    BY <1>4 DEF Sqlite!View, Sqlite!TypeOK
  <1> QED BY <1>3, <1>5 DEF Sqlite!OpenEngine

\* What the index should hold for a table is an index.
LEMMA CachedType ==
    ASSUME NEW t \in Sqlite!Table
    PROVE  Sqlite!Cached(t) \in Sqlite!Index
  BY DEF Sqlite!Cached, Sqlite!Table, Sqlite!Index, Sqlite!Embedding

\* A commit keeps the types of what it is given.
LEMMA CommitType ==
    ASSUME Sqlite!TypeOK, NEW e \in Engine, engine[e].open,
           NEW t \in Sqlite!Table, NEW index \in Sqlite!Index, NEW ids \in SUBSET Id,
           Sqlite!Commit(e, t, index, ids)
    PROVE  Sqlite!TypeOK'
  <1>1. [engine[e] EXCEPT !.index = index, !.tx = NoTx, !.step = "persist", !.of = ids]
           \in Sqlite!OpenEngine
    BY EngineRecord DEF Sqlite!OpenEngine
  <1> QED BY <1>1 DEF Sqlite!Commit, Sqlite!TypeOK

LEMMA SqliteTypes == Sqlite!TypeOK /\ [Sqlite!Next]_sqliteVars => Sqlite!TypeOK'
  <1> SUFFICES ASSUME Sqlite!TypeOK, [Sqlite!Next]_sqliteVars PROVE Sqlite!TypeOK'
    OBVIOUS
  <1>1. CASE UNCHANGED sqliteVars
    BY <1>1 DEF sqliteVars, Sqlite!TypeOK
  <1>2. ASSUME NEW e \in Engine, Sqlite!Open(e) PROVE Sqlite!TypeOK'
    <2>1. PICK dim \in Dim :
             engine' = [engine EXCEPT ![e] = Sqlite!Opened(dim, Sqlite!Load(dim))]
      BY <1>2 DEF Sqlite!Open
    <2>2. Sqlite!Load(dim) \in Sqlite!Index
      BY DEF Sqlite!Load, Sqlite!EmptyIndex, Sqlite!Index, Sqlite!Embedding, Sqlite!TypeOK
    <2>3. Sqlite!Opened(dim, Sqlite!Load(dim)) \in Sqlite!OpenEngine
      BY <2>2 DEF Sqlite!Opened, Sqlite!OpenEngine
    <2> QED BY <1>2, <2>1, <2>3 DEF Sqlite!Open, Sqlite!TypeOK
  <1>3. ASSUME NEW e \in Engine, Sqlite!Upsert(e) PROVE Sqlite!TypeOK'
    <2>1. PICK d \in Id, v \in Sqlite!Embedding :
             Sqlite!Commit(e, [Sqlite!View(e) EXCEPT ![d] = v],
                              [engine[e].index EXCEPT ![d] = v], {d})
      BY <1>3 DEF Sqlite!Upsert
    <2>2. engine[e].open
      BY <1>3 DEF Sqlite!Upsert, Sqlite!Ready
    <2>3. /\ [Sqlite!View(e) EXCEPT ![d] = v] \in Sqlite!Table
          /\ [engine[e].index EXCEPT ![d] = v] \in Sqlite!Index
      BY <2>2, EngineRecord DEF Sqlite!Table, Sqlite!Index
    <2> QED BY <2>1, <2>2, <2>3, CommitType
  <1>4. ASSUME NEW e \in Engine, Sqlite!UpsertRaises(e) PROVE Sqlite!TypeOK'
    <2>1. PICK d \in Id, v \in Sqlite!Vec :
             /\ engine' = [engine EXCEPT ![e].tx = [Sqlite!View(e) EXCEPT ![d] = v]]
             /\ lost' = lost \cup {d}
      BY <1>4 DEF Sqlite!UpsertRaises
    <2>2. engine[e].open
      BY <1>4 DEF Sqlite!UpsertRaises, Sqlite!Ready
    <2>3. [Sqlite!View(e) EXCEPT ![d] = v] \in Sqlite!Table
      BY <2>2, EngineRecord DEF Sqlite!Table, Sqlite!Embedding
    <2>4. [engine[e] EXCEPT !.tx = [Sqlite!View(e) EXCEPT ![d] = v]] \in Sqlite!OpenEngine
      BY <2>2, <2>3, EngineRecord DEF Sqlite!OpenEngine
    <2> QED BY <1>4, <2>1, <2>4 DEF Sqlite!UpsertRaises, Sqlite!TypeOK
  <1>5. ASSUME NEW e \in Engine, Sqlite!Delete(e) PROVE Sqlite!TypeOK'
    <2>1. PICK d \in Id :
             Sqlite!Commit(e, [Sqlite!View(e) EXCEPT ![d] = NoRow],
                              [engine[e].index EXCEPT ![d] = NoVec], {d})
      BY <1>5 DEF Sqlite!Delete
    <2>2. engine[e].open
      BY <1>5 DEF Sqlite!Delete, Sqlite!Ready
    <2>3. /\ [Sqlite!View(e) EXCEPT ![d] = NoRow] \in Sqlite!Table
          /\ [engine[e].index EXCEPT ![d] = NoVec] \in Sqlite!Index
      BY <2>2, EngineRecord DEF Sqlite!Table, Sqlite!Index, Sqlite!Embedding
    <2> QED BY <2>1, <2>2, <2>3, CommitType
  <1>6. ASSUME NEW e \in Engine, Sqlite!CommitOther(e) PROVE Sqlite!TypeOK'
    <2>1. engine[e].open /\ engine[e].tx # NoTx
      BY <1>6 DEF Sqlite!CommitOther, Sqlite!Ready
    <2>2. /\ [engine[e] EXCEPT !.tx = NoTx] \in Sqlite!OpenEngine
          /\ engine[e].tx \in Sqlite!Table
      BY <2>1, EngineRecord DEF Sqlite!OpenEngine
    <2> QED BY <1>6, <2>2 DEF Sqlite!CommitOther, Sqlite!TypeOK
  <1>7. ASSUME NEW e \in Engine, Sqlite!Persist(e) PROVE Sqlite!TypeOK'
    <2>1. engine[e].open
      BY <1>7 DEF Sqlite!Persist, Sqlite!Unwritten
    <2>2. [engine[e] EXCEPT !.step = "ready", !.of = {}] \in Sqlite!OpenEngine
      BY <2>1, EngineRecord DEF Sqlite!OpenEngine
    <2> QED BY <1>7, <2>1, <2>2, EngineRecord DEF Sqlite!Persist, Sqlite!TypeOK
  <1>8. ASSUME NEW e \in Engine, Sqlite!RebuildIndex(e) \/ Sqlite!RebuildRaises(e)
        PROVE  Sqlite!TypeOK'
    <2>1. engine[e].open
      BY <1>8 DEF Sqlite!RebuildIndex, Sqlite!RebuildRaises, Sqlite!Ready
    <2>2. Sqlite!Cached(Sqlite!View(e)) \in Sqlite!Index /\ Sqlite!EmptyIndex \in Sqlite!Index
      BY <2>1, EngineRecord, CachedType DEF Sqlite!EmptyIndex, Sqlite!Index, Sqlite!Embedding
    <2>3. /\ [engine[e] EXCEPT !.index = Sqlite!Cached(Sqlite!View(e)),
                               !.step = "rebuild", !.of = Id] \in Sqlite!OpenEngine
          /\ [engine[e] EXCEPT !.index = Sqlite!EmptyIndex, !.step = "failed"]
                \in Sqlite!OpenEngine
      BY <2>1, <2>2, EngineRecord DEF Sqlite!OpenEngine
    <2> QED BY <1>8, <2>3 DEF Sqlite!RebuildIndex, Sqlite!RebuildRaises, Sqlite!TypeOK
  <1>9. ASSUME NEW e \in Engine, Sqlite!Close(e) \/ Sqlite!Crash(e) PROVE Sqlite!TypeOK'
    <2>1. engine[e].open
      BY <1>9 DEF Sqlite!Close, Sqlite!Crash, Sqlite!Ready
    <2> QED BY <1>9, <2>1, EngineRecord DEF Sqlite!Close, Sqlite!Crash, Sqlite!TypeOK
  <1> QED
    BY <1>1, <1>2, <1>3, <1>4, <1>5, <1>6, <1>7, <1>8, <1>9 DEF Sqlite!Next, sqliteVars

\* No engine's index takes an entry of another dimension than its own.
LEMMA SqliteShapes ==
    Sqlite!TypeOK /\ Sqlite!ShapesAgree /\ [Sqlite!Next]_sqliteVars => Sqlite!ShapesAgree'
  <1> SUFFICES ASSUME Sqlite!TypeOK, Sqlite!ShapesAgree, [Sqlite!Next]_sqliteVars
               PROVE  Sqlite!ShapesAgree'
    OBVIOUS
  <1> DEFINE Fits1(k) == k.open => \A d \in Id : k.index[d] # NoVec => k.index[d].dim = k.dim
  <1>1. CASE UNCHANGED sqliteVars
    BY <1>1 DEF sqliteVars, Sqlite!ShapesAgree
  <1>2. ASSUME NEW e \in Engine, NEW k,
               engine' = [engine EXCEPT ![e] = k], Fits1(k)
        PROVE  Sqlite!ShapesAgree'
    <2>1. \A f \in Engine : engine'[f] = IF f = e THEN k ELSE engine[f]
      BY <1>2 DEF Sqlite!TypeOK
    <2>2. \A f \in Engine : Fits1(engine'[f])
      BY <1>2, <2>1 DEF Sqlite!ShapesAgree
    <2> QED BY <2>2 DEF Sqlite!ShapesAgree
  <1>3. ASSUME NEW e \in Engine, engine[e].open
        PROVE  /\ engine[e] \in Sqlite!OpenEngine
               /\ \A d \in Id : engine[e].index[d] # NoVec
                                   => engine[e].index[d].dim = engine[e].dim
    BY <1>3, EngineRecord DEF Sqlite!ShapesAgree
  <1>4. ASSUME NEW e \in Engine, Sqlite!Open(e) PROVE Sqlite!ShapesAgree'
    <2>1. PICK dim \in Dim :
             engine' = [engine EXCEPT ![e] = Sqlite!Opened(dim, Sqlite!Load(dim))]
      BY <1>4 DEF Sqlite!Open
    <2>2. \A d \in Id : Sqlite!Load(dim)[d] # NoVec => Sqlite!Load(dim)[d].dim = dim
      BY DEF Sqlite!Load, Sqlite!EmptyIndex
    <2>3. Fits1(Sqlite!Opened(dim, Sqlite!Load(dim)))
      BY <2>2 DEF Sqlite!Opened
    <2> QED BY <1>2, <2>1, <2>3
  <1>5. ASSUME NEW e \in Engine, engine[e].open, NEW t, NEW index, NEW ids,
               Sqlite!Commit(e, t, index, ids),
               \A d \in Id : index[d] # NoVec => index[d].dim = engine[e].dim
        PROVE  Sqlite!ShapesAgree'
    <2> DEFINE k == [engine[e] EXCEPT !.index = index, !.tx = NoTx, !.step = "persist",
                                      !.of = ids]
    <2>1. engine' = [engine EXCEPT ![e] = k]
      BY <1>5 DEF Sqlite!Commit
    <2>2. k.index = index /\ k.dim = engine[e].dim
      BY <1>3, <1>5 DEF Sqlite!OpenEngine
    <2> HIDE DEF k
    <2> QED BY <1>2, <1>5, <2>1, <2>2
  <1>6. ASSUME NEW e \in Engine, Sqlite!Upsert(e) PROVE Sqlite!ShapesAgree'
    <2>1. PICK d \in Id, v \in Sqlite!Embedding :
             /\ v # NoVec => v.dim = engine[e].dim
             /\ Sqlite!Commit(e, [Sqlite!View(e) EXCEPT ![d] = v],
                                 [engine[e].index EXCEPT ![d] = v], {d})
      BY <1>6 DEF Sqlite!Upsert
    <2>2. engine[e].open
      BY <1>6 DEF Sqlite!Upsert, Sqlite!Ready
    <2>3. \A x \in Id : [engine[e].index EXCEPT ![d] = v][x]
                           = IF x = d THEN v ELSE engine[e].index[x]
      BY <2>2, EngineRecord DEF Sqlite!Index
    <2>4. \A x \in Id : [engine[e].index EXCEPT ![d] = v][x] # NoVec
                           => [engine[e].index EXCEPT ![d] = v][x].dim = engine[e].dim
      BY <1>3, <2>1, <2>2, <2>3
    <2> QED BY <1>5, <2>1, <2>2, <2>4
  <1>7. ASSUME NEW e \in Engine, Sqlite!Delete(e) PROVE Sqlite!ShapesAgree'
    <2>1. PICK d \in Id :
             Sqlite!Commit(e, [Sqlite!View(e) EXCEPT ![d] = NoRow],
                              [engine[e].index EXCEPT ![d] = NoVec], {d})
      BY <1>7 DEF Sqlite!Delete
    <2>2. engine[e].open
      BY <1>7 DEF Sqlite!Delete, Sqlite!Ready
    <2>3. \A x \in Id : [engine[e].index EXCEPT ![d] = NoVec][x]
                           = IF x = d THEN NoVec ELSE engine[e].index[x]
      BY <2>2, EngineRecord DEF Sqlite!Index
    <2>4. \A x \in Id : [engine[e].index EXCEPT ![d] = NoVec][x] # NoVec
                           => [engine[e].index EXCEPT ![d] = NoVec][x].dim = engine[e].dim
      BY <1>3, <2>2, <2>3
    <2> QED BY <1>5, <2>1, <2>2, <2>4
  <1>8. ASSUME NEW e \in Engine,
               Sqlite!UpsertRaises(e) \/ Sqlite!CommitOther(e) \/ Sqlite!Persist(e)
        PROVE  Sqlite!ShapesAgree'
    <2>1. engine[e].open
      BY <1>8 DEF Sqlite!UpsertRaises, Sqlite!CommitOther, Sqlite!Persist, Sqlite!Ready,
                  Sqlite!Unwritten
    <2>2. \E k : /\ engine' = [engine EXCEPT ![e] = k]
                 /\ k.index = engine[e].index /\ k.dim = engine[e].dim
      <3>1. CASE Sqlite!UpsertRaises(e)
        <4>1. PICK t : engine' = [engine EXCEPT ![e].tx = t]
          BY <3>1 DEF Sqlite!UpsertRaises
        <4> DEFINE k == [engine[e] EXCEPT !.tx = t]
        <4>2. engine' = [engine EXCEPT ![e] = k]
          BY <4>1
        <4>3. k.index = engine[e].index /\ k.dim = engine[e].dim
          BY <1>3, <2>1 DEF Sqlite!OpenEngine
        <4> QED BY <4>2, <4>3
      <3>2. CASE Sqlite!CommitOther(e)
        <4> WITNESS [engine[e] EXCEPT !.tx = NoTx]
        <4> QED BY <1>3, <2>1, <3>2 DEF Sqlite!OpenEngine, Sqlite!CommitOther
      <3>3. CASE Sqlite!Persist(e)
        <4> WITNESS [engine[e] EXCEPT !.step = "ready", !.of = {}]
        <4> QED BY <1>3, <2>1, <3>3 DEF Sqlite!OpenEngine, Sqlite!Persist
      <3> QED BY <1>8, <3>1, <3>2, <3>3
    <2>3. PICK k : /\ engine' = [engine EXCEPT ![e] = k]
                   /\ k.index = engine[e].index /\ k.dim = engine[e].dim
      BY <2>2
    <2>4. Fits1(k)
      BY <1>3, <2>1, <2>3
    <2> HIDE DEF Fits1
    <2> QED BY <1>2, <2>3, <2>4
  <1>9. ASSUME NEW e \in Engine, Sqlite!RebuildIndex(e) PROVE Sqlite!ShapesAgree'
    <2> DEFINE k == [engine[e] EXCEPT !.index = Sqlite!Cached(Sqlite!View(e)),
                                      !.step = "rebuild", !.of = Id]
    <2>1. engine[e].open /\ engine' = [engine EXCEPT ![e] = k]
      BY <1>9 DEF Sqlite!RebuildIndex, Sqlite!Ready
    <2>2. k.index = Sqlite!Cached(Sqlite!View(e)) /\ k.dim = engine[e].dim
      BY <1>3, <2>1 DEF Sqlite!OpenEngine
    <2>3. \A d \in Id : Sqlite!Cached(Sqlite!View(e))[d] # NoVec =>
                           /\ Sqlite!View(e)[d].dim = engine[e].dim
                           /\ Sqlite!Cached(Sqlite!View(e))[d] = Sqlite!View(e)[d]
      BY <1>9 DEF Sqlite!RebuildIndex, Sqlite!Cached
    <2> HIDE DEF k
    <2> QED BY <1>2, <2>1, <2>2, <2>3
  <1>10. ASSUME NEW e \in Engine, Sqlite!RebuildRaises(e) PROVE Sqlite!ShapesAgree'
    <2> DEFINE k == [engine[e] EXCEPT !.index = Sqlite!EmptyIndex, !.step = "failed"]
    <2>1. engine[e].open /\ engine' = [engine EXCEPT ![e] = k]
      BY <1>10 DEF Sqlite!RebuildRaises, Sqlite!Ready
    <2>2. k.index = Sqlite!EmptyIndex
      BY <1>3, <2>1 DEF Sqlite!OpenEngine
    <2>3. \A d \in Id : k.index[d] = NoVec
      BY <2>2 DEF Sqlite!EmptyIndex
    <2> HIDE DEF k
    <2> QED BY <1>2, <2>1, <2>3
  <1>11. ASSUME NEW e \in Engine, Sqlite!Close(e) \/ Sqlite!Crash(e)
         PROVE  Sqlite!ShapesAgree'
    <2>1. engine' = [engine EXCEPT ![e] = Sqlite!Closed] /\ ~Sqlite!Closed.open
      BY <1>11 DEF Sqlite!Close, Sqlite!Crash, Sqlite!Closed
    <2> QED BY <1>2, <2>1
  <1> HIDE DEF Fits1
  <1> QED
    BY <1>1, <1>4, <1>6, <1>7, <1>8, <1>9, <1>10, <1>11 DEF Sqlite!Next, sqliteVars

-----------------------------------------------------------------------------
(* SQLite: the cache, with one engine on the file. *)

OneEngine == \A e, f \in Engine : e = f

\* The index is right about every id but these.
Agrees(index, ids) == \A d \in Id \ ids : index[d] = Sqlite!Cached(rows)[d]

(***************************************************************************)
(* The file misses what was lost, and what a commit is still to write to   *)
(* it.  In memory the index is right about a committed id before the file  *)
(* is, which is why persist may take it off the lost ones.  A transaction  *)
(* that add has left open holds an embedding rebuild_index refuses, so no  *)
(* rebuild can be made from rows that are not committed.                   *)
(***************************************************************************)
FileInv ==
    \A d \in Id \ lost :
        (\A e \in Engine :
            engine[e].open /\ engine[e].step = "persist" => d \notin engine[e].of)
        => file[d] = Sqlite!Cached(rows)[d]

EngineInv ==
    \A e \in Engine : engine[e].open =>
        /\ engine[e].step = "ready" => Agrees(engine[e].index, lost)
        /\ engine[e].step \in {"persist", "rebuild"} =>
              Agrees(engine[e].index, lost \ engine[e].of) /\ engine[e].tx = NoTx
        /\ engine[e].tx # NoTx =>
              /\ \A d \in Id \ lost : engine[e].tx[d] = rows[d]
              /\ \E d \in Id : /\ engine[e].tx[d] \in Sqlite!Vec
                               /\ engine[e].tx[d].dim # engine[e].dim

CacheInv == FileInv /\ EngineInv

LEMMA CacheInitially == Sqlite!Init => CacheInv
  BY DEF Sqlite!Init, Sqlite!EmptyIndex, Sqlite!Cached, Sqlite!Closed, CacheInv, FileInv,
         EngineInv

\* A commit that changes row and index entry of one droplet alike.
LEMMA CommitKeeps ==
    ASSUME OneEngine, Sqlite!TypeOK, CacheInv, NEW e \in Engine, Sqlite!Ready(e),
           NEW d \in Id, NEW v, NEW w, w = IF v = NoRow THEN NoVec ELSE v,
           Sqlite!Commit(e, [Sqlite!View(e) EXCEPT ![d] = v],
                            [engine[e].index EXCEPT ![d] = w], {d})
    PROVE  CacheInv'
  <1>1. \A f \in Engine : f = e
    BY DEF OneEngine
  <1>2. engine[e].open /\ engine[e].step = "ready"
    BY DEF Sqlite!Ready
  <1>3. /\ engine[e] \in Sqlite!OpenEngine /\ engine[e].index \in Sqlite!Index
        /\ Sqlite!View(e) \in Sqlite!Table
    BY <1>2, EngineRecord
  <1> DEFINE t == [Sqlite!View(e) EXCEPT ![d] = v]
             i == [engine[e].index EXCEPT ![d] = w]
  <1>4. /\ rows' = t /\ file' = file /\ lost' = lost
        /\ engine' = [engine EXCEPT ![e] = [engine[e] EXCEPT !.index = i, !.tx = NoTx,
                                                        !.step = "persist", !.of = {d}]]
    BY DEF Sqlite!Commit
  <1>5. \A x \in Id : /\ t[x] = IF x = d THEN v ELSE Sqlite!View(e)[x]
                      /\ i[x] = IF x = d THEN w ELSE engine[e].index[x]
    BY <1>3 DEF Sqlite!Table, Sqlite!Index
  <1> HIDE DEF t, i
  <1>6. /\ engine'[e].open /\ engine'[e].index = i /\ engine'[e].tx = NoTx
        /\ engine'[e].step = "persist" /\ engine'[e].of = {d}
    <2>1. engine'[e] = [engine[e] EXCEPT !.index = i, !.tx = NoTx, !.step = "persist",
                                         !.of = {d}]
      BY <1>4 DEF Sqlite!TypeOK
    <2> QED BY <1>2, <1>3, <2>1 DEF Sqlite!OpenEngine
  <1>7. \A x \in Id : Sqlite!Cached(rows)'[x] = IF t[x] = NoRow THEN NoVec ELSE t[x]
    BY <1>4 DEF Sqlite!Cached
  <1>8. \A x \in Id : Sqlite!Cached(rows)[x] = IF rows[x] = NoRow THEN NoVec ELSE rows[x]
    BY DEF Sqlite!Cached
  <1>9. \A x \in Id \ lost : Sqlite!View(e)[x] = rows[x]
    BY <1>2 DEF Sqlite!View, CacheInv, EngineInv
  <1>10. \A x \in Id \ lost : x # d => Sqlite!Cached(rows)'[x] = Sqlite!Cached(rows)[x]
    BY <1>5, <1>7, <1>8, <1>9
  <1>11. Sqlite!Cached(rows)'[d] = w
    BY <1>5, <1>7
  <1>12. \A x \in Id \ lost : engine[e].index[x] = Sqlite!Cached(rows)[x]
    BY <1>2 DEF CacheInv, EngineInv, Agrees
  <1>13. \A x \in Id \ (lost \ {d}) : i[x] = Sqlite!Cached(rows)'[x]
    BY <1>5, <1>10, <1>11, <1>12
  <1>14. EngineInv'
    BY <1>1, <1>4, <1>6, <1>13 DEF EngineInv, Agrees
  <1>15. FileInv'
    <2> SUFFICES ASSUME NEW x \in Id \ lost, x # d
                 PROVE  file[x] = Sqlite!Cached(rows)'[x]
      BY <1>4, <1>6 DEF FileInv
    <2>1. \A f \in Engine : engine[f].step # "persist"
      BY <1>1, <1>2
    <2> QED BY <1>10, <2>1 DEF CacheInv, FileInv
  <1> QED BY <1>14, <1>15 DEF CacheInv

LEMMA SqliteCache ==
    ASSUME OneEngine
    PROVE  Sqlite!TypeOK /\ CacheInv /\ [Sqlite!Next]_sqliteVars => CacheInv'
  <1> SUFFICES ASSUME Sqlite!TypeOK, CacheInv, [Sqlite!Next]_sqliteVars PROVE CacheInv'
    OBVIOUS
  <1>0. \A e, f \in Engine : f = e
    BY DEF OneEngine
  <1>1. CASE UNCHANGED sqliteVars
    BY <1>1 DEF sqliteVars, CacheInv, FileInv, EngineInv, Agrees, Sqlite!Cached
  <1>2. ASSUME NEW e \in Engine, Sqlite!Open(e) PROVE CacheInv'
    <2>1. PICK dim \in Dim :
             /\ engine' = [engine EXCEPT ![e] = Sqlite!Opened(dim, Sqlite!Load(dim))]
             /\ lost' = lost \cup {d \in Id : file[d] # Sqlite!Load(dim)[d]}
      BY <1>2 DEF Sqlite!Open
    <2>2. /\ engine'[e].open /\ engine'[e].index = Sqlite!Load(dim)
          /\ engine'[e].tx = NoTx /\ engine'[e].step = "ready"
      BY <2>1 DEF Sqlite!Opened, Sqlite!TypeOK
    <2>3. ~engine[e].open /\ rows' = rows /\ file' = file
      BY <1>2 DEF Sqlite!Open
    <2>4. \A d \in Id \ lost : file[d] = Sqlite!Cached(rows)[d]
      BY <1>0, <2>3 DEF CacheInv, FileInv
    <2>5. \A d \in Id \ lost' : Sqlite!Load(dim)[d] = Sqlite!Cached(rows)[d]
      BY <2>1, <2>4
    <2>6. Sqlite!Cached(rows)' = Sqlite!Cached(rows)
      BY <2>3 DEF Sqlite!Cached
    <2>7. EngineInv'
      BY <1>0, <2>2, <2>5, <2>6 DEF EngineInv, Agrees
    <2>8. FileInv'
      BY <2>1, <2>3, <2>4, <2>6 DEF FileInv
    <2> QED BY <2>7, <2>8 DEF CacheInv
  <1>3. ASSUME NEW e \in Engine, Sqlite!Upsert(e) PROVE CacheInv'
    <2>1. PICK d \in Id, v \in Sqlite!Embedding :
             Sqlite!Commit(e, [Sqlite!View(e) EXCEPT ![d] = v],
                              [engine[e].index EXCEPT ![d] = v], {d})
      BY <1>3 DEF Sqlite!Upsert
    <2>2. v = IF v = NoRow THEN NoVec ELSE v
      BY MarksAreNoVectors DEF Sqlite!Embedding
    <2> QED BY <1>3, <2>1, <2>2, CommitKeeps DEF Sqlite!Upsert
  <1>4. ASSUME NEW e \in Engine, Sqlite!Delete(e) PROVE CacheInv'
    BY <1>4, CommitKeeps DEF Sqlite!Delete
  <1>5. ASSUME NEW e \in Engine, Sqlite!UpsertRaises(e) PROVE CacheInv'
    <2>1. PICK d \in Id, v \in Sqlite!Vec :
             /\ v.dim # engine[e].dim
             /\ engine' = [engine EXCEPT ![e].tx = [Sqlite!View(e) EXCEPT ![d] = v]]
             /\ lost' = lost \cup {d} /\ rows' = rows /\ file' = file
      BY <1>5 DEF Sqlite!UpsertRaises
    <2>2. engine[e].open /\ engine[e].step = "ready"
      BY <1>5 DEF Sqlite!UpsertRaises, Sqlite!Ready
    <2> DEFINE t == [Sqlite!View(e) EXCEPT ![d] = v]
    <2>3. \A x \in Id : t[x] = IF x = d THEN v ELSE Sqlite!View(e)[x]
      BY <2>2, EngineRecord DEF Sqlite!Table
    <2> HIDE DEF t
    <2>4. /\ engine'[e].open /\ engine'[e].index = engine[e].index
          /\ engine'[e].step = "ready" /\ engine'[e].tx = t
          /\ engine'[e].dim = engine[e].dim
      <3>1. engine'[e] = [engine[e] EXCEPT !.tx = t]
        BY <2>1 DEF Sqlite!TypeOK, t
      <3>2. engine[e] \in Sqlite!OpenEngine
        BY <2>2, EngineRecord
      <3> QED BY <2>2, <3>1, <3>2 DEF Sqlite!OpenEngine
    <2>5. \A x \in Id \ lost : Sqlite!View(e)[x] = rows[x]
      BY <2>2 DEF Sqlite!View, CacheInv, EngineInv
    <2>6. \A x \in Id \ lost' : t[x] = rows'[x]
      BY <2>1, <2>3, <2>5
    <2>7. t[d] \in Sqlite!Vec /\ t[d].dim # engine[e].dim
      BY <2>1, <2>3
    <2>8. Sqlite!Cached(rows)' = Sqlite!Cached(rows)
      BY <2>1 DEF Sqlite!Cached
    <2>9. \A x \in Id \ lost' : engine[e].index[x] = Sqlite!Cached(rows)[x]
      BY <2>1, <2>2 DEF CacheInv, EngineInv, Agrees
    <2>10. EngineInv'
      BY <1>0, <2>4, <2>6, <2>7, <2>8, <2>9 DEF EngineInv, Agrees
    <2>11. \A x \in Id \ lost : file[x] = Sqlite!Cached(rows)[x]
      BY <1>0, <2>2 DEF CacheInv, FileInv
    <2>12. FileInv'
      BY <2>1, <2>8, <2>11 DEF FileInv
    <2> QED BY <2>10, <2>12 DEF CacheInv
  <1>6. ASSUME NEW e \in Engine, Sqlite!CommitOther(e) PROVE CacheInv'
    <2>1. /\ engine[e].open /\ engine[e].step = "ready" /\ engine[e].tx # NoTx
          /\ rows' = engine[e].tx /\ file' = file /\ lost' = lost
          /\ engine' = [engine EXCEPT ![e].tx = NoTx]
      BY <1>6 DEF Sqlite!CommitOther, Sqlite!Ready
    <2>2. /\ engine'[e].open /\ engine'[e].index = engine[e].index
          /\ engine'[e].step = "ready" /\ engine'[e].tx = NoTx
      <3>1. engine'[e] = [engine[e] EXCEPT !.tx = NoTx]
        BY <2>1 DEF Sqlite!TypeOK
      <3>2. engine[e] \in Sqlite!OpenEngine
        BY <2>1, EngineRecord
      <3> QED BY <2>1, <3>1, <3>2 DEF Sqlite!OpenEngine
    <2>3. \A x \in Id \ lost : rows'[x] = rows[x]
      BY <2>1 DEF CacheInv, EngineInv
    <2>4. \A x \in Id \ lost : Sqlite!Cached(rows)'[x] = Sqlite!Cached(rows)[x]
      BY <2>3 DEF Sqlite!Cached
    <2>5. \A x \in Id \ lost : /\ engine[e].index[x] = Sqlite!Cached(rows)[x]
                               /\ file[x] = Sqlite!Cached(rows)[x]
      BY <1>0, <2>1 DEF CacheInv, EngineInv, FileInv, Agrees
    <2>6. EngineInv'
      BY <1>0, <2>1, <2>2, <2>4, <2>5 DEF EngineInv, Agrees
    <2>7. FileInv'
      BY <2>1, <2>4, <2>5 DEF FileInv
    <2> QED BY <2>6, <2>7 DEF CacheInv
  <1>7. ASSUME NEW e \in Engine, Sqlite!Persist(e) PROVE CacheInv'
    <2>1. /\ engine[e].open /\ engine[e].step \in {"persist", "rebuild"}
          /\ file' = engine[e].index /\ rows' = rows
          /\ lost' = lost \ engine[e].of
          /\ engine' = [engine EXCEPT ![e].step = "ready", ![e].of = {}]
      BY <1>7 DEF Sqlite!Persist, Sqlite!Unwritten
    <2>2. /\ engine'[e].open /\ engine'[e].index = engine[e].index
          /\ engine'[e].step = "ready" /\ engine'[e].tx = engine[e].tx
      <3>1. engine'[e] = [engine[e] EXCEPT !.step = "ready", !.of = {}]
        BY <2>1 DEF Sqlite!TypeOK
      <3>2. engine[e] \in Sqlite!OpenEngine
        BY <2>1, EngineRecord
      <3> QED BY <3>1, <3>2 DEF Sqlite!OpenEngine
    <2>3. /\ \A x \in Id \ lost' : engine[e].index[x] = Sqlite!Cached(rows)[x]
          /\ engine[e].tx = NoTx
      BY <2>1 DEF CacheInv, EngineInv, Agrees
    <2>4. Sqlite!Cached(rows)' = Sqlite!Cached(rows)
      BY <2>1 DEF Sqlite!Cached
    <2>5. EngineInv'
      BY <1>0, <2>2, <2>3, <2>4 DEF EngineInv, Agrees
    <2>6. FileInv'
      BY <2>1, <2>3, <2>4 DEF FileInv
    <2> QED BY <2>5, <2>6 DEF CacheInv
  <1>8. ASSUME NEW e \in Engine, Sqlite!RebuildIndex(e) PROVE CacheInv'
    <2> DEFINE i == Sqlite!Cached(Sqlite!View(e))
    <2>1. /\ engine[e].open /\ engine[e].step = "ready"
          /\ \A d \in Id : i[d] # NoVec => Sqlite!View(e)[d].dim = engine[e].dim
          /\ engine' = [engine EXCEPT ![e].index = i, ![e].step = "rebuild", ![e].of = Id]
          /\ rows' = rows /\ file' = file /\ lost' = lost
      BY <1>8 DEF Sqlite!RebuildIndex, Sqlite!Ready
    <2>2. engine[e].tx = NoTx
      <3> SUFFICES ASSUME engine[e].tx # NoTx PROVE FALSE
        OBVIOUS
      <3>1. PICK d \in Id : /\ engine[e].tx[d] \in Sqlite!Vec
                            /\ engine[e].tx[d].dim # engine[e].dim
        BY <2>1 DEF CacheInv, EngineInv
      <3>2. i[d] = engine[e].tx[d] /\ Sqlite!View(e)[d] = engine[e].tx[d]
        BY <3>1, MarksAreNoVectors DEF Sqlite!Cached, Sqlite!View
      <3> QED BY <2>1, <3>1, <3>2, MarksAreNoVectors
    <2>3. i = Sqlite!Cached(rows)
      BY <2>2 DEF Sqlite!View
    <2> HIDE DEF i
    <2>4. /\ engine'[e].open /\ engine'[e].index = i /\ engine'[e].tx = NoTx
          /\ engine'[e].step = "rebuild"
      <3>1. engine'[e] = [engine[e] EXCEPT !.index = i, !.step = "rebuild", !.of = Id]
        BY <2>1 DEF Sqlite!TypeOK
      <3>2. engine[e] \in Sqlite!OpenEngine
        BY <2>1, EngineRecord
      <3> QED BY <2>2, <3>1, <3>2 DEF Sqlite!OpenEngine
    <2>5. Sqlite!Cached(rows)' = Sqlite!Cached(rows)
      BY <2>1 DEF Sqlite!Cached
    <2>6. EngineInv'
      BY <1>0, <2>3, <2>4, <2>5 DEF EngineInv, Agrees
    <2>7. \A x \in Id \ lost : file[x] = Sqlite!Cached(rows)[x]
      BY <1>0, <2>1 DEF CacheInv, FileInv
    <2>8. FileInv'
      BY <2>1, <2>5, <2>7 DEF FileInv
    <2> QED BY <2>6, <2>8 DEF CacheInv
  <1>9. ASSUME NEW e \in Engine, Sqlite!RebuildRaises(e) PROVE CacheInv'
    <2>1. /\ engine[e].open /\ engine[e].step = "ready"
          /\ engine' = [engine EXCEPT ![e].index = Sqlite!EmptyIndex, ![e].step = "failed"]
          /\ rows' = rows /\ file' = file /\ lost' = lost
      BY <1>9 DEF Sqlite!RebuildRaises, Sqlite!Ready
    <2>2. /\ engine'[e].step = "failed" /\ engine'[e].tx = engine[e].tx
          /\ engine'[e].dim = engine[e].dim
      <3>1. engine'[e] = [engine[e] EXCEPT !.index = Sqlite!EmptyIndex, !.step = "failed"]
        BY <2>1 DEF Sqlite!TypeOK
      <3>2. engine[e] \in Sqlite!OpenEngine
        BY <2>1, EngineRecord
      <3> QED BY <3>1, <3>2 DEF Sqlite!OpenEngine
    <2>3. Sqlite!Cached(rows)' = Sqlite!Cached(rows)
      BY <2>1 DEF Sqlite!Cached
    <2>4. EngineInv'
      <3>1. engine[e].tx # NoTx =>
               /\ \A d \in Id \ lost : engine[e].tx[d] = rows[d]
               /\ \E d \in Id : /\ engine[e].tx[d] \in Sqlite!Vec
                                /\ engine[e].tx[d].dim # engine[e].dim
        BY <2>1 DEF CacheInv, EngineInv
      <3>2. rows' = rows /\ lost' = lost
        BY <2>1
      <3> QED BY <1>0, <2>2, <3>1, <3>2 DEF EngineInv
    <2>5. \A x \in Id \ lost : file[x] = Sqlite!Cached(rows)[x]
      BY <1>0, <2>1 DEF CacheInv, FileInv
    <2>6. FileInv'
      BY <2>1, <2>3, <2>5 DEF FileInv
    <2> QED BY <2>4, <2>6 DEF CacheInv
  <1>10. ASSUME NEW e \in Engine, Sqlite!Close(e) \/ Sqlite!Crash(e) PROVE CacheInv'
    <2>1. /\ engine[e].open /\ rows' = rows
          /\ engine' = [engine EXCEPT ![e] = Sqlite!Closed]
      BY <1>10 DEF Sqlite!Close, Sqlite!Crash, Sqlite!Ready
    <2>2. ~engine'[e].open
      BY <2>1 DEF Sqlite!TypeOK, Sqlite!Closed
    <2>3. EngineInv'
      BY <1>0, <2>2 DEF EngineInv
    <2>4. Sqlite!Cached(rows)' = Sqlite!Cached(rows)
      BY <2>1 DEF Sqlite!Cached
    <2>5. \A x \in Id \ lost' : file'[x] = Sqlite!Cached(rows)[x]
      <3>1. CASE Sqlite!Close(e)
        BY <3>1 DEF Sqlite!Close, Sqlite!Ready, CacheInv, EngineInv, Agrees
      <3>2. CASE Sqlite!Crash(e)
        <4>1. file' = file /\ lost' = IF engine[e].step = "persist"
                                      THEN lost \cup engine[e].of ELSE lost
          BY <3>2 DEF Sqlite!Crash
        <4> QED BY <1>0, <4>1 DEF CacheInv, FileInv
      <3> QED BY <1>10, <3>1, <3>2
    <2>6. FileInv'
      BY <2>4, <2>5 DEF FileInv
    <2> QED BY <2>3, <2>6 DEF CacheInv
  <1> QED
    BY <1>1, <1>2, <1>3, <1>4, <1>5, <1>6, <1>7, <1>8, <1>9, <1>10
       DEF Sqlite!Next, sqliteVars

-----------------------------------------------------------------------------
(* Both stores. *)

\* A step of one store leaves the other's variables alone.
LEMMA OneStoreSteps ==
    [StoreNext]_storeVars => [Sqlite!Next]_sqliteVars /\ [Next]_vars
  BY DEF StoreNext, storeVars, sqliteVars, vars

\* StoreTypeOK: types of the table, the index file and every engine, and of the
\* Postgres tables and connections, for any number of either.
THEOREM StoreTypes == StoreSpec => []StoreTypeOK
  <1>1. StoreInit => StoreTypeOK /\ IInv
    <2>1. Sqlite!Init => Sqlite!TypeOK
      BY DEF Sqlite!Init, Sqlite!TypeOK, Sqlite!EmptyIndex, Sqlite!Table, Sqlite!Index,
             Sqlite!Embedding
    <2> QED BY <2>1, Initially DEF StoreInit, StoreTypeOK, IInv
  <1>2. StoreTypeOK /\ IInv /\ [StoreNext]_storeVars => StoreTypeOK' /\ IInv'
    BY OneStoreSteps, SqliteTypes, Steps DEF StoreTypeOK, IInv
  <1> QED BY <1>1, <1>2, PTL DEF StoreSpec

\* OnlyRacesLose of the repository open_store returns: of a call on Postgres
\* that returned everything is stored, of one that raised or died before its
\* commit nothing, for any droplets and connections, except where calls on one
\* droplet overlapped.
THEOREM StoreRaces == StoreSpec => []OnlyRacesLose
  <1>1. StoreInit => IInv
    BY Initially DEF StoreInit
  <1>2. IInv /\ [StoreNext]_storeVars => IInv'
    BY OneStoreSteps, Steps
  <1>3. IInv => OnlyRacesLose
    BY DEF IInv
  <1> QED BY <1>1, <1>2, <1>3, PTL DEF StoreSpec

\* ShapesAgree: whatever dimension each engine was configured with, and whatever
\* the file it loaded was written with, no engine ever holds a vector of another
\* dimension (VectorIndex.add, VectorIndex.load, rebuild_index).
THEOREM StoreShapes == StoreSpec => []ShapesAgree
  <1>1. StoreInit => ShapesAgree
    BY DEF StoreInit, Sqlite!Init, Sqlite!Closed, ShapesAgree, Sqlite!ShapesAgree
  <1>2. StoreTypeOK /\ ShapesAgree /\ [StoreNext]_storeVars => ShapesAgree'
    BY OneStoreSteps, SqliteShapes DEF StoreTypeOK, ShapesAgree
  <1> QED BY <1>1, <1>2, StoreTypes, PTL DEF StoreSpec

\* With one engine CacheInv holds of every store.
LEMMA StoreCache ==
    ASSUME OneEngine
    PROVE  StoreSpec => []CacheInv
  <1>1. StoreInit => CacheInv
    BY CacheInitially DEF StoreInit
  <1>2. StoreTypeOK /\ CacheInv /\ [StoreNext]_storeVars => CacheInv'
    BY OneStoreSteps, SqliteCache DEF StoreTypeOK
  <1> QED BY <1>1, <1>2, StoreTypes, PTL DEF StoreSpec

\* StaleOnlyWhereLost: with one engine, any droplets, vectors and dimensions,
\* the index a call works on is wrong about the lost ids and no other, through
\* every refusal, rollback, crash and change of dimension.
THEOREM CacheIsRight ==
    ASSUME OneEngine
    PROVE  StoreSpec => []StaleOnlyWhereLost
  <1>1. CacheInv => StaleOnlyWhereLost
    BY DEF CacheInv, EngineInv, Agrees, StaleOnlyWhereLost, Sqlite!StaleOnlyWhereLost,
           Sqlite!Ready
  <1> QED BY <1>1, StoreCache, PTL

\* ReopenRecovers: with one engine, a file left by a close or a crash holds the
\* embeddings of the rows, all of them, when none was lost on the way.
THEOREM Reopening ==
    ASSUME OneEngine
    PROVE  StoreSpec => []ReopenRecovers
  <1>1. StoreTypeOK /\ CacheInv => ReopenRecovers
    <2> SUFFICES ASSUME StoreTypeOK, CacheInv, lost = {}, \A e \in Engine : ~engine[e].open
                 PROVE  file = Sqlite!Cached(rows)
      BY DEF ReopenRecovers, Sqlite!ReopenRecovers
    <2>1. \A d \in Id : file[d] = Sqlite!Cached(rows)[d]
      BY DEF CacheInv, FileInv
    <2>2. file \in Sqlite!Index /\ Sqlite!Cached(rows) \in Sqlite!Index
      BY CachedType DEF StoreTypeOK, Sqlite!TypeOK
    <2> QED BY <2>1, <2>2 DEF Sqlite!Index
  <1> QED BY <1>1, StoreTypes, StoreCache, PTL
=============================================================================
