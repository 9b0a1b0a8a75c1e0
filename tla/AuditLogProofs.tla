--------------------------- MODULE AuditLogProofs ---------------------------
(***************************************************************************)
(* Proofs about AuditLog with one appender: the chain stays linked, damage *)
(* to it stays visible, and the watermark of a completed append is right,  *)
(* whatever number of appends died half-way and however long the log is.   *)
(***************************************************************************)
EXTENDS AuditLog, SequenceTheorems, TLAPS

OneAppender == \A p, q \in Appender : p = q

-----------------------------------------------------------------------------
(* Hashes and chains of rows. *)

\* A hash differs from the one it extends.
LEMMA HashExtends ==
    ASSUME NEW h \in HashValue, NEW b \in Body
    PROVE  Hash(h, b) \in HashValue /\ Hash(h, b) # h
  BY AppendProperties, LenProperties DEF HashValue, Hash

\* sha256 without collisions.
LEMMA HashInjective ==
    ASSUME NEW h \in HashValue, NEW b \in Body, NEW c \in Body,
           Hash(h, b) = Hash(h, c)
    PROVE  b = c
  BY AppendInjective DEF HashValue, Hash

\* The fields of a stored row.
LEMMA RowAt ==
    ASSUME NEW rows \in Seq(Row), NEW i \in 1..Len(rows)
    PROVE  /\ rows[i] \in Row
           /\ rows[i].seq \in Nat \ {0}
           /\ rows[i].body \in Body
           /\ rows[i].prev \in HashValue
           /\ rows[i].hash \in HashValue
  <1>1. rows[i] \in Row
    BY ElementOfSeq
  <1> QED BY <1>1 DEF Row

\* What a row must name as its predecessor's hash.
Before(rows, i) == IF i = 1 THEN GenesisHash ELSE rows[i - 1].hash

\* The hash a row has to extend is a hash.
LEMMA BeforeType ==
    ASSUME NEW rows \in Seq(Row), NEW i \in DOMAIN rows
    PROVE  Before(rows, i) \in HashValue
  <1>1. i \in 1..Len(rows) /\ Len(rows) \in Nat
    BY LenProperties
  <1>2. CASE i = 1
    BY <1>2, EmptySeq DEF Before, GenesisHash, HashValue
  <1>3. CASE i # 1
    <2>1. i - 1 \in 1..Len(rows)
      BY <1>1, <1>3
    <2> QED BY <1>3, <2>1, RowAt DEF Before
  <1> QED BY <1>2, <1>3

\* The last hash and seq of a log that is not empty.
LEMMA LastRow ==
    ASSUME NEW rows \in Seq(Row)
    PROVE  /\ LastHash(rows) \in HashValue
           /\ rows # <<>> => /\ Len(rows) \in DOMAIN rows
                             /\ LastSeq(rows) = rows[Len(rows)].seq
                             /\ LastHash(rows) = rows[Len(rows)].hash
  <1>1. GenesisHash \in HashValue
    BY EmptySeq DEF GenesisHash, HashValue
  <1>2. rows # <<>> => Len(rows) \in 1..Len(rows) /\ DOMAIN rows = 1..Len(rows)
    BY EmptySeq, LenProperties
  <1> QED BY <1>1, <1>2, RowAt DEF LastHash, LastSeq

\* An appended row keeps a chain linked if it was made from the last hash, and
\* never mends a chain that is broken.
LEMMA LinkedAppend ==
    ASSUME NEW rows \in Seq(Row), NEW r \in Row
    PROVE  Linked(Append(rows, r)) <=>
              /\ Linked(rows)
              /\ r.prev = LastHash(rows)
              /\ r.hash = Hash(r.prev, r.body)
  <1> DEFINE new == Append(rows, r)
             n   == Len(rows)
  <1>1. /\ n \in Nat /\ DOMAIN rows = 1..n /\ DOMAIN new = 1..(n + 1)
        /\ \A i \in 1..n : new[i] = rows[i]
        /\ new[n + 1] = r
    BY AppendProperties, LenProperties
  <1>2. rows = <<>> <=> n = 0
    BY EmptySeq
  <1> HIDE DEF new, n
  <1>3. LastHash(rows) = IF n + 1 = 1 THEN GenesisHash ELSE new[n].hash
    BY <1>1, <1>2 DEF LastHash, n
  <1>4. Linked(new) <=> /\ \A i \in 1..n :
                             /\ rows[i].prev = IF i = 1 THEN GenesisHash
                                               ELSE rows[i - 1].hash
                             /\ rows[i].hash = Hash(rows[i].prev, rows[i].body)
                        /\ r.prev = LastHash(rows)
                        /\ r.hash = Hash(r.prev, r.body)
    <2>1. \A i \in 1..n : i # 1 => new[i - 1] = rows[i - 1]
      BY <1>1
    <2>2. \A i \in 1..(n + 1) : i \in 1..n \/ i = n + 1
      BY <1>1
    <2>3. 1..n \subseteq 1..(n + 1) /\ n + 1 \in 1..(n + 1) /\ (n + 1) - 1 = n
      BY <1>1
    <2> DEFINE Good(q, i) == /\ q[i].prev = IF i = 1 THEN GenesisHash ELSE q[i - 1].hash
                             /\ q[i].hash = Hash(q[i].prev, q[i].body)
    <2>4. Linked(new) <=> \A i \in 1..(n + 1) : Good(new, i)
      BY <1>1 DEF Linked
    <2>5. \A i \in 1..n : Good(new, i) <=> Good(rows, i)
      BY <1>1, <2>1
    <2>6. Good(new, n + 1) <=> r.prev = LastHash(rows) /\ r.hash = Hash(r.prev, r.body)
      BY <1>1, <1>3, <2>3
    <2> HIDE DEF Good
    <2>7. Linked(new) <=> (\A i \in 1..n : Good(rows, i)) /\ Good(new, n + 1)
      BY <2>2, <2>3, <2>4, <2>5
    <2> QED BY <2>6, <2>7 DEF Good
  <1> QED BY <1>1, <1>4 DEF Linked, new

\* The three kinds of damage that break a linked chain for good.
LEMMA EditBreaks ==
    ASSUME NEW rows \in Seq(Row), Linked(rows), NEW i \in DOMAIN rows,
           NEW b \in Body, b # rows[i].body
    PROVE  LET new == [rows EXCEPT ![i].body = b]
           IN  new \in Seq(Row) /\ ~Linked(new)
  <1> DEFINE r   == [rows[i] EXCEPT !.body = b]
             new == [rows EXCEPT ![i] = r]
  <1>1. i \in 1..Len(rows) /\ rows[i] \in Row
    BY LenProperties, ElementOfSeq
  <1>2. r \in Row /\ r.prev = rows[i].prev /\ r.hash = rows[i].hash /\ r.body = b
    BY <1>1 DEF Row
  <1> HIDE DEF r
  <1>3. new \in Seq(Row) /\ new[i] = r /\ i \in DOMAIN new
    BY <1>1, <1>2, ExceptSeq, LenProperties
  <1>4. rows[i].hash = Hash(rows[i].prev, rows[i].body)
    BY DEF Linked
  <1>5. rows[i].hash # Hash(rows[i].prev, b)
    BY <1>1, <1>4, HashInjective DEF Row
  <1>6. ~Linked(new)
    BY <1>2, <1>3, <1>5 DEF Linked
  <1> QED BY <1>3, <1>6 DEF r

\* In a linked chain a row's hash is not the one its predecessor had, so the row
\* after it cannot take its place.
LEMMA NeighboursDiffer ==
    ASSUME NEW rows \in Seq(Row), Linked(rows), NEW i \in 1..(Len(rows) - 1)
    PROVE  rows[i + 1].prev # Before(rows, i)
  <1>1. /\ Len(rows) \in Nat /\ i \in DOMAIN rows /\ i + 1 \in DOMAIN rows
        /\ i + 1 # 1 /\ (i + 1) - 1 = i
    BY LenProperties
  <1>2. rows[i + 1].prev = rows[i].hash
    BY <1>1 DEF Linked
  <1>3. rows[i].hash = Hash(rows[i].prev, rows[i].body) /\ rows[i].prev = Before(rows, i)
    BY <1>1 DEF Linked, Before
  <1>4. rows[i].body \in Body
    BY <1>1, LenProperties, RowAt
  <1> QED BY <1>1, <1>2, <1>3, <1>4, BeforeType, HashExtends

\* A row lost from the inside leaves its successor without its predecessor.
LEMMA InnerLossBreaks ==
    ASSUME NEW rows \in Seq(Row), Linked(rows), NEW i \in 1..(Len(rows) - 1)
    PROVE  RemoveAt(rows, i) \in Seq(Row) /\ ~Linked(RemoveAt(rows, i))
  <1> DEFINE n   == Len(rows)
             a   == SubSeq(rows, 1, i - 1)
             z   == SubSeq(rows, i + 1, n)
             new == RemoveAt(rows, i)
  <1>1. n \in Nat /\ i \in Nat /\ i >= 1 /\ i <= n - 1
    BY LenProperties
  <1>2. \A j \in 1..n : rows[j] \in Row
    BY ElementOfSeq
  <1>3. /\ a \in Seq(Row) /\ Len(a) = i - 1
        /\ \A j \in 1..(i - 1) : a[j] = rows[j]
    <2>1. /\ a \in Seq(Row) /\ Len(a) = IF 1 <= i - 1 THEN i - 1 - 1 + 1 ELSE 0
          /\ \A j \in 1..((i - 1) - 1 + 1) : a[j] = rows[1 + j - 1]
      BY <1>1, <1>2, SubSeqProperties
    <2> QED BY <1>1, <2>1
  <1>4. /\ z \in Seq(Row) /\ Len(z) = n - i
        /\ \A j \in 1..(n - i) : z[j] = rows[i + j]
    <2>1. /\ z \in Seq(Row) /\ Len(z) = IF i + 1 <= n THEN n - (i + 1) + 1 ELSE 0
          /\ \A j \in 1..(n - (i + 1) + 1) : z[j] = rows[i + 1 + j - 1]
      BY <1>1, <1>2, SubSeqProperties
    <2> QED BY <1>1, <2>1
  <1> HIDE DEF a, z, n
  <1>5. /\ new \in Seq(Row) /\ Len(new) = n - 1
        /\ \A j \in 1..(n - 1) : new[j] = IF j <= i - 1 THEN a[j] ELSE z[j - (i - 1)]
    <2>1. /\ a \o z \in Seq(Row) /\ Len(a \o z) = Len(a) + Len(z)
          /\ \A j \in 1..Len(a) + Len(z) :
                (a \o z)[j] = IF j <= Len(a) THEN a[j] ELSE z[j - Len(a)]
      BY <1>3, <1>4, ConcatProperties
    <2>2. new = a \o z
      BY DEF RemoveAt, a, z, n
    <2>3. Len(a) + Len(z) = n - 1
      BY <1>1, <1>3, <1>4
    <2> QED BY <1>3, <2>1, <2>2, <2>3
  <1> HIDE DEF new
  <1>6. new[i] = rows[i + 1] /\ (i # 1 => new[i - 1] = rows[i - 1]) /\ i \in DOMAIN new
    <2>1. i \in 1..(n - 1) /\ i - (i - 1) = 1 /\ 1 \in 1..(n - i)
      BY <1>1
    <2>2. new[i] = rows[i + 1]
      BY <1>1, <1>4, <1>5, <2>1
    <2>3. i # 1 => new[i - 1] = rows[i - 1]
      BY <1>1, <1>3, <1>5
    <2> QED BY <1>5, <2>1, <2>2, <2>3, LenProperties
  <1>7. rows[i + 1].prev # Before(rows, i)
    BY NeighboursDiffer
  <1>8. Before(new, i) = Before(rows, i)
    BY <1>1, <1>6 DEF Before
  <1>9. ~Linked(new)
    BY <1>6, <1>7, <1>8 DEF Linked, Before
  <1> QED BY <1>5, <1>9 DEF new

\* Two rows exchanged no longer extend one another.
LEMMA SwapBreaks ==
    ASSUME NEW rows \in Seq(Row), Linked(rows), NEW i \in 1..(Len(rows) - 1)
    PROVE  LET new == [rows EXCEPT ![i]     = [rows[i + 1] EXCEPT !.seq = rows[i].seq],
                                   ![i + 1] = [rows[i] EXCEPT !.seq = rows[i + 1].seq]]
           IN  new \in Seq(Row) /\ ~Linked(new)
  <1> DEFINE r   == [rows[i + 1] EXCEPT !.seq = rows[i].seq]
             s   == [rows[i] EXCEPT !.seq = rows[i + 1].seq]
             one == [rows EXCEPT ![i] = r]
             new == [one EXCEPT ![i + 1] = s]
  <1>1. Len(rows) \in Nat /\ i \in 1..Len(rows) /\ i + 1 \in 1..Len(rows) /\ i \in Nat
    BY LenProperties
  <1>2. rows[i] \in Row /\ rows[i + 1] \in Row
    BY <1>1, ElementOfSeq
  <1>3. r \in Row /\ s \in Row /\ r.prev = rows[i + 1].prev
    BY <1>2 DEF Row
  <1> HIDE DEF r, s
  <1>4. /\ one \in Seq(Row) /\ Len(one) = Len(rows)
        /\ \A j \in 1..Len(rows) : one[j] = IF j = i THEN r ELSE rows[j]
    BY <1>1, <1>3, ExceptSeq
  <1> HIDE DEF one
  <1>5. /\ new \in Seq(Row) /\ Len(new) = Len(rows)
        /\ \A j \in 1..Len(rows) : new[j] = IF j = i + 1 THEN s ELSE one[j]
    BY <1>1, <1>3, <1>4, ExceptSeq
  <1>6. new = [rows EXCEPT ![i] = r, ![i + 1] = s]
    BY DEF one
  <1> HIDE DEF new
  <1>7. new[i] = r /\ (i # 1 => new[i - 1] = rows[i - 1]) /\ i \in DOMAIN new
    BY <1>1, <1>4, <1>5, LenProperties
  <1>8. Before(new, i) = Before(rows, i)
    BY <1>7 DEF Before
  <1>9. ~Linked(new)
    <2>1. new[i].prev # Before(new, i)
      BY <1>3, <1>7, <1>8, NeighboursDiffer
    <2> QED BY <1>7, <2>1 DEF Linked, Before
  <1> QED BY <1>5, <1>6, <1>9 DEF r, s

-----------------------------------------------------------------------------
(* The tables keep their types. *)

\* What every kind of damage leaves in the table.
LEMMA DamageType ==
    ASSUME TypeOK, Damage
    PROVE  TypeOK'
  <1>1. audit' \in Seq(Row) /\ damage' \in Seq({"edit", "tail", "inner", "swap"})
    <2>1. CASE EditRow
      <3>1. PICK i \in DOMAIN audit, b \in Body :
                   Damaged("edit", [audit EXCEPT ![i].body = b])
        BY <2>1 DEF EditRow
      <3>2. i \in 1..Len(audit)
        BY LenProperties DEF TypeOK
      <3>3. [audit[i] EXCEPT !.body = b] \in Row
        <4>1. audit[i] \in Row
          BY <3>2, RowAt DEF TypeOK
        <4> QED BY <4>1 DEF Row
      <3>4. [audit EXCEPT ![i].body = b] \in Seq(Row)
        BY <3>2, <3>3, ExceptSeq DEF TypeOK
      <3> QED BY <3>1, <3>4, AppendProperties DEF Damaged, TypeOK
    <2>2. CASE LoseTail
      <3>1. Front(audit) \in Seq(Row)
        BY LenProperties, ElementOfSeq, SubSeqProperties DEF Front, TypeOK
      <3> QED BY <2>2, <3>1, AppendProperties DEF LoseTail, Damaged, TypeOK
    <2>3. CASE LoseInner
      <3>1. PICK i \in 1..(Len(audit) - 1) : Damaged("inner", RemoveAt(audit, i))
        BY <2>3 DEF LoseInner
      <3>2. /\ Len(audit) \in Nat /\ i \in Nat /\ i - 1 <= Len(audit)
            /\ \A j \in 1..Len(audit) : audit[j] \in Row
        BY LenProperties, ElementOfSeq DEF TypeOK
      <3>3. SubSeq(audit, 1, i - 1) \in Seq(Row)
        BY <3>2, SubSeqProperties
      <3>4. SubSeq(audit, i + 1, Len(audit)) \in Seq(Row)
        BY <3>2, SubSeqProperties
      <3>5. RemoveAt(audit, i) \in Seq(Row)
        BY <3>3, <3>4, ConcatProperties DEF RemoveAt
      <3> QED BY <3>1, <3>5, AppendProperties DEF Damaged, TypeOK
    <2>4. CASE SwapRows
      <3>1. PICK i \in 1..(Len(audit) - 1) :
              Damaged("swap",
                [audit EXCEPT ![i]     = [audit[i + 1] EXCEPT !.seq = audit[i].seq],
                              ![i + 1] = [audit[i] EXCEPT !.seq = audit[i + 1].seq]])
        BY <2>4 DEF SwapRows
      <3> DEFINE r == [audit[i + 1] EXCEPT !.seq = audit[i].seq]
                 q == [audit[i] EXCEPT !.seq = audit[i + 1].seq]
      <3>2. i \in 1..Len(audit) /\ i + 1 \in 1..Len(audit)
        BY LenProperties DEF TypeOK
      <3>3. audit[i] \in Row /\ audit[i + 1] \in Row
        BY <3>2, RowAt DEF TypeOK
      <3>4. r \in Row /\ q \in Row
        BY <3>3 DEF Row
      <3> HIDE DEF r, q
      <3>5. [audit EXCEPT ![i] = r] \in Seq(Row) /\ Len([audit EXCEPT ![i] = r]) = Len(audit)
        BY <3>2, <3>4, ExceptSeq DEF TypeOK
      <3>6. [[audit EXCEPT ![i] = r] EXCEPT ![i + 1] = q] \in Seq(Row)
        BY <3>2, <3>4, <3>5, ExceptSeq
      <3>7. audit' \in Seq(Row)
        BY <3>1, <3>6 DEF Damaged, r, q
      <3> QED BY <3>1, <3>7, AppendProperties DEF Damaged, TypeOK
    <2> QED BY <2>1, <2>2, <2>3, <2>4 DEF Damage
  <1>2. UNCHANGED <<nextSeq, headSeq, headHash, append, completed>>
    BY DEF Damage, EditRow, LoseTail, LoseInner, SwapRows, Damaged
  <1> QED BY <1>1, <1>2 DEF TypeOK

\* The row an append inserts.
NewRow(p) == [seq |-> nextSeq, body |-> append[p].body, prev |-> append[p].prev,
              hash |-> Hash(append[p].prev, append[p].body)]

\* The row an append inserts is a row.
LEMMA NewRowType ==
    ASSUME TypeOK, NEW p \in Appender, append[p].at = "insert"
    PROVE  /\ append[p].prev \in HashValue
           /\ append[p].body \in Body
           /\ NewRow(p) \in Row
  <1>1. append[p] \in [at : {"insert"}, prev : HashValue, body : Body]
    BY DEF TypeOK, Call, Idle
  <1>2. append[p].prev \in HashValue /\ append[p].body \in Body
    BY <1>1
  <1>3. Hash(append[p].prev, append[p].body) \in HashValue
    BY <1>2, HashExtends
  <1> QED BY <1>2, <1>3 DEF NewRow, Row, TypeOK

\* What a call has in hand once its row is inserted.
LEMMA InsertedCall ==
    ASSUME TypeOK, NEW p \in Appender, append[p].at \in {"headseq", "headhash"}
    PROVE  append[p] \in [at : {"headseq", "headhash"}, seq : Nat \ {0},
                          hash : HashValue]
  BY DEF TypeOK, Call, Idle

\* TypeOK: the types of the tables and of every call, for any number of
\* appenders (audit.py).
THEOREM AuditTypes == Spec => []TypeOK
  <1>1. Init => TypeOK
    BY EmptySeq DEF Init, TypeOK, Call
  <1>2. TypeOK /\ [Next]_vars => TypeOK'
    <2> SUFFICES ASSUME TypeOK, [Next]_vars PROVE TypeOK'
      OBVIOUS
    <2>1. CASE UNCHANGED vars
      BY <2>1 DEF TypeOK, vars
    <2>2. CASE Damage
      BY <2>2, DamageType
    <2>3. ASSUME NEW p \in Appender, ReadHead(p) PROVE TypeOK'
      <3>1. LastHash(audit) \in HashValue
        BY LastRow DEF TypeOK
      <3> QED BY <2>3, <3>1 DEF ReadHead, TypeOK, Call
    <2>4. ASSUME NEW p \in Appender, InsertRow(p) PROVE TypeOK'
      <3>1. NewRow(p) \in Row /\ audit' = Append(audit, NewRow(p))
        BY <2>4, NewRowType DEF InsertRow, NewRow
      <3>2. audit' \in Seq(Row)
        BY <3>1, AppendProperties DEF TypeOK
      <3>3. Hash(append[p].prev, append[p].body) \in HashValue
        BY <2>4, NewRowType, HashExtends DEF InsertRow
      <3> QED BY <2>4, <3>2, <3>3 DEF InsertRow, TypeOK, Call
    <2>5. ASSUME NEW p \in Appender, SetHeadSeq(p) PROVE TypeOK'
      <3>1. append[p] \in [at : {"headseq", "headhash"}, seq : Nat \ {0}, hash : HashValue]
        BY <2>5, InsertedCall DEF SetHeadSeq
      <3> QED BY <2>5, <3>1 DEF SetHeadSeq, TypeOK, Call
    <2>6. ASSUME NEW p \in Appender, SetHeadHash(p) PROVE TypeOK'
      BY <2>6, InsertedCall DEF SetHeadHash, TypeOK, Call
    <2>7. ASSUME NEW p \in Appender, Abandon(p) PROVE TypeOK'
      BY <2>7 DEF Abandon, TypeOK, Call
    <2> QED BY <2>1, <2>2, <2>3, <2>4, <2>5, <2>6, <2>7 DEF Next
  <1> QED BY <1>1, <1>2, PTL DEF Spec

-----------------------------------------------------------------------------
(* The chain. *)

\* A call about to insert holds the last hash, as long as nothing but appends
\* has touched the rows.
LinkInv ==
    /\ ChainIntact
    /\ \A p \in Appender : append[p].at = "insert" /\ Undamaged
                              => append[p].prev = LastHash(audit)

\* What was edited, lost from the inside or exchanged leaves the chain broken.
BreakInv == damage # <<>> /\ damage[Len(damage)] # "tail" => ~Linked(audit)

\* Damage leaves everything but the rows alone and is on record.
LEMMA DamageRecorded ==
    ASSUME TypeOK, Damage
    PROVE  ~Undamaged' /\ UNCHANGED <<nextSeq, headSeq, headHash, append, completed>>
  <1>1. PICK kind, rows : Damaged(kind, rows)
    BY DEF Damage, EditRow, LoseTail, LoseInner, SwapRows
  <1>2. /\ damage' = Append(damage, kind)
        /\ UNCHANGED <<nextSeq, headSeq, headHash, append, completed>>
    BY <1>1 DEF Damaged
  <1>3. Append(damage, kind) # <<>>
    BY AppendProperties DEF TypeOK
  <1> QED BY <1>2, <1>3 DEF Undamaged

\* With one appender the log stays linked until something damages it.
LEMMA LinkInvariant ==
    ASSUME OneAppender
    PROVE  Spec => []LinkInv
  <1>1. Init => LinkInv
    BY DEF Init, LinkInv, ChainIntact, Undamaged, Linked, Idle
  <1>2. TypeOK /\ LinkInv /\ [Next]_vars => LinkInv'
    <2> SUFFICES ASSUME TypeOK, LinkInv, [Next]_vars PROVE LinkInv'
      OBVIOUS
    <2>1. CASE UNCHANGED vars
      BY <2>1 DEF LinkInv, ChainIntact, Undamaged, vars
    <2>2. CASE Damage
      BY <2>2, DamageRecorded DEF LinkInv, ChainIntact
    <2>3. ASSUME NEW p \in Appender, ReadHead(p) PROVE LinkInv'
      BY <2>3 DEF ReadHead, LinkInv, ChainIntact, Undamaged, TypeOK
    <2>4. ASSUME NEW p \in Appender, InsertRow(p) PROVE LinkInv'
      <3>1. /\ NewRow(p) \in Row /\ audit' = Append(audit, NewRow(p))
            /\ append[p].at = "insert"
        BY <2>4, NewRowType DEF InsertRow, NewRow
      <3>2. Linked(audit') <=> Linked(audit) /\ append[p].prev = LastHash(audit)
        BY <3>1, LinkedAppend DEF NewRow, TypeOK
      <3>3. \A q \in Appender : append'[q].at # "insert"
        BY <2>4 DEF InsertRow, OneAppender, TypeOK
      <3> QED BY <2>4, <3>1, <3>2, <3>3
              DEF InsertRow, LinkInv, ChainIntact, Undamaged
    <2>5. ASSUME NEW p \in Appender,
                 SetHeadSeq(p) \/ SetHeadHash(p) \/ Abandon(p)
          PROVE  LinkInv'
      <3>1. UNCHANGED <<audit, damage>>
        BY <2>5 DEF SetHeadSeq, SetHeadHash, Abandon
      <3>2. append'[p].at # "insert"
        <4>1. CASE SetHeadSeq(p)
          BY <4>1, InsertedCall DEF SetHeadSeq, TypeOK
        <4>2. CASE SetHeadHash(p) \/ Abandon(p)
          BY <4>2 DEF SetHeadHash, Abandon, Idle, TypeOK
        <4> QED BY <2>5, <4>1, <4>2
      <3>3. \A q \in Appender : append'[q].at # "insert"
        BY <3>2 DEF OneAppender
      <3> QED BY <3>1, <3>3 DEF LinkInv, ChainIntact, Undamaged
    <2> QED BY <2>1, <2>2, <2>3, <2>4, <2>5 DEF Next
  <1> QED BY <1>1, <1>2, AuditTypes, PTL DEF Spec

\* Nor does an append mend it.
LEMMA BreakInvariant ==
    ASSUME OneAppender, MaxDamage \in {0, 1}
    PROVE  Spec => []BreakInv
  <1>1. Init => BreakInv
    BY DEF Init, BreakInv
  <1>2. TypeOK /\ LinkInv /\ BreakInv /\ [Next]_vars => BreakInv'
    <2> SUFFICES ASSUME TypeOK, LinkInv, BreakInv, [Next]_vars PROVE BreakInv'
      OBVIOUS
    <2>1. CASE UNCHANGED vars
      BY <2>1 DEF BreakInv, vars
    <2>2. CASE Damage
      <3>1. Undamaged /\ Linked(audit)
        <4>1. Len(damage) < MaxDamage
          BY <2>2 DEF Damage, EditRow, LoseTail, LoseInner, SwapRows, Damaged
        <4>2. Len(damage) \in Nat /\ (damage # <<>> => Len(damage) \in Nat \ {0})
          BY EmptySeq, LenProperties DEF TypeOK
        <4> QED BY <4>1, <4>2 DEF Undamaged, LinkInv, ChainIntact
      <3>2. ASSUME NEW k, damage' = Append(damage, k)
            PROVE  damage' # <<>> /\ damage'[Len(damage')] = k
        BY <3>1, <3>2 DEF Undamaged
      <3>3. CASE EditRow
        <4>1. PICK i \in DOMAIN audit, b \in Body :
                     /\ b # audit[i].body
                     /\ Damaged("edit", [audit EXCEPT ![i].body = b])
          BY <3>3 DEF EditRow
        <4> QED BY <3>1, <4>1, EditBreaks DEF Damaged, TypeOK, BreakInv
      <3>4. CASE LoseTail
        BY <3>2, <3>4 DEF LoseTail, Damaged, BreakInv
      <3>5. CASE LoseInner
        BY <3>1, <3>5, InnerLossBreaks DEF LoseInner, Damaged, BreakInv, TypeOK
      <3>6. CASE SwapRows
        BY <3>1, <3>6, SwapBreaks DEF SwapRows, Damaged, BreakInv, TypeOK
      <3> QED BY <2>2, <3>3, <3>4, <3>5, <3>6 DEF Damage
    <2>3. ASSUME NEW p \in Appender, InsertRow(p) PROVE BreakInv'
      <3>1. NewRow(p) \in Row /\ audit' = Append(audit, NewRow(p))
        BY <2>3, NewRowType DEF InsertRow, NewRow
      <3>2. Linked(audit') => Linked(audit)
        BY <3>1, LinkedAppend DEF TypeOK
      <3> QED BY <2>3, <3>2 DEF InsertRow, BreakInv
    <2>4. ASSUME NEW p \in Appender,
                 ReadHead(p) \/ SetHeadSeq(p) \/ SetHeadHash(p) \/ Abandon(p)
          PROVE  BreakInv'
      BY <2>4 DEF ReadHead, SetHeadSeq, SetHeadHash, Abandon, BreakInv
    <2> QED BY <2>1, <2>2, <2>3, <2>4 DEF Next
  <1> QED BY <1>1, <1>2, AuditTypes, LinkInvariant, PTL DEF Spec

\* ChainIntact: with one appender the chain never forks or breaks, whichever
\* appends are abandoned at whatever statement (AuditLog.append).
THEOREM ChainSafety ==
    ASSUME OneAppender
    PROVE  Spec => []ChainIntact
  <1>1. LinkInv => ChainIntact
    BY DEF LinkInv
  <1> QED BY <1>1, LinkInvariant, PTL

\* DamageStaysVisible: after one edit, inner loss or exchange of rows no later
\* append makes verify_chain accept the log again, however many follow.
THEOREM DamageDetection ==
    ASSUME OneAppender, MaxDamage \in {0, 1}
    PROVE  Spec => []DamageStaysVisible
  <1>1. BreakInv => DamageStaysVisible
    BY DEF BreakInv, DamageStaysVisible, VerifyChain
  <1> QED BY <1>1, BreakInvariant, PTL

-----------------------------------------------------------------------------
(* The watermark. *)

\* What the log keeps besides its chain while only appends touch it: seqs count
\* the rows, a call in progress holds the last row's seq and hash, and once the
\* last row's append has returned the watermark is that row's.
HeadInv ==
    /\ \A s \in completed : s < nextSeq
    /\ \A p \in Appender :
          append[p].at \in {"headseq", "headhash"} => append[p].seq < nextSeq
    /\ Undamaged =>
          /\ Len(audit) = nextSeq - 1
          /\ \A i \in DOMAIN audit : audit[i].seq = i
          /\ audit = <<>> => headSeq = NoHead
          /\ \A p \in Appender :
                /\ append[p].at \in {"headseq", "headhash"} =>
                      /\ append[p].seq = nextSeq - 1
                      /\ append[p].seq \notin completed
                      /\ append[p].hash = LastHash(audit)
                /\ append[p].at = "headhash" => headSeq = append[p].seq
          /\ nextSeq - 1 \in completed =>
                headSeq = nextSeq - 1 /\ headHash = LastHash(audit)

\* An appended row is the last one, and the others stay where they are.
LEMMA AppendedRow ==
    ASSUME NEW rows \in Seq(Row), NEW r \in Row
    PROVE  LET new == Append(rows, r)
           IN  /\ new # <<>>
               /\ Len(new) = Len(rows) + 1
               /\ DOMAIN new = 1..(Len(rows) + 1)
               /\ \A i \in 1..Len(rows) : new[i] = rows[i]
               /\ new[Len(rows) + 1] = r
               /\ LastHash(new) = r.hash
  <1> DEFINE new == Append(rows, r)
  <1>1. /\ new # <<>>
        /\ Len(new) = Len(rows) + 1
        /\ \A i \in 1..Len(rows) : new[i] = rows[i]
        /\ new[Len(rows) + 1] = r
        /\ new \in Seq(Row)
    BY AppendProperties
  <1>2. DOMAIN new = 1..(Len(rows) + 1)
    BY <1>1, LenProperties
  <1> HIDE DEF new
  <1> QED BY <1>1, <1>2 DEF LastHash, new

\* With one appender the watermark follows the log.
LEMMA HeadInvariant ==
    ASSUME OneAppender
    PROVE  Spec => []HeadInv
  <1>1. Init => HeadInv
    <2> SUFFICES ASSUME Init PROVE HeadInv
      OBVIOUS
    <2>1. Len(audit) = 0 /\ DOMAIN audit = {}
      BY EmptySeq, LenProperties DEF Init
    <2> QED BY <2>1 DEF Init, HeadInv, Idle
  <1>2. TypeOK /\ HeadInv /\ [Next]_vars => HeadInv'
    <2> SUFFICES ASSUME TypeOK, HeadInv, [Next]_vars PROVE HeadInv'
      OBVIOUS
    <2>1. CASE UNCHANGED vars
      BY <2>1 DEF HeadInv, Undamaged, vars
    <2>2. CASE Damage
      BY <2>2, DamageRecorded DEF HeadInv
    <2>3. ASSUME NEW p \in Appender, ReadHead(p) PROVE HeadInv'
      <3>1. append'[p].at = "insert"
        BY <2>3 DEF ReadHead, TypeOK
      <3>2. \A q \in Appender : append'[q].at \notin {"headseq", "headhash"}
        BY <3>1 DEF OneAppender
      <3> QED BY <2>3, <3>2 DEF ReadHead, HeadInv, Undamaged
    <2>4. ASSUME NEW p \in Appender, InsertRow(p) PROVE HeadInv'
      <3>1. /\ NewRow(p) \in Row
            /\ audit' = Append(audit, NewRow(p))
            /\ nextSeq' = nextSeq + 1 /\ nextSeq \in Nat \ {0}
            /\ UNCHANGED <<headSeq, headHash, completed, damage>>
        BY <2>4, NewRowType DEF InsertRow, NewRow, TypeOK
      <3>2. append'[p] = [at |-> "headseq", seq |-> nextSeq, hash |-> NewRow(p).hash]
        BY <2>4 DEF InsertRow, NewRow, TypeOK
      <3>3. \A q \in Appender : q = p
        BY DEF OneAppender
      <3>4. /\ audit' # <<>> /\ Len(audit') = Len(audit) + 1
            /\ DOMAIN audit' = 1..(Len(audit) + 1)
            /\ \A i \in 1..Len(audit) : audit'[i] = audit[i]
            /\ audit'[Len(audit) + 1] = NewRow(p)
            /\ LastHash(audit') = NewRow(p).hash
        BY <3>1, AppendedRow DEF TypeOK
      <3>5. nextSeq \notin completed /\ nextSeq < nextSeq'
        BY <3>1 DEF HeadInv
      <3>6. \A s \in completed' : s < nextSeq'
        BY <3>1 DEF HeadInv, TypeOK
      <3>7. \A q \in Appender : /\ append'[q].seq = nextSeq
                                /\ append'[q].at = "headseq"
                                /\ append'[q].hash = LastHash(audit')
        BY <3>2, <3>3, <3>4
      <3>8. ASSUME Undamaged'
            PROVE  /\ Len(audit') = nextSeq' - 1
                   /\ \A i \in DOMAIN audit' : audit'[i].seq = i
        <4>1. Undamaged
          BY <3>1, <3>8 DEF Undamaged
        <4>2. Len(audit) = nextSeq - 1
          BY <4>1 DEF HeadInv
        <4>3. DOMAIN audit = 1..Len(audit)
          BY LenProperties DEF TypeOK
        <4>4. NewRow(p).seq = nextSeq
          BY DEF NewRow
        <4>5. \A i \in DOMAIN audit' : i \in 1..Len(audit) \/ i = Len(audit) + 1
          BY <3>1, <3>4, <4>2
        <4>6. \A i \in 1..Len(audit) : audit'[i].seq = i
          BY <3>4, <4>1, <4>3 DEF HeadInv
        <4>7. audit'[Len(audit) + 1].seq = Len(audit) + 1
          BY <3>1, <3>4, <4>2, <4>4
        <4> QED BY <3>1, <3>4, <4>2, <4>5, <4>6, <4>7
      <3>9. nextSeq' - 1 = nextSeq
        BY <3>1
      <3> QED BY <3>1, <3>4, <3>5, <3>6, <3>7, <3>8, <3>9 DEF HeadInv
    <2>5. ASSUME NEW p \in Appender, SetHeadSeq(p) PROVE HeadInv'
      <3>1. append[p] \in [at : {"headseq", "headhash"}, seq : Nat \ {0}, hash : HashValue]
        BY <2>5, InsertedCall DEF SetHeadSeq
      <3>2. /\ append'[p].at = "headhash"
            /\ append'[p].seq = append[p].seq
            /\ append'[p].hash = append[p].hash
        BY <2>5, <3>1 DEF SetHeadSeq, TypeOK
      <3>3. \A q \in Appender : q = p
        BY DEF OneAppender
      <3>4. /\ headSeq' = append[p].seq /\ append[p].at = "headseq"
            /\ UNCHANGED <<audit, nextSeq, headHash, completed, damage>>
        BY <2>5 DEF SetHeadSeq
      <3>5. Undamaged => audit # <<>>
        <4> SUFFICES ASSUME Undamaged, audit = <<>> PROVE FALSE
          OBVIOUS
        <4>1. Len(audit) = 0
          BY EmptySeq
        <4>2. append[p].seq = 0
          BY <3>4, <4>1 DEF HeadInv, TypeOK
        <4> QED BY <3>1, <4>2
      <3> QED BY <3>2, <3>3, <3>4, <3>5 DEF HeadInv, Undamaged
    <2>6. ASSUME NEW p \in Appender, SetHeadHash(p) PROVE HeadInv'
      <3>1. /\ headHash' = append[p].hash /\ append[p].at = "headhash"
            /\ completed' = completed \cup {append[p].seq}
            /\ UNCHANGED <<audit, nextSeq, headSeq, damage>>
        BY <2>6 DEF SetHeadHash
      <3>2. append'[p].at = "idle"
        BY <2>6 DEF SetHeadHash, TypeOK, Idle
      <3>3. \A q \in Appender : append'[q].at = "idle"
        BY <3>2 DEF OneAppender
      <3> QED BY <3>1, <3>3 DEF HeadInv, Undamaged
    <2>7. ASSUME NEW p \in Appender, Abandon(p) PROVE HeadInv'
      <3>1. append'[p].at = "idle"
        BY <2>7 DEF Abandon, TypeOK, Idle
      <3>2. \A q \in Appender : append'[q].at = "idle"
        BY <3>1 DEF OneAppender
      <3> QED BY <2>7, <3>2 DEF Abandon, HeadInv, Undamaged
    <2> QED BY <2>1, <2>2, <2>3, <2>4, <2>5, <2>6, <2>7 DEF Next
  <1> QED BY <1>1, <1>2, AuditTypes, PTL DEF Spec

\* CompletedHeadVerifies: whatever appends were abandoned before it, at whatever
\* statement, once the last row's append has returned the chain and the
\* watermark agree (AuditLog.append, AuditLog.verify_chain).
THEOREM CompletedHead ==
    ASSUME OneAppender
    PROVE  Spec => []CompletedHeadVerifies
  <1>1. TypeOK /\ LinkInv /\ HeadInv => CompletedHeadVerifies
    <2> SUFFICES ASSUME TypeOK, LinkInv, HeadInv, Undamaged,
                        audit # <<>> => LastSeq(audit) \in completed
                 PROVE  VerifyChain
      BY DEF CompletedHeadVerifies
    <2>1. Linked(audit)
      BY DEF LinkInv, ChainIntact
    <2>2. CASE audit = <<>>
      BY <2>1, <2>2 DEF HeadInv, VerifyChain, WatermarkOk
    <2>3. CASE audit # <<>>
      <3>1. Len(audit) \in DOMAIN audit /\ LastSeq(audit) = audit[Len(audit)].seq
        BY <2>3, LastRow DEF TypeOK
      <3>2. LastSeq(audit) = nextSeq - 1
        BY <3>1 DEF HeadInv
      <3>3. headSeq = LastSeq(audit) /\ headHash = LastHash(audit)
        BY <2>3, <3>2 DEF HeadInv
      <3>4. LastSeq(audit) >= headSeq
        BY <3>2, <3>3 DEF TypeOK
      <3> QED BY <2>1, <3>3, <3>4 DEF VerifyChain, WatermarkOk
    <2> QED BY <2>2, <2>3
  <1> QED BY <1>1, AuditTypes, LinkInvariant, HeadInvariant, PTL

\* A log without its last row ends before it.
LEMMA FrontRows ==
    ASSUME NEW rows \in Seq(Row), rows # <<>>
    PROVE  /\ Front(rows) \in Seq(Row)
           /\ Len(Front(rows)) = Len(rows) - 1
           /\ \A i \in 1..(Len(rows) - 1) : Front(rows)[i] = rows[i]
  <1>1. Len(rows) \in Nat \ {0} /\ \A i \in 1..Len(rows) : rows[i] \in Row
    BY EmptySeq, LenProperties, ElementOfSeq
  <1> DEFINE n == Len(rows)
             f == SubSeq(rows, 1, n - 1)
  <1>2. /\ f \in Seq(Row)
        /\ Len(f) = IF 1 <= n - 1 THEN n - 1 - 1 + 1 ELSE 0
        /\ \A i \in 1..(n - 1 - 1 + 1) : f[i] = rows[1 + i - 1]
    BY <1>1, SubSeqProperties
  <1>3. Front(rows) = f
    BY DEF Front
  <1> HIDE DEF f
  <1> QED BY <1>1, <1>2, <1>3

\* LossIsNoticed: the step that loses the last row leaves verify_chain failing
\* when that row's append had returned: the watermark lies beyond what is left
\* (AuditLog.verify_chain).
THEOREM LossNoticed ==
    ASSUME OneAppender, MaxDamage \in {0, 1}
    PROVE  Spec => LossIsNoticed
  <1>1. TypeOK /\ HeadInv /\ [Next]_vars
           => [LoseTail /\ LastSeq(audit) \in completed => ~VerifyChain']_vars
    <2> SUFFICES ASSUME TypeOK, HeadInv, LoseTail, LastSeq(audit) \in completed
                 PROVE  ~VerifyChain'
      OBVIOUS
    <2>1. /\ audit # <<>> /\ audit' = Front(audit)
          /\ UNCHANGED <<headSeq, headHash>>
          /\ Len(damage) < MaxDamage
      BY DEF LoseTail, Damaged
    <2>2. Undamaged
      <3>1. Len(damage) \in Nat /\ (damage # <<>> => Len(damage) \in Nat \ {0})
        BY EmptySeq, LenProperties DEF TypeOK
      <3> QED BY <2>1, <3>1 DEF Undamaged
    <2>3. Len(audit) \in DOMAIN audit /\ LastSeq(audit) = audit[Len(audit)].seq
      BY <2>1, LastRow DEF TypeOK
    <2>4. LastSeq(audit) = nextSeq - 1 /\ Len(audit) = nextSeq - 1
      BY <2>2, <2>3 DEF HeadInv
    <2>5. headSeq = nextSeq - 1 /\ headHash = LastHash(audit)
      BY <2>2, <2>4 DEF HeadInv
    <2>6. LastHash(audit) \in Seq(Body) /\ nextSeq \in Nat
      BY LastRow DEF TypeOK, HashValue
    <2>7. Len(audit) \in Nat \ {0}
      BY <2>1, EmptySeq, LenProperties DEF TypeOK
    <2>8. headSeq # NoHead /\ headHash # NoHead
      BY <2>4, <2>5, <2>6, <2>7, NoHeadAssumption
    <2>9. /\ Front(audit) \in Seq(Row) /\ Len(Front(audit)) = Len(audit) - 1
          /\ \A i \in 1..(Len(audit) - 1) : Front(audit)[i] = audit[i]
      BY <2>1, FrontRows DEF TypeOK
    <2>10. LastSeq(Front(audit)) < headSeq
      <3>1. CASE Front(audit) = <<>>
        <4>1. LastSeq(Front(audit)) = 0
          BY <3>1 DEF LastSeq
        <4>2. headSeq = Len(audit)
          BY <2>4, <2>5
        <4> QED BY <2>7, <4>1, <4>2
      <3>2. CASE Front(audit) # <<>>
        <4>1. Len(audit) - 1 \in 1..(Len(audit) - 1)
          BY <2>7, <2>9, <3>2, EmptySeq
        <4>2. Len(audit) - 1 \in DOMAIN audit
          BY <2>7, <4>1, LenProperties DEF TypeOK
        <4>3. LastSeq(Front(audit)) = Len(audit) - 1
          BY <2>2, <2>9, <3>2, <4>1, <4>2 DEF LastSeq, HeadInv
        <4> QED BY <2>4, <2>5, <2>7, <4>3
      <3> QED BY <3>1, <3>2
    <2>11. LastSeq(Front(audit)) \in Nat
      BY <2>9, RowAt, EmptySeq, LenProperties DEF LastSeq
    <2>12. ~(LastSeq(Front(audit)) >= headSeq)
      BY <2>5, <2>6, <2>10, <2>11
    <2> QED BY <2>1, <2>8, <2>12 DEF VerifyChain, WatermarkOk
  <1> QED BY <1>1, AuditTypes, HeadInvariant, PTL DEF Spec, LossIsNoticed
=============================================================================
