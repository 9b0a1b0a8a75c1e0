---------------------------- MODULE IndexProofs -----------------------------
(***************************************************************************)
(* For every set of droplets and embeddings, and whichever backend is      *)
(* configured: the vector index implements its contract, keeps its types,  *)
(* and a search finds as many ids as it is asked for.                      *)
(*                                                                         *)
(* Each backend has an invariant that relates its two maps.  Positions     *)
(* (brute, faiss): a position that is not deleted is the live one of its   *)
(* id.  Labels (hnswlib): a label is one id's alone, the library has a     *)
(* point for it, and no live point is without an id.                       *)
(***************************************************************************)
EXTENDS VectorIndexes, FiniteSetTheorems, SequenceTheorems, TLAPS

(* The library's operators are one, whichever module names them. *)

LEMMA OneCardinality ==
    ASSUME NEW S
    PROVE  /\ Faiss!Cardinality(S) = Cardinality(S) /\ Hnsw!Cardinality(S) = Cardinality(S)
           /\ Brute!Cardinality(S) = Cardinality(S) /\ Brute!Seqs!Cardinality(S) = Cardinality(S)
  BY DEF Faiss!Cardinality, Hnsw!Cardinality, Brute!Cardinality, Brute!Seqs!Cardinality, Cardinality

LEMMA OneBijection ==
    ASSUME NEW S, NEW T
    PROVE  /\ Faiss!Bijection(S, T) = Bijection(S, T)
           /\ Hnsw!Bijection(S, T) = Bijection(S, T)
  BY DEF Faiss!Bijection, Faiss!Injection, Faiss!Surjection, Faiss!IsInjective,
         Hnsw!Bijection, Hnsw!Injection, Hnsw!Surjection, Hnsw!IsInjective,
         Bijection, Injection, Surjection, IsInjective

LEMMA OneMaxMin ==
    ASSUME NEW S
    PROVE  /\ Faiss!Max(S) = Max(S) /\ Hnsw!Max(S) = Max(S) /\ Brute!Max(S) = Max(S)
           /\ Faiss!Min(S) = Min(S) /\ Hnsw!Min(S) = Min(S) /\ Brute!Min(S) = Min(S)
  BY DEF Faiss!Max, Hnsw!Max, Brute!Max, Max, Faiss!Min, Hnsw!Min, Brute!Min, Min

LEMMA OneToSet == ASSUME NEW s PROVE Brute!Seqs!ToSet(s) = {s[k] : k \in DOMAIN s}
  BY DEF Brute!Seqs!ToSet

LEMMA OneRemoveAt ==
    ASSUME NEW s, NEW i
    PROVE  Brute!Seqs!RemoveAt(s, i) = SubSeq(s, 1, i - 1) \o SubSeq(s, i + 1, Len(s))
  BY DEF Brute!Seqs!RemoveAt

LEMMA OneSetToSeqs ==
    ASSUME NEW S
    PROVE  Brute!Seqs!SetToSeqs(S) = {f \in [1..Cardinality(S) -> S] :
               \A k, l \in 1..Cardinality(S) : k # l => f[k] # f[l]}
  BY OneCardinality DEF Brute!Seqs!SetToSeqs

-----------------------------------------------------------------------------
(* Ids and positions: what faiss and the exact index share. *)

\* live maps each id to its only position that is not gone.
Good(s, gone, live) ==
    /\ \A d \in Id : live[d] # 0 => live[d] \in DOMAIN s \ gone /\ s[live[d]] = d
    /\ \A i \in DOMAIN s \ gone : live[s[i]] = i

\* No two positions that are not gone have one id.
Distinct(s, gone) == \A i, j \in DOMAIN s \ gone : s[i] = s[j] => i = j

\* What search finds, of the vectors at the live positions.
At(vec, p) == [d \in Id |-> IF p[d] = 0 THEN NoVec ELSE vec[p[d]]]

-----------------------------------------------------------------------------
(* faiss. *)

FaissContract == INSTANCE IndexMap WITH map <- Faiss!InMemory, saved <- Faiss!OnDisk

FaissFiles ==
    /\ Distinct(fDisk.labels, fDisk.deleted)
    /\ fDisk.written /\ ~fDisk.torn => Len(fDisk.vectors) = Len(fDisk.labels)
    /\ ~fDisk.written => fDisk.labels = <<>> /\ fDisk.deleted = {} /\ ~fDisk.torn
    /\ fStep = "labels" => fDisk.vectors = vectors

FaissInv ==
    /\ Faiss!TypeOK
    /\ Good(labels, deleted, posOf)
    /\ ~fTorn => Len(vectors) = Len(labels)
    /\ FaissFiles

LEMMA MaxOfOne == ASSUME NEW x \in Nat PROVE Faiss!Max({x}) = x
  BY DEF Faiss!Max

\* What load computes is the live position of every id.
LEMMA FaissRecomputed ==
    ASSUME NEW s \in Seq(Id), NEW gone, Distinct(s, gone)
    PROVE  /\ Faiss!LivePositions(s, gone) \in [Id -> 0..Len(s)]
           /\ Good(s, gone, Faiss!LivePositions(s, gone))
<1> DEFINE live(d) == {i \in DOMAIN s \ gone : s[i] = d}
           where == Faiss!LivePositions(s, gone)
<1>1. ASSUME NEW d \in Id, live(d) # {}
      PROVE  where[d] \in live(d) /\ live(d) = {where[d]} /\ where[d] \in 1..Len(s)
  <2>1. PICK i : i \in live(d)
    BY <1>1
  <2>2. live(d) = {i} /\ i \in 1..Len(s)
    BY <2>1 DEF Distinct
  <2>3. Faiss!Max(live(d)) = i
    BY <2>2, MaxOfOne
  <2>4. where[d] = i
    BY <1>1, <2>3 DEF Faiss!LivePositions
  <2> QED
    BY <2>2, <2>4
<1>2. ASSUME NEW d \in Id, live(d) = {} PROVE where[d] = 0
  BY <1>2 DEF Faiss!LivePositions
<1>3. where \in [Id -> 0..Len(s)]
  <2>1. \A d \in Id : where[d] \in 0..Len(s)
    BY <1>1, <1>2
  <2> QED
    BY <2>1 DEF Faiss!LivePositions
<1>4. \A d \in Id : where[d] # 0 => where[d] \in DOMAIN s \ gone /\ s[where[d]] = d
  BY <1>1, <1>2
<1>5. ASSUME NEW i \in DOMAIN s \ gone PROVE where[s[i]] = i
  <2>1. s[i] \in Id /\ i \in live(s[i])
    OBVIOUS
  <2> QED
    BY <1>1, <2>1
<1> QED
  BY <1>3, <1>4, <1>5 DEF Good

\* There is one such map.
LEMMA GoodIsUnique ==
    ASSUME NEW s \in Seq(Id), NEW gone, NEW p \in [Id -> 0..Len(s)],
           NEW q \in [Id -> 0..Len(s)], Good(s, gone, p), Good(s, gone, q)
    PROVE  p = q
<1>1. \A d \in Id : p[d] = q[d]
  BY DEF Good
<1> QED
  BY <1>1

LEMMA GoodIsDistinct ==
    ASSUME NEW s, NEW gone, NEW p, Good(s, gone, p) PROVE Distinct(s, gone)
  BY DEF Good, Distinct

\* What search finds is the vector at the live position.
LEMMA FaissFoundAt ==
    ASSUME NEW vec, NEW s \in Seq(Id), NEW gone, NEW p \in [Id -> 0..Len(s)], Good(s, gone, p)
    PROVE  Faiss!Found(vec, s, gone, p) = [d \in Id |-> IF p[d] = 0 THEN NoVec ELSE vec[p[d]]]
<1> SUFFICES ASSUME NEW d \in Id
             PROVE  Faiss!Found(vec, s, gone, p)[d] = IF p[d] = 0 THEN NoVec ELSE vec[p[d]]
  BY DEF Faiss!Found
<1> DEFINE at == {i \in Faiss!Shown(s, gone, p) : s[i] = d}
<1>1. CASE p[d] = 0
  <2>1. at = {}
    BY <1>1 DEF Faiss!Shown, Good
  <2> QED
    BY <1>1, <2>1 DEF Faiss!Found
<1>2. CASE p[d] # 0
  <2>1. at = {p[d]}
    BY <1>2 DEF Faiss!Shown, Good
  <2>2. Faiss!Max(at) = p[d]
    BY <2>1, MaxOfOne
  <2> QED
    BY <1>2, <2>1, <2>2 DEF Faiss!Found
<1> QED
  BY <1>1, <1>2

LEMMA FaissMemory ==
    ASSUME FaissInv
    PROVE  /\ fTorn => Faiss!InMemory = Unsafe
           /\ ~fTorn => /\ Faiss!InMemory = At(vectors, posOf)
                       /\ Faiss!InMemory \in [Id -> Vec \cup {NoVec}] /\ Faiss!InMemory # Unsafe
<1>1. ASSUME ~fTorn PROVE Faiss!InMemory = At(vectors, posOf)
  BY <1>1, FaissFoundAt DEF Faiss!InMemory, At, FaissInv, Faiss!TypeOK
<1>2. ASSUME ~fTorn PROVE At(vectors, posOf) \in [Id -> Vec \cup {NoVec}]
  <2> SUFFICES ASSUME NEW d \in Id, posOf[d] # 0 PROVE vectors[posOf[d]] \in Vec
    BY DEF At
  <2> QED
    BY <1>2 DEF FaissInv, Faiss!TypeOK
<1> QED
  BY <1>1, <1>2, UnsafeIsNoMap DEF Faiss!InMemory

\* The same of a fStep's result.
LEMMA FaissMemoryNext ==
    ASSUME FaissInv'
    PROVE  /\ fTorn' => Faiss!InMemory' = Unsafe
           /\ ~fTorn' => Faiss!InMemory' = At(vectors, posOf)'
<1>1. /\ labels' \in Seq(Id) /\ posOf' \in [Id -> 0..Len(labels')]
      /\ Good(labels', deleted', posOf')
  BY DEF FaissInv, Faiss!TypeOK, Good
<1>2. Faiss!Found(vectors', labels', deleted', posOf') =
          [d \in Id |-> IF posOf'[d] = 0 THEN NoVec ELSE vectors'[posOf'[d]]]
  BY <1>1, FaissFoundAt
<1>3. Faiss!Found(vectors, labels, deleted, posOf)' = Faiss!Found(vectors', labels', deleted', posOf')
  BY DEF Faiss!Found, Faiss!Shown
<1> QED
  BY <1>2, <1>3 DEF Faiss!InMemory, At

LEMMA FaissInitially == Faiss!Init => FaissInv /\ FaissContract!Init
<1> SUFFICES ASSUME Faiss!Init PROVE FaissInv /\ FaissContract!Init
  OBVIOUS
<1>1. Faiss!TypeOK
  <2>1. /\ vectors \in Seq(Vec) /\ labels \in Seq(Id) /\ Len(labels) = 0
        /\ posOf \in [Id -> 0..Len(labels)]
    BY DEF Faiss!Init
  <2>2. fDisk \in [vectors : Seq(Vec), labels : Seq(Id), deleted : SUBSET Nat,
                  written : BOOLEAN, torn : BOOLEAN]
    BY DEF Faiss!Init
  <2> QED
    BY <2>1, <2>2 DEF Faiss!Init, Faiss!TypeOK
<1>2. Good(<<>>, {}, posOf)
  BY DEF Faiss!Init, Good
<1>3. FaissInv
  BY <1>1, <1>2 DEF Faiss!Init, FaissInv, FaissFiles, Distinct
<1>4. Faiss!InMemory = [d \in Id |-> NoVec] /\ Faiss!OnDisk = [d \in Id |-> NoVec]
  BY DEF Faiss!Init, Faiss!InMemory, Faiss!OnDisk, Faiss!Found, Faiss!Shown
<1> QED
  BY <1>3, <1>4 DEF Faiss!Init, FaissContract!Init, FaissContract!Empty

LEMMA FaissAdds ==
    ASSUME FaissInv, NEW d \in Id, NEW v \in Vec, Faiss!Add(d, v)
    PROVE  FaissInv' /\ FaissContract!Write(d, v)
<1> DEFINE n == Len(labels) + 1
<1>1. /\ labels' = Append(labels, d) /\ vectors' = Append(vectors, v)
      /\ posOf' = [posOf EXCEPT ![d] = n] /\ deleted' = (deleted \cup {posOf[d]}) \ {0}
      /\ rows' = [rows EXCEPT ![d] = v] /\ fStep' = "changed"
      /\ fTorn' = fTorn /\ fDisk' = fDisk
  BY DEF Faiss!Add
<1>2. Faiss!TypeOK'
  <2>1. labels' \in Seq(Id) /\ vectors' \in Seq(Vec) /\ Len(labels') = n
    BY <1>1 DEF FaissInv, Faiss!TypeOK
  <2>2. posOf' \in [Id -> 0..n]
    BY <1>1 DEF FaissInv, Faiss!TypeOK
  <2>3. deleted' \subseteq 1..n
    <3>1. posOf[d] \in 0..Len(labels) /\ Len(labels) \in Nat
      BY DEF FaissInv, Faiss!TypeOK
    <3>2. ASSUME NEW x \in deleted' PROVE x \in 1..Len(labels)
      BY <1>1, <3>1 DEF FaissInv, Faiss!TypeOK
    <3>3. \A x \in 1..Len(labels) : x \in 1..n
      BY <3>1
    <3> QED
      BY <3>2, <3>3
  <2> QED
    BY <1>1, <2>1, <2>2, <2>3 DEF FaissInv, Faiss!TypeOK
<1>3. Good(labels, deleted, posOf)'
  <2>1. \A i \in 1..Len(labels) : labels'[i] = labels[i]
    BY <1>1 DEF FaissInv, Faiss!TypeOK
  <2>2. labels'[n] = d /\ DOMAIN labels' = 1..n /\ DOMAIN labels = 1..Len(labels)
    BY <1>1 DEF FaissInv, Faiss!TypeOK
  <2>3. n \notin deleted' /\ posOf'[d] = n
    BY <1>1 DEF FaissInv, Faiss!TypeOK
  <2>4. ASSUME NEW e \in Id, posOf'[e] # 0
        PROVE  posOf'[e] \in DOMAIN labels' \ deleted' /\ labels'[posOf'[e]] = e
    <3>1. CASE e = d
      BY <2>2, <2>3, <3>1 DEF FaissInv, Faiss!TypeOK
    <3>2. CASE e # d
      <4>1. posOf'[e] = posOf[e] /\ posOf[e] \in 1..Len(labels) \ deleted /\ labels[posOf[e]] = e
        BY <1>1, <2>2, <2>4, <3>2 DEF FaissInv, Faiss!TypeOK, Good
      <4>2. posOf[e] # posOf[d]
        BY <2>2, <3>2, <4>1 DEF FaissInv, Good
      <4>3. posOf[e] \notin deleted'
        BY <1>1, <4>1, <4>2
      <4>4. posOf[e] \in 1..n /\ labels'[posOf[e]] = e
        <5>1. Len(labels) \in Nat
          BY DEF FaissInv, Faiss!TypeOK
        <5> QED
          BY <2>1, <4>1, <5>1
      <4>5. posOf[e] \in DOMAIN labels' \ deleted'
        BY <2>2, <4>3, <4>4
      <4> QED
        BY <4>1, <4>4, <4>5
    <3> QED
      BY <3>1, <3>2
  <2>5. ASSUME NEW i \in DOMAIN labels' \ deleted' PROVE posOf'[labels'[i]] = i
    <3>1. CASE i = n
      BY <2>2, <2>3, <3>1
    <3>2. CASE i # n
      <4>1. i \in DOMAIN labels \ deleted /\ i # posOf[d] /\ labels'[i] = labels[i]
        <5>1. i \in 1..Len(labels) /\ Len(labels) \in Nat
          BY <2>2, <2>5, <3>2 DEF FaissInv, Faiss!TypeOK
        <5>2. i # 0 /\ i \notin deleted /\ i # posOf[d]
          BY <1>1, <2>5, <5>1
        <5> QED
          BY <2>1, <2>2, <5>1, <5>2
      <4>2. posOf[labels[i]] = i /\ labels[i] \in Id
        BY <4>1 DEF FaissInv, Faiss!TypeOK, Good
      <4> QED
        BY <1>1, <4>1, <4>2 DEF FaissInv, Faiss!TypeOK
    <3> QED
      BY <3>1, <3>2
  <2> QED
    BY <2>4, <2>5 DEF Good
<1>4. FaissInv'
  <2>1. ~fTorn' => Len(vectors') = Len(labels')
    BY <1>1 DEF FaissInv, Faiss!TypeOK
  <2>2. FaissFiles'
    BY <1>1 DEF FaissInv, FaissFiles
  <2> QED
    BY <1>2, <1>3, <2>1, <2>2 DEF FaissInv
<1>5. Faiss!InMemory' = FaissContract!With(Faiss!InMemory, d, v)
  <2>1. CASE fTorn
    BY <1>1, <2>1 DEF Faiss!InMemory, FaissContract!With
  <2>2. CASE ~fTorn
    <3>1. Faiss!InMemory' = At(vectors, posOf)'
      BY <1>1, <1>4, <2>2, FaissMemoryNext
    <3>2. At(vectors, posOf)' = [At(vectors, posOf) EXCEPT ![d] = v]
      <4> SUFFICES ASSUME NEW e \in Id
                   PROVE  (IF posOf'[e] = 0 THEN NoVec ELSE vectors'[posOf'[e]]) =
                          IF e = d THEN v ELSE IF posOf[e] = 0 THEN NoVec ELSE vectors[posOf[e]]
        BY DEF At
      <4>1. CASE e = d
        <5>1. posOf'[e] = n /\ n # 0 /\ vectors'[n] = v
          BY <1>1, <2>2, <4>1 DEF FaissInv, Faiss!TypeOK
        <5> QED
          BY <4>1, <5>1
      <4>2. CASE e # d
        <5>1. posOf'[e] = posOf[e] /\ posOf[e] \in 0..Len(vectors)
          BY <1>1, <2>2, <4>2 DEF FaissInv, Faiss!TypeOK
        <5>2. posOf[e] # 0 => vectors'[posOf[e]] = vectors[posOf[e]]
          BY <1>1, <5>1 DEF FaissInv, Faiss!TypeOK
        <5> QED
          BY <4>2, <5>1, <5>2
      <4> QED
        BY <4>1, <4>2
    <3> QED
      BY <2>2, <3>1, <3>2, FaissMemory DEF FaissContract!With
  <2> QED
    BY <2>1, <2>2
<1>6. Faiss!OnDisk' = Faiss!OnDisk
  BY <1>1 DEF Faiss!OnDisk
<1> QED
  BY <1>1, <1>4, <1>5, <1>6 DEF FaissContract!Write

LEMMA FaissRemoves ==
    ASSUME FaissInv, NEW d \in Id, Faiss!Remove(d) PROVE FaissInv' /\ FaissContract!Write(d, NoVec)
<1>1. /\ posOf' = [posOf EXCEPT ![d] = 0] /\ deleted' = (deleted \cup {posOf[d]}) \ {0}
      /\ rows' = [rows EXCEPT ![d] = NoVec] /\ fStep' = "changed"
      /\ vectors' = vectors /\ labels' = labels /\ fTorn' = fTorn /\ fDisk' = fDisk
  BY DEF Faiss!Remove
<1>2. Faiss!TypeOK'
  <2>1. posOf' \in [Id -> 0..Len(labels)]
    BY <1>1 DEF FaissInv, Faiss!TypeOK
  <2>2. ASSUME NEW x \in deleted' PROVE x \in 1..Len(labels)
    BY <1>1 DEF FaissInv, Faiss!TypeOK
  <2>3. rows' \in [Id -> Vec \cup {NoVec}]
    BY <1>1 DEF FaissInv, Faiss!TypeOK
  <2> QED
    BY <1>1, <2>1, <2>2, <2>3 DEF FaissInv, Faiss!TypeOK
<1>3. Good(labels, deleted, posOf)'
  <2>1. ASSUME NEW e \in Id, posOf'[e] # 0
        PROVE  posOf'[e] \in DOMAIN labels \ deleted' /\ labels[posOf'[e]] = e
    <3>1. e # d /\ posOf'[e] = posOf[e]
      BY <1>1, <2>1 DEF FaissInv, Faiss!TypeOK
    <3>2. posOf[e] \in DOMAIN labels \ deleted /\ labels[posOf[e]] = e
      BY <2>1, <3>1 DEF FaissInv, Good
    <3>3. posOf[e] # posOf[d]
      BY <2>1, <3>1, <3>2 DEF FaissInv, Good
    <3> QED
      BY <1>1, <3>1, <3>2, <3>3
  <2>2. ASSUME NEW i \in DOMAIN labels \ deleted' PROVE posOf'[labels[i]] = i
    <3>1. i \in DOMAIN labels \ deleted /\ i # posOf[d] /\ labels[i] \in Id
      BY <1>1, <2>2 DEF FaissInv, Faiss!TypeOK
    <3>2. posOf[labels[i]] = i /\ labels[i] # d
      BY <3>1 DEF FaissInv, Good
    <3> QED
      BY <1>1, <3>1, <3>2 DEF FaissInv, Faiss!TypeOK
  <2> QED
    BY <1>1, <2>1, <2>2 DEF Good
<1>4. FaissInv'
  BY <1>1, <1>2, <1>3 DEF FaissInv, FaissFiles
<1>5. Faiss!InMemory' = FaissContract!With(Faiss!InMemory, d, NoVec)
  <2>1. CASE fTorn
    BY <1>1, <2>1 DEF Faiss!InMemory, FaissContract!With
  <2>2. CASE ~fTorn
    <3>1. Faiss!InMemory' = At(vectors, posOf)'
      BY <1>1, <1>4, <2>2, FaissMemoryNext
    <3>2. At(vectors, posOf)' = [At(vectors, posOf) EXCEPT ![d] = NoVec]
      BY <1>1 DEF At, FaissInv, Faiss!TypeOK
    <3> QED
      BY <2>2, <3>1, <3>2, FaissMemory DEF FaissContract!With
  <2> QED
    BY <2>1, <2>2
<1>6. Faiss!OnDisk' = Faiss!OnDisk
  BY <1>1 DEF Faiss!OnDisk
<1> QED
  BY <1>1, <1>4, <1>5, <1>6 DEF FaissContract!Write

\* A function on 1..n is a sequence.
LEMMA Counted ==
    ASSUME NEW S, NEW n \in Nat, NEW f, f = [i \in 1..n |-> f[i]], \A i \in 1..n : f[i] \in S
    PROVE  f \in Seq(S) /\ Len(f) = n /\ DOMAIN f = 1..n
<1>1. f \in [1..n -> S]
  OBVIOUS
<1>2. f \in Seq(S)
  BY <1>1, SeqDef
<1>3. DOMAIN f = 1..n /\ DOMAIN f = 1..Len(f) /\ Len(f) \in Nat
  BY <1>1, <1>2
<1> QED
  BY <1>2, <1>3

LEMMA FaissRebuilds == ASSUME FaissInv, Faiss!Rebuild PROVE FaissInv' /\ FaissContract!Rebuild
<1> DEFINE stored == {d \in Id : rows[d] # NoVec}
           n == Cardinality(stored)
<1>1. n \in Nat
  BY IdFinite, FS_Subset, FS_CardinalityType
<1>2. PICK s \in Bijection(1..n, stored) :
         /\ labels' = s /\ vectors' = [i \in DOMAIN s |-> rows[s[i]]]
         /\ posOf' = Faiss!LivePositions(s, {})
  BY OneCardinality, OneBijection DEF Faiss!Rebuild
<1>3. /\ deleted' = {} /\ fTorn' = FALSE /\ fStep' = "changed"
      /\ rows' = rows /\ fDisk' = fDisk
  BY DEF Faiss!Rebuild
<1>4. s \in [1..n -> stored]
  BY DEF Bijection, Injection, Surjection
<1>5. /\ \A i, j \in 1..n : s[i] = s[j] => i = j
      /\ \A d \in stored : \E i \in 1..n : s[i] = d
  BY <1>4 DEF Bijection, Injection, Surjection, IsInjective
<1>6. s \in Seq(Id) /\ Len(s) = n /\ DOMAIN s = 1..n
  BY <1>1, <1>4, Counted
<1>7. vectors' \in Seq(Vec) /\ Len(vectors') = n /\ \A i \in 1..n : vectors'[i] = rows[s[i]]
  <2>1. \A i \in 1..n : rows[s[i]] \in Vec
    BY <1>4 DEF FaissInv, Faiss!TypeOK
  <2> QED
    BY <1>1, <1>2, <1>6, <2>1, Counted
<1>8. Distinct(s, {})
  BY <1>5, <1>6 DEF Distinct
<1>9. posOf' \in [Id -> 0..n] /\ Good(s, {}, posOf')
  BY <1>2, <1>6, <1>8, FaissRecomputed
<1>10. Faiss!TypeOK'
  BY <1>2, <1>3, <1>6, <1>7, <1>9 DEF FaissInv, Faiss!TypeOK
<1>11. FaissInv'
  <2>1. FaissFiles'
    BY <1>3 DEF FaissInv, FaissFiles
  <2>2. Good(labels, deleted, posOf)'
    BY <1>2, <1>3, <1>9 DEF Good
  <2> QED
    BY <1>2, <1>6, <1>7, <1>10, <2>1, <2>2 DEF FaissInv
<1>12. Faiss!InMemory' = rows
  <2>1. Faiss!InMemory' = At(vectors, posOf)'
    BY <1>3, <1>11, FaissMemoryNext
  <2>2. ASSUME NEW d \in Id
        PROVE  (IF posOf'[d] = 0 THEN NoVec ELSE vectors'[posOf'[d]]) = rows[d]
    <3>1. CASE rows[d] = NoVec
      <4>1. posOf'[d] = 0
        BY <1>4, <1>6, <1>9, <3>1 DEF Good
      <4> QED
        BY <3>1, <4>1
    <3>2. CASE rows[d] # NoVec
      <4>1. PICK i \in 1..n : s[i] = d
        BY <1>5, <3>2
      <4>2. posOf'[d] = i /\ i # 0
        BY <1>6, <1>9, <4>1 DEF Good
      <4> QED
        BY <1>7, <4>1, <4>2
    <3> QED
      BY <3>1, <3>2
  <2>3. At(vectors, posOf)' = [d \in Id |-> rows[d]]
    BY <2>2 DEF At
  <2> QED
    BY <2>1, <2>3 DEF FaissInv, Faiss!TypeOK
<1>13. Faiss!OnDisk' = Faiss!OnDisk
  BY <1>3 DEF Faiss!OnDisk
<1> QED
  BY <1>3, <1>11, <1>12, <1>13 DEF FaissContract!Rebuild

LEMMA FaissSaves ==
    ASSUME FaissInv, Faiss!WriteIndex \/ Faiss!WriteLabels
    PROVE  FaissInv' /\ (FaissContract!StartSave \/ FaissContract!Save \/ UNCHANGED FaissContract!vars)
<1>1. UNCHANGED <<rows, vectors, labels, posOf, deleted, fTorn>> /\ Faiss!InMemory' = Faiss!InMemory
  BY DEF Faiss!WriteIndex, Faiss!WriteLabels, Faiss!InMemory
<1>2. CASE Faiss!WriteIndex
  <2>1. fDisk' = [fDisk EXCEPT !.vectors = vectors, !.torn = fDisk.written] /\ fStep' = "labels"
    BY <1>2 DEF Faiss!WriteIndex
  <2>2. /\ fDisk'.vectors = vectors /\ fDisk'.torn = fDisk.written
        /\ fDisk'.labels = fDisk.labels /\ fDisk'.deleted = fDisk.deleted
        /\ fDisk'.written = fDisk.written
    BY <2>1 DEF FaissInv, Faiss!TypeOK
  <2>3. Faiss!TypeOK'
    BY <1>1, <2>1 DEF FaissInv, Faiss!TypeOK
  <2>4. FaissFiles'
    BY <1>1, <2>1, <2>2 DEF FaissInv, FaissFiles, Distinct
  <2>5. FaissInv'
    BY <1>1, <2>3, <2>4 DEF FaissInv, Good
  <2>6. CASE fDisk.written
    <3>1. Faiss!OnDisk' = Unsafe
      BY <2>2, <2>6 DEF Faiss!OnDisk
    <3> QED
      BY <1>1, <2>5, <3>1 DEF FaissContract!StartSave
  <2>7. CASE ~fDisk.written
    <3>1. fDisk.labels = <<>> /\ fDisk.deleted = {} /\ ~fDisk.torn /\ ~fDisk'.torn
      BY <2>2, <2>7 DEF FaissInv, FaissFiles, Faiss!TypeOK
    <3>2. \A vec, p : Faiss!Found(vec, <<>>, {}, p) = [d \in Id |-> NoVec]
      BY DEF Faiss!Found, Faiss!Shown
    <3>3. Faiss!OnDisk = [d \in Id |-> NoVec] /\ Faiss!OnDisk' = [d \in Id |-> NoVec]
      BY <2>2, <3>1, <3>2 DEF Faiss!OnDisk, Faiss!Found, Faiss!Shown
    <3> QED
      BY <1>1, <2>5, <3>3 DEF FaissContract!vars
  <2> QED
    BY <2>6, <2>7
<1>3. CASE Faiss!WriteLabels
  <2>1. /\ fDisk' = [fDisk EXCEPT !.labels = labels, !.deleted = deleted,
                                !.written = TRUE, !.torn = fTorn]
        /\ fStep = "labels" /\ fStep' = "ready"
    BY <1>3 DEF Faiss!WriteLabels
  <2>2. /\ fDisk'.vectors = vectors /\ fDisk'.torn = fTorn /\ fDisk'.labels = labels
        /\ fDisk'.deleted = deleted /\ fDisk'.written = TRUE
    BY <2>1 DEF FaissInv, Faiss!TypeOK, FaissFiles
  <2>3. Faiss!TypeOK'
    <3>1. deleted \in SUBSET Nat
      BY DEF FaissInv, Faiss!TypeOK
    <3> QED
      BY <1>1, <2>1, <2>2, <3>1 DEF FaissInv, Faiss!TypeOK
  <2>4. Distinct(labels, deleted)
    BY GoodIsDistinct DEF FaissInv
  <2>5. FaissFiles'
    BY <1>1, <2>1, <2>2, <2>4 DEF FaissInv, FaissFiles, Distinct
  <2>6. FaissInv'
    BY <1>1, <2>3, <2>5 DEF FaissInv, Good
  <2>7. Faiss!LivePositions(labels, deleted) = posOf
    BY <2>4, FaissRecomputed, GoodIsUnique DEF FaissInv, Faiss!TypeOK
  <2>8. Faiss!OnDisk' = Faiss!InMemory
    <3>1. Faiss!LivePositions(labels, deleted)' = Faiss!LivePositions(labels, deleted)
      BY <1>1 DEF Faiss!LivePositions
    <3>2. Faiss!OnDisk' = IF fTorn THEN Unsafe
                    ELSE Faiss!Found(vectors, labels, deleted, Faiss!LivePositions(labels, deleted))
      BY <2>2 DEF Faiss!OnDisk, Faiss!Found, Faiss!Shown, Faiss!LivePositions
    <3> QED
      BY <2>7, <3>2 DEF Faiss!InMemory
  <2> QED
    BY <1>1, <2>6, <2>8 DEF FaissContract!Save
<1> QED
  BY <1>2, <1>3

LEMMA FaissReopens == ASSUME FaissInv, Faiss!Reopen PROVE FaissInv' /\ FaissContract!Reopen
<1>1. /\ vectors' = IF fDisk.written THEN fDisk.vectors ELSE <<>>
      /\ labels' = fDisk.labels /\ deleted' = fDisk.deleted
      /\ posOf' = Faiss!LivePositions(fDisk.labels, fDisk.deleted)
      /\ fTorn' = fDisk.torn /\ fStep' = "ready" /\ rows' = rows /\ fDisk' = fDisk
  BY DEF Faiss!Reopen
<1>2. /\ posOf' \in [Id -> 0..Len(fDisk.labels)]
      /\ Good(fDisk.labels, fDisk.deleted, posOf')
  BY <1>1, FaissRecomputed DEF FaissInv, Faiss!TypeOK, FaissFiles
<1>3. Faiss!TypeOK'
  BY <1>1, <1>2 DEF FaissInv, Faiss!TypeOK
<1>4. ~fTorn' => Len(vectors') = Len(labels')
  BY <1>1 DEF FaissInv, FaissFiles
<1>5. FaissInv'
  <2>1. Good(labels, deleted, posOf)'
    BY <1>1, <1>2 DEF Good
  <2>2. FaissFiles'
    BY <1>1 DEF FaissInv, FaissFiles
  <2> QED
    BY <1>3, <1>4, <2>1, <2>2 DEF FaissInv
<1>6. Faiss!InMemory' = Faiss!OnDisk
  <2>1. Faiss!InMemory' = IF fDisk.torn THEN Unsafe
                    ELSE Faiss!Found(vectors', fDisk.labels, fDisk.deleted,
                               Faiss!LivePositions(fDisk.labels, fDisk.deleted))
    BY <1>1 DEF Faiss!InMemory, Faiss!Found, Faiss!Shown, Faiss!LivePositions
  <2>2. CASE fDisk.written
    BY <1>1, <2>1, <2>2 DEF Faiss!OnDisk
  <2>3. CASE ~fDisk.written
    <3>1. fDisk.labels = <<>>
      BY <2>3 DEF FaissInv, FaissFiles
    <3>2. \A vec, gone, p : Faiss!Found(vec, <<>>, gone, p) = [d \in Id |-> NoVec]
      BY DEF Faiss!Found, Faiss!Shown
    <3> QED
      BY <2>1, <3>1, <3>2 DEF Faiss!OnDisk
  <2> QED
    BY <2>2, <2>3
<1>7. Faiss!OnDisk' = Faiss!OnDisk
  BY <1>1 DEF Faiss!OnDisk, Faiss!Found, Faiss!Shown, Faiss!LivePositions
<1> QED
  BY <1>1, <1>5, <1>6, <1>7 DEF FaissContract!Reopen

LEMMA FaissSteps ==
    ASSUME FaissInv, Faiss!Next PROVE FaissInv' /\ [FaissContract!Next]_FaissContract!vars
<1>1. ASSUME NEW d \in Id, NEW v \in Vec, Faiss!Add(d, v)
      PROVE  FaissInv' /\ FaissContract!Next
  BY <1>1, FaissAdds DEF FaissContract!Next
<1>2. ASSUME NEW d \in Id, Faiss!Remove(d) PROVE FaissInv' /\ FaissContract!Next
  BY <1>2, FaissRemoves DEF FaissContract!Next
<1>3. CASE Faiss!Rebuild
  BY <1>3, FaissRebuilds DEF FaissContract!Next
<1>4. CASE Faiss!WriteIndex \/ Faiss!WriteLabels
  BY <1>4, FaissSaves DEF FaissContract!Next
<1>5. CASE Faiss!Reopen
  BY <1>5, FaissReopens DEF FaissContract!Next
<1> QED
  BY <1>1, <1>2, <1>3, <1>4, <1>5 DEF Faiss!Next

-----------------------------------------------------------------------------
(* The exact index. *)

BruteContract == INSTANCE IndexMap WITH map <- Brute!InMemory, saved <- Brute!OnDisk

BruteInv ==
    /\ Brute!TypeOK
    /\ Good(ids, {}, pos)
    /\ Distinct(file.ids, {}) /\ Len(file.matrix) = Len(file.ids)

\* A sequence without its i-th element.
LEMMA WithoutOne ==
    ASSUME NEW S, NEW s \in Seq(S), NEW i \in 1..Len(s)
    PROVE  /\ Brute!Seqs!RemoveAt(s, i) \in Seq(S)
           /\ Len(Brute!Seqs!RemoveAt(s, i)) = Len(s) - 1
           /\ \A k \in 1..(Len(s) - 1) :
                 Brute!Seqs!RemoveAt(s, i)[k] = IF k < i THEN s[k] ELSE s[k + 1]
<1> DEFINE n == Len(s)
           front == SubSeq(s, 1, i - 1)
           back == SubSeq(s, i + 1, n)
<1>1. n \in Nat /\ i \in 1..n /\ \A k \in 1..n : s[k] \in S
  OBVIOUS
<1>2. /\ front \in Seq(S) /\ Len(front) = i - 1
      /\ \A k \in 1..(i - 1) : front[k] = s[k]
  <2>1. \A k \in 1..(i - 1) : s[k] \in S
    BY <1>1
  <2>2. i - 1 \in Int /\ 1 \in Int
    BY <1>1
  <2> HIDE DEF n
  <2>3. /\ front \in Seq(S) /\ Len(front) = IF 1 <= i - 1 THEN i - 1 - 1 + 1 ELSE 0
        /\ \A k \in 1..(i - 1 - 1 + 1) : front[k] = s[1 + k - 1]
    BY <2>1, <2>2, SubSeqProperties
  <2> QED
    BY <1>1, <2>3
<1>3. /\ back \in Seq(S) /\ Len(back) = n - i
      /\ \A k \in 1..(n - i) : back[k] = s[i + k]
  <2>1. \A k \in (i + 1)..n : s[k] \in S
    BY <1>1
  <2>2. i + 1 \in Int /\ n \in Int
    BY <1>1
  <2> HIDE DEF n
  <2>3. /\ back \in Seq(S) /\ Len(back) = IF i + 1 <= n THEN n - (i + 1) + 1 ELSE 0
        /\ \A k \in 1..(n - (i + 1) + 1) : back[k] = s[(i + 1) + k - 1]
    BY <2>1, <2>2, SubSeqProperties
  <2> QED
    BY <1>1, <2>3
<1> HIDE DEF n, front, back
<1>4. /\ front \o back \in Seq(S) /\ Len(front \o back) = n - 1
      /\ \A k \in 1..(n - 1) : (front \o back)[k] = IF k <= i - 1 THEN front[k] ELSE back[k - (i - 1)]
  <2>1. Len(front) + Len(back) = n - 1
    BY <1>1, <1>2, <1>3
  <2>2. /\ front \o back \in Seq(S) /\ Len(front \o back) = Len(front) + Len(back)
        /\ \A k \in 1..(Len(front) + Len(back)) :
              (front \o back)[k] = IF k <= Len(front) THEN front[k] ELSE back[k - Len(front)]
    BY <1>2, <1>3, ConcatProperties
  <2> QED
    BY <1>2, <2>1, <2>2
<1>5. ASSUME NEW k \in 1..(n - 1) PROVE (front \o back)[k] = IF k < i THEN s[k] ELSE s[k + 1]
  <2>1. CASE k < i
    <3>1. k \in 1..(i - 1) /\ k <= i - 1
      BY <1>1, <2>1
    <3> QED
      BY <1>2, <1>4, <2>1, <3>1
  <2>2. CASE ~(k < i)
    <3>1. k - (i - 1) \in 1..(n - i) /\ ~(k <= i - 1) /\ i + (k - (i - 1)) = k + 1
      BY <1>1, <2>2
    <3> QED
      BY <1>3, <1>4, <2>2, <3>1
  <2> QED
    BY <2>1, <2>2
<1>6. Brute!Seqs!RemoveAt(s, i) = front \o back
  BY OneRemoveAt DEF front, back, n
<1> QED
  BY <1>4, <1>5, <1>6 DEF n

\* The positions and the contents are those of an index that marks nothing.
LEMMA BrutePositions ==
    ASSUME NEW s PROVE Brute!Positions(s) = Faiss!LivePositions(s, {})
<1>1. ASSUME NEW d \in Id
      PROVE  d \in Brute!Seqs!ToSet(s) <=> {i \in DOMAIN s \ {} : s[i] = d} # {}
  BY OneToSet
<1>2. ASSUME NEW d \in Id
      PROVE  {i \in DOMAIN s : s[i] = d} = {i \in DOMAIN s \ {} : s[i] = d}
  OBVIOUS
<1> QED
  BY <1>1, <1>2, OneMaxMin DEF Brute!Positions, Faiss!LivePositions

LEMMA BruteFound ==
    ASSUME NEW s \in Seq(Id), NEW m, NEW p \in [Id -> 0..Len(s)], Good(s, {}, p)
    PROVE  Brute!Found(s, m) = At(m, p)
<1> SUFFICES ASSUME NEW d \in Id
             PROVE  (IF d \in Brute!Seqs!ToSet(s) THEN m[Brute!Max({i \in DOMAIN s : s[i] = d})]
                     ELSE NoVec) = IF p[d] = 0 THEN NoVec ELSE m[p[d]]
  BY DEF Brute!Found, At
<1>1. d \in Brute!Seqs!ToSet(s) <=> \E i \in DOMAIN s : s[i] = d
  BY OneToSet
<1>2. CASE p[d] = 0
  <2>1. d \notin Brute!Seqs!ToSet(s)
    BY <1>1, <1>2 DEF Good
  <2> QED
    BY <1>2, <2>1
<1>3. CASE p[d] # 0
  <2>1. {i \in DOMAIN s : s[i] = d} = {p[d]} /\ p[d] \in Nat
    BY <1>3 DEF Good
  <2>2. Brute!Max({p[d]}) = p[d]
    BY <2>1, MaxOfOne, OneMaxMin
  <2>3. d \in Brute!Seqs!ToSet(s)
    BY <1>1, <2>1
  <2> QED
    BY <1>3, <2>1, <2>2, <2>3
<1> QED
  BY <1>2, <1>3

LEMMA BruteMemory ==
    ASSUME BruteInv
    PROVE  /\ Brute!InMemory = At(matrix, pos)
           /\ Brute!InMemory \in [Id -> Vec \cup {NoVec}] /\ Brute!InMemory # Unsafe
<1>1. Brute!InMemory = At(matrix, pos)
  BY BruteFound DEF Brute!InMemory, BruteInv, Brute!TypeOK
<1>2. At(matrix, pos) \in [Id -> Vec \cup {NoVec}]
  <2> SUFFICES ASSUME NEW d \in Id, pos[d] # 0 PROVE matrix[pos[d]] \in Vec
    BY DEF At
  <2> QED
    BY DEF BruteInv, Brute!TypeOK
<1> QED
  BY <1>1, <1>2, UnsafeIsNoMap

\* The same of a step's result.
LEMMA BruteMemoryNext == ASSUME BruteInv' PROVE Brute!InMemory' = At(matrix', pos')
<1>1. ids' \in Seq(Id) /\ pos' \in [Id -> 0..Len(ids')] /\ Good(ids', {}, pos')
  BY DEF BruteInv, Brute!TypeOK, Good
<1>2. Brute!Found(ids', matrix') = At(matrix', pos')
  BY <1>1, BruteFound
<1> QED
  BY <1>2 DEF Brute!InMemory, Brute!Found

LEMMA BruteInitially == Brute!Init => BruteInv /\ BruteContract!Init
<1> SUFFICES ASSUME Brute!Init PROVE BruteInv /\ BruteContract!Init
  OBVIOUS
<1>1. BruteInv
  BY DEF Brute!Init, Brute!NoPos, BruteInv, Brute!TypeOK, Good, Distinct
<1>2. Brute!InMemory = [d \in Id |-> NoVec] /\ Brute!OnDisk = [d \in Id |-> NoVec]
  <2>1. \A d \in Id : d \notin Brute!Seqs!ToSet(<<>>)
    BY OneToSet
  <2> QED
    BY <2>1 DEF Brute!Init, Brute!InMemory, Brute!OnDisk, Brute!Found
<1> QED
  BY <1>1, <1>2 DEF Brute!Init, BruteContract!Init, BruteContract!Empty

LEMMA BruteAdds ==
    ASSUME BruteInv, NEW d \in Id, NEW v \in Vec, Brute!Add(d, v)
    PROVE  BruteInv' /\ BruteContract!Write(d, v)
<1> DEFINE n == Len(ids)
<1>0. /\ rows' = [rows EXCEPT ![d] = v] /\ file' = file
      /\ n \in Nat /\ DOMAIN ids = 1..n /\ DOMAIN matrix = 1..n /\ pos[d] \in 0..n
  BY DEF Brute!Add, BruteInv, Brute!TypeOK
<1>1. BruteInv' /\ At(matrix', pos') = [At(matrix, pos) EXCEPT ![d] = v]
  <2>1. CASE pos[d] # 0
    <3>1. matrix' = [matrix EXCEPT ![pos[d]] = v] /\ ids' = ids /\ pos' = pos
      BY <2>1 DEF Brute!Add
    <3>2. pos[d] \in 1..n
      BY <1>0, <2>1
    <3>3. matrix' \in Seq(Vec) /\ Len(matrix') = n
      BY <3>1, <3>2 DEF BruteInv, Brute!TypeOK
    <3>4. BruteInv'
      BY <1>0, <3>1, <3>3 DEF BruteInv, Brute!TypeOK, Good
    <3>5. ASSUME NEW e \in Id
          PROVE  (IF pos'[e] = 0 THEN NoVec ELSE matrix'[pos'[e]]) =
                 IF e = d THEN v ELSE IF pos[e] = 0 THEN NoVec ELSE matrix[pos[e]]
      <4>1. pos[e] = pos[d] => e = d
        BY <2>1 DEF BruteInv, Good
      <4>2. pos[e] # 0 => pos[e] \in DOMAIN matrix
        BY <1>0 DEF BruteInv, Brute!TypeOK
      <4> QED
        BY <1>0, <2>1, <3>1, <3>2, <4>1, <4>2
    <3> QED
      BY <3>4, <3>5 DEF At
  <2>2. CASE pos[d] = 0
    <3>1. /\ pos' = [pos EXCEPT ![d] = n + 1]
          /\ ids' = Append(ids, d) /\ matrix' = Append(matrix, v)
      BY <2>2 DEF Brute!Add
    <3>2. /\ ids' \in Seq(Id) /\ Len(ids') = n + 1 /\ ids'[n + 1] = d
          /\ \A i \in 1..n : ids'[i] = ids[i]
      BY <3>1 DEF BruteInv, Brute!TypeOK
    <3>3. /\ matrix' \in Seq(Vec) /\ Len(matrix') = n + 1 /\ matrix'[n + 1] = v
          /\ \A i \in 1..n : matrix'[i] = matrix[i]
      BY <3>1 DEF BruteInv, Brute!TypeOK
    <3>4. pos' \in [Id -> 0..(n + 1)] /\ pos'[d] = n + 1
      BY <3>1 DEF BruteInv, Brute!TypeOK
    <3>5. \A e \in Id : e # d => pos'[e] = pos[e] /\ pos[e] \in 0..n
      BY <3>1 DEF BruteInv, Brute!TypeOK
    <3>6. Good(ids', {}, pos')
      <4>1. ASSUME NEW e \in Id, pos'[e] # 0 PROVE pos'[e] \in DOMAIN ids' /\ ids'[pos'[e]] = e
        BY <1>0, <3>2, <3>4, <3>5, <4>1 DEF BruteInv, Good
      <4>2. ASSUME NEW i \in DOMAIN ids' PROVE pos'[ids'[i]] = i
        <5>1. CASE i = n + 1
          BY <3>2, <3>4, <5>1
        <5>2. CASE i # n + 1
          <6>1. i \in 1..n /\ ids'[i] = ids[i]
            BY <1>0, <3>2, <5>2
          <6>2. ids[i] \in Id /\ pos[ids[i]] = i
            BY <1>0, <6>1 DEF BruteInv, Brute!TypeOK, Good
          <6>3. ids[i] # d
            BY <2>2, <6>1, <6>2
          <6> QED
            BY <3>5, <6>1, <6>2, <6>3
        <5> QED
          BY <5>1, <5>2
      <4> QED
        BY <4>1, <4>2 DEF Good
    <3>7. BruteInv'
      BY <1>0, <3>2, <3>3, <3>4, <3>6 DEF BruteInv, Brute!TypeOK, Good
    <3>8. ASSUME NEW e \in Id
          PROVE  (IF pos'[e] = 0 THEN NoVec ELSE matrix'[pos'[e]]) =
                 IF e = d THEN v ELSE IF pos[e] = 0 THEN NoVec ELSE matrix[pos[e]]
      BY <1>0, <3>3, <3>4, <3>5
    <3> QED
      BY <3>7, <3>8 DEF At
  <2> QED
    BY <2>1, <2>2
<1>2. Brute!InMemory' = BruteContract!With(Brute!InMemory, d, v)
  BY <1>1, BruteMemory, BruteMemoryNext DEF BruteContract!With
<1>3. Brute!OnDisk' = Brute!OnDisk
  BY <1>0 DEF Brute!OnDisk
<1> QED
  BY <1>0, <1>1, <1>2, <1>3 DEF BruteContract!Write

LEMMA BruteRemoves ==
    ASSUME BruteInv, NEW d \in Id, Brute!Remove(d)
    PROVE  BruteInv' /\ BruteContract!Write(d, NoVec)
<1> DEFINE n == Len(ids)
           p == pos[d]
<1>0. /\ rows' = [rows EXCEPT ![d] = NoVec] /\ file' = file
      /\ n \in Nat /\ DOMAIN ids = 1..n /\ DOMAIN matrix = 1..n /\ p \in 0..n
  BY DEF Brute!Remove, BruteInv, Brute!TypeOK
<1>1. BruteInv' /\ At(matrix', pos') = [At(matrix, pos) EXCEPT ![d] = NoVec]
  <2>1. CASE p = 0
    <3>1. matrix' = matrix /\ ids' = ids /\ pos' = pos
      BY <2>1 DEF Brute!Remove
    <3>2. BruteInv'
      BY <1>0, <3>1 DEF BruteInv, Brute!TypeOK, Good
    <3> QED
      BY <2>1, <3>1, <3>2 DEF At
  <2>2. CASE p # 0
    <3>1. /\ ids' = Brute!Seqs!RemoveAt(ids, p) /\ matrix' = Brute!Seqs!RemoveAt(matrix, p)
          /\ pos' = [e \in Id |-> IF e = d THEN 0
                                  ELSE IF pos[e] > p THEN pos[e] - 1 ELSE pos[e]]
      BY <2>2 DEF Brute!Remove
    <3>2. p \in 1..n /\ Len(matrix) = n /\ ids \in Seq(Id) /\ matrix \in Seq(Vec)
      BY <1>0, <2>2 DEF BruteInv, Brute!TypeOK
    <3>3. /\ ids' \in Seq(Id) /\ Len(ids') = n - 1
          /\ \A k \in 1..(n - 1) : ids'[k] = IF k < p THEN ids[k] ELSE ids[k + 1]
      BY <3>1, <3>2, WithoutOne
    <3>4. /\ matrix' \in Seq(Vec) /\ Len(matrix') = n - 1
          /\ \A k \in 1..(n - 1) : matrix'[k] = IF k < p THEN matrix[k] ELSE matrix[k + 1]
      BY <3>1, <3>2, WithoutOne
    <3>5. \A e \in Id : /\ pos[e] \in 0..n /\ (pos[e] # 0 => ids[pos[e]] = e)
                        /\ (e # d => pos[e] # p)
      BY <1>0, <2>2 DEF BruteInv, Brute!TypeOK, Good
    <3>6. ASSUME NEW e \in Id, e # d, pos[e] # 0
          PROVE  /\ pos'[e] \in 1..(n - 1) /\ ids'[pos'[e]] = e
                 /\ matrix'[pos'[e]] = matrix[pos[e]]
      <4>1. CASE pos[e] > p
        <5>0. pos'[e] = pos[e] - 1
          BY <3>1, <3>6, <4>1
        <5>1. pos'[e] \in 1..(n - 1) /\ ~(pos'[e] < p) /\ pos'[e] + 1 = pos[e]
          <6>1. pos[e] \in 1..n /\ p \in 1..n /\ n \in Nat
            BY <1>0, <3>2, <3>5, <3>6
          <6> HIDE DEF n, p
          <6> QED
            BY <4>1, <5>0, <6>1
        <5> QED
          BY <3>3, <3>4, <3>5, <3>6, <5>1
      <4>2. CASE ~(pos[e] > p)
        <5>1. pos'[e] = pos[e] /\ pos'[e] \in 1..(n - 1) /\ pos'[e] < p
          BY <1>0, <3>1, <3>2, <3>5, <3>6, <4>2
        <5> QED
          BY <3>3, <3>4, <3>5, <3>6, <5>1
      <4> QED
        BY <4>1, <4>2
    <3>7. pos'[d] = 0 /\ \A e \in Id : pos[e] = 0 => pos'[e] = 0
      BY <1>0, <3>1, <3>2
    <3>8. pos' \in [Id -> 0..(n - 1)]
      <4>1. \A e \in Id : pos'[e] \in 0..(n - 1)
        BY <1>0, <3>2, <3>6, <3>7
      <4> QED
        BY <3>1, <4>1
    <3>9. Good(ids', {}, pos')
      <4>1. ASSUME NEW e \in Id, pos'[e] # 0 PROVE pos'[e] \in DOMAIN ids' /\ ids'[pos'[e]] = e
        BY <1>0, <3>3, <3>6, <3>7, <4>1
      <4>2. ASSUME NEW k \in DOMAIN ids' PROVE pos'[ids'[k]] = k
        <5>0. k \in 1..(n - 1)
          BY <3>3
        <5>1. CASE k < p
          <6>1. k \in 1..n /\ ids'[k] = ids[k] /\ ids[k] \in Id /\ pos[ids[k]] = k
            BY <1>0, <3>2, <3>3, <5>0, <5>1 DEF BruteInv, Good
          <6>2. ids[k] # d /\ ~(k > p)
            BY <3>2, <5>1, <6>1
          <6> QED
            BY <3>1, <6>1, <6>2
        <5>2. CASE ~(k < p)
          <6>1. /\ k + 1 \in 1..n /\ ids'[k] = ids[k + 1]
                /\ ids[k + 1] \in Id /\ pos[ids[k + 1]] = k + 1
            BY <1>0, <3>2, <3>3, <5>0, <5>2 DEF BruteInv, Good
          <6>2. ids[k + 1] # d /\ k + 1 > p /\ k + 1 - 1 = k
            BY <3>2, <5>0, <5>2, <6>1
          <6>3. pos'[ids[k + 1]] = pos[ids[k + 1]] - 1
            BY <3>1, <6>1, <6>2
          <6> QED
            BY <6>1, <6>2, <6>3
        <5> QED
          BY <5>1, <5>2
      <4> QED
        BY <4>1, <4>2 DEF Good
    <3>10. BruteInv'
      <4>1. rows' \in [Id -> Vec \cup {NoVec}]
        BY <1>0 DEF BruteInv, Brute!TypeOK
      <4> QED
        BY <1>0, <3>3, <3>4, <3>8, <3>9, <4>1 DEF BruteInv, Brute!TypeOK, Good
    <3>11. ASSUME NEW e \in Id
           PROVE  (IF pos'[e] = 0 THEN NoVec ELSE matrix'[pos'[e]]) =
                  IF e = d THEN NoVec ELSE IF pos[e] = 0 THEN NoVec ELSE matrix[pos[e]]
      <4>1. CASE e = d \/ pos[e] = 0
        BY <3>7, <4>1
      <4>2. CASE e # d /\ pos[e] # 0
        <5>1. pos'[e] # 0 /\ matrix'[pos'[e]] = matrix[pos[e]]
          BY <1>0, <3>6, <4>2
        <5> QED
          BY <4>2, <5>1
      <4> QED
        BY <4>1, <4>2
    <3> QED
      BY <3>10, <3>11 DEF At
  <2> QED
    BY <2>1, <2>2
<1>2. Brute!InMemory' = BruteContract!With(Brute!InMemory, d, NoVec)
  BY <1>1, BruteMemory, BruteMemoryNext DEF BruteContract!With
<1>3. Brute!OnDisk' = Brute!OnDisk
  BY <1>0 DEF Brute!OnDisk
<1> QED
  BY <1>0, <1>1, <1>2, <1>3 DEF BruteContract!Write

LEMMA BruteRebuilds == ASSUME BruteInv, Brute!Rebuild PROVE BruteInv' /\ BruteContract!Rebuild
<1> DEFINE stored == {d \in Id : rows[d] # NoVec}
           n == Cardinality(stored)
<1>1. n \in Nat /\ IsFiniteSet(stored)
  BY IdFinite, FS_Subset, FS_CardinalityType
<1>2. PICK s \in Brute!Seqs!SetToSeqs(stored) :
         /\ ids' = s /\ matrix' = [i \in DOMAIN s |-> rows[s[i]]]
         /\ pos' = Brute!Positions(s)
  BY DEF Brute!Rebuild
<1>3. rows' = rows /\ file' = file
  BY DEF Brute!Rebuild
<1>4. s \in [1..n -> stored] /\ \A i, j \in 1..n : s[i] = s[j] => i = j
  BY OneSetToSeqs
<1>5. \A d \in stored : \E i \in 1..n : s[i] = d
  <2>1. s \in Injection(1..n, stored)
    BY <1>4 DEF Injection, IsInjective
  <2>2. IsFiniteSet(1..n) /\ Cardinality(1..n) = n
    <3>1. 1 \in Int /\ n \in Int /\ (IF 1 > n THEN 0 ELSE n - 1 + 1) = n
      BY <1>1
    <3> HIDE DEF n
    <3> QED
      BY <3>1, FS_Interval
  <2>3. s \in Surjection(1..n, stored)
    BY <1>1, <2>1, <2>2, FS_Injection
  <2> QED
    BY <2>3 DEF Surjection
<1>6. s \in Seq(Id) /\ Len(s) = n /\ DOMAIN s = 1..n
  BY <1>1, <1>4, Counted
<1>7. matrix' \in Seq(Vec) /\ Len(matrix') = n /\ \A i \in 1..n : matrix'[i] = rows[s[i]]
  <2>1. \A i \in 1..n : rows[s[i]] \in Vec
    BY <1>4 DEF BruteInv, Brute!TypeOK
  <2> QED
    BY <1>1, <1>2, <1>6, <2>1, Counted
<1>8. pos' \in [Id -> 0..n] /\ Good(s, {}, pos')
  <2>1. Distinct(s, {})
    BY <1>4, <1>6 DEF Distinct
  <2> QED
    BY <1>2, <1>6, <2>1, BrutePositions, FaissRecomputed
<1>9. BruteInv'
  BY <1>2, <1>3, <1>6, <1>7, <1>8 DEF BruteInv, Brute!TypeOK, Good
<1>10. Brute!InMemory' = rows
  <2>1. ASSUME NEW d \in Id
        PROVE  (IF pos'[d] = 0 THEN NoVec ELSE matrix'[pos'[d]]) = rows[d]
    <3>1. CASE rows[d] = NoVec
      <4>1. pos'[d] = 0
        BY <1>4, <1>6, <1>8, <3>1 DEF Good
      <4> QED
        BY <3>1, <4>1
    <3>2. CASE rows[d] # NoVec
      <4>1. PICK i \in 1..n : s[i] = d
        BY <1>5, <3>2
      <4>2. pos'[d] = i /\ i # 0
        BY <1>6, <1>8, <4>1 DEF Good
      <4> QED
        BY <1>7, <4>1, <4>2
    <3> QED
      BY <3>1, <3>2
  <2>2. At(matrix', pos') = [d \in Id |-> rows[d]]
    BY <2>1 DEF At
  <2> QED
    BY <1>9, <2>2, BruteMemoryNext DEF BruteInv, Brute!TypeOK
<1>11. Brute!OnDisk' = Brute!OnDisk
  BY <1>3 DEF Brute!OnDisk
<1> QED
  BY <1>3, <1>9, <1>10, <1>11 DEF BruteContract!Rebuild

LEMMA BruteSaves == ASSUME BruteInv, Brute!Persist PROVE BruteInv' /\ BruteContract!Save
<1>1. /\ file' = [ids |-> ids, matrix |-> matrix]
      /\ rows' = rows /\ ids' = ids /\ matrix' = matrix /\ pos' = pos
  BY DEF Brute!Persist
<1>2. BruteInv'
  <2>1. Distinct(ids, {})
    BY GoodIsDistinct DEF BruteInv
  <2> QED
    BY <1>1, <2>1 DEF BruteInv, Brute!TypeOK, Good, Distinct
<1>3. Brute!InMemory' = Brute!InMemory /\ Brute!OnDisk' = Brute!InMemory
  BY <1>1 DEF Brute!InMemory, Brute!OnDisk
<1> QED
  BY <1>1, <1>2, <1>3 DEF BruteContract!Save

LEMMA BruteReopens == ASSUME BruteInv, Brute!Reopen PROVE BruteInv' /\ BruteContract!Reopen
<1>1. /\ ids' = file.ids /\ matrix' = file.matrix /\ pos' = Brute!Positions(file.ids)
      /\ rows' = rows /\ file' = file
  BY DEF Brute!Reopen
<1>2. pos' \in [Id -> 0..Len(file.ids)] /\ Good(file.ids, {}, pos')
  BY <1>1, BrutePositions, FaissRecomputed DEF BruteInv, Brute!TypeOK
<1>3. BruteInv'
  BY <1>1, <1>2 DEF BruteInv, Brute!TypeOK, Good, Distinct
<1>4. Brute!InMemory' = Brute!OnDisk /\ Brute!OnDisk' = Brute!OnDisk
  BY <1>1 DEF Brute!InMemory, Brute!OnDisk
<1> QED
  BY <1>1, <1>3, <1>4 DEF BruteContract!Reopen

LEMMA BruteSteps ==
    ASSUME BruteInv, Brute!Next PROVE BruteInv' /\ BruteContract!Next
<1>1. ASSUME NEW d \in Id, NEW v \in Vec, Brute!Add(d, v)
      PROVE  BruteInv' /\ BruteContract!Next
  BY <1>1, BruteAdds DEF BruteContract!Next
<1>2. ASSUME NEW d \in Id, Brute!Remove(d) PROVE BruteInv' /\ BruteContract!Next
  BY <1>2, BruteRemoves DEF BruteContract!Next
<1>3. CASE Brute!Rebuild
  BY <1>3, BruteRebuilds DEF BruteContract!Next
<1>4. CASE Brute!Persist
  BY <1>4, BruteSaves DEF BruteContract!Next
<1>5. CASE Brute!Reopen
  BY <1>5, BruteReopens DEF BruteContract!Next
<1> QED
  BY <1>1, <1>2, <1>3, <1>4, <1>5 DEF Brute!Next

-----------------------------------------------------------------------------
(* hnswlib. *)

HnswContract == INSTANCE IndexMap WITH map <- Hnsw!InMemory, saved <- Hnsw!OnDisk

\* Every label given to an id has been used up, and is that id's alone.
OwnLabels(of, next) ==
    /\ \A d \in Id : of[d] # Hnsw!NoLabel => of[d] < next
    /\ \A d, e \in Id : of[d] = of[e] /\ of[d] # Hnsw!NoLabel => d = e

\* The library has a point for every label, and no live point without an id.
Held(x, of) ==
    /\ \A d \in Id : of[d] # Hnsw!NoLabel => of[d] \in Hnsw!Points(x)
    /\ \A l \in Hnsw!Live(x) : \E d \in Id : of[d] = l

\* _id_of names no id but the label's, and names it while the label is live.
Named(x, of, names) ==
    /\ \A l \in Hnsw!Label : \A d \in names[l] : of[d] = l
    /\ \A l \in Hnsw!Live(x), d \in Id : of[d] = l => d \in names[l]

HnswFiles ==
    /\ OwnLabels(hDisk.labelOf, hDisk.nextLabel)
    /\ hDisk.written /\ ~hDisk.torn => Held(hDisk.lib, hDisk.labelOf)
    /\ ~hDisk.written => hDisk.labelOf = Hnsw!Unlabelled /\ ~hDisk.torn
    /\ hStep = "labels" => hDisk.lib = lib

HnswInv ==
    /\ Hnsw!TypeOK
    /\ OwnLabels(labelOf, nextLabel)
    /\ ~hTorn => Held(lib, labelOf) /\ Named(lib, labelOf, idOf)
    /\ HnswFiles

\* What search finds: the vector at an id's label, while the label is live.
HnswAt(x, of) == [d \in Id |-> IF of[d] \in Hnsw!Live(x) THEN x.vec[of[d]] ELSE NoVec]

LEMMA LabelTypes ==
    /\ \A l \in Hnsw!Label : l \in Nat /\ l < MaxAdds /\ l # Hnsw!NoLabel
    /\ Hnsw!NoLabel \notin Hnsw!Label
    /\ \A n \in Nat : n < MaxAdds => n \in Hnsw!Label
  BY BoundsAreNat DEF Hnsw!Label, Hnsw!NoLabel

LEMMA MaxOfTwo ==
    ASSUME NEW i \in Nat, NEW j \in Nat
    PROVE  Hnsw!Max({i, j}) = IF i >= j THEN i ELSE j
<1>1. CASE i >= j
  <2>1. \A x \in {i, j} : i >= x
    BY <1>1
  <2>2. \A x \in {i, j} : (\A y \in {i, j} : x >= y) => x = i
    BY <1>1
  <2> QED
    BY <1>1, <2>1, <2>2 DEF Hnsw!Max
<1>2. CASE ~(i >= j)
  <2>1. \A x \in {i, j} : j >= x
    BY <1>2
  <2>2. \A x \in {i, j} : (\A y \in {i, j} : x >= y) => x = j
    BY <1>2
  <2> QED
    BY <1>2, <2>1, <2>2 DEF Hnsw!Max
<1> QED
  BY <1>1, <1>2

LEMMA CountIsNat == ASSUME NEW of PROVE Hnsw!Count(of) \in Nat
<1>1. {d \in Id : of[d] # Hnsw!NoLabel} \in SUBSET Id
  OBVIOUS
<1> QED
  BY <1>1, IdFinite, FS_Subset, FS_CardinalityType, OneCardinality DEF Hnsw!Count

LEMMA GrownIsNat == ASSUME capacity \in Nat PROVE Hnsw!Grown \in Nat
  BY CountIsNat, MaxOfTwo DEF Hnsw!Grown

LEMMA HnswFoundAt ==
    ASSUME NEW x \in Hnsw!Lib, NEW of, NEW names, Named(x, of, names)
    PROVE  Hnsw!Found(x, names) = HnswAt(x, of)
<1> SUFFICES ASSUME NEW d \in Id
             PROVE  Hnsw!Found(x, names)[d] = HnswAt(x, of)[d]
  BY DEF Hnsw!Found, HnswAt
<1> DEFINE at == {l \in Hnsw!Shown(x, names) : d \in names[l]}
<1>1. \A l \in at : l = of[d] /\ l \in Hnsw!Live(x)
  BY DEF Hnsw!Shown, Hnsw!Live, Hnsw!Points, Named
<1>2. CASE of[d] \in Hnsw!Live(x)
  <2>1. of[d] \in at
    BY <1>2 DEF Hnsw!Shown, Named
  <2>2. at = {of[d]}
    BY <1>1, <2>1
  <2>3. of[d] \in Nat
    BY <1>2, LabelTypes DEF Hnsw!Live, Hnsw!Points
  <2>4. Hnsw!Max(at) = of[d]
    BY <2>2, <2>3, MaxOfOne, OneMaxMin
  <2> QED
    BY <1>2, <2>2, <2>4 DEF Hnsw!Found, HnswAt
<1>3. CASE of[d] \notin Hnsw!Live(x)
  <2>1. at = {}
    BY <1>1, <1>3
  <2> QED
    BY <1>3, <2>1 DEF Hnsw!Found, HnswAt
<1> QED
  BY <1>2, <1>3

\* load gives every label its id.
LEMMA InvertedNames ==
    ASSUME NEW x, NEW of PROVE Named(x, of, Hnsw!Inverted(of))
  BY DEF Named, Hnsw!Inverted, Hnsw!Live, Hnsw!Points

LEMMA HnswMemory ==
    ASSUME HnswInv
    PROVE  /\ hTorn => Hnsw!InMemory = Unsafe
           /\ ~hTorn => /\ Hnsw!InMemory = HnswAt(lib, labelOf)
                        /\ Hnsw!InMemory \in [Id -> Vec \cup {NoVec}]
                        /\ Hnsw!InMemory # Unsafe
<1>1. ASSUME ~hTorn PROVE Hnsw!InMemory = HnswAt(lib, labelOf)
  BY <1>1, HnswFoundAt DEF Hnsw!InMemory, HnswInv, Hnsw!TypeOK
<1>2. HnswAt(lib, labelOf) \in [Id -> Vec \cup {NoVec}]
  BY DEF HnswAt, HnswInv, Hnsw!TypeOK, Hnsw!Lib, Hnsw!Live, Hnsw!Points
<1> QED
  BY <1>1, <1>2, UnsafeIsNoMap DEF Hnsw!InMemory

\* The same of a step's result.
LEMMA HnswMemoryNext ==
    ASSUME HnswInv'
    PROVE  /\ hTorn' => Hnsw!InMemory' = Unsafe
           /\ ~hTorn' => Hnsw!InMemory' = HnswAt(lib', labelOf')
<1>1. ASSUME ~hTorn' PROVE Hnsw!Found(lib', idOf') = HnswAt(lib', labelOf')
  <2>1. lib' \in Hnsw!Lib /\ Named(lib', labelOf', idOf')
    BY <1>1 DEF HnswInv, Hnsw!TypeOK, Hnsw!Lib, Named, Hnsw!Live, Hnsw!Points, Hnsw!Label
  <2> QED
    BY <2>1, HnswFoundAt
<1>2. Hnsw!Found(lib, idOf)' = Hnsw!Found(lib', idOf')
  BY DEF Hnsw!Found, Hnsw!Shown, Hnsw!Live, Hnsw!Points, Hnsw!Label
<1> QED
  BY <1>1, <1>2 DEF Hnsw!InMemory

LEMMA NewLibIsLib == ASSUME NEW room \in Nat PROVE Hnsw!NewLib(room) \in Hnsw!Lib
  BY DEF Hnsw!NewLib, Hnsw!Lib

LEMMA HnswInitially == Hnsw!Init => HnswInv /\ HnswContract!Init
<1> SUFFICES ASSUME Hnsw!Init PROVE HnswInv /\ HnswContract!Init
  OBVIOUS
<1>1. Hnsw!TypeOK
  <2>1. Room \in Nat /\ MaxAdds \in Nat /\ Hnsw!NewLib(Room) \in Hnsw!Lib
    BY BoundsAreNat, NewLibIsLib
  <2>2. /\ rows \in [Id -> Vec \cup {NoVec}] /\ idOf \in [Hnsw!Label -> SUBSET Id]
        /\ nextLabel \in 0..MaxAdds /\ Hnsw!Unlabelled \in [Id -> Hnsw!Label \cup {Hnsw!NoLabel}]
    BY <2>1 DEF Hnsw!Init, Hnsw!Unlabelled
  <2>3. 0 \in 0..MaxAdds
    BY <2>1
  <2>4. hDisk \in [lib : Hnsw!Lib, labelOf : [Id -> Hnsw!Label \cup {Hnsw!NoLabel}],
                  nextLabel : 0..MaxAdds, capacity : Nat, written : BOOLEAN, torn : BOOLEAN]
    BY <2>1, <2>2, <2>3 DEF Hnsw!Init
  <2> QED
    BY <2>1, <2>2, <2>4 DEF Hnsw!Init, Hnsw!TypeOK
<1>2. \A of, room : Hnsw!Live(Hnsw!NewLib(room)) = {}
  BY DEF Hnsw!Live, Hnsw!Points, Hnsw!NewLib
<1>3. HnswInv
  <2>1. OwnLabels(Hnsw!Unlabelled, 0) /\ Held(lib, Hnsw!Unlabelled)
    BY <1>2 DEF Hnsw!Init, OwnLabels, Held, Hnsw!Unlabelled
  <2>2. Named(lib, labelOf, idOf)
    BY <1>2 DEF Hnsw!Init, Named
  <2> QED
    BY <1>1, <2>1, <2>2 DEF Hnsw!Init, HnswInv, HnswFiles
<1>4. Hnsw!InMemory = [d \in Id |-> NoVec] /\ Hnsw!OnDisk = [d \in Id |-> NoVec]
  BY <1>2 DEF Hnsw!Init, Hnsw!InMemory, Hnsw!OnDisk, Hnsw!Found, Hnsw!Shown
<1> QED
  BY <1>3, <1>4 DEF Hnsw!Init, HnswContract!Init, HnswContract!Empty

\* The first half of an add, and all of a remove: the label of d is marked, if
\* the library has it, and names nothing.
LEMMA OldGone ==
    ASSUME HnswInv, NEW d \in Id
    PROVE  LET x == Hnsw!OldMarked(d) IN
           /\ x \in Hnsw!Lib /\ x.vec = lib.vec /\ Hnsw!Points(x) = Hnsw!Points(lib)
           /\ Hnsw!Live(x) = Hnsw!Live(lib) \ {labelOf[d]}
           /\ Hnsw!OldDropped(d) \in [Hnsw!Label -> SUBSET Id]
           /\ Hnsw!OldDropped(d) = [l \in Hnsw!Label |-> IF l = labelOf[d] THEN {} ELSE idOf[l]]
<1> DEFINE x == Hnsw!OldMarked(d)
           gone == /\ x \in Hnsw!Lib /\ x.vec = lib.vec /\ Hnsw!Points(x) = Hnsw!Points(lib)
                   /\ Hnsw!Live(x) = Hnsw!Live(lib) \ {labelOf[d]}
<1>0. lib \in Hnsw!Lib /\ idOf \in [Hnsw!Label -> SUBSET Id]
  BY DEF HnswInv, Hnsw!TypeOK
<1>1. ASSUME labelOf[d] \in Hnsw!Points(lib) PROVE gone
  <2>1. x = [lib EXCEPT !.marked = @ \cup {labelOf[d]}]
    BY <1>1 DEF Hnsw!OldMarked, Hnsw!Marked
  <2>2. labelOf[d] \in Hnsw!Label
    BY <1>1 DEF Hnsw!Points
  <2>3. x \in Hnsw!Lib /\ x.vec = lib.vec /\ x.marked = lib.marked \cup {labelOf[d]}
    BY <1>0, <2>1, <2>2 DEF Hnsw!Lib
  <2> QED
    BY <2>3 DEF Hnsw!Live, Hnsw!Points
<1>2. ASSUME labelOf[d] \notin Hnsw!Points(lib) PROVE gone
  <2>1. x = lib
    BY <1>2 DEF Hnsw!OldMarked, Hnsw!Marked
  <2> QED
    BY <1>0, <1>2, <2>1 DEF Hnsw!Live
<1>3. Hnsw!OldDropped(d) = [l \in Hnsw!Label |-> IF l = labelOf[d] THEN {} ELSE idOf[l]]
  BY <1>0, LabelTypes DEF Hnsw!OldDropped
<1>4. Hnsw!OldDropped(d) \in [Hnsw!Label -> SUBSET Id]
  BY <1>0, <1>3
<1> QED
  BY <1>1, <1>2, <1>3, <1>4

\* An id, without its label, leaves what is kept about the others.
LEMMA OthersKept ==
    ASSUME HnswInv, ~hTorn, NEW d \in Id, NEW e \in Id, e # d, NEW x, NEW of, NEW fresh,
           Hnsw!Live(x) = (Hnsw!Live(lib) \ {labelOf[d]}) \cup fresh,
           of[e] = labelOf[e], labelOf[e] \notin fresh
    PROVE  of[e] \in Hnsw!Live(x) <=> labelOf[e] \in Hnsw!Live(lib)
<1>1. labelOf[e] \in Hnsw!Live(lib) => labelOf[e] # Hnsw!NoLabel
  BY LabelTypes DEF Hnsw!Live, Hnsw!Points
<1>2. labelOf[e] # Hnsw!NoLabel => labelOf[e] # labelOf[d]
  BY DEF HnswInv, OwnLabels
<1> QED
  BY <1>1, <1>2

\* The room is made by Resized and changes nothing else.
LEMMA ResizedKeeps ==
    ASSUME NEW x \in Hnsw!Lib, capacity \in Nat
    PROVE  LET y == Hnsw!Resized(x) IN
           /\ y \in Hnsw!Lib /\ y.vec = x.vec /\ y.marked = x.marked
           /\ Hnsw!Points(y) = Hnsw!Points(x) /\ Hnsw!Live(y) = Hnsw!Live(x)
<1> DEFINE y == Hnsw!Resized(x)
<1>1. y \in Hnsw!Lib /\ y.vec = x.vec /\ y.marked = x.marked
  BY GrownIsNat DEF Hnsw!Resized, Hnsw!Lib
<1> QED
  BY <1>1 DEF Hnsw!Points, Hnsw!Live

LEMMA HnswAdds ==
    ASSUME HnswInv, NEW d \in Id, NEW v \in Vec, Hnsw!Add(d, v)
    PROVE  HnswInv' /\ HnswContract!Write(d, v)
<1> DEFINE x == Hnsw!Resized(Hnsw!OldMarked(d))
           n == nextLabel
<1>0. /\ rows' = [rows EXCEPT ![d] = v]
      /\ lib' = [x EXCEPT !.vec[n] = v, !.marked = @ \ {n}]
      /\ capacity' = Hnsw!Grown /\ labelOf' = [labelOf EXCEPT ![d] = n]
      /\ idOf' = [Hnsw!OldDropped(d) EXCEPT ![n] = {d}]
      /\ nextLabel' = n + 1 /\ hStep' = "changed"
      /\ hTorn' = hTorn /\ hDisk' = hDisk /\ n < MaxAdds
  BY DEF Hnsw!Add
<1>1. n \in Nat /\ n \in Hnsw!Label /\ MaxAdds \in Nat
  BY <1>0, LabelTypes, BoundsAreNat DEF HnswInv, Hnsw!TypeOK
<1>2. /\ x \in Hnsw!Lib /\ x.vec = lib.vec
      /\ Hnsw!Live(x) = Hnsw!Live(lib) \ {labelOf[d]} /\ Hnsw!Points(x) = Hnsw!Points(lib)
  BY OldGone, ResizedKeeps DEF HnswInv, Hnsw!TypeOK
<1>3. /\ Hnsw!OldDropped(d) \in [Hnsw!Label -> SUBSET Id]
      /\ Hnsw!OldDropped(d) = [l \in Hnsw!Label |-> IF l = labelOf[d] THEN {} ELSE idOf[l]]
  BY OldGone
<1> HIDE DEF x, n
<1>4. /\ lib' \in Hnsw!Lib /\ lib'.vec = [lib.vec EXCEPT ![n] = v]
      /\ lib'.marked = x.marked \ {n} /\ lib'.vec[n] = v
      /\ \A l \in Hnsw!Label : l # n => lib'.vec[l] = lib.vec[l]
  <2>1. x.vec \in [Hnsw!Label -> Vec \cup {NoVec}] /\ x.marked \in SUBSET Hnsw!Label
    BY <1>2 DEF Hnsw!Lib
  <2>2. lib'.vec = [x.vec EXCEPT ![n] = v] /\ lib'.marked = x.marked \ {n} /\ lib'.max = x.max
    BY <1>0, <1>2 DEF Hnsw!Lib
  <2>3. lib' = [vec |-> lib'.vec, marked |-> lib'.marked, max |-> lib'.max] /\ x.max \in Nat
    BY <1>0, <1>2 DEF Hnsw!Lib
  <2>4. lib'.vec \in [Hnsw!Label -> Vec \cup {NoVec}] /\ lib'.marked \in SUBSET Hnsw!Label
    BY <2>1, <2>2
  <2>5. lib' \in Hnsw!Lib
    BY <2>2, <2>3, <2>4 DEF Hnsw!Lib
  <2> QED
    BY <1>1, <1>2, <2>1, <2>2, <2>5
<1>5. /\ Hnsw!Points(lib') = Hnsw!Points(lib) \cup {n}
      /\ Hnsw!Live(lib') = (Hnsw!Live(lib) \ {labelOf[d]}) \cup {n}
  <2>1. v # NoVec
    BY NoVecIsNone
  <2>2. Hnsw!Points(lib') = Hnsw!Points(lib) \cup {n}
    BY <1>1, <1>4, <2>1 DEF Hnsw!Points
  <2> QED
    BY <1>2, <1>4, <2>2 DEF Hnsw!Live
<1>6. /\ labelOf'[d] = n
      /\ \A e \in Id : e # d => labelOf'[e] = labelOf[e]
      /\ \A e \in Id : labelOf[e] # n
      /\ labelOf' \in [Id -> Hnsw!Label \cup {Hnsw!NoLabel}]
  <2>1. labelOf \in [Id -> Hnsw!Label \cup {Hnsw!NoLabel}]
    BY DEF HnswInv, Hnsw!TypeOK
  <2>2. \A e \in Id : labelOf[e] # n
    BY <1>1, LabelTypes DEF HnswInv, OwnLabels, n
  <2> QED
    BY <1>0, <1>1, <2>1, <2>2
<1>7. /\ idOf' \in [Hnsw!Label -> SUBSET Id] /\ idOf'[n] = {d}
      /\ \A l \in Hnsw!Label : l # n => idOf'[l] = IF l = labelOf[d] THEN {} ELSE idOf[l]
  BY <1>0, <1>1, <1>3
<1>8. Hnsw!TypeOK'
  <2>1. capacity' \in Nat
    BY <1>0, GrownIsNat DEF HnswInv, Hnsw!TypeOK
  <2>2. nextLabel' \in 0..MaxAdds
    BY <1>0, <1>1
  <2>3. rows' \in [Id -> Vec \cup {NoVec}]
    BY <1>0 DEF HnswInv, Hnsw!TypeOK
  <2> QED
    BY <1>0, <1>4, <1>6, <1>7, <2>1, <2>2, <2>3
       DEF HnswInv, Hnsw!TypeOK, Hnsw!Lib, Hnsw!Label, Hnsw!NoLabel
<1>9. OwnLabels(labelOf', nextLabel')
  <2>1. \A e \in Id : labelOf[e] # Hnsw!NoLabel => labelOf[e] < n /\ labelOf[e] \in Nat
    BY LabelTypes DEF HnswInv, OwnLabels, n, Hnsw!TypeOK
  <2>2. \A e \in Id : labelOf'[e] # Hnsw!NoLabel => labelOf'[e] < n + 1
    BY <1>1, <1>6, <2>1
  <2>3. \A e, f \in Id : labelOf'[e] = labelOf'[f] /\ labelOf'[e] # Hnsw!NoLabel => e = f
    BY <1>6 DEF HnswInv, OwnLabels
  <2> QED
    BY <1>0, <2>2, <2>3 DEF OwnLabels
<1>10. ASSUME ~hTorn PROVE Held(lib', labelOf') /\ Named(lib', labelOf', idOf')
  <2>0. Held(lib, labelOf) /\ Named(lib, labelOf, idOf)
    BY <1>10 DEF HnswInv
  <2>1. \A e \in Id : labelOf'[e] # Hnsw!NoLabel => labelOf'[e] \in Hnsw!Points(lib')
    BY <1>5, <1>6, <2>0 DEF Held
  <2>2. ASSUME NEW l \in Hnsw!Live(lib') PROVE \E e \in Id : labelOf'[e] = l
    <3>1. CASE l = n
      BY <1>6, <3>1
    <3>2. CASE l # n
      <4>1. l \in Hnsw!Live(lib) /\ l # labelOf[d]
        BY <1>5, <3>2
      <4>2. PICK e \in Id : labelOf[e] = l
        BY <2>0, <4>1 DEF Held
      <4> QED
        BY <1>6, <4>1, <4>2
    <3> QED
      BY <3>1, <3>2
  <2>3. ASSUME NEW l \in Hnsw!Label, NEW e \in idOf'[l] PROVE labelOf'[e] = l
    <3>1. CASE l = n
      BY <1>6, <1>7, <3>1
    <3>2. CASE l # n
      <4>1. l # labelOf[d] /\ e \in idOf[l] /\ e \in Id
        BY <1>7, <3>2
      <4>2. labelOf[e] = l /\ e # d
        BY <2>0, <4>1 DEF Named
      <4> QED
        BY <1>6, <4>1, <4>2
    <3> QED
      BY <3>1, <3>2
  <2>4. ASSUME NEW l \in Hnsw!Live(lib'), NEW e \in Id, labelOf'[e] = l PROVE e \in idOf'[l]
    <3>1. CASE e = d
      BY <1>6, <1>7, <2>4, <3>1
    <3>2. CASE e # d
      <4>1. labelOf[e] = l /\ l # n /\ l \in Hnsw!Live(lib) /\ l # labelOf[d]
        BY <1>5, <1>6, <2>4, <3>2
      <4>2. e \in idOf[l] /\ l \in Hnsw!Label
        BY <2>0, <4>1 DEF Named, Hnsw!Live, Hnsw!Points
      <4> QED
        BY <1>7, <4>1, <4>2
    <3> QED
      BY <3>1, <3>2
  <2> QED
    BY <2>1, <2>2, <2>3, <2>4 DEF Held, Named
<1>11. HnswInv'
  <2>1. HnswFiles'
    BY <1>0 DEF HnswInv, HnswFiles, OwnLabels, Held, Hnsw!Live, Hnsw!Points, Hnsw!Label,
                Hnsw!NoLabel, Hnsw!Unlabelled
  <2>2. OwnLabels(labelOf, nextLabel)'
    BY <1>9 DEF OwnLabels, Hnsw!NoLabel
  <2>3. (~hTorn => Held(lib, labelOf) /\ Named(lib, labelOf, idOf))'
    BY <1>0, <1>10 DEF Held, Named, Hnsw!Live, Hnsw!Points, Hnsw!Label, Hnsw!NoLabel
  <2> QED
    BY <1>8, <2>1, <2>2, <2>3 DEF HnswInv
<1>12. Hnsw!InMemory' = HnswContract!With(Hnsw!InMemory, d, v)
  <2>1. CASE hTorn
    BY <1>0, <2>1 DEF Hnsw!InMemory, HnswContract!With
  <2>2. CASE ~hTorn
    <3>1. Hnsw!InMemory' = HnswAt(lib', labelOf') /\ Hnsw!InMemory = HnswAt(lib, labelOf)
      BY <1>0, <1>11, <2>2, HnswMemoryNext, HnswMemory
    <3>2. ASSUME NEW e \in Id
          PROVE  (IF labelOf'[e] \in Hnsw!Live(lib') THEN lib'.vec[labelOf'[e]] ELSE NoVec) =
                 IF e = d THEN v
                 ELSE IF labelOf[e] \in Hnsw!Live(lib) THEN lib.vec[labelOf[e]] ELSE NoVec
      <4>1. CASE e = d
        BY <1>4, <1>5, <1>6, <4>1
      <4>2. CASE e # d
        <5>1. labelOf'[e] = labelOf[e] /\ labelOf[e] # n
          BY <1>6, <4>2
        <5>2. labelOf'[e] \in Hnsw!Live(lib') <=> labelOf[e] \in Hnsw!Live(lib)
          BY <1>5, <2>2, <4>2, <5>1, OthersKept
        <5>3. labelOf[e] \in Hnsw!Live(lib) => lib'.vec[labelOf[e]] = lib.vec[labelOf[e]]
          BY <1>4, <5>1 DEF Hnsw!Live, Hnsw!Points
        <5> QED
          BY <4>2, <5>1, <5>2, <5>3
      <4> QED
        BY <4>1, <4>2
    <3>3. HnswAt(lib', labelOf') = [HnswAt(lib, labelOf) EXCEPT ![d] = v]
      BY <3>2 DEF HnswAt
    <3> QED
      BY <2>2, <3>1, <3>3, HnswMemory DEF HnswContract!With
  <2> QED
    BY <2>1, <2>2
<1>13. Hnsw!OnDisk' = Hnsw!OnDisk
  BY <1>0 DEF Hnsw!OnDisk
<1> QED
  BY <1>0, <1>11, <1>12, <1>13 DEF HnswContract!Write

\* What a step leaves of the index once d has lost its label: the ids kept about
\* the others, whatever becomes of d's own label.
LEMMA OldForgotten ==
    ASSUME HnswInv, ~hTorn, NEW d \in Id, NEW x \in Hnsw!Lib, NEW of,
           x.vec = lib.vec, Hnsw!Live(x) = Hnsw!Live(lib) \ {labelOf[d]},
           of \in {labelOf, [labelOf EXCEPT ![d] = Hnsw!NoLabel]}
    PROVE  /\ Held(x, of) /\ Named(x, of, Hnsw!OldDropped(d))
           /\ HnswAt(x, of) = [HnswAt(lib, labelOf) EXCEPT ![d] = NoVec]
<1>0. Held(lib, labelOf) /\ Named(lib, labelOf, idOf)
  BY DEF HnswInv
<1>1. /\ labelOf \in [Id -> Hnsw!Label \cup {Hnsw!NoLabel}]
      /\ \A e \in Id : e # d => of[e] = labelOf[e]
      /\ of[d] \in {labelOf[d], Hnsw!NoLabel}
  BY DEF HnswInv, Hnsw!TypeOK
<1>2. /\ Hnsw!Points(x) = Hnsw!Points(lib)
      /\ \A l \in Hnsw!Live(x) : l \in Hnsw!Live(lib) /\ l # labelOf[d]
                                 /\ l \in Hnsw!Label /\ l # Hnsw!NoLabel
  BY LabelTypes DEF Hnsw!Points, Hnsw!Live
<1>3. \A l \in Hnsw!Label :
         Hnsw!OldDropped(d)[l] = IF l = labelOf[d] THEN {} ELSE idOf[l]
  <2>1. Hnsw!OldDropped(d) = [l \in Hnsw!Label |-> IF l = labelOf[d] THEN {} ELSE idOf[l]]
    BY OldGone
  <2> QED
    BY <2>1
<1>4. Held(x, of)
  <2>1. \A e \in Id : of[e] # Hnsw!NoLabel => of[e] \in Hnsw!Points(x)
    BY <1>0, <1>1, <1>2 DEF Held
  <2>2. ASSUME NEW l \in Hnsw!Live(x) PROVE \E e \in Id : of[e] = l
    <3>1. PICK e \in Id : labelOf[e] = l
      BY <1>0, <1>2 DEF Held
    <3> QED
      BY <1>1, <1>2, <3>1
  <2> QED
    BY <2>1, <2>2 DEF Held
<1>5. Named(x, of, Hnsw!OldDropped(d))
  <2>1. ASSUME NEW l \in Hnsw!Label, NEW e \in Hnsw!OldDropped(d)[l] PROVE of[e] = l
    <3>1. l # labelOf[d] /\ e \in idOf[l] /\ e \in Id
      BY <1>3 DEF HnswInv, Hnsw!TypeOK
    <3>2. labelOf[e] = l
      BY <1>0, <3>1 DEF Named
    <3> QED
      BY <1>1, <3>1, <3>2
  <2>2. ASSUME NEW l \in Hnsw!Live(x), NEW e \in Id, of[e] = l PROVE e \in Hnsw!OldDropped(d)[l]
    <3>1. l \in Hnsw!Live(lib) /\ l # labelOf[d] /\ l \in Hnsw!Label /\ l # Hnsw!NoLabel
      BY <1>2
    <3>2. labelOf[e] = l
      BY <1>1, <2>2, <3>1
    <3> QED
      BY <1>0, <1>3, <3>1, <3>2 DEF Named
  <2> QED
    BY <2>1, <2>2 DEF Named
<1>6. ASSUME NEW e \in Id
      PROVE  (IF of[e] \in Hnsw!Live(x) THEN x.vec[of[e]] ELSE NoVec) =
             IF e = d THEN NoVec
             ELSE IF labelOf[e] \in Hnsw!Live(lib) THEN lib.vec[labelOf[e]] ELSE NoVec
  <2>1. CASE e = d
    BY <1>1, <1>2, <2>1
  <2>2. CASE e # d
    <3>1. of[e] \in Hnsw!Live(x) <=> labelOf[e] \in Hnsw!Live(lib)
      <4>1. Hnsw!Live(x) = (Hnsw!Live(lib) \ {labelOf[d]}) \cup {}
        OBVIOUS
      <4> QED
        BY <1>1, <2>2, <4>1, OthersKept
    <3> QED
      BY <1>1, <2>2, <3>1
  <2> QED
    BY <2>1, <2>2
<1> QED
  BY <1>4, <1>5, <1>6 DEF HnswAt

\* What an add that raises and a remove share.
LEMMA HnswForgets ==
    ASSUME HnswInv, NEW d \in Id, NEW x \in Hnsw!Lib, lib' = x, x.vec = lib.vec,
           Hnsw!Live(x) = Hnsw!Live(lib) \ {labelOf[d]},
           labelOf' \in {labelOf, [labelOf EXCEPT ![d] = Hnsw!NoLabel]},
           idOf' = Hnsw!OldDropped(d), nextLabel' \in {nextLabel, nextLabel + 1},
           nextLabel' \in 0..MaxAdds, capacity' \in Nat,
           rows' \in [Id -> Vec \cup {NoVec}], hStep' \in {hStep, "changed"},
           hStep = "ready", hTorn' = hTorn, hDisk' = hDisk
    PROVE  /\ HnswInv'
           /\ Hnsw!InMemory' = HnswContract!With(Hnsw!InMemory, d, NoVec)
           /\ Hnsw!OnDisk' = Hnsw!OnDisk
<1>1. labelOf' \in [Id -> Hnsw!Label \cup {Hnsw!NoLabel}] /\ nextLabel \in Nat
  BY DEF HnswInv, Hnsw!TypeOK
<1>2. Hnsw!TypeOK'
  <2>1. idOf' \in [Hnsw!Label -> SUBSET Id]
    BY OldGone
  <2> QED
    BY <1>1, <2>1 DEF HnswInv, Hnsw!TypeOK, Hnsw!Lib, Hnsw!Label, Hnsw!NoLabel
<1>3. OwnLabels(labelOf', nextLabel')
  <2>1. \A e \in Id : labelOf'[e] # Hnsw!NoLabel => labelOf'[e] = labelOf[e]
    BY DEF HnswInv, Hnsw!TypeOK
  <2>2. \A e \in Id : labelOf[e] # Hnsw!NoLabel => labelOf[e] < nextLabel /\ labelOf[e] \in Nat
    BY LabelTypes DEF HnswInv, OwnLabels, Hnsw!TypeOK
  <2>3. \A e \in Id : labelOf'[e] # Hnsw!NoLabel => labelOf'[e] < nextLabel'
    BY <1>1, <2>1, <2>2
  <2>4. \A e, f \in Id : labelOf'[e] = labelOf'[f] /\ labelOf'[e] # Hnsw!NoLabel => e = f
    BY <2>1 DEF HnswInv, OwnLabels
  <2> QED
    BY <2>3, <2>4 DEF OwnLabels
<1>4. ASSUME ~hTorn
      PROVE  /\ Held(lib', labelOf') /\ Named(lib', labelOf', idOf')
             /\ HnswAt(lib', labelOf') = [HnswAt(lib, labelOf) EXCEPT ![d] = NoVec]
  BY <1>4, OldForgotten
<1>5. HnswInv'
  <2>1. HnswFiles'
    BY DEF HnswInv, HnswFiles, OwnLabels, Held, Hnsw!Live, Hnsw!Points, Hnsw!Label,
           Hnsw!NoLabel, Hnsw!Unlabelled
  <2>2. OwnLabels(labelOf, nextLabel)'
    BY <1>3 DEF OwnLabels, Hnsw!NoLabel
  <2>3. (~hTorn => Held(lib, labelOf) /\ Named(lib, labelOf, idOf))'
    BY <1>4 DEF Held, Named, Hnsw!Live, Hnsw!Points, Hnsw!Label, Hnsw!NoLabel
  <2> QED
    BY <1>2, <2>1, <2>2, <2>3 DEF HnswInv
<1>6. Hnsw!InMemory' = HnswContract!With(Hnsw!InMemory, d, NoVec)
  <2>1. CASE hTorn
    BY <2>1 DEF Hnsw!InMemory, HnswContract!With
  <2>2. CASE ~hTorn
    BY <1>4, <1>5, <2>2, HnswMemoryNext, HnswMemory DEF HnswContract!With
  <2> QED
    BY <2>1, <2>2
<1>7. Hnsw!OnDisk' = Hnsw!OnDisk
  BY DEF Hnsw!OnDisk
<1> QED
  BY <1>5, <1>6, <1>7

LEMMA HnswRaises ==
    ASSUME HnswInv, NEW d \in Id, NEW v \in Vec, Hnsw!AddRaises(d, v)
    PROVE  HnswInv' /\ HnswContract!Refuse(d, v)
<1> DEFINE x == Hnsw!Resized(Hnsw!OldMarked(d))
<1>1. /\ rows' \in {rows, [rows EXCEPT ![d] = v]}
      /\ lib' = x /\ capacity' = Hnsw!Grown /\ idOf' = Hnsw!OldDropped(d)
      /\ nextLabel' = nextLabel + 1 /\ nextLabel < MaxAdds
      /\ labelOf' = labelOf /\ hTorn' = hTorn /\ hDisk' = hDisk /\ hStep' = hStep
      /\ hStep = "ready"
  BY DEF Hnsw!AddRaises
<1>2. /\ x \in Hnsw!Lib /\ x.vec = lib.vec
      /\ Hnsw!Live(x) = Hnsw!Live(lib) \ {labelOf[d]}
  BY OldGone, ResizedKeeps DEF HnswInv, Hnsw!TypeOK
<1>3. capacity' \in Nat /\ nextLabel' \in 0..MaxAdds
  BY <1>1, GrownIsNat, BoundsAreNat DEF HnswInv, Hnsw!TypeOK
<1>4. rows' \in [Id -> Vec \cup {NoVec}]
  BY <1>1 DEF HnswInv, Hnsw!TypeOK
<1> HIDE DEF x
<1>5. /\ HnswInv' /\ Hnsw!InMemory' = HnswContract!With(Hnsw!InMemory, d, NoVec)
      /\ Hnsw!OnDisk' = Hnsw!OnDisk
  BY <1>1, <1>2, <1>3, <1>4, HnswForgets
<1> QED
  BY <1>1, <1>5 DEF HnswContract!Refuse

LEMMA HnswRemoves ==
    ASSUME HnswInv, NEW d \in Id, Hnsw!Remove(d)
    PROVE  HnswInv' /\ HnswContract!Write(d, NoVec)
<1> DEFINE x == Hnsw!OldMarked(d)
<1>1. /\ rows' = [rows EXCEPT ![d] = NoVec] /\ lib' = x
      /\ labelOf' = [labelOf EXCEPT ![d] = Hnsw!NoLabel] /\ idOf' = Hnsw!OldDropped(d)
      /\ hStep = "ready" /\ hStep' = "changed"
      /\ nextLabel' = nextLabel /\ capacity' = capacity
      /\ hTorn' = hTorn /\ hDisk' = hDisk
  BY DEF Hnsw!Remove
<1>2. /\ x \in Hnsw!Lib /\ x.vec = lib.vec
      /\ Hnsw!Live(x) = Hnsw!Live(lib) \ {labelOf[d]}
  BY OldGone
<1>3. capacity' \in Nat /\ nextLabel' \in 0..MaxAdds
  BY <1>1 DEF HnswInv, Hnsw!TypeOK
<1>4. rows' \in [Id -> Vec \cup {NoVec}]
  BY <1>1 DEF HnswInv, Hnsw!TypeOK
<1> HIDE DEF x
<1>5. /\ HnswInv' /\ Hnsw!InMemory' = HnswContract!With(Hnsw!InMemory, d, NoVec)
      /\ Hnsw!OnDisk' = Hnsw!OnDisk
  BY <1>1, <1>2, <1>3, <1>4, HnswForgets
<1> QED
  BY <1>1, <1>5 DEF HnswContract!Write

LEMMA HnswRebuilds == ASSUME HnswInv, Hnsw!Rebuild PROVE HnswInv' /\ HnswContract!Rebuild
<1> DEFINE stored == {d \in Id : rows[d] # NoVec}
           n == Hnsw!Cardinality(stored)
           room == Hnsw!Max({Room, 2 * n})
<1>0. n \in Nat /\ IsFiniteSet(stored)
  BY IdFinite, FS_Subset, FS_CardinalityType, OneCardinality
<1>1. PICK s \in Hnsw!Bijection(0..(n - 1), stored) :
         /\ lib' = [Hnsw!NewLib(room) EXCEPT !.vec =
                       [l \in Hnsw!Label |-> IF l < n THEN rows[s[l]] ELSE NoVec]]
         /\ labelOf' = [d \in Id |-> IF d \in stored
                                     THEN CHOOSE l \in 0..(n - 1) : s[l] = d
                                     ELSE Hnsw!NoLabel]
         /\ idOf' = [l \in Hnsw!Label |-> IF l < n THEN {s[l]} ELSE {}]
         /\ nextLabel' = n /\ capacity' = room
  BY DEF Hnsw!Rebuild
<1>2. /\ hTorn' = FALSE /\ hStep' = "changed" /\ rows' = rows /\ hDisk' = hDisk
      /\ n <= MaxAdds
  BY DEF Hnsw!Rebuild
<1>3. /\ s \in [0..(n - 1) -> stored]
      /\ \A i, j \in 0..(n - 1) : s[i] = s[j] => i = j
      /\ \A d \in stored : \E i \in 0..(n - 1) : s[i] = d
  <2>1. s \in Bijection(0..(n - 1), stored)
    BY OneBijection
  <2> QED
    BY <2>1 DEF Bijection, Injection, Surjection, IsInjective
<1>4. room \in Nat
  <2>1. 2 * n \in Nat /\ Room \in Nat
    BY <1>0, BoundsAreNat
  <2> HIDE DEF n
  <2> QED
    BY <2>1, MaxOfTwo
<1> HIDE DEF n, room
<1>5. /\ \A i \in 0..(n - 1) : i \in Hnsw!Label /\ i < n
      /\ \A l \in Hnsw!Label : l < n => l \in 0..(n - 1)
  BY <1>0, <1>2, LabelTypes, BoundsAreNat DEF Hnsw!Label
<1>6. /\ \A d \in stored : labelOf'[d] \in 0..(n - 1) /\ s[labelOf'[d]] = d
      /\ \A d \in Id \ stored : labelOf'[d] = Hnsw!NoLabel
      /\ labelOf' \in [Id -> Hnsw!Label \cup {Hnsw!NoLabel}]
  <2>1. ASSUME NEW d \in stored PROVE labelOf'[d] \in 0..(n - 1) /\ s[labelOf'[d]] = d
    <3>1. labelOf'[d] = CHOOSE l \in 0..(n - 1) : s[l] = d
      BY <1>1
    <3>2. \E l \in 0..(n - 1) : s[l] = d
      BY <1>3
    <3> QED
      BY <3>1, <3>2
  <2>2. \A d \in Id \ stored : labelOf'[d] = Hnsw!NoLabel
    BY <1>1
  <2>3. \A d \in Id : labelOf'[d] \in Hnsw!Label \cup {Hnsw!NoLabel}
    BY <1>5, <2>1, <2>2
  <2> QED
    BY <1>1, <2>1, <2>2, <2>3
<1>7. /\ lib' \in Hnsw!Lib /\ lib'.marked = {}
      /\ lib'.vec = [l \in Hnsw!Label |-> IF l < n THEN rows[s[l]] ELSE NoVec]
  <2>1. [l \in Hnsw!Label |-> IF l < n THEN rows[s[l]] ELSE NoVec]
           \in [Hnsw!Label -> Vec \cup {NoVec}]
    BY <1>3, <1>5 DEF HnswInv, Hnsw!TypeOK
  <2> QED
    BY <1>1, <1>4, <2>1, NewLibIsLib DEF Hnsw!NewLib, Hnsw!Lib
<1>8. Hnsw!Points(lib') = 0..(n - 1) /\ Hnsw!Live(lib') = 0..(n - 1)
  <2>1. \A l \in Hnsw!Label : l < n => rows[s[l]] # NoVec
    BY <1>3, <1>5
  <2>2. Hnsw!Points(lib') = 0..(n - 1)
    BY <1>5, <1>7, <2>1 DEF Hnsw!Points
  <2> QED
    BY <1>7, <2>2 DEF Hnsw!Live
<1>9. /\ idOf' \in [Hnsw!Label -> SUBSET Id]
      /\ \A l \in Hnsw!Label : idOf'[l] = IF l < n THEN {s[l]} ELSE {}
  BY <1>1, <1>3, <1>5
<1>10. Hnsw!TypeOK'
  <2>1. nextLabel' \in 0..MaxAdds
    BY <1>0, <1>1, <1>2, BoundsAreNat
  <2> QED
    BY <1>1, <1>2, <1>4, <1>6, <1>7, <1>9, <2>1
       DEF HnswInv, Hnsw!TypeOK, Hnsw!Lib, Hnsw!Label, Hnsw!NoLabel
<1>11. OwnLabels(labelOf', nextLabel')
  <2>1. \A d \in Id : labelOf'[d] # Hnsw!NoLabel =>
           d \in stored /\ labelOf'[d] < n /\ s[labelOf'[d]] = d
    BY <1>0, <1>6
  <2>2. nextLabel' = n
    BY <1>1
  <2>3. \A d, e \in Id : labelOf'[d] = labelOf'[e] /\ labelOf'[d] # Hnsw!NoLabel => d = e
    BY <2>1
  <2> QED
    BY <2>1, <2>2, <2>3 DEF OwnLabels
<1>12. Held(lib', labelOf')
  <2>1. \A d \in Id : labelOf'[d] # Hnsw!NoLabel => labelOf'[d] \in Hnsw!Points(lib')
    BY <1>6, <1>8
  <2>2. ASSUME NEW l \in Hnsw!Live(lib') PROVE \E d \in Id : labelOf'[d] = l
    <3>1. l \in 0..(n - 1) /\ s[l] \in stored
      BY <1>3, <1>8
    <3>2. labelOf'[s[l]] = l
      BY <1>3, <1>6, <3>1
    <3> QED
      BY <3>1, <3>2
  <2> QED
    BY <2>1, <2>2 DEF Held
<1>13. Named(lib', labelOf', idOf')
  <2>1. ASSUME NEW l \in Hnsw!Label, NEW d \in idOf'[l] PROVE labelOf'[d] = l
    <3>1. l < n /\ d = s[l] /\ l \in 0..(n - 1) /\ d \in stored
      BY <1>3, <1>5, <1>9
    <3> QED
      BY <1>3, <1>6, <3>1
  <2>2. ASSUME NEW l \in Hnsw!Live(lib'), NEW d \in Id, labelOf'[d] = l PROVE d \in idOf'[l]
    <3>1. l \in 0..(n - 1) /\ l \in Hnsw!Label /\ l < n /\ l # Hnsw!NoLabel
      BY <1>5, <1>8, LabelTypes
    <3>2. d \in stored
      BY <1>6, <2>2, <3>1
    <3> QED
      BY <1>6, <1>9, <2>2, <3>1, <3>2
  <2> QED
    BY <2>1, <2>2 DEF Named
<1>14. HnswInv'
  <2>1. HnswFiles'
    BY <1>2 DEF HnswInv, HnswFiles, OwnLabels, Held, Hnsw!Live, Hnsw!Points, Hnsw!Label,
                Hnsw!NoLabel, Hnsw!Unlabelled
  <2>2. OwnLabels(labelOf, nextLabel)'
    BY <1>11 DEF OwnLabels, Hnsw!NoLabel
  <2>3. (~hTorn => Held(lib, labelOf) /\ Named(lib, labelOf, idOf))'
    BY <1>12, <1>13 DEF Held, Named, Hnsw!Live, Hnsw!Points, Hnsw!Label, Hnsw!NoLabel
  <2> QED
    BY <1>10, <2>1, <2>2, <2>3 DEF HnswInv
<1>15. Hnsw!InMemory' = rows
  <2>1. ASSUME NEW d \in Id
        PROVE  (IF labelOf'[d] \in Hnsw!Live(lib') THEN lib'.vec[labelOf'[d]] ELSE NoVec) = rows[d]
    <3>1. CASE d \in stored
      <4>1. labelOf'[d] \in 0..(n - 1) /\ s[labelOf'[d]] = d
        BY <1>6, <3>1
      <4>2. lib'.vec[labelOf'[d]] = rows[s[labelOf'[d]]]
        BY <1>5, <1>7, <4>1
      <4> QED
        BY <1>8, <4>1, <4>2
    <3>2. CASE d \notin stored
      <4>1. labelOf'[d] = Hnsw!NoLabel
        BY <1>6, <3>2
      <4>2. labelOf'[d] \notin Hnsw!Live(lib')
        BY <4>1, LabelTypes DEF Hnsw!Live, Hnsw!Points
      <4> QED
        BY <3>2, <4>2
    <3> QED
      BY <3>1, <3>2
  <2>2. HnswAt(lib', labelOf') = [d \in Id |-> rows[d]]
    BY <2>1 DEF HnswAt
  <2> QED
    BY <1>2, <1>14, <2>2, HnswMemoryNext DEF HnswInv, Hnsw!TypeOK
<1>16. Hnsw!OnDisk' = Hnsw!OnDisk
  BY <1>2 DEF Hnsw!OnDisk
<1> QED
  BY <1>2, <1>14, <1>15, <1>16 DEF HnswContract!Rebuild

LEMMA HnswSaves ==
    ASSUME HnswInv, Hnsw!WriteIndex \/ Hnsw!WriteLabels
    PROVE  HnswInv' /\ (HnswContract!StartSave \/ HnswContract!Save \/ UNCHANGED HnswContract!vars)
<1>1. /\ rows' = rows /\ lib' = lib /\ nextLabel' = nextLabel /\ capacity' = capacity
      /\ labelOf' = labelOf /\ idOf' = idOf /\ hTorn' = hTorn
      /\ Hnsw!InMemory' = Hnsw!InMemory
  BY DEF Hnsw!WriteIndex, Hnsw!WriteLabels, Hnsw!InMemory
<1>2. HnswFiles' /\ Hnsw!TypeOK' => HnswInv'
  BY <1>1 DEF HnswInv, OwnLabels, Held, Named, Hnsw!Live, Hnsw!Points, Hnsw!Label, Hnsw!NoLabel
<1>3. CASE Hnsw!WriteIndex
  <2>1. hDisk' = [hDisk EXCEPT !.lib = lib, !.torn = hDisk.written] /\ hStep' = "labels"
    BY <1>3 DEF Hnsw!WriteIndex
  <2>2. /\ hDisk'.lib = lib /\ hDisk'.torn = hDisk.written
        /\ hDisk'.labelOf = hDisk.labelOf /\ hDisk'.nextLabel = hDisk.nextLabel
        /\ hDisk'.written = hDisk.written
    BY <2>1 DEF HnswInv, Hnsw!TypeOK
  <2>3. Hnsw!TypeOK'
    BY <1>1, <2>1 DEF HnswInv, Hnsw!TypeOK, Hnsw!Lib, Hnsw!Label, Hnsw!NoLabel
  <2>4. HnswFiles'
    <3>1. OwnLabels(hDisk'.labelOf, hDisk'.nextLabel)
      BY <2>2 DEF HnswInv, HnswFiles
    <3>2. ~hDisk'.written => hDisk'.labelOf = Hnsw!Unlabelled /\ ~hDisk'.torn
      BY <2>2 DEF HnswInv, HnswFiles
    <3>3. ~(hDisk'.written /\ ~hDisk'.torn)
      BY <2>2
    <3> QED
      BY <1>1, <2>2, <3>1, <3>2, <3>3 DEF HnswFiles, OwnLabels, Hnsw!NoLabel, Hnsw!Unlabelled
  <2>5. HnswInv'
    BY <1>2, <2>3, <2>4
  <2>6. CASE hDisk.written
    <3>1. Hnsw!OnDisk' = Unsafe
      BY <2>2, <2>6 DEF Hnsw!OnDisk
    <3> QED
      BY <1>1, <2>5, <3>1 DEF HnswContract!StartSave
  <2>7. CASE ~hDisk.written
    <3>1. ~hDisk.torn /\ ~hDisk'.torn /\ hDisk.labelOf = Hnsw!Unlabelled
      BY <2>2, <2>7 DEF HnswInv, HnswFiles, Hnsw!TypeOK
    <3>2. \A x : Hnsw!Found(x, Hnsw!Inverted(Hnsw!Unlabelled)) = [d \in Id |-> NoVec]
      <4>1. \A l \in Hnsw!Label : Hnsw!Inverted(Hnsw!Unlabelled)[l] = {}
        BY LabelTypes DEF Hnsw!Inverted, Hnsw!Unlabelled
      <4>2. \A x : Hnsw!Shown(x, Hnsw!Inverted(Hnsw!Unlabelled)) = {}
        BY <4>1 DEF Hnsw!Shown, Hnsw!Live, Hnsw!Points
      <4> QED
        BY <4>2 DEF Hnsw!Found
    <3>3. Hnsw!OnDisk = [d \in Id |-> NoVec]
      BY <3>1, <3>2 DEF Hnsw!OnDisk
    <3>4. Hnsw!OnDisk' = Hnsw!Found(lib, Hnsw!Inverted(hDisk.labelOf))
      BY <1>1, <2>2, <3>1 DEF Hnsw!OnDisk, Hnsw!Found, Hnsw!Shown, Hnsw!Live, Hnsw!Points,
                              Hnsw!Inverted, Hnsw!Label
    <3> QED
      BY <1>1, <2>5, <3>1, <3>2, <3>3, <3>4 DEF HnswContract!vars
  <2> QED
    BY <2>6, <2>7
<1>4. CASE Hnsw!WriteLabels
  <2>1. /\ hDisk' = [hDisk EXCEPT !.labelOf = labelOf, !.nextLabel = nextLabel,
                                  !.capacity = capacity, !.written = TRUE, !.torn = hTorn]
        /\ hStep = "labels" /\ hStep' = "ready"
    BY <1>4 DEF Hnsw!WriteLabels
  <2>2. /\ hDisk'.lib = lib /\ hDisk'.torn = hTorn /\ hDisk'.labelOf = labelOf
        /\ hDisk'.nextLabel = nextLabel /\ hDisk'.written = TRUE
    BY <2>1 DEF HnswInv, Hnsw!TypeOK, HnswFiles
  <2>3. Hnsw!TypeOK'
    BY <1>1, <2>1 DEF HnswInv, Hnsw!TypeOK, Hnsw!Lib, Hnsw!Label, Hnsw!NoLabel
  <2>4. HnswFiles'
    <3>1. OwnLabels(hDisk'.labelOf, hDisk'.nextLabel)
      BY <2>2 DEF HnswInv
    <3>2. ~hDisk'.torn => Held(hDisk'.lib, hDisk'.labelOf)
      BY <2>2 DEF HnswInv
    <3> QED
      BY <2>1, <2>2, <3>1, <3>2 DEF HnswFiles, OwnLabels, Held, Hnsw!Live, Hnsw!Points,
                                    Hnsw!Label, Hnsw!NoLabel
  <2>5. HnswInv'
    BY <1>2, <2>3, <2>4
  <2>6. Hnsw!OnDisk' = Hnsw!InMemory
    <3>1. Hnsw!OnDisk' = IF hTorn THEN Unsafe ELSE Hnsw!Found(lib, Hnsw!Inverted(labelOf))
      BY <1>1, <2>2 DEF Hnsw!OnDisk, Hnsw!Found, Hnsw!Shown, Hnsw!Live, Hnsw!Points,
                        Hnsw!Inverted, Hnsw!Label
    <3>2. Hnsw!Found(lib, Hnsw!Inverted(labelOf)) = HnswAt(lib, labelOf)
      BY InvertedNames, HnswFoundAt DEF HnswInv, Hnsw!TypeOK
    <3> QED
      BY <3>1, <3>2, HnswMemory
  <2> QED
    BY <1>1, <2>5, <2>6 DEF HnswContract!Save
<1> QED
  BY <1>3, <1>4

LEMMA HnswReopens == ASSUME HnswInv, Hnsw!Reopen PROVE HnswInv' /\ HnswContract!Reopen
<1>1. /\ lib' = Hnsw!Loaded /\ nextLabel' = hDisk.nextLabel /\ capacity' = hDisk.capacity
      /\ labelOf' = hDisk.labelOf /\ idOf' = Hnsw!Inverted(hDisk.labelOf)
      /\ hTorn' = hDisk.torn /\ hStep' = "ready" /\ rows' = rows /\ hDisk' = hDisk
  BY DEF Hnsw!Reopen
<1>2. /\ hDisk.lib \in Hnsw!Lib /\ hDisk.capacity \in Nat /\ hDisk.nextLabel \in 0..MaxAdds
      /\ hDisk.labelOf \in [Id -> Hnsw!Label \cup {Hnsw!NoLabel}]
  BY DEF HnswInv, Hnsw!TypeOK
<1>3. /\ lib' \in Hnsw!Lib
      /\ hDisk.written => lib'.vec = hDisk.lib.vec /\ lib'.marked = hDisk.lib.marked
      /\ ~hDisk.written => lib' = Hnsw!NewLib(Room)
  <2>1. CASE hDisk.written
    <3>1. Hnsw!Max({hDisk.capacity, Hnsw!Count(hDisk.labelOf) + 1}) \in Nat
      BY <1>2, CountIsNat, MaxOfTwo
    <3>2. PICK m \in Nat : lib' = [hDisk.lib EXCEPT !.max = m]
      <4>1. hDisk.lib.max \in Nat
        BY <1>2 DEF Hnsw!Lib
      <4> QED
        BY <1>1, <2>1, <3>1, <4>1 DEF Hnsw!Loaded
    <3> QED
      BY <1>2, <2>1, <3>2 DEF Hnsw!Lib
  <2>2. CASE ~hDisk.written
    BY <1>1, <2>2, NewLibIsLib, BoundsAreNat DEF Hnsw!Loaded
  <2> QED
    BY <2>1, <2>2
<1>4. /\ hDisk.written => Hnsw!Points(lib') = Hnsw!Points(hDisk.lib) /\ Hnsw!Live(lib') = Hnsw!Live(hDisk.lib)
      /\ ~hDisk.written => Hnsw!Points(lib') = {} /\ Hnsw!Live(lib') = {}
  BY <1>3 DEF Hnsw!Points, Hnsw!Live, Hnsw!NewLib
<1>5. Hnsw!TypeOK'
  <2>1. Hnsw!Inverted(hDisk.labelOf) \in [Hnsw!Label -> SUBSET Id]
    BY DEF Hnsw!Inverted
  <2> QED
    BY <1>1, <1>2, <1>3, <2>1 DEF HnswInv, Hnsw!TypeOK, Hnsw!Lib, Hnsw!Label, Hnsw!NoLabel
<1>6. ASSUME ~hDisk.torn PROVE Held(lib', labelOf') /\ Named(lib', labelOf', idOf')
  <2>1. CASE hDisk.written
    BY <1>1, <1>4, <1>6, <2>1, InvertedNames DEF HnswInv, HnswFiles, Held
  <2>2. CASE ~hDisk.written
    <3>1. labelOf' = Hnsw!Unlabelled
      BY <1>1, <2>2 DEF HnswInv, HnswFiles
    <3> QED
      BY <1>1, <1>4, <2>2, <3>1, InvertedNames DEF Held, Hnsw!Unlabelled
  <2> QED
    BY <2>1, <2>2
<1>7. HnswInv'
  <2>1. HnswFiles'
    BY <1>1 DEF HnswInv, HnswFiles, OwnLabels, Held, Hnsw!Live, Hnsw!Points, Hnsw!Label,
                Hnsw!NoLabel, Hnsw!Unlabelled
  <2>2. OwnLabels(labelOf, nextLabel)'
    BY <1>1 DEF HnswInv, HnswFiles, OwnLabels, Hnsw!NoLabel
  <2>3. (~hTorn => Held(lib, labelOf) /\ Named(lib, labelOf, idOf))'
    BY <1>1, <1>6 DEF Held, Named, Hnsw!Live, Hnsw!Points, Hnsw!Label, Hnsw!NoLabel
  <2> QED
    BY <1>5, <2>1, <2>2, <2>3 DEF HnswInv
<1>8. Hnsw!InMemory' = Hnsw!OnDisk
  <2>1. CASE hDisk.torn
    BY <1>1, <2>1 DEF Hnsw!InMemory, Hnsw!OnDisk
  <2>2. CASE ~hDisk.torn
    <3>1. Hnsw!InMemory' = HnswAt(lib', hDisk.labelOf)
      BY <1>1, <1>7, <2>2, HnswMemoryNext
    <3>2. Hnsw!OnDisk = HnswAt(hDisk.lib, hDisk.labelOf)
      BY <1>2, <2>2, InvertedNames, HnswFoundAt DEF Hnsw!OnDisk
    <3>3. HnswAt(lib', hDisk.labelOf) = HnswAt(hDisk.lib, hDisk.labelOf)
      <4>1. CASE hDisk.written
        BY <1>3, <1>4, <4>1 DEF HnswAt
      <4>2. CASE ~hDisk.written
        <5>1. \A d \in Id : hDisk.labelOf[d] \notin Hnsw!Live(hDisk.lib)
          BY <4>2, LabelTypes
             DEF HnswInv, HnswFiles, Hnsw!Unlabelled, Hnsw!Live, Hnsw!Points
        <5> QED
          BY <1>4, <4>2, <5>1 DEF HnswAt
      <4> QED
        BY <4>1, <4>2
    <3> QED
      BY <3>1, <3>2, <3>3
  <2> QED
    BY <2>1, <2>2
<1>9. Hnsw!OnDisk' = Hnsw!OnDisk
  BY <1>1 DEF Hnsw!OnDisk
<1> QED
  BY <1>1, <1>7, <1>8, <1>9 DEF HnswContract!Reopen

LEMMA HnswSteps ==
    ASSUME HnswInv, Hnsw!Next PROVE HnswInv' /\ [HnswContract!Next]_HnswContract!vars
<1>1. ASSUME NEW d \in Id, NEW v \in Vec, Hnsw!Add(d, v)
      PROVE  HnswInv' /\ HnswContract!Next
  BY <1>1, HnswAdds DEF HnswContract!Next
<1>2. ASSUME NEW d \in Id, NEW v \in Vec, Hnsw!AddRaises(d, v)
      PROVE  HnswInv' /\ HnswContract!Next
  BY <1>2, HnswRaises DEF HnswContract!Next
<1>3. ASSUME NEW d \in Id, Hnsw!Remove(d) PROVE HnswInv' /\ HnswContract!Next
  BY <1>3, HnswRemoves DEF HnswContract!Next
<1>4. CASE Hnsw!Rebuild
  BY <1>4, HnswRebuilds DEF HnswContract!Next
<1>5. CASE Hnsw!WriteIndex \/ Hnsw!WriteLabels
  BY <1>5, HnswSaves DEF HnswContract!Next
<1>6. CASE Hnsw!Reopen
  BY <1>6, HnswReopens DEF HnswContract!Next
<1> QED
  BY <1>1, <1>2, <1>3, <1>4, <1>5, <1>6 DEF Hnsw!Next

-----------------------------------------------------------------------------
(* The index the configuration names, and the two it does not. *)

IndexInv ==
    /\ backend \in {"brute", "faiss", "hnswlib"}
    /\ BruteInv /\ FaissInv /\ HnswInv

LEMMA BruteRests ==
    ASSUME BruteInv, UNCHANGED bruteVars, rows' \in [Id -> Vec \cup {NoVec}] PROVE BruteInv'
  BY DEF bruteVars, BruteInv, Brute!TypeOK, Good, Distinct

LEMMA FaissRests ==
    ASSUME FaissInv, UNCHANGED faissVars, rows' \in [Id -> Vec \cup {NoVec}] PROVE FaissInv'
  BY DEF faissVars, FaissInv, Faiss!TypeOK, FaissFiles, Good, Distinct

LEMMA HnswRests ==
    ASSUME HnswInv, UNCHANGED hnswVars, rows' \in [Id -> Vec \cup {NoVec}] PROVE HnswInv'
<1>1. /\ lib' = lib /\ nextLabel' = nextLabel /\ capacity' = capacity /\ labelOf' = labelOf
      /\ idOf' = idOf /\ hTorn' = hTorn /\ hDisk' = hDisk /\ hStep' = hStep
  BY DEF hnswVars
<1>2. Hnsw!TypeOK'
  BY <1>1 DEF HnswInv, Hnsw!TypeOK, Hnsw!Lib, Hnsw!Label, Hnsw!NoLabel
<1>3. HnswFiles'
  BY <1>1 DEF HnswInv, HnswFiles, OwnLabels, Held, Hnsw!Live, Hnsw!Points, Hnsw!Label,
              Hnsw!NoLabel, Hnsw!Unlabelled
<1> QED
  BY <1>1, <1>2, <1>3
     DEF HnswInv, OwnLabels, Held, Named, Hnsw!Live, Hnsw!Points, Hnsw!Label, Hnsw!NoLabel

LEMMA RowsTyped ==
    /\ BruteInv => rows \in [Id -> Vec \cup {NoVec}]
    /\ FaissInv => rows \in [Id -> Vec \cup {NoVec}]
    /\ HnswInv => rows \in [Id -> Vec \cup {NoVec}]
  BY DEF BruteInv, Brute!TypeOK, FaissInv, Faiss!TypeOK, HnswInv, Hnsw!TypeOK

LEMMA Initially == Init => IndexInv /\ Contract!Init
<1> SUFFICES ASSUME Init PROVE IndexInv /\ Contract!Init
  OBVIOUS
<1>1. /\ BruteInv /\ BruteContract!Init /\ FaissInv /\ FaissContract!Init
      /\ HnswInv /\ HnswContract!Init
  BY BruteInitially, FaissInitially, HnswInitially DEF Init
<1>2. rows = [d \in Id |-> NoVec] /\ InMemory = [d \in Id |-> NoVec] /\ OnDisk = [d \in Id |-> NoVec]
  BY <1>1 DEF BruteContract!Init, FaissContract!Init, HnswContract!Init, BruteContract!Empty,
              FaissContract!Empty, HnswContract!Empty, InMemory, OnDisk
<1> QED
  BY <1>1, <1>2 DEF Init, IndexInv, Contract!Init, Contract!Empty

LEMMA Steps == IndexInv /\ [Next]_vars => IndexInv' /\ [Contract!Next]_Contract!vars
<1> SUFFICES ASSUME IndexInv, [Next]_vars
             PROVE  IndexInv' /\ [Contract!Next]_Contract!vars
  OBVIOUS
<1>1. CASE backend = "brute" /\ Brute!Next /\ UNCHANGED <<backend, faissVars, hnswVars>>
  <2>1. BruteInv' /\ BruteContract!Next
    BY <1>1, BruteSteps DEF IndexInv
  <2>2. rows' \in [Id -> Vec \cup {NoVec}]
    BY <2>1 DEF BruteInv, Brute!TypeOK
  <2>3. IndexInv'
    BY <1>1, <2>1, <2>2, FaissRests, HnswRests DEF IndexInv
  <2>4. /\ InMemory = Brute!InMemory /\ InMemory' = Brute!InMemory'
        /\ OnDisk = Brute!OnDisk /\ OnDisk' = Brute!OnDisk'
    BY <1>1 DEF InMemory, OnDisk
  <2>5. Contract!Next
    BY <2>1, <2>4
       DEF BruteContract!Next, BruteContract!Write, BruteContract!Refuse, BruteContract!With,
           BruteContract!Rebuild, BruteContract!StartSave, BruteContract!Save,
           BruteContract!Reopen, Contract!Next, Contract!Write, Contract!Refuse, Contract!With,
           Contract!Rebuild, Contract!StartSave, Contract!Save, Contract!Reopen
  <2> QED
    BY <2>3, <2>5
<1>2. CASE backend = "faiss" /\ Faiss!Next /\ UNCHANGED <<backend, bruteVars, hnswVars>>
  <2>1. FaissInv' /\ [FaissContract!Next]_FaissContract!vars
    BY <1>2, FaissSteps DEF IndexInv
  <2>2. rows' \in [Id -> Vec \cup {NoVec}]
    BY <2>1 DEF FaissInv, Faiss!TypeOK
  <2>3. IndexInv'
    BY <1>2, <2>1, <2>2, BruteRests, HnswRests DEF IndexInv
  <2>4. /\ InMemory = Faiss!InMemory /\ InMemory' = Faiss!InMemory'
        /\ OnDisk = Faiss!OnDisk /\ OnDisk' = Faiss!OnDisk'
    BY <1>2 DEF InMemory, OnDisk
  <2>5. [Contract!Next]_Contract!vars
    BY <2>1, <2>4
       DEF FaissContract!vars, FaissContract!Next, FaissContract!Write, FaissContract!Refuse,
           FaissContract!With, FaissContract!Rebuild, FaissContract!StartSave,
           FaissContract!Save, FaissContract!Reopen, Contract!vars, Contract!Next,
           Contract!Write, Contract!Refuse, Contract!With, Contract!Rebuild,
           Contract!StartSave, Contract!Save, Contract!Reopen
  <2> QED
    BY <2>3, <2>5
<1>3. CASE backend = "hnswlib" /\ Hnsw!Next /\ UNCHANGED <<backend, bruteVars, faissVars>>
  <2>1. HnswInv' /\ [HnswContract!Next]_HnswContract!vars
    BY <1>3, HnswSteps DEF IndexInv
  <2>2. rows' \in [Id -> Vec \cup {NoVec}]
    BY <2>1 DEF HnswInv, Hnsw!TypeOK
  <2>3. IndexInv'
    BY <1>3, <2>1, <2>2, BruteRests, FaissRests DEF IndexInv
  <2>4. /\ InMemory = Hnsw!InMemory /\ InMemory' = Hnsw!InMemory'
        /\ OnDisk = Hnsw!OnDisk /\ OnDisk' = Hnsw!OnDisk'
    BY <1>3 DEF InMemory, OnDisk
  <2>5. [Contract!Next]_Contract!vars
    BY <2>1, <2>4
       DEF HnswContract!vars, HnswContract!Next, HnswContract!Write, HnswContract!Refuse,
           HnswContract!With, HnswContract!Rebuild, HnswContract!StartSave,
           HnswContract!Save, HnswContract!Reopen, Contract!vars, Contract!Next,
           Contract!Write, Contract!Refuse, Contract!With, Contract!Rebuild,
           Contract!StartSave, Contract!Save, Contract!Reopen
  <2> QED
    BY <2>3, <2>5
<1>4. CASE UNCHANGED vars
  <2>1. UNCHANGED <<backend, rows, bruteVars, faissVars, hnswVars>>
    BY <1>4 DEF vars
  <2>2. rows' \in [Id -> Vec \cup {NoVec}]
    BY <2>1, RowsTyped DEF IndexInv
  <2>3. IndexInv'
    BY <2>1, <2>2, BruteRests, FaissRests, HnswRests DEF IndexInv
  <2>4. InMemory' = InMemory /\ OnDisk' = OnDisk
    BY <2>1 DEF bruteVars, faissVars, hnswVars, InMemory, OnDisk, Brute!InMemory, Brute!OnDisk,
                Faiss!InMemory, Faiss!OnDisk, Hnsw!InMemory, Hnsw!OnDisk
  <2> QED
    BY <2>1, <2>3, <2>4 DEF Contract!vars
<1> QED
  BY <1>1, <1>2, <1>3, <1>4 DEF Next

-----------------------------------------------------------------------------
(* How many ids a search finds. *)

LEMMA MinOfTwo ==
    ASSUME NEW i \in Nat, NEW j \in Nat
    PROVE  Min({i, j}) = IF i <= j THEN i ELSE j
<1>1. CASE i <= j
  <2>1. \A x \in {i, j} : i <= x
    BY <1>1
  <2>2. \A x \in {i, j} : (\A y \in {i, j} : x <= y) => x = i
    BY <1>1
  <2> QED
    BY <1>1, <2>1, <2>2 DEF Min
<1>2. CASE ~(i <= j)
  <2>1. \A x \in {i, j} : j <= x
    BY <1>2
  <2>2. \A x \in {i, j} : (\A y \in {i, j} : x <= y) => x = j
    BY <1>2
  <2> QED
    BY <1>2, <2>1, <2>2 DEF Min
<1> QED
  BY <1>1, <1>2

\* There are as many ids as positions that are not gone.
LEMMA LiveCount ==
    ASSUME NEW s \in Seq(Id), NEW gone \in SUBSET (1..Len(s)),
           NEW p \in [Id -> 0..Len(s)], Good(s, gone, p)
    PROVE  /\ Cardinality(gone) \in Nat /\ Cardinality(gone) <= Len(s)
           /\ Cardinality(DOMAIN s \ gone) = Len(s) - Cardinality(gone)
           /\ Cardinality({d \in Id : p[d] # 0}) = Len(s) - Cardinality(gone)
<1> DEFINE n == Len(s)
           held == {d \in Id : p[d] # 0}
           f == [d \in held |-> p[d]]
<1>1. n \in Nat /\ DOMAIN s = 1..n
  OBVIOUS
<1>2. IsFiniteSet(1..n) /\ Cardinality(1..n) = n
  <2>1. 1 \in Int /\ n \in Int /\ (IF 1 > n THEN 0 ELSE n - 1 + 1) = n
    BY <1>1
  <2> HIDE DEF n
  <2> QED
    BY <2>1, FS_Interval
<1>3. /\ Cardinality(gone) \in Nat /\ Cardinality(gone) <= n
      /\ Cardinality((1..n) \ gone) = n - Cardinality(gone)
  <2>1. IsFiniteSet(gone) /\ Cardinality(gone) <= n
    BY <1>2, FS_Subset
  <2>2. Cardinality((1..n) \ gone) = n - Cardinality((1..n) \cap gone)
    BY <1>2, FS_Difference
  <2>3. (1..n) \cap gone = gone
    OBVIOUS
  <2> QED
    BY <2>1, <2>2, <2>3, FS_CardinalityType
<1>4. f \in Bijection(held, (1..n) \ gone)
  <2>1. f \in [held -> (1..n) \ gone]
    BY <1>1 DEF Good
  <2>2. \A d, e \in held : f[d] = f[e] => d = e
    BY DEF Good
  <2>3. ASSUME NEW i \in (1..n) \ gone PROVE \E d \in held : f[d] = i
    <3>1. s[i] \in Id /\ p[s[i]] = i /\ i # 0
      BY <1>1 DEF Good
    <3> QED
      BY <3>1
  <2> QED
    BY <2>1, <2>2, <2>3 DEF Bijection, Injection, Surjection, IsInjective
<1>5. Cardinality(held) = Cardinality((1..n) \ gone)
  <2>1. held \in SUBSET Id
    OBVIOUS
  <2>2. IsFiniteSet(held)
    BY <2>1, IdFinite, FS_Subset
  <2>3. ExistsBijection(held, (1..n) \ gone)
    BY <1>4 DEF ExistsBijection
  <2> QED
    BY <2>2, <2>3, FS_Bijection
<1> QED
  BY <1>1, <1>3, <1>5

LEMMA BruteYields ==
    ASSUME BruteInv, NEW k \in Nat
    PROVE  Brute!Yields(k) = Min({k, Cardinality({d \in Id : Brute!InMemory[d] # NoVec})})
<1>1. \A d \in Id : Brute!InMemory[d] # NoVec <=> pos[d] # 0
  <2>1. Brute!InMemory = At(matrix, pos)
    BY BruteMemory
  <2>2. \A d \in Id : pos[d] # 0 => matrix[pos[d]] \in Vec
    BY DEF BruteInv, Brute!TypeOK
  <2> QED
    BY <2>1, <2>2, NoVecIsNone DEF At
<1>2. {d \in Id : Brute!InMemory[d] # NoVec} = {d \in Id : pos[d] # 0}
  BY <1>1
<1>3. Cardinality({d \in Id : pos[d] # 0}) = Len(ids)
  <2>1. Cardinality({}) = 0 /\ {} \in SUBSET (1..Len(ids))
    BY FS_EmptySet
  <2>2. Cardinality({d \in Id : pos[d] # 0}) = Len(ids) - Cardinality({})
    BY <2>1, LiveCount DEF BruteInv, Brute!TypeOK
  <2> QED
    BY <2>1, <2>2 DEF BruteInv, Brute!TypeOK
<1> QED
  BY <1>2, <1>3, OneMaxMin DEF Brute!Yields

LEMMA FaissYields ==
    ASSUME FaissInv, ~fTorn, NEW k \in Nat, Cardinality(deleted) <= k
    PROVE  Faiss!Yields(k) = Min({k, Cardinality({d \in Id : Faiss!InMemory[d] # NoVec})})
<1> DEFINE n == Len(labels)
           gone == Cardinality(deleted)
<1>1. \A d \in Id : Faiss!InMemory[d] # NoVec <=> posOf[d] # 0
  <2>1. Faiss!InMemory = At(vectors, posOf)
    BY FaissMemory
  <2>2. \A d \in Id : posOf[d] # 0 => vectors[posOf[d]] \in Vec
    BY DEF FaissInv, Faiss!TypeOK
  <2> QED
    BY <2>1, <2>2, NoVecIsNone DEF At
<1>2. {d \in Id : Faiss!InMemory[d] # NoVec} = {d \in Id : posOf[d] # 0}
  BY <1>1
<1>3. /\ n \in Nat /\ gone \in Nat /\ gone <= n
      /\ Cardinality(DOMAIN labels \ deleted) = n - gone
      /\ Cardinality({d \in Id : posOf[d] # 0}) = n - gone
  <2>1. /\ labels \in Seq(Id) /\ deleted \in SUBSET (1..Len(labels))
        /\ posOf \in [Id -> 0..Len(labels)] /\ Good(labels, deleted, posOf)
    BY DEF FaissInv, Faiss!TypeOK
  <2>2. /\ Cardinality(deleted) \in Nat /\ Cardinality(deleted) <= Len(labels)
        /\ Cardinality(DOMAIN labels \ deleted) = Len(labels) - Cardinality(deleted)
        /\ Cardinality({d \in Id : posOf[d] # 0}) = Len(labels) - Cardinality(deleted)
    BY <2>1, LiveCount, Zenon
  <2> QED
    BY <2>1, <2>2
<1>4. Faiss!Shown(labels, deleted, posOf) = DOMAIN labels \ deleted
  BY DEF Faiss!Shown, FaissInv, Good
<1>5. Faiss!Want(k) = IF n <= 2 * k THEN n ELSE 2 * k
  BY <1>3, MinOfTwo, OneMaxMin DEF Faiss!Want
<1>6. Faiss!Yields(k) = IF n - (n - gone) >= Faiss!Want(k) THEN 0
                        ELSE Min({k, Faiss!Want(k) - (n - (n - gone))})
  BY <1>3, <1>4, OneCardinality, OneMaxMin DEF Faiss!Yields
<1> HIDE DEF n, gone
<1>7. n - (n - gone) = gone /\ n - gone \in Nat /\ gone <= k
  BY <1>3 DEF gone
<1>8. Min({k, n - gone}) = IF k <= n - gone THEN k ELSE n - gone
  BY <1>7, MinOfTwo
<1>9. Faiss!Yields(k) = Min({k, n - gone})
  <2>1. CASE gone >= Faiss!Want(k)
    BY <1>3, <1>5, <1>6, <1>7, <1>8, <2>1
  <2>2. CASE ~(gone >= Faiss!Want(k))
    <3>1. Faiss!Want(k) - gone \in Nat
      BY <1>3, <1>5, <2>2
    <3>2. Min({k, Faiss!Want(k) - gone}) =
              IF k <= Faiss!Want(k) - gone THEN k ELSE Faiss!Want(k) - gone
      BY <3>1, MinOfTwo
    <3>3. Faiss!Yields(k) = Min({k, Faiss!Want(k) - gone})
      BY <1>6, <1>7, <2>2
    <3> QED
      BY <1>3, <1>5, <1>7, <1>8, <2>2, <3>2, <3>3
  <2> QED
    BY <2>1, <2>2
<1> QED
  BY <1>2, <1>3, <1>9

LEMMA HnswYields ==
    ASSUME HnswInv, ~hTorn, NEW k \in Nat, Refused = {}
    PROVE  Hnsw!Yields(k) = Min({k, Cardinality({d \in Id : Hnsw!InMemory[d] # NoVec})})
<1> DEFINE held == {d \in Id : labelOf[d] # Hnsw!NoLabel}
           n == Cardinality(held)
           live == Hnsw!Live(lib)
           f == [d \in held |-> labelOf[d]]
<1>0. Held(lib, labelOf) /\ Named(lib, labelOf, idOf)
  BY DEF HnswInv
<1>1. \A d \in held : labelOf[d] \in live /\ lib.vec[labelOf[d]] # NoVec
  BY <1>0 DEF Refused, Hnsw!Refused, Held, Hnsw!Live, Hnsw!Points
<1>2. {d \in Id : Hnsw!InMemory[d] # NoVec} = held
  <2>1. \A d \in Id : labelOf[d] \in live => d \in held
    BY LabelTypes DEF Hnsw!Live, Hnsw!Points
  <2>2. Hnsw!InMemory = HnswAt(lib, labelOf)
    BY HnswMemory
  <2> QED
    BY <1>1, <2>1, <2>2 DEF HnswAt
<1>3. n \in Nat /\ IsFiniteSet(held)
  <2>1. held \in SUBSET Id
    OBVIOUS
  <2> QED
    BY <2>1, IdFinite, FS_Subset, FS_CardinalityType
<1>4. Cardinality(live) = n
  <2>1. f \in [held -> live]
    BY <1>1
  <2>2. \A d, e \in held : f[d] = f[e] => d = e
    BY DEF HnswInv, OwnLabels
  <2>3. ASSUME NEW l \in live PROVE \E d \in held : f[d] = l
    <3>1. PICK d \in Id : labelOf[d] = l
      BY <1>0 DEF Held
    <3>2. l # Hnsw!NoLabel
      BY LabelTypes DEF Hnsw!Live, Hnsw!Points
    <3> QED
      BY <3>1, <3>2
  <2>4. f \in Bijection(held, live)
    BY <2>1, <2>2, <2>3 DEF Bijection, Injection, Surjection, IsInjective
  <2>5. ExistsBijection(held, live)
    BY <2>4 DEF ExistsBijection
  <2> QED
    BY <1>3, <2>5, FS_Bijection
<1>5. live \ Hnsw!Shown(lib, idOf) = {}
  <2>1. ASSUME NEW l \in live PROVE idOf[l] # {}
    <3>1. PICK d \in Id : labelOf[d] = l
      BY <1>0 DEF Held
    <3> QED
      BY <1>0, <3>1 DEF Named
  <2> QED
    BY <2>1 DEF Hnsw!Shown
<1>6. Hnsw!Count(labelOf) = n
  BY OneCardinality DEF Hnsw!Count
<1>7. Hnsw!Want(k) = IF n <= 2 * k THEN n ELSE 2 * k
  BY <1>3, <1>6, MinOfTwo, OneMaxMin DEF Hnsw!Want
<1>8. Hnsw!Yields(k) = IF Hnsw!Want(k) > n \/ 0 >= Hnsw!Want(k) THEN 0
                       ELSE Min({k, Hnsw!Want(k) - 0})
  <2>1. Cardinality({}) = 0
    BY FS_EmptySet
  <2> QED
    BY <1>4, <1>5, <2>1, OneCardinality, OneMaxMin DEF Hnsw!Yields
<1> HIDE DEF n, held
<1>9. Min({k, n}) = IF k <= n THEN k ELSE n
  BY <1>3, MinOfTwo
<1>10. Min({k, Hnsw!Want(k)}) = IF k <= Hnsw!Want(k) THEN k ELSE Hnsw!Want(k)
  BY <1>3, <1>7, MinOfTwo
<1>11. Hnsw!Yields(k) = Min({k, n})
  BY <1>3, <1>7, <1>8, <1>9, <1>10
<1> QED
  BY <1>2, <1>11 DEF n

LEMMA Yields == IndexInv => SearchYields
<1> SUFFICES ASSUME IndexInv, InMemory # Unsafe, NEW k \in SearchSize
             PROVE  CASE backend = "brute" -> Brute!Yields(k) = Min({k, Cardinality({d \in Id : InMemory[d] # NoVec})})
                      [] backend = "faiss" -> Cardinality(deleted) <= k =>
                             Faiss!Yields(k) = Min({k, Cardinality({d \in Id : InMemory[d] # NoVec})})
                      [] OTHER -> Refused = {} =>
                             Hnsw!Yields(k) = Min({k, Cardinality({d \in Id : InMemory[d] # NoVec})})
  BY DEF SearchYields
<1>0. k \in Nat
  BY SearchSizeIsNat
<1>1. CASE backend = "brute"
  <2>1. InMemory = Brute!InMemory
    BY <1>1 DEF InMemory
  <2> QED
    BY <1>0, <1>1, <2>1, BruteYields DEF IndexInv
<1>2. CASE backend = "faiss"
  <2>1. InMemory = Faiss!InMemory /\ ~fTorn
    BY <1>2 DEF InMemory, Faiss!InMemory
  <2> QED
    BY <1>0, <1>2, <2>1, FaissYields DEF IndexInv
<1>3. CASE backend = "hnswlib"
  <2>1. InMemory = Hnsw!InMemory /\ ~hTorn
    BY <1>3 DEF InMemory, Hnsw!InMemory
  <2> QED
    BY <1>0, <1>3, <2>1, HnswYields DEF IndexInv
<1> QED
  BY <1>1, <1>2, <1>3 DEF IndexInv

-----------------------------------------------------------------------------

\* Whichever backend is configured, its labels, positions and files keep their
\* types and their bounds, and those of the other two as well.
THEOREM TypeCorrect == Spec => []TypeOK
<1>1. IndexInv => TypeOK
  BY DEF IndexInv, BruteInv, FaissInv, HnswInv, TypeOK
<1> QED
  BY <1>1, Initially, Steps, PTL DEF Spec

\* Whichever backend is configured implements the contract of a vector index:
\* through every replacement, removal, refusal, rebuild, save, crash between two
\* files and reopening, search compares an id with the last embedding added for
\* it, or with nothing (VectorIndex, AnnVectorIndex and FaissVectorIndex).
THEOREM Implements == Spec => ImplementsContract
  BY Initially, Steps, PTL DEF Spec, ImplementsContract, Contract!Spec

\* A search for k finds k ids, or all there are, whichever backend is configured:
\* the oversampling by two is enough while no more than k positions are soft
\* deleted, and while hnswlib has refused nothing (search, ann_index.py).
THEOREM SearchFindsEnough == Spec => []SearchYields
<1>1. IndexInv => SearchYields
  BY Yields
<1> QED
  BY <1>1, Initially, Steps, PTL DEF Spec
=============================================================================
