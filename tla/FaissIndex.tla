----------------------------- MODULE FaissIndex -----------------------------
(***************************************************************************)
(* FaissVectorIndex (storage/ann_index.py).  The library's index only      *)
(* grows: a vector that was replaced or removed keeps its position, and    *)
(* search skips it.  persist writes the library's index first and the      *)
(* labels second; torn is history, and tells that a process ended between  *)
(* the two and what it left has been read.                                 *)
(***************************************************************************)
EXTENDS IndexConstants, Sequences, Functions, FiniteSetsExt

VARIABLES
    rows,      \* the embeddings the repository stores
    vectors,   \* the library's index: one vector per position
    labels,    \* _labels: the id at each position
    posOf,     \* _pos_of: the live position of an id, 0 for none
    deleted,   \* _deleted
    torn,      \* the index was read from files of two different saves
    disk,      \* the two files; written tells that the second exists
    step       \* "ready" for a call, "changed" by one and not yet saved, or
               \* "labels": the first file is written, the second is not

vars == <<rows, vectors, labels, posOf, deleted, torn, disk, step>>

Init ==
    /\ rows = [d \in Id |-> NoVec]
    /\ vectors = <<>> /\ labels = <<>> /\ posOf = [d \in Id |-> 0] /\ deleted = {}
    /\ torn = FALSE
    /\ disk = [vectors |-> <<>>, labels |-> <<>>, deleted |-> {},
               written |-> FALSE, torn |-> FALSE]
    /\ step = "ready"

Add(d, v) ==
    /\ step = "ready" /\ Max({Len(labels), Len(vectors)}) < MaxAdds
    /\ rows' = [rows EXCEPT ![d] = v]
    /\ deleted' = (deleted \cup {posOf[d]}) \ {0}
    /\ vectors' = Append(vectors, v)
    /\ labels' = Append(labels, d)
    /\ posOf' = [posOf EXCEPT ![d] = Len(labels) + 1]
    /\ step' = "changed"
    /\ UNCHANGED <<torn, disk>>

\* Mutant of Remove: the position is forgotten and not marked.
RemoveUnmarked(d) ==
    /\ step = "ready"
    /\ rows' = [rows EXCEPT ![d] = NoVec]
    /\ posOf' = [posOf EXCEPT ![d] = 0]
    /\ step' = "changed"
    /\ UNCHANGED <<vectors, labels, deleted, torn, disk>>

Remove(d) ==
    /\ step = "ready"
    /\ rows' = [rows EXCEPT ![d] = NoVec]
    /\ deleted' = (deleted \cup {posOf[d]}) \ {0}
    /\ posOf' = [posOf EXCEPT ![d] = 0]
    /\ step' = "changed"
    /\ UNCHANGED <<vectors, labels, torn, disk>>

\* _pos_of as load makes it: the last position that is not deleted.
LivePositions(s, gone) ==
    [d \in Id |-> LET live == {i \in DOMAIN s \ gone : s[i] = d}
                  IN  IF live = {} THEN 0 ELSE Max(live)]

\* rebuild adds the stored embeddings one by one, in the order of the table.
Rebuild ==
    /\ step = "ready"
    /\ LET stored == {d \in Id : rows[d] # NoVec}
       IN  \E s \in Bijection(1..Cardinality(stored), stored) :
              /\ labels' = s
              /\ vectors' = [i \in DOMAIN s |-> rows[s[i]]]
              /\ posOf' = LivePositions(s, {})
    /\ deleted' = {} /\ torn' = FALSE
    /\ step' = "changed"
    /\ UNCHANGED <<rows, disk>>

-----------------------------------------------------------------------------
(* persist and load. *)

WriteIndex ==
    /\ step # "labels"
    /\ disk' = [disk EXCEPT !.vectors = vectors, !.torn = disk.written]
    /\ step' = "labels"
    /\ UNCHANGED <<rows, vectors, labels, posOf, deleted, torn>>

WriteLabels ==
    /\ step = "labels"
    /\ disk' = [disk EXCEPT !.labels = labels, !.deleted = deleted,
                            !.written = TRUE, !.torn = torn]
    /\ step' = "ready"
    /\ UNCHANGED <<rows, vectors, labels, posOf, deleted, torn>>

\* load, in the process that opens the index next; the last one may have ended
\* anywhere, within persist too.  Without a labels file the index stays empty.
Reopen ==
    /\ vectors' = IF disk.written THEN disk.vectors ELSE <<>>
    /\ labels' = disk.labels /\ deleted' = disk.deleted
    /\ posOf' = LivePositions(disk.labels, disk.deleted)
    /\ torn' = disk.torn
    /\ step' = "ready"
    /\ UNCHANGED <<rows, disk>>

Next ==
    \/ \E d \in Id : Remove(d) \/ \E v \in Vec : Add(d, v)
    \/ Rebuild \/ WriteIndex \/ WriteLabels \/ Reopen

Spec == Init /\ [][Next]_vars

-----------------------------------------------------------------------------
(* search. *)

\* The positions search passes on, of those the library returns.
Shown(s, gone, live) == {i \in DOMAIN s \ gone : live[s[i]] = i}

Found(vec, s, gone, live) ==
    [d \in Id |-> LET at == {i \in Shown(s, gone, live) : s[i] = d}
                  IN  IF at = {} THEN NoVec ELSE vec[Max(at)]]

\* Mutant of Want: no more positions than ids.
WantNoMargin(k) == Min({Len(labels), k})

\* The positions search asks the library for when it wants k ids.
Want(k) == Min({Len(labels), 2 * k})

\* The number of ids a search for k returns when what it skips is nearest.
Yields(k) ==
    LET skipped == Len(labels) - Cardinality(Shown(labels, deleted, posOf))
    IN  IF skipped >= Want(k) THEN 0 ELSE Min({k, Want(k) - skipped})

InMemory == IF torn THEN Unsafe ELSE Found(vectors, labels, deleted, posOf)
OnDisk   == IF disk.torn THEN Unsafe
            ELSE Found(disk.vectors, disk.labels, disk.deleted,
                       LivePositions(disk.labels, disk.deleted))

\* Type invariant of the index, its labels and its files.
TypeOK ==
    /\ rows \in [Id -> Vec \cup {NoVec}]
    /\ vectors \in Seq(Vec) /\ labels \in Seq(Id)
    /\ posOf \in [Id -> 0..Len(labels)]
    /\ deleted \in SUBSET (1..Len(labels))
    /\ torn \in BOOLEAN /\ step \in {"ready", "changed", "labels"}
    /\ disk \in [vectors : Seq(Vec), labels : Seq(Id), deleted : SUBSET Nat,
                 written : BOOLEAN, torn : BOOLEAN]
    /\ disk.deleted \subseteq 1..Len(disk.labels)
=============================================================================
