----------------------------- MODULE HnswIndex ------------------------------
(***************************************************************************)
(* AnnVectorIndex (storage/ann_index.py) over an hnswlib index.  A vector  *)
(* is replaced by marking its label deleted and adding the next label; the *)
(* library keeps what is marked, counts it against max_elements, and       *)
(* raises when a new label finds no room.  persist writes the library's    *)
(* index first and the labels second; torn is history, as in FaissIndex.   *)
(***************************************************************************)
EXTENDS IndexConstants, Functions, FiniteSetsExt

VARIABLES
    rows,       \* the embeddings the repository stores
    lib,        \* hnswlib's index: vec[label], the marked labels, max_elements
    nextLabel,  \* _next_label
    capacity,   \* _capacity
    labelOf,    \* _label_of
    idOf,       \* _id_of
    torn,       \* the index was read from files of two different saves
    disk,       \* the two files; written tells that the second exists
    step        \* "ready" for a call, "changed" by one and not yet saved, or
                \* "labels": the first file is written, the second is not

vars == <<rows, lib, nextLabel, capacity, labelOf, idOf, torn, disk, step>>

Label   == 0..(MaxAdds - 1)
NoLabel == MaxAdds

\* init_index.
NewLib(room) == [vec |-> [l \in Label |-> NoVec], marked |-> {}, max |-> room]

Points(x) == {l \in Label : x.vec[l] # NoVec}

Unlabelled == [d \in Id |-> NoLabel]

\* len(index).
Count(of) == Cardinality({d \in Id : of[d] # NoLabel})

\* _id_of as load makes it from _label_of: the inverse.
Inverted(of) ==
    [l \in Label |-> {d \in Id : of[d] = l}]

Init ==
    /\ rows = [d \in Id |-> NoVec]
    /\ lib = NewLib(Room) /\ capacity = Room /\ nextLabel = 0
    /\ labelOf = Unlabelled /\ idOf = [l \in Label |-> {}]
    /\ torn = FALSE
    /\ disk = [lib |-> NewLib(Room), labelOf |-> Unlabelled, nextLabel |-> 0,
               capacity |-> Room, written |-> FALSE, torn |-> FALSE]
    /\ step = "ready"

\* mark_deleted raises on a label that is unknown or marked; that is swallowed.
Marked(x, l) == IF l \in Points(x) THEN [x EXCEPT !.marked = @ \cup {l}] ELSE x

\* What the first half of add does to a replaced label: marked, and without id.
OldMarked(d) == Marked(lib, labelOf[d])
OldDropped(d) ==
    IF labelOf[d] = NoLabel THEN idOf ELSE [idOf EXCEPT ![labelOf[d]] = {}]

\* _ensure_capacity(1) counts the ids, the one to be replaced included.
Grown == IF Count(labelOf) + 1 > capacity
         THEN Max({Count(labelOf) + 1, 2 * capacity}) ELSE capacity

Resized(x) == IF Grown = capacity THEN x ELSE [x EXCEPT !.max = Grown]

Fits(x) == nextLabel \in Points(x) \/ Cardinality(Points(x)) < x.max

\* add_items: a label the library has is updated and no longer marked.
Add(d, v) ==
    LET x == Resized(OldMarked(d)) IN
    /\ step = "ready" /\ nextLabel < MaxAdds
    /\ Fits(x)
    /\ rows' = [rows EXCEPT ![d] = v]
    /\ lib' = [x EXCEPT !.vec[nextLabel] = v, !.marked = @ \ {nextLabel}]
    /\ capacity' = Grown
    /\ labelOf' = [labelOf EXCEPT ![d] = nextLabel]
    /\ idOf' = [OldDropped(d) EXCEPT ![nextLabel] = {d}]
    /\ nextLabel' = nextLabel + 1
    /\ step' = "changed"
    /\ UNCHANGED <<torn, disk>>

\* add_items raises: the old label is gone and the new one has been used up.
\* The write of the row is still open, and may be committed later or not.
AddRaises(d, v) ==
    LET x == Resized(OldMarked(d)) IN
    /\ step = "ready" /\ nextLabel < MaxAdds
    /\ ~Fits(x)
    /\ rows' \in {rows, [rows EXCEPT ![d] = v]}
    /\ lib' = x
    /\ capacity' = Grown
    /\ idOf' = OldDropped(d)
    /\ nextLabel' = nextLabel + 1
    /\ UNCHANGED <<labelOf, torn, disk, step>>

Remove(d) ==
    /\ step = "ready"
    /\ rows' = [rows EXCEPT ![d] = NoVec]
    /\ lib' = OldMarked(d)
    /\ labelOf' = [labelOf EXCEPT ![d] = NoLabel]
    /\ idOf' = OldDropped(d)
    /\ step' = "changed"
    /\ UNCHANGED <<nextLabel, capacity, torn, disk>>

\* rebuild adds the stored embeddings to a new index with room for twice as many.
Rebuild ==
    /\ step = "ready"
    /\ LET stored == {d \in Id : rows[d] # NoVec}
           n      == Cardinality(stored)
       IN  /\ n <= MaxAdds
           /\ \E s \in Bijection(0..(n - 1), stored) :
                 /\ lib' = [NewLib(Max({Room, 2 * n})) EXCEPT !.vec =
                               [l \in Label |-> IF l < n THEN rows[s[l]] ELSE NoVec]]
                 /\ labelOf' = [d \in Id |-> IF d \in stored
                                             THEN CHOOSE l \in 0..(n - 1) : s[l] = d
                                             ELSE NoLabel]
                 /\ idOf' = [l \in Label |-> IF l < n THEN {s[l]} ELSE {}]
                 /\ nextLabel' = n /\ capacity' = Max({Room, 2 * n})
    /\ torn' = FALSE
    /\ step' = "changed"
    /\ UNCHANGED <<rows, disk>>

-----------------------------------------------------------------------------
(* persist and load. *)

WriteIndex ==
    /\ step # "labels"
    /\ disk' = [disk EXCEPT !.lib = lib, !.torn = disk.written]
    /\ step' = "labels"
    /\ UNCHANGED <<rows, lib, nextLabel, capacity, labelOf, idOf, torn>>

WriteLabels ==
    /\ step = "labels"
    /\ disk' = [disk EXCEPT !.labelOf = labelOf, !.nextLabel = nextLabel,
                            !.capacity = capacity, !.written = TRUE, !.torn = torn]
    /\ step' = "ready"
    /\ UNCHANGED <<rows, lib, nextLabel, capacity, labelOf, idOf, torn>>

\* load_index with the room load asks for; the library keeps the room of the
\* file where that would not hold what it has.
Loaded ==
    LET room == Max({disk.capacity, Count(disk.labelOf) + 1})
    IN  IF ~disk.written THEN NewLib(Room)
        ELSE [disk.lib EXCEPT !.max =
                 IF room < Cardinality(Points(disk.lib)) THEN @ ELSE room]

\* load, in the process that opens the index next; the last one may have ended
\* anywhere, within persist too.  Without a labels file the index stays empty.
Reopen ==
    /\ lib' = Loaded
    /\ nextLabel' = disk.nextLabel /\ capacity' = disk.capacity
    /\ labelOf' = disk.labelOf /\ idOf' = Inverted(disk.labelOf)
    /\ torn' = disk.torn
    /\ step' = "ready"
    /\ UNCHANGED <<rows, disk>>

Next ==
    \/ \E d \in Id : Remove(d) \/ \E v \in Vec : Add(d, v) \/ AddRaises(d, v)
    \/ Rebuild \/ WriteIndex \/ WriteLabels \/ Reopen

Spec == Init /\ [][Next]_vars

-----------------------------------------------------------------------------
(* search. *)

\* The labels the library searches, and those of them search passes on.
Live(x)       == Points(x) \ x.marked
Shown(x, ids) == {l \in Live(x) : ids[l] # {}}

Found(x, ids) ==
    [d \in Id |-> LET at == {l \in Shown(x, ids) : d \in ids[l]}
                  IN  IF at = {} THEN NoVec ELSE x.vec[Max(at)]]

Want(k) == Min({Count(labelOf), 2 * k})

\* The number of ids a search for k returns when what it skips is nearest.  The
\* library raises when it has fewer points than it is asked for.
Yields(k) ==
    LET skipped == Cardinality(Live(lib) \ Shown(lib, idOf))
    IN  IF Want(k) > Cardinality(Live(lib)) \/ skipped >= Want(k)
        THEN 0 ELSE Min({k, Want(k) - skipped})

InMemory == IF torn THEN Unsafe ELSE Found(lib, idOf)
OnDisk   == IF disk.torn THEN Unsafe ELSE Found(disk.lib, Inverted(disk.labelOf))

\* add marked the label of d and then raised.
Refused(d) == labelOf[d] # NoLabel /\ labelOf[d] \in lib.marked

Lib == [vec : [Label -> Vec \cup {NoVec}], marked : SUBSET Label, max : Nat]

TypeOK ==
    /\ rows \in [Id -> Vec \cup {NoVec}]
    /\ lib \in Lib
    /\ nextLabel \in 0..MaxAdds /\ capacity \in Nat
    /\ labelOf \in [Id -> Label \cup {NoLabel}]
    /\ idOf \in [Label -> SUBSET Id]
    /\ torn \in BOOLEAN /\ step \in {"ready", "changed", "labels"}
    /\ disk \in [lib : Lib, labelOf : [Id -> Label \cup {NoLabel}],
                 nextLabel : 0..MaxAdds, capacity : Nat, written : BOOLEAN, torn : BOOLEAN]
=============================================================================
