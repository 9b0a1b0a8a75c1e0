------------------------------ MODULE IndexMap ------------------------------
(***************************************************************************)
(* What the repository expects of a vector index (VectorIndexProtocol,     *)
(* storage/vector_index.py): a cache of the stored embeddings that is      *)
(* changed with them, can be saved and read back, and can be rebuilt.      *)
(*                                                                         *)
(* An index that was saved halfway promises nothing when it is read back:  *)
(* its contents are Unsafe until it is rebuilt from the rows.              *)
(***************************************************************************)
EXTENDS IndexConstants

VARIABLES
    rows,      \* the embeddings the repository stores
    map,       \* the embedding a search compares with, for each id it can return
    saved      \* the map that reading the files back would give

vars == <<rows, map, saved>>

Map == [Id -> Vec \cup {NoVec}]

Empty == [d \in Id |-> NoVec]

With(m, d, v) == IF m = Unsafe THEN Unsafe ELSE [m EXCEPT ![d] = v]

Init == rows = Empty /\ map = Empty /\ saved = Empty

\* An add is a write of an embedding, a remove the write of none.
Write(d, v) ==
    /\ rows' = [rows EXCEPT ![d] = v]
    /\ map' = With(map, d, v)
    /\ UNCHANGED saved

\* An index may refuse an embedding.  It then has none for the id, and whether
\* the row is stored is up to the repository.
Refuse(d, v) ==
    /\ rows' \in {rows, [rows EXCEPT ![d] = v]}
    /\ map' = With(map, d, NoVec)
    /\ UNCHANGED saved

Rebuild == map' = rows /\ UNCHANGED <<rows, saved>>

StartSave == saved' = Unsafe /\ UNCHANGED <<rows, map>>

Save == saved' = map /\ UNCHANGED <<rows, map>>

\* A new process reads the files, after a close or a crash of the last one.
Reopen == map' = saved /\ UNCHANGED <<rows, saved>>

Next ==
    \/ \E d \in Id, v \in Vec \cup {NoVec} : Write(d, v) \/ Refuse(d, v)
    \/ Rebuild \/ StartSave \/ Save \/ Reopen

Spec == Init /\ [][Next]_vars
=============================================================================
