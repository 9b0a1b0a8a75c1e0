----------------------------- MODULE BruteIndex -----------------------------
(***************************************************************************)
(* VectorIndex (storage/vector_index.py): the exact index.  The ids and    *)
(* the rows of the matrix are two parallel sequences, and _pos finds an id *)
(* in them.  persist renames one whole file over the last.                 *)
(***************************************************************************)
EXTENDS IndexConstants, Sequences, FiniteSetsExt

VARIABLES
    rows,      \* the embeddings the repository stores
    ids,       \* _ids
    matrix,    \* _matrix
    pos,       \* _pos: the position of an id, 0 for none
    file       \* the .npz: ids and matrix

vars == <<rows, ids, matrix, pos, file>>

Seqs == INSTANCE SequencesExt

NoPos == [d \in Id |-> 0]

\* _pos as load, rebuild and remove make it from the ids.
Positions(s) == [d \in Id |-> IF d \in Seqs!ToSet(s) THEN Max({i \in DOMAIN s : s[i] = d}) ELSE 0]

Init ==
    /\ rows = [d \in Id |-> NoVec]
    /\ ids = <<>> /\ matrix = <<>> /\ pos = NoPos
    /\ file = [ids |-> <<>>, matrix |-> <<>>]

Add(d, v) ==
    /\ rows' = [rows EXCEPT ![d] = v]
    /\ IF pos[d] # 0
       THEN matrix' = [matrix EXCEPT ![pos[d]] = v] /\ UNCHANGED <<ids, pos>>
       ELSE /\ pos' = [pos EXCEPT ![d] = Len(ids) + 1]
            /\ ids' = Append(ids, d)
            /\ matrix' = Append(matrix, v)
    /\ UNCHANGED file

\* Mutant of Remove: the positions after the removed row are left as they were.
RemoveNoReindex(d) ==
    /\ rows' = [rows EXCEPT ![d] = NoVec]
    /\ pos' = [pos EXCEPT ![d] = 0]
    /\ IF pos[d] = 0
       THEN UNCHANGED <<ids, matrix>>
       ELSE ids' = Seqs!RemoveAt(ids, pos[d]) /\ matrix' = Seqs!RemoveAt(matrix, pos[d])
    /\ UNCHANGED file

Remove(d) ==
    /\ rows' = [rows EXCEPT ![d] = NoVec]
    /\ IF pos[d] = 0
       THEN UNCHANGED <<ids, matrix, pos>>
       ELSE /\ ids' = Seqs!RemoveAt(ids, pos[d])
            /\ matrix' = Seqs!RemoveAt(matrix, pos[d])
            /\ pos' = [e \in Id |-> IF e = d THEN 0
                                    ELSE IF pos[e] > pos[d] THEN pos[e] - 1 ELSE pos[e]]
    /\ UNCHANGED file

\* rebuild_index passes the stored embeddings in the order of the table.
Rebuild ==
    /\ \E s \in Seqs!SetToSeqs({d \in Id : rows[d] # NoVec}) :
          /\ ids' = s
          /\ matrix' = [i \in DOMAIN s |-> rows[s[i]]]
          /\ pos' = Positions(s)
    /\ UNCHANGED <<rows, file>>

Persist ==
    /\ file' = [ids |-> ids, matrix |-> matrix]
    /\ UNCHANGED <<rows, ids, matrix, pos>>

\* load, in the process that opens the index next.
Reopen ==
    /\ ids' = file.ids /\ matrix' = file.matrix /\ pos' = Positions(file.ids)
    /\ UNCHANGED <<rows, file>>

Next ==
    \/ \E d \in Id : Remove(d) \/ \E v \in Vec : Add(d, v)
    \/ Rebuild \/ Persist \/ Reopen

Spec == Init /\ [][Next]_vars

-----------------------------------------------------------------------------
(* search: every row is ranked and named by the id at its position. *)

Found(s, m) ==
    [d \in Id |-> IF d \in Seqs!ToSet(s) THEN m[Max({i \in DOMAIN s : s[i] = d})] ELSE NoVec]

\* The number of ids a search for k returns, in the worst order of the rows.
Yields(k) == Min({k, Len(ids)})

InMemory == Found(ids, matrix)
OnDisk   == Found(file.ids, file.matrix)

TypeOK ==
    /\ rows \in [Id -> Vec \cup {NoVec}]
    /\ ids \in Seq(Id) /\ matrix \in Seq(Vec) /\ Len(matrix) = Len(ids)
    /\ pos \in [Id -> 0..Len(ids)]
    /\ file.ids \in Seq(Id) /\ file.matrix \in Seq(Vec)
=============================================================================
