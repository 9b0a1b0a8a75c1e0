--------------------------- MODULE VectorIndexes ----------------------------
(***************************************************************************)
(* build_vector_index (storage/vector_index.py): the backend the           *)
(* configuration names, one of the three, behind one contract.  The        *)
(* variables of the other two stay as they are.                            *)
(***************************************************************************)
EXTENDS IndexConstants, Sequences, FiniteSetsExt

CONSTANT SearchSize    \* the values of k a search is asked for

ASSUME SearchSizeIsNat == SearchSize \subseteq Nat

VARIABLES
    backend,
    rows,
    ids, matrix, pos, file,                                        \* brute
    vectors, labels, posOf, deleted, fTorn, fDisk, fStep,          \* faiss
    lib, nextLabel, capacity, labelOf, idOf, hTorn, hDisk, hStep   \* hnswlib

bruteVars == <<ids, matrix, pos, file>>
faissVars == <<vectors, labels, posOf, deleted, fTorn, fDisk, fStep>>
hnswVars  == <<lib, nextLabel, capacity, labelOf, idOf, hTorn, hDisk, hStep>>
vars      == <<backend, rows, bruteVars, faissVars, hnswVars>>

Brute == INSTANCE BruteIndex
Faiss == INSTANCE FaissIndex WITH torn <- fTorn, disk <- fDisk, step <- fStep
Hnsw  == INSTANCE HnswIndex  WITH torn <- hTorn, disk <- hDisk, step <- hStep

Init ==
    /\ backend \in {"brute", "faiss", "hnswlib"}
    /\ Brute!Init /\ Faiss!Init /\ Hnsw!Init

Next ==
    \/ backend = "brute"   /\ Brute!Next /\ UNCHANGED <<backend, faissVars, hnswVars>>
    \/ backend = "faiss"   /\ Faiss!Next /\ UNCHANGED <<backend, bruteVars, hnswVars>>
    \/ backend = "hnswlib" /\ Hnsw!Next  /\ UNCHANGED <<backend, bruteVars, faissVars>>

Spec == Init /\ [][Next]_vars

-----------------------------------------------------------------------------
(* Properties. *)

\* Type invariant of the three indexes and their files.
TypeOK == Brute!TypeOK /\ Faiss!TypeOK /\ Hnsw!TypeOK

InMemory == CASE backend = "brute" -> Brute!InMemory
              [] backend = "faiss" -> Faiss!InMemory
              [] OTHER             -> Hnsw!InMemory

OnDisk == CASE backend = "brute" -> Brute!OnDisk
            [] backend = "faiss" -> Faiss!OnDisk
            [] OTHER             -> Hnsw!OnDisk

Contract == INSTANCE IndexMap WITH map <- InMemory, saved <- OnDisk

\* Every backend implements the contract, however labels and positions were
\* moved, reused, soft-deleted, saved and loaded: a search compares an id with
\* the last embedding added for it, finds no id that was removed, and reads back
\* what was saved.  A process that ends between the two files of an ANN backend
\* leaves contents nothing is promised of, until they are rebuilt.
ImplementsContract == Contract!Spec

\* Ids an hnswlib index still counts though it has refused their last embedding.
Refused == {d \in Id : Hnsw!Refused(d)}

\* A search for k finds k ids, or all there are, in whatever order the rows lie:
\* oversampling makes up for the labels and positions that search skips.  faiss
\* is not asked for more when more than k positions are soft-deleted, hnswlib
\* not when it has refused an embedding.
SearchYields ==
    InMemory # Unsafe =>
        LET held == Cardinality({d \in Id : InMemory[d] # NoVec}) IN
        \A k \in SearchSize :
            CASE backend = "brute" -> Brute!Yields(k) = Min({k, held})
              [] backend = "faiss" -> Cardinality(deleted) <= k => Faiss!Yields(k) = Min({k, held})
              [] OTHER             -> Refused = {} => Hnsw!Yields(k) = Min({k, held})
=============================================================================
