---------------------------- MODULE VectorStore ----------------------------
(***************************************************************************)
(* SqliteDropletRepository (storage/sqlite_repository.py): the droplet     *)
(* rows in SQLite and the vector index (storage/vector_index.py), a cache  *)
(* in each engine's memory that is written whole to <db>.vec.npz after     *)
(* every commit and read back when a repository is opened.                 *)
(*                                                                         *)
(* A row is seen by its embedding only.  The links table is written in the *)
(* same transactions and is left out.                                      *)
(***************************************************************************)
EXTENDS Naturals

CONSTANTS
    Id,        \* droplet ids
    Engine,    \* repositories that may be open on the one database file
    Dim,       \* embedding dimensions an engine may be configured with
    Val,       \* what tells two embeddings of one dimension apart
    NoRow,     \* no such droplet
    NoVec,     \* a droplet without embedding; an id the index does not have
    NoTx       \* no open transaction

Vec       == [dim : Dim, val : Val]
Embedding == Vec \cup {NoVec}

VARIABLES
    rows,        \* the committed droplets table
    file,        \* the index file
    engine,      \* engine[e]: what e has in memory
    lost         \* ids whose last embedding a crash, a refusal or a change of
                 \* dimension has kept from the index or its file

vars == <<rows, file, engine, lost>>

Index      == [Id -> Embedding]
EmptyIndex == [d \in Id |-> NoVec]
Table      == [Id -> Embedding \cup {NoRow}]

(***************************************************************************)
(* step is "ready" between calls, "persist" between a commit and the write *)
(* of the index file, "rebuild" between a rebuild and its write (of names  *)
(* the ids the write is about), and "failed" once an error has gone up to  *)
(* a caller that gives up.                                                 *)
(***************************************************************************)
Closed == [open |-> FALSE]
Opened(dim, index) == [open |-> TRUE, dim |-> dim, index |-> index, tx |-> NoTx,
                       step |-> "ready", of |-> {}]

Ready(e)     == engine[e].open /\ engine[e].step = "ready"
Unwritten(e) == engine[e].open /\ engine[e].step \in {"persist", "rebuild"}

\* What e's connection reads: its own uncommitted writes, or the table.
View(e) == IF engine[e].tx = NoTx THEN rows ELSE engine[e].tx

\* Another connection's open write transaction holds the database lock.
Unlocked(e) == \A f \in Engine \ {e} : engine[f].open => engine[f].tx = NoTx

\* The index entries a table calls for.
Cached(table) == [d \in Id |-> IF table[d] = NoRow THEN NoVec ELSE table[d]]

Init ==
    /\ rows = [d \in Id |-> NoRow]
    /\ file = EmptyIndex
    /\ engine = [e \in Engine |-> Closed]
    /\ lost = {}

\* Mutant of load: the file is taken as it is.
LoadAnyShape(dim) == file

\* VectorIndex.load: a file of another dimension is treated as empty.
Load(dim) ==
    IF \E d \in Id : file[d] # NoVec /\ file[d].dim # dim THEN EmptyIndex ELSE file

Open(e) ==
    /\ ~engine[e].open
    /\ \E dim \in Dim :
          /\ engine' = [engine EXCEPT ![e] = Opened(dim, Load(dim))]
          /\ lost' = lost \cup {d \in Id : file[d] # Load(dim)[d]}
    /\ UNCHANGED <<rows, file>>

-----------------------------------------------------------------------------
(* Writes: SQL first, then the index in memory, then commit, then the file. *)

\* What the commit of table, with the index already changed, leaves behind.
Commit(e, table, index, ids) ==
    /\ rows' = table
    /\ engine' = [engine EXCEPT ![e].index = index, ![e].tx = NoTx,
                                ![e].step = "persist", ![e].of = ids]
    /\ UNCHANGED <<file, lost>>

\* upsert of an embedding the index takes, or of none.
Upsert(e) ==
    /\ Ready(e) /\ Unlocked(e)
    /\ \E d \in Id, v \in Embedding :
          /\ v # NoVec => v.dim = engine[e].dim
          /\ Commit(e, [View(e) EXCEPT ![d] = v], [engine[e].index EXCEPT ![d] = v], {d})

\* VectorIndex.add raises on another dimension: the SQL has run and no rollback
\* follows, so the transaction stays open.
UpsertRaises(e) ==
    /\ Ready(e) /\ Unlocked(e)
    /\ \E d \in Id, v \in Vec :
          /\ v.dim # engine[e].dim
          /\ engine' = [engine EXCEPT ![e].tx = [View(e) EXCEPT ![d] = v]]
          /\ lost' = lost \cup {d}
    /\ UNCHANGED <<rows, file>>

\* Mutant of delete: the row goes and its vector stays.
DeleteRowOnly(e) ==
    /\ Ready(e) /\ Unlocked(e)
    /\ \E d \in Id : Commit(e, [View(e) EXCEPT ![d] = NoRow], engine[e].index, {d})

\* Mutant of delete: the index entry is marked as gone and kept.
DeleteTombstone(e) ==
    /\ Ready(e) /\ Unlocked(e)
    /\ \E d \in Id : Commit(e, [View(e) EXCEPT ![d] = NoRow],
                               [engine[e].index EXCEPT ![d] = NoRow], {d})

Delete(e) ==
    /\ Ready(e) /\ Unlocked(e)
    /\ \E d \in Id : Commit(e, [View(e) EXCEPT ![d] = NoRow],
                               [engine[e].index EXCEPT ![d] = NoVec], {d})

\* add_link, remove_link, touch_cycle: their commit takes along whatever an
\* earlier upsert left uncommitted.
CommitOther(e) ==
    /\ Ready(e) /\ engine[e].tx # NoTx
    /\ rows' = engine[e].tx
    /\ engine' = [engine EXCEPT ![e].tx = NoTx]
    /\ UNCHANGED <<file, lost>>

\* Mutant of persist: the file is left for close to write.
PersistOnClose(e) ==
    /\ Unwritten(e)
    /\ engine' = [engine EXCEPT ![e].step = "ready", ![e].of = {}]
    /\ lost' = lost \ engine[e].of
    /\ UNCHANGED <<rows, file>>

\* VectorIndex.persist: the temporary file is renamed over the old one.
Persist(e) ==
    /\ Unwritten(e)
    /\ file' = engine[e].index
    /\ engine' = [engine EXCEPT ![e].step = "ready", ![e].of = {}]
    /\ lost' = lost \ engine[e].of
    /\ UNCHANGED rows

-----------------------------------------------------------------------------
(* rebuild_index, close, crash *)

\* The index as the rows this engine reads call for.
RebuildIndex(e) ==
    /\ Ready(e)
    /\ \A d \in Id : Cached(View(e))[d] # NoVec => View(e)[d].dim = engine[e].dim
    /\ engine' = [engine EXCEPT ![e].index = Cached(View(e)),
                                ![e].step = "rebuild", ![e].of = Id]
    /\ UNCHANGED <<rows, file, lost>>

\* A stored embedding of another dimension raises before the matrix is set.  A
\* caller that goes on with the emptied index is left out.
RebuildRaises(e) ==
    /\ Ready(e)
    /\ \E d \in Id : Cached(View(e))[d] # NoVec /\ View(e)[d].dim # engine[e].dim
    /\ engine' = [engine EXCEPT ![e].index = EmptyIndex, ![e].step = "failed"]
    /\ UNCHANGED <<rows, file, lost>>

\* close writes the index once more; the connection rolls back.
Close(e) ==
    /\ Ready(e)
    /\ file' = engine[e].index
    /\ engine' = [engine EXCEPT ![e] = Closed]
    /\ UNCHANGED <<rows, lost>>

\* The process ends at any point, or persist itself fails and the caller exits.
Crash(e) ==
    /\ engine[e].open
    /\ engine' = [engine EXCEPT ![e] = Closed]
    /\ lost' = IF engine[e].step = "persist" THEN lost \cup engine[e].of ELSE lost
    /\ UNCHANGED <<rows, file>>

Next ==
    \E e \in Engine :
        \/ Open(e) \/ Upsert(e) \/ UpsertRaises(e) \/ Delete(e) \/ CommitOther(e)
        \/ Persist(e) \/ RebuildIndex(e) \/ RebuildRaises(e) \/ Close(e) \/ Crash(e)

Spec == Init /\ [][Next]_vars

-----------------------------------------------------------------------------
(* Properties. *)

\* Type invariant of the table, the file and the engines.
OpenEngine == [open : {TRUE}, dim : Dim, index : Index, tx : Table \cup {NoTx},
               step : {"ready", "persist", "rebuild", "failed"}, of : SUBSET Id]

TypeOK ==
    /\ rows \in Table
    /\ file \in Index
    /\ engine \in [Engine -> OpenEngine \cup {Closed}]
    /\ lost \in SUBSET Id

\* search multiplies the index by a query of the engine's dimension: no entry,
\* loaded from a file another configuration wrote or added since, has another.
ShapesAgree ==
    \A e \in Engine : engine[e].open =>
        \A d \in Id : engine[e].index[d] # NoVec => engine[e].index[d].dim = engine[e].dim

\* The index is a cache of the stored embeddings.  With one engine it is wrong
\* about the lost ids, until their next write or a rebuild, and about no other,
\* whatever was refused, rolled back, crashed or reopened with another dimension.
StaleOnlyWhereLost ==
    \A e \in Engine : Ready(e) =>
        \A d \in Id \ lost : engine[e].index[d] = Cached(rows)[d]

\* Reopening recovers both the rows and the embeddings, where none was lost: the
\* file agrees with the rows while no repository is open.
ReopenRecovers ==
    lost = {} /\ (\A e \in Engine : ~engine[e].open) => file = Cached(rows)
=============================================================================
