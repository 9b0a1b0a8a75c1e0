------------------------------- MODULE Stores -------------------------------
(***************************************************************************)
(* open_store (storage/__init__.py): the configuration names the backend,  *)
(* Postgres or SQLite with its index file, behind one DropletRepository.   *)
(* The variables of the other backend stay as they are.                    *)
(***************************************************************************)
EXTENDS PgStore

CONSTANTS Engine, Dim, Val, NoTx     \* as in VectorStore

VARIABLES
    backend,
    rows, file, engine, lost         \* as in VectorStore

sqliteVars == <<rows, file, engine, lost>>
storeVars  == <<backend, sqliteVars, vars>>

Sqlite == INSTANCE VectorStore

\* No embedding is the mark of a droplet without one, or of no droplet.
ASSUME MarksAreNoVectors == NoVec \notin Sqlite!Vec /\ NoRow \notin Sqlite!Vec

StoreInit ==
    /\ backend \in {"sqlite", "postgres"}
    /\ Sqlite!Init /\ Init

StoreNext ==
    \/ backend = "sqlite"   /\ Sqlite!Next /\ UNCHANGED <<backend, vars>>
    \/ backend = "postgres" /\ Next        /\ UNCHANGED <<backend, sqliteVars>>

StoreSpec == StoreInit /\ [][StoreNext]_storeVars

-----------------------------------------------------------------------------
(* Properties; what Postgres promises, OnlyRacesLose, is in PgStore. *)

\* Type invariant of both stores.
StoreTypeOK == Sqlite!TypeOK /\ TypeOK

\* sqlite: no index entry, loaded from a file another configuration wrote or
\* added since, has another dimension than the queries search multiplies it by.
ShapesAgree == Sqlite!ShapesAgree

\* sqlite: the index in memory is wrong about the lost ids and about no other,
\* whatever was refused, rolled back, crashed or reopened with another dimension.
StaleOnlyWhereLost == Sqlite!StaleOnlyWhereLost

\* sqlite: reopening recovers rows and embeddings alike, where none was lost.
ReopenRecovers == Sqlite!ReopenRecovers
=============================================================================
