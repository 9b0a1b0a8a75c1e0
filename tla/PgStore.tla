------------------------------ MODULE PgStore -------------------------------
(***************************************************************************)
(* PostgresDropletRepository (storage/postgres_repository.py): the rows,   *)
(* with their embeddings in them, and the links between them, in one       *)
(* database that every connection reads as last committed.  A call is some *)
(* statements and a commit; what it wrote is its own until the commit.     *)
(*                                                                         *)
(* The server runs each statement whole and lets it wait for the rows      *)
(* another transaction has written (Free, LinksFree).  It may refuse any   *)
(* statement, and then refuses all that follow: nothing here rolls back.   *)
(***************************************************************************)
EXTENDS Naturals

CONSTANTS
    Id,          \* droplet ids
    Conn,        \* repositories that may be open on the database
    PgVec,       \* embeddings of the column's dimension
    NoVec,       \* a droplet without one
    NoRow,       \* no such droplet
    MaxCount,    \* bound on cycle_count
    Same,        \* the call leaves the row as it is
    Raced        \* nothing is owed: calls on the droplet overlapped

\* A droplet's row, seen by its embedding and its cycle count.
Row == [vec : PgVec \cup {NoVec}, count : 0..MaxCount]

ASSUME MaxCountIsNat == MaxCount \in Nat
ASSUME SameIsNoRow   == Same \notin Row \cup {NoRow}

\* A row of the links table.
Link == {p \in Id \X Id : p[1] # p[2]}

VARIABLES
    table,       \* the droplets table
    links,       \* the links table, of one kind
    conn,        \* conn[c]: what the connection is doing
    owed         \* history: the row and the links each droplet must have after
                 \* the calls that returned

vars == <<table, links, conn, owed>>

Closed  == [state |-> "closed"]
Idle    == [state |-> "idle"]
Aborted == [state |-> "aborted"]

(***************************************************************************)
(* A call in progress.  row is what it has written to the row, before that *)
(* what it will write; out, the droplet's own links; drop and put, the     *)
(* links it has deleted and inserted.  alone turns false when another call *)
(* about the same droplet commits meanwhile.                               *)
(***************************************************************************)
Begun(op, d, at, row, out) ==
    [state |-> "busy", op |-> op, of |-> d, at |-> at, row |-> row, out |-> out,
     drop |-> {}, put |-> {}, alone |-> TRUE]

Busy(c) == conn[c].state = "busy"
At(c, op, at) == Busy(c) /\ conn[c].op = op /\ conn[c].at = at
Becomes(c, k) == conn' = [conn EXCEPT ![c] = k] /\ UNCHANGED <<table, links, owed>>

\* No other transaction has written the row of d.
Free(c, d) ==
    \A f \in Conn \ {c} :
        Busy(f) => conn[f].of # d \/ conn[f].row = Same \/ conn[f].at = "cycle"

\* No other transaction has written one of these links.
LinksFree(c, ps) ==
    \A f \in Conn \ {c} : Busy(f) => ps \cap (conn[f].drop \cup conn[f].put) = {}

Init ==
    /\ table = [d \in Id |-> NoRow] /\ links = {}
    /\ conn = [c \in Conn |-> Closed]
    /\ owed = [d \in Id |-> [row |-> NoRow, out |-> {}]]

\* A column of another dimension makes it raise; that connects nothing.
Open(c) == conn[c] = Closed /\ Becomes(c, Idle)

-----------------------------------------------------------------------------
(* The calls. *)

\* Mutant of UpsertRow: the row is committed before its links are written.
UpsertRowCommits(c) ==
    /\ conn[c] = Idle
    /\ \E d \in Id, r \in Row, out \in SUBSET Id :
          /\ Free(c, d) /\ d \notin out
          /\ table' = [table EXCEPT ![d] = r]
          /\ conn' = [conn EXCEPT ![c] = Begun("upsert", d, "links", r, out)]
    /\ UNCHANGED <<links, owed>>

\* upsert: the row in one statement ...
UpsertRow(c) ==
    /\ conn[c] = Idle
    /\ \E d \in Id, r \in Row, out \in SUBSET Id :
          /\ Free(c, d) /\ d \notin out
          /\ Becomes(c, Begun("upsert", d, "links", r, out))

\* ... then _sync_links: the old links out, the droplet's in.
UpsertLinks(c) ==
    /\ At(c, "upsert", "links")
    /\ LET old == {p \in links : p[1] = conn[c].of}
           new == {conn[c].of} \X conn[c].out
       IN  /\ LinksFree(c, old \cup new)
           /\ Becomes(c, [conn[c] EXCEPT !.drop = old, !.put = new, !.at = "commit"])

DeleteRow(c) ==
    /\ conn[c] = Idle
    /\ \E d \in Id :
          \/ /\ table[d] = NoRow
             /\ Becomes(c, Begun("delete", d, "links", Same, {}))
          \/ /\ table[d] # NoRow /\ Free(c, d)
             /\ Becomes(c, Begun("delete", d, "links", NoRow, {}))

\* The links from the droplet and to it.
DeleteLinks(c) ==
    /\ At(c, "delete", "links")
    /\ LET old == {p \in links : conn[c].of \in {p[1], p[2]}}
       IN  /\ LinksFree(c, old)
           /\ Becomes(c, [conn[c] EXCEPT !.drop = old, !.at = "commit"])

\* touch_cycle reads the cycle data; without a row it is over.
ReadCycle(c) ==
    /\ conn[c] = Idle
    /\ \E d \in Id :
          /\ table[d] # NoRow /\ table[d].count < MaxCount
          /\ Becomes(c, Begun("touch", d, "cycle",
                              [table[d] EXCEPT !.count = table[d].count + 1], {}))

\* It writes back what it counted, into the row as that is now.
WriteCycle(c) ==
    /\ At(c, "touch", "cycle")
    /\ LET d == conn[c].of
       IN  \/ /\ table[d] = NoRow
              /\ Becomes(c, [conn[c] EXCEPT !.row = Same, !.at = "commit"])
           \/ /\ table[d] # NoRow /\ Free(c, d)
              /\ Becomes(c, [conn[c] EXCEPT !.at = "commit",
                                            !.row = [table[d] EXCEPT !.count = conn[c].row.count]])

\* add_link: ON CONFLICT DO NOTHING.
AddLink(c) ==
    /\ conn[c] = Idle
    /\ \E p \in Link :
          /\ LinksFree(c, {p})
          /\ Becomes(c, [Begun("link", p[1], "commit", Same, {p[2]}) EXCEPT
                            !.put = {p} \ links])

RemoveLink(c) ==
    /\ conn[c] = Idle
    /\ \E p \in Link :
          /\ LinksFree(c, {p} \cap links)
          /\ Becomes(c, [Begun("unlink", p[1], "commit", Same, {p[2]}) EXCEPT
                            !.drop = {p} \cap links])

-----------------------------------------------------------------------------
(* Commit, refusal, end. *)

\* The commit of k changes what call m is about.
Disturbs(k, m) ==
    LET changed == k.drop \cup k.put
    IN  \/ m.of = k.of \/ \E p \in changed : p[1] = m.of
        \/ m.op = "delete" /\ \E p \in changed : p[2] = m.of

\* What a droplet is owed after call k on it.
After(k, was) ==
    CASE k.op = "upsert" -> [row |-> k.row, out |-> k.out]
      [] k.op = "delete" -> [row |-> NoRow, out |-> {}]
      [] OTHER ->
            IF was = Raced THEN Raced
            ELSE CASE k.op = "touch"  -> [was EXCEPT !.row.count = was.row.count + 1]
                   [] k.op = "link"   -> [was EXCEPT !.out = was.out \cup k.out]
                   [] k.op = "unlink" -> [was EXCEPT !.out = was.out \ k.out]

Owed(k) ==
    [d \in Id |->
        IF d = k.of THEN IF k.alone THEN After(k, owed[d]) ELSE Raced
        ELSE IF k.op # "delete" \/ owed[d] = Raced THEN owed[d]
        ELSE IF k.of \notin owed[d].out THEN owed[d]
        ELSE IF k.alone THEN [owed[d] EXCEPT !.out = owed[d].out \ {k.of}] ELSE Raced]

Commit(c) ==
    /\ Busy(c) /\ conn[c].at = "commit"
    /\ LET k == conn[c]
       IN  /\ table' = IF k.row = Same THEN table ELSE [table EXCEPT ![k.of] = k.row]
           /\ links' = (links \ k.drop) \cup k.put
           /\ owed' = Owed(k)
           /\ conn' = [f \in Conn |->
                          IF f = c THEN Idle
                          ELSE IF Busy(f) /\ Disturbs(k, conn[f])
                               THEN [conn[f] EXCEPT !.alone = FALSE] ELSE conn[f]]

\* A statement fails: another dimension, a deadlock, a read's timeout.  Every
\* later call of this repository fails at its first statement.
Refuse(c) == (Busy(c) \/ conn[c] = Idle) /\ Becomes(c, Aborted)

\* close, or the end of the process or the connection at any point.
Close(c) == conn[c] # Closed /\ Becomes(c, Closed)

Next ==
    \E c \in Conn :
        \/ Open(c) \/ UpsertRow(c) \/ UpsertLinks(c) \/ DeleteRow(c) \/ DeleteLinks(c)
        \/ ReadCycle(c) \/ WriteCycle(c) \/ AddLink(c) \/ RemoveLink(c)
        \/ Commit(c) \/ Refuse(c) \/ Close(c)

Spec == Init /\ [][Next]_vars

-----------------------------------------------------------------------------
(* Properties. *)

Call == [state : {"busy"}, op : {"upsert", "delete", "touch", "link", "unlink"},
         of : Id, at : {"links", "cycle", "commit"}, row : Row \cup {NoRow, Same},
         out : SUBSET Id, drop : SUBSET Link, put : SUBSET Link, alone : BOOLEAN]

\* Type invariant of the tables and the connections.
TypeOK ==
    /\ table \in [Id -> Row \cup {NoRow}] /\ links \in SUBSET Link
    /\ conn \in [Conn -> Call \cup {Closed, Idle, Aborted}]
    /\ owed \in [Id -> [row : Row \cup {NoRow}, out : SUBSET Id] \cup {Raced}]

\* Row and links of a droplet as the tables have them.
Stored(d) == [row |-> table[d], out |-> {x \in Id : <<d, x>> \in links}]

\* A call that returned is in the tables, row and links together, and of a call
\* that raised or died before its commit nothing is, whatever other calls ran
\* meanwhile on other droplets.  Only calls on one droplet that overlap lose
\* anything.  (A commit whose acknowledgement is lost is not modelled.)
OnlyRacesLose == \A d \in Id : owed[d] # Raced => Stored(d) = owed[d]
=============================================================================
