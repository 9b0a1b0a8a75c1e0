------------------------------ MODULE AuditLog ------------------------------
(***************************************************************************)
(* The vault's append-only audit trail (hydromemory/vault/audit.py): rows  *)
(* chained by hashes, a head watermark in the vault_meta table, and        *)
(* verify_chain, which recomputes the one and compares it with the other.  *)
(*                                                                         *)
(* append is four database operations, each committed by itself: read the  *)
(* last hash, insert the row, set the watermark's seq, set its hash.  A    *)
(* process may die between any two of them, and two processes with the     *)
(* vault open may interleave theirs.  Rows may also be edited, removed or  *)
(* reordered in the file; verify_chain is there to notice.                 *)
(***************************************************************************)
EXTENDS Integers, Sequences, SequencesExt

CONSTANTS
    Appender,    \* processes with an AuditLog on the file
    Body,        \* what an entry records, its timestamp included
    MaxAppends,  \* bound: rows ever inserted
    MaxDamage,   \* bound: changes made to the stored rows by anything but append
    NoHead       \* no watermark recorded

ASSUME AuditBounds == MaxAppends \in Nat /\ MaxDamage \in Nat

ASSUME NoHeadAssumption == NoHead \notin Nat \cup Seq(Body)

\* sha256(prev_hash || canonical(body)), taken to be free of collisions: a hash
\* is the sequence of all the bodies it was computed from.
HashValue        == Seq(Body)
GenesisHash      == <<>>
Hash(prev, body) == Append(prev, body)

Row == [seq : Nat \ {0}, body : Body, prev : HashValue, hash : HashValue]

Idle == [at |-> "idle"]

VARIABLES
    audit,      \* the rows in seq order, a sequence of Row
    nextSeq,    \* AUTOINCREMENT: a seq is not used again when its row is gone
    headSeq,    \* the watermark
    headHash,
    append,     \* append[p]: how far p's call has come, and its locals
    completed,  \* seqs of the rows whose append returned
    damage      \* what was done to the rows since: a sequence of kinds

vars == <<audit, nextSeq, headSeq, headHash, append, completed, damage>>

\* Mutant of the last hash: no genesis hash for an empty table.
LastHashOrNone(rows) == IF rows = <<>> THEN NoHead ELSE rows[Len(rows)].hash

LastHash(rows) == IF rows = <<>> THEN GenesisHash ELSE rows[Len(rows)].hash
LastSeq(rows)  == IF rows = <<>> THEN 0 ELSE rows[Len(rows)].seq

Init ==
    /\ audit = <<>>
    /\ nextSeq = 1
    /\ headSeq = NoHead
    /\ headHash = NoHead
    /\ append = [p \in Appender |-> Idle]
    /\ completed = {}
    /\ damage = <<>>

-----------------------------------------------------------------------------
(* AuditLog.append *)

\* Mutant of the read: the new row is chained to the watermark's hash.
ReadWatermark(p) ==
    /\ append[p].at = "idle"
    /\ nextSeq <= MaxAppends
    /\ \E b \in Body :
          append' = [append EXCEPT ![p] =
                        [at |-> "insert", body |-> b,
                         prev |-> IF headHash = NoHead THEN GenesisHash ELSE headHash]]
    /\ UNCHANGED <<audit, nextSeq, headSeq, headHash, completed, damage>>

\* SELECT entry_hash ... ORDER BY seq DESC LIMIT 1
ReadHead(p) ==
    /\ append[p].at = "idle"
    /\ nextSeq <= MaxAppends
    /\ \E b \in Body :
          append' = [append EXCEPT ![p] =
                        [at |-> "insert", prev |-> LastHash(audit), body |-> b]]
    /\ UNCHANGED <<audit, nextSeq, headSeq, headHash, completed, damage>>

\* INSERT INTO audit ... ; commit
InsertRow(p) ==
    /\ append[p].at = "insert"
    /\ nextSeq <= MaxAppends
    /\ LET prev == append[p].prev
           hash == Hash(prev, append[p].body) IN
       /\ audit' = Append(audit, [seq |-> nextSeq, body |-> append[p].body,
                                  prev |-> prev, hash |-> hash])
       /\ append' = [append EXCEPT ![p] =
                        [at |-> "headseq", seq |-> nextSeq, hash |-> hash]]
    /\ nextSeq' = nextSeq + 1
    /\ UNCHANGED <<headSeq, headHash, completed, damage>>

\* Mutant of the watermark's seq: the one the next row will get.
SetHeadToNextSeq(p) ==
    /\ append[p].at = "headseq"
    /\ headSeq' = nextSeq
    /\ append' = [append EXCEPT ![p].at = "headhash"]
    /\ UNCHANGED <<audit, nextSeq, headHash, completed, damage>>

SetHeadSeq(p) ==
    /\ append[p].at = "headseq"
    /\ headSeq' = append[p].seq
    /\ append' = [append EXCEPT ![p].at = "headhash"]
    /\ UNCHANGED <<audit, nextSeq, headHash, completed, damage>>

\* The second half of the watermark; append returns.
SetHeadHash(p) ==
    /\ append[p].at = "headhash"
    /\ headHash' = append[p].hash
    /\ completed' = completed \cup {append[p].seq}
    /\ append' = [append EXCEPT ![p] = Idle]
    /\ UNCHANGED <<audit, nextSeq, headSeq, damage>>

\* The process dies inside append, or one of its statements raises (a locked
\* database): what is committed stays, the rest is not retried.
Abandon(p) ==
    /\ append[p].at # "idle"
    /\ append' = [append EXCEPT ![p] = Idle]
    /\ UNCHANGED <<audit, nextSeq, headSeq, headHash, completed, damage>>

-----------------------------------------------------------------------------
(* The stored rows change under the log. *)

Damaged(kind, rows) ==
    /\ Len(damage) < MaxDamage
    /\ damage' = Append(damage, kind)
    /\ audit' = rows
    /\ UNCHANGED <<nextSeq, headSeq, headHash, append, completed>>

EditRow ==
    \E i \in DOMAIN audit, b \in Body :
        /\ b # audit[i].body
        /\ Damaged("edit", [audit EXCEPT ![i].body = b])

\* The last row disappears, or one that has a successor.
LoseTail == audit # <<>> /\ Damaged("tail", Front(audit))

LoseInner ==
    \E i \in 1..(Len(audit) - 1) : Damaged("inner", RemoveAt(audit, i))

\* Two neighbours exchange their seq.
SwapRows ==
    \E i \in 1..(Len(audit) - 1) :
        Damaged("swap",
                [audit EXCEPT ![i]     = [audit[i + 1] EXCEPT !.seq = audit[i].seq],
                              ![i + 1] = [audit[i] EXCEPT !.seq = audit[i + 1].seq]])

Damage == EditRow \/ LoseTail \/ LoseInner \/ SwapRows

Next ==
    \/ \E p \in Appender :
          ReadHead(p) \/ InsertRow(p) \/ SetHeadSeq(p) \/ SetHeadHash(p) \/ Abandon(p)
    \/ Damage

Spec == Init /\ [][Next]_vars

-----------------------------------------------------------------------------
(* verify_chain *)

\* Mutants of verify_chain: the link to the predecessor is not compared; the
\* watermark is compared only when the table ends beyond it.
LinkedByHashOnly(rows) == \A i \in DOMAIN rows : rows[i].hash = Hash(rows[i].prev, rows[i].body)

WatermarkBehindOk ==
    \/ headSeq = NoHead \/ headHash = NoHead
    \/ LastSeq(audit) < headSeq
    \/ LastHash(audit) = headHash

\* The loop over the rows: each names its predecessor's hash and has its own.
Linked(rows) ==
    \A i \in DOMAIN rows :
        /\ rows[i].prev = IF i = 1 THEN GenesisHash ELSE rows[i - 1].hash
        /\ rows[i].hash = Hash(rows[i].prev, rows[i].body)

WatermarkOk ==
    \/ headSeq = NoHead \/ headHash = NoHead
    \/ LastSeq(audit) >= headSeq /\ LastHash(audit) = headHash

VerifyChain == Linked(audit) /\ WatermarkOk

-----------------------------------------------------------------------------
(* Properties. *)

Undamaged == damage = <<>>

\* Type invariant of the tables and of the calls in progress.
Call == {Idle}
          \cup [at : {"insert"}, prev : HashValue, body : Body]
          \cup [at : {"headseq", "headhash"}, seq : Nat \ {0}, hash : HashValue]

TypeOK ==
    /\ audit \in Seq(Row)
    /\ nextSeq \in Nat \ {0}
    /\ headSeq \in Nat \cup {NoHead}
    /\ headHash \in HashValue \cup {NoHead}
    /\ append \in [Appender -> Call]
    /\ completed \in SUBSET (Nat \ {0})
    /\ damage \in Seq({"edit", "tail", "inner", "swap"})

\* ADR-0021: append extends the chain on every call, so rows nothing else has
\* touched are linked, whatever calls died or failed half-way.
ChainIntact == Undamaged => Linked(audit)

\* A false alarm ends with the next complete append: when the last row's append
\* returned, the chain and the watermark agree, whatever died before it.
CompletedHeadVerifies ==
    /\ Undamaged
    /\ \A p \in Appender : append[p].at \in {"idle", "insert"}
    /\ audit # <<>> => LastSeq(audit) \in completed
    => VerifyChain

\* The chain makes edits, gaps and reordering detectable: no later append makes
\* a log verify again in which one happened.
DamageStaysVisible ==
    damage # <<>> /\ damage[Len(damage)] # "tail" => ~VerifyChain

\* The watermark notices at once that the row of a completed append was lost
\* from the end.
LossIsNoticed ==
    [][LoseTail /\ LastSeq(audit) \in completed => ~VerifyChain']_vars
=============================================================================
