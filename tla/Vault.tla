------------------------------- MODULE Vault -------------------------------
(***************************************************************************)
(* The encrypted vault (hydromemory/vault/vault.py, cipher.py,             *)
(* __init__.py): several processes open on one database.  A vault store is *)
(* bound to a scope (one app, or the owner's cross-app view) and to the    *)
(* keys it was opened with; a plain engine (build_engine, which server.py  *)
(* and scheduler.py open whatever the vault's settings) knows neither apps *)
(* nor keys, and its droplets carry no vault token; an app registered on   *)
(* one has a keyless store of its own.  A write of a store is a backing    *)
(* upsert and then, in a second commit, the app tag; touch_cycle, delete   *)
(* and the two walks over the whole vault (rotate_keys,                    *)
(* encrypt_plaintext_rows) read a row first and write it afterwards.       *)
(* Every commit is a step of its own and a process may stop between any    *)
(* two.  The operator follows docs/vault.md, "Key rotation": set a new     *)
(* primary, rotate, drop the retired keys - at any time, as nothing makes  *)
(* the processes that are open take up the new ring.                       *)
(***************************************************************************)
EXTENDS Naturals

CONSTANTS Ids,      \* droplet ids
          Apps,     \* application ids
          NoApp,    \* the NULL app_id, and the scope of the owner's view
          Keys,     \* Fernet keys
          Plain,    \* the key of a row written by the NullCipher
          Bare,     \* the key of a row that carries no vault token
          Bodies,   \* what the payload of a row may say
          Gone,     \* no such row
          Clients   \* processes that may be on the database at once

Row == [app : Apps \cup {NoApp}, key : Keys \cup {Plain, Bare}, body : Bodies]

ASSUME VaultAssumption ==
  /\ NoApp \notin Apps
  /\ Plain \notin Keys
  /\ Bare \notin Keys \cup {Plain}
  /\ Gone \notin Row

VARIABLES rows,     \* the droplets table
          ring,     \* HYDRO_VAULT_KEY and HYDRO_VAULT_PREV_KEYS as they stand
          held,     \* the scope and the ring each process was opened with
          op,       \* what each process is in the middle of
          drawn,    \* the keys the operator has ever configured
          rotated,  \* the primary of the last rotation that returned
          migrated, \* encrypt_plaintext_rows has returned
          astray,   \* ids last written under a key that was not the primary
          handed    \* <<app, id>>: the app's store was handed the id to upsert

vars == <<rows, ring, held, op, drawn, rotated, migrated, astray, handed>>

Closed == [primary |-> NoApp]
PlainEngine == [primary |-> Bare, retired |-> {}, scope |-> NoApp, proxy |-> FALSE]
AppStore(app) == [primary |-> Plain, retired |-> {}, scope |-> app, proxy |-> FALSE]
Ring == [primary : Keys \cup {Plain}, retired : SUBSET Keys]
Store == [primary : Keys \cup {Plain}, retired : SUBSET Keys,
          scope : Apps \cup {NoApp}, proxy : BOOLEAN]

Present == {id \in Ids : rows[id] # Gone}
Idle == [at |-> "idle"]

\* The rows a store with these keys can decrypt.  A row without a token is
\* returned as it is; the NullCipher hands any token back unchanged, and only
\* a plaintext payload then parses as JSON.
Readable(r) ==
  {Bare} \cup IF r.primary = Plain THEN {Plain} ELSE {r.primary} \cup r.retired

InScope(c, id) ==
  \/ held[c].scope = NoApp
  \/ id \in Present /\ rows[id].app = held[c].scope

\* Mutant of the upsert: INSERT OR REPLACE, which drops app_id.
StoredAfresh(id, body, key) == [app |-> NoApp, key |-> key, body |-> body]

\* The row a backing upsert leaves: ON CONFLICT keeps app_id, an INSERT
\* leaves it NULL, and every other column is the written object's.
Stored(id, body, key) ==
  [app |-> IF id \in Present THEN rows[id].app ELSE NoApp,
   key |-> key, body |-> body]

\* History: whether the write of this id under this key is behind the operator.
Strayed(id, key) ==
  IF key \in {ring.primary, Bare} THEN astray \ {id} ELSE astray \cup {id}

TypeOK ==
  /\ rows \in [Ids -> Row \cup {Gone}]
  /\ ring \in Ring
  /\ held \in [Clients -> Store \cup {PlainEngine, Closed}]
  /\ op \in [Clients ->
       {Idle}
       \cup [at : {"touch"}, id : Ids, body : Bodies, key : Keys \cup {Plain, Bare}]
       \cup [at : {"tag", "erase"}, id : Ids]
       \cup [at : {"walk"}, job : {"rotate", "encrypt"}, todo : SUBSET Ids]
       \cup [at : {"rewrite"}, job : {"rotate", "encrypt"}, todo : SUBSET Ids,
             id : Ids, body : Bodies]]
  /\ \A c \in Clients :
       /\ held[c] = Closed => op[c] = Idle
       /\ op[c].at = "tag" => held[c].scope # NoApp
       /\ op[c].at \in {"walk", "rewrite"} => held[c].proxy
  /\ drawn \subseteq Keys
  /\ rotated \in Keys \cup {Plain}
  /\ migrated \in BOOLEAN
  /\ astray \subseteq Ids
  /\ handed \subseteq Apps \X Ids

Init ==
  /\ rows = [id \in Ids |-> Gone]
  /\ ring \in {[primary |-> k, retired |-> {}] : k \in Keys \cup {Plain}}
  /\ held = [c \in Clients |-> Closed]
  /\ op = [c \in Clients |-> Idle]
  /\ drawn = {ring.primary} \ {Plain}
  /\ rotated = ring.primary
  /\ migrated = FALSE
  /\ astray = {}
  /\ handed = {}

-----------------------------------------------------------------------------
(* The operator and the life of a process                                  *)

\* Step 1 of the rotation: a new primary, the old one kept as retired.  A
\* keyless vault has no key to retire.
Rekey(k) ==
  /\ k \notin drawn
  /\ ring' = [primary |-> k,
              retired |-> ring.retired \cup ({ring.primary} \ {Plain})]
  /\ drawn' = drawn \cup {k}
  /\ UNCHANGED <<rows, held, op, rotated, migrated, astray, handed>>

\* Step 3: once a rotation to the present primary has returned.
DropRetired ==
  /\ rotated = ring.primary
  /\ ring.retired # {}
  /\ ring' = [ring EXCEPT !.retired = {}]
  /\ UNCHANGED <<rows, held, op, drawn, rotated, migrated, astray, handed>>

\* open_vault_store: the cipher is built once, from the configured keys.  The
\* identity is the default one, a user proxy; another is refused the walks.
Open(c, scope) ==
  /\ held[c] = Closed
  /\ held' = [held EXCEPT ![c] =
                [primary |-> ring.primary, retired |-> ring.retired,
                 scope |-> scope, proxy |-> TRUE]]
  /\ UNCHANGED <<rows, ring, op, drawn, rotated, migrated, astray, handed>>

\* build_engine on the same database.
OpenPlain(c) ==
  /\ held[c] = Closed
  /\ held' = [held EXCEPT ![c] = PlainEngine]
  /\ UNCHANGED <<rows, ring, op, drawn, rotated, migrated, astray, handed>>

\* register_app on a plain engine: the app's store has a NullCipher whatever
\* keys are configured, and the app's identity.
RegisterApp(c, app) ==
  /\ held[c] = Closed
  /\ held' = [held EXCEPT ![c] = AppStore(app)]
  /\ UNCHANGED <<rows, ring, op, drawn, rotated, migrated, astray, handed>>

\* close, or the process stopping wherever it is.
Stop(c) ==
  /\ held[c] # Closed
  /\ held' = [held EXCEPT ![c] = Closed]
  /\ op' = [op EXCEPT ![c] = Idle]
  /\ UNCHANGED <<rows, ring, drawn, rotated, migrated, astray, handed>>

-----------------------------------------------------------------------------
(* Single-row operations                                                   *)

Ready(c) == held[c] # Closed /\ op[c] = Idle
VaultReady(c) == Ready(c) /\ held[c] # PlainEngine

\* Mutant of the tagging: no early return for the cross-app view.
AfterWriteAlwaysTags(c, id) == [at |-> "tag", id |-> id]

\* _tag_app_id returns at once for the cross-app view.
AfterWrite(c, id) ==
  IF held[c].scope = NoApp THEN Idle ELSE [at |-> "tag", id |-> id]

\* upsert of a caller's droplet: no scope test, and the id is the caller's,
\* so it may be one that is stored already, another app's included.
\* (A write that check_access denies changes nothing.)
Upsert(c, id, body) ==
  /\ VaultReady(c)
  /\ rows' = [rows EXCEPT ![id] = Stored(id, body, held[c].primary)]
  /\ astray' = Strayed(id, held[c].primary)
  /\ handed' = IF held[c].scope = NoApp THEN handed
                ELSE handed \cup {<<held[c].scope, id>>}
  /\ op' = [op EXCEPT ![c] = AfterWrite(c, id)]
  /\ UNCHANGED <<ring, held, drawn, rotated, migrated>>

\* The plain engine captures a new droplet.
PlainCapture(c, id, body) ==
  /\ Ready(c) /\ held[c] = PlainEngine
  /\ id \notin Present
  /\ rows' = [rows EXCEPT ![id] = Stored(id, body, Bare)]
  /\ astray' = Strayed(id, Bare)
  /\ UNCHANGED <<ring, held, op, drawn, rotated, migrated, handed>>

\* touch_cycle: the scope test, the row, its decryption (which raises under
\* the wrong keys), and the cycle that will be written back under the primary.
Touch(c, id, body) ==
  /\ VaultReady(c)
  /\ InScope(c, id) /\ id \in Present
  /\ rows[id].key \in Readable(held[c])
  /\ op' = [op EXCEPT ![c] = [at |-> "touch", id |-> id, body |-> body,
                              key |-> held[c].primary]]
  /\ UNCHANGED <<rows, ring, held, drawn, rotated, migrated, astray, handed>>

\* A tick or a verb of the plain engine reads a row to write the whole of it
\* back.  A token in its meta goes along as it is, and with it the payload.
PlainTouch(c, id, body) ==
  /\ Ready(c) /\ held[c] = PlainEngine
  /\ id \in Present
  /\ rows[id].key # Bare => body = rows[id].body
  /\ op' = [op EXCEPT ![c] = [at |-> "touch", id |-> id, body |-> body,
                              key |-> rows[id].key]]
  /\ UNCHANGED <<rows, ring, held, drawn, rotated, migrated, astray, handed>>

TouchWrite(c) ==
  /\ op[c].at = "touch"
  /\ rows' = [rows EXCEPT ![op[c].id] = Stored(op[c].id, op[c].body, op[c].key)]
  /\ astray' = Strayed(op[c].id, op[c].key)
  /\ op' = [op EXCEPT ![c] = AfterWrite(c, op[c].id)]
  /\ UNCHANGED <<ring, held, drawn, rotated, migrated, handed>>

\* _tag_app_id: an UPDATE, which finds no row if another store deleted it.
Tag(c) ==
  /\ op[c].at = "tag"
  /\ rows' = IF op[c].id \in Present
               THEN [rows EXCEPT ![op[c].id].app = held[c].scope] ELSE rows
  /\ op' = [op EXCEPT ![c] = Idle]
  /\ UNCHANGED <<ring, held, drawn, rotated, migrated, astray, handed>>

\* The read at the head of delete; the plain engine decrypts nothing.
FetchToDelete(c, id) ==
  /\ Ready(c)
  /\ InScope(c, id) /\ id \in Present
  /\ held[c] = PlainEngine \/ rows[id].key \in Readable(held[c])
  /\ op' = [op EXCEPT ![c] = [at |-> "erase", id |-> id]]
  /\ UNCHANGED <<rows, ring, held, drawn, rotated, migrated, astray, handed>>

Erase(c) ==
  /\ op[c].at = "erase"
  /\ rows' = [rows EXCEPT ![op[c].id] = Gone]
  /\ astray' = astray \ {op[c].id}
  /\ op' = [op EXCEPT ![c] = Idle]
  /\ UNCHANGED <<ring, held, drawn, rotated, migrated, handed>>

-----------------------------------------------------------------------------
(* The two walks over the whole vault                                      *)

\* Mutant of the walks: VaultRepository.all_ids instead of the backing's.
WalkScopedIds(c) == {id \in Present : InScope(c, id)}

\* backing.all_ids: every row, whatever the scope of the store.
WalkIds(c) == Present

\* Mutant of the start: the migration runs under a NullCipher too.
StartWalkKeyless(c, job) ==
  /\ Ready(c) /\ held[c].proxy
  /\ op' = [op EXCEPT ![c] = [at |-> "walk", job |-> job, todo |-> WalkIds(c)]]
  /\ UNCHANGED <<rows, ring, held, drawn, rotated, migrated, astray, handed>>

\* rotate_keys and encrypt_plaintext_rows refuse all but the owner, and the
\* latter refuses the NullCipher.
StartWalk(c, job) ==
  /\ Ready(c) /\ held[c].proxy
  /\ job = "encrypt" => held[c].primary # Plain
  /\ op' = [op EXCEPT ![c] = [at |-> "walk", job |-> job, todo |-> WalkIds(c)]]
  /\ UNCHANGED <<rows, ring, held, drawn, rotated, migrated, astray, handed>>

\* Mutant of the rotation: a token that does not decrypt is passed over.
SettledOrUnreadable(c, id) ==
  id \in Present =>
    IF op[c].job = "rotate"
      THEN held[c].primary = Plain \/ rows[id].key \notin Readable(held[c]) \ {Bare}
      ELSE rows[id].key # Plain

\* A row the walk has nothing to do for: deleted since the walk began, without
\* a token, a rotation by the NullCipher, or a migration meeting ciphertext.
Settled(c, id) ==
  id \in Present =>
    IF op[c].job = "rotate" THEN held[c].primary = Plain \/ rows[id].key = Bare
                            ELSE rows[id].key # Plain

\* What the walk can turn into the primary's ciphertext: rotate decrypts with
\* any key of the ring, the migration encrypts the plaintext.
Convertible(c, id) ==
  op[c].job = "rotate" => rows[id].key \in Readable(held[c])

Passed(c, id) ==
  [at |-> "walk", job |-> op[c].job, todo |-> op[c].todo \ {id}]

WalkOver(c, id) ==
  /\ op[c].at = "walk" /\ id \in op[c].todo
  /\ Settled(c, id)
  /\ op' = [op EXCEPT ![c] = Passed(c, id)]
  /\ UNCHANGED <<rows, ring, held, drawn, rotated, migrated, astray, handed>>

\* A token no configured key decrypts: RuntimeError, the walk ends here.
WalkRaises(c, id) ==
  /\ op[c].at = "walk" /\ id \in op[c].todo
  /\ ~Settled(c, id) /\ ~Convertible(c, id)
  /\ op' = [op EXCEPT ![c] = Idle]
  /\ UNCHANGED <<rows, ring, held, drawn, rotated, migrated, astray, handed>>

WalkRead(c, id) ==
  /\ op[c].at = "walk" /\ id \in op[c].todo
  /\ ~Settled(c, id) /\ Convertible(c, id)
  /\ op' = [op EXCEPT ![c] =
              [at |-> "rewrite", job |-> op[c].job, todo |-> op[c].todo,
               id |-> id, body |-> rows[id].body]]
  /\ UNCHANGED <<rows, ring, held, drawn, rotated, migrated, astray, handed>>

\* The whole row as it was read, with the new token; no tag follows.
Rewrite(c) ==
  /\ op[c].at = "rewrite"
  /\ rows' = [rows EXCEPT ![op[c].id] =
                Stored(op[c].id, op[c].body, held[c].primary)]
  /\ astray' = Strayed(op[c].id, held[c].primary)
  /\ op' = [op EXCEPT ![c] = Passed(c, op[c].id)]
  /\ UNCHANGED <<ring, held, drawn, rotated, migrated, handed>>

WalkReturns(c) ==
  /\ op[c].at = "walk" /\ op[c].todo = {}
  /\ op' = [op EXCEPT ![c] = Idle]
  /\ rotated' = IF op[c].job = "rotate" THEN held[c].primary ELSE rotated
  /\ migrated' = (migrated \/ op[c].job = "encrypt")
  /\ UNCHANGED <<rows, ring, held, drawn, astray, handed>>

-----------------------------------------------------------------------------
RowOp(c) ==
  \/ \E id \in Ids, body \in Bodies :
       \/ Upsert(c, id, body) \/ PlainCapture(c, id, body)
       \/ Touch(c, id, body) \/ PlainTouch(c, id, body)
  \/ \E id \in Ids : FetchToDelete(c, id)
  \/ TouchWrite(c) \/ Tag(c) \/ Erase(c)

Walk(c) ==
  \/ \E job \in {"rotate", "encrypt"} : StartWalk(c, job)
  \/ \E id \in Ids : WalkOver(c, id) \/ WalkRaises(c, id) \/ WalkRead(c, id)
  \/ Rewrite(c) \/ WalkReturns(c)

Next ==
  \/ \E k \in Keys : Rekey(k)
  \/ DropRetired
  \/ \E c \in Clients :
       \/ \E scope \in Apps \cup {NoApp} : Open(c, scope)
       \/ \E app \in Apps : RegisterApp(c, app)
       \/ OpenPlain(c) \/ Stop(c) \/ RowOp(c) \/ Walk(c)

Spec == Init /\ [][Next]_vars

-----------------------------------------------------------------------------
(* Properties                                                              *)

\* Rekeying, rotating and dropping the retired keys locks away no memory that
\* was last written under what was then the primary: at every moment it is
\* readable under the configured keys, or is plaintext from the keyless days,
\* with rotations cut short, re-run and overlapping each other and live
\* writers.  Excepted are the rows that a process wrote behind the operator:
\* a store still on an older ring (cipher.py:112), a walk of such a store, the
\* keyless store of an app (apps.py:241), or a plain engine that puts an old
\* token back.
RowsStayReadable ==
  \A id \in Present \ astray : rows[id].key \in Readable(ring) \cup {Plain}

\* Once rotate_keys to the present primary has returned, every row written
\* under a primary, before, during or since, is under the present one.
\* Excepted are the rows written behind the operator, as above, and those
\* without a token, which the rotation passes over (vault.py:416).
RotationIsComplete ==
  rotated = ring.primary =>
    \A id \in Present \ astray : rows[id].key \in {ring.primary, Bare}

\* Once encrypt_plaintext_rows has returned, no NullCipher payload is at rest,
\* nor appears again.  Excepted are the rows written behind the operator, as
\* above; and a row without a token, which is in plaintext as well and which
\* the migration passes over (vault.py:487), is no such payload.
MigrationIsComplete ==
  migrated => \A id \in Present \ astray : rows[id].key # Plain

\* A memory leaves an app for another only if that other app's store was
\* handed its id in an upsert, which tests no scope; it is never left without
\* an app, and the owner's rewrites, rotations, migrations, the plain engine
\* and stores that die between write and tag move nothing.
AppsKeepTheirRows ==
  [][\A id \in Present :
       rows[id].app # NoApp /\ rows'[id] # Gone /\ rows'[id].app # rows[id].app
         => <<rows'[id].app, id>> \in handed]_vars

\* docs/vault.md on rotate_keys: "Routing columns, app_id, embeddings, and
\* links are untouched" - the write of a walk changes the key of a row and
\* nothing else, and makes no row.
RotationTouchesOnlyKeys ==
  [][\A c \in Clients :
       op[c].at = "rewrite" /\ op'[c].at = "walk" =>
         LET id == op[c].id IN
         /\ id \in Present
         /\ rows'[id] = [rows[id] EXCEPT !.key = rows'[id].key]]_vars

=============================================================================
