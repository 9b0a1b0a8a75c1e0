# HydroMemory: TLA+ models, checks and proofs

HydroMemory is an agent memory: *droplets* (memories) live in reservoirs, move through
phases by *verbs*, are guarded by governance, stored in SQLite with a vector index, announced on an
event bus, reacted to by an agent mesh, and kept by an owner in an audited vault.
This directory holds models of the parts where the order of steps, a crash, or a second
actor matters, what TLC checks of them, and what TLAPS proves. Paths below are relative to
`src/hydromemory/`; documents are under `src/docs/`.

## 1. Inventory

| part | state it keeps | operations | how it interacts | what makes it correct |
|---|---|---|---|---|
| verbs (`verbs.py`, `forgetting.py`, `contamination.py`) | none: change a droplet object | absorb, infiltrate, freeze, melt, pollute, filter, distill, irrigate, drain, archive, forget ... | read nothing, write the whole object by `repo.upsert`, then emit | pollution blocks use until a filter, a seal holds, phase and taint agree |
| pipeline (`pipeline.py`, `phases.py`, `triggers.py`) | none | `process_experience`: classify, route, walk the phases, review, store; `recall_for_agent` | calls governance, store, bus | only storable phases are stored |
| engine and scheduler (`engine.py`, `scheduler.py`) | the tick thread with its own engine, the stop event its threads share, the thread held | `tick`, `start`, `stop` with a join timeout | get ... upsert of every row, beside the clients | a decay fades salience and nothing else; one thread, silent after a stop, ticking until one |
| governance (`governance/`) | the rules in `policy_data.json` | `check_access` | asked by verbs, pipeline, vault, bus, mesh, apps | deny wins, in one fixed order of tests |
| store (`storage/sqlite_repository.py`) | droplet rows, links, index in memory, index file | upsert, get, delete, rebuild_index, open, close | one SQLite file, several engines | reopening recovers rows and embeddings |
| vector indexes (`storage/vector_index.py`, `storage/ann_index.py`) | ids and vectors by position (exact), by positions that are never freed (faiss), by labels within a capacity (hnswlib); one or two files | add, remove, search, rebuild, persist, load | the SQLite store calls them between SQL and commit | every backend is one map that follows the rows; a search finds what is there |
| Postgres store (`storage/postgres_repository.py`) | rows with their embeddings, links, one connection | upsert, delete, add_link, remove_link, touch_cycle, open, close | `open_store` chooses it; several repositories on one server | a call is whole or nothing; only calls on one droplet disturb each other |
| bus (`bus/`) | subscriptions, dispatch depth | publish, subscribe, unsubscribe | handlers run inside publish and may publish | no event storm, the gate fails closed |
| mesh (`platform/mesh.py`, `platform/runtime.py`) | dedupe set of the cycle | react: assess, filter, reverify; consolidate | listens on the bus, writes through the vault, publishes follow-ons | what is absorbed is assessed, what is announced is stored |
| audit log (`vault/audit.py`) | chained rows, watermark | append, verify_chain | every vault operation appends | the chain shows every change of what was appended |
| vault (`vault/vault.py`, `vault/cipher.py`) | rows with app tag and ciphertext | scoped CRUD, rotate_keys, encrypt_plaintext_rows | wraps the store; several stores, plain engines and registered apps on one file | what is written under the keys of its moment stays readable; a row changes app only by an upsert of the other |
| grants and apps (`platform/grants.py`, `platform/apps.py`) | grant rows | request, approve, deny, revoke, enforce_grant; absorb, recall | an app's recall asks per candidate | nothing is handed out without a grant in force |
| recall (`recall.py`, `activation.py`, `pipeline.recall_for_agent`, `verbs.precipitate`) | none: a call | search with a gate, spreading activation over links, mode, rendering, `touch_cycle` | reads rows that verbs and the tick change meanwhile | shows what is readable, and what is polluted as a warning |
| others | see PROJECT.json | packing, HQL, canonical protocol, cognitive bus, server, SDK, CLI, agents, onboarding | conversions, ranking, I/O | planned, or out of reach |

What is hard here: every verb writes a whole object that was read earlier (lost updates,
resurrection); the audit log, the store, the vault and the index files are several commits or writes each
(crashes in between, two processes); an ANN library keeps what was removed, and has a capacity of its own;
a stop may give up on a thread that a later start revives; a key rotation walks the rows while others write; handlers run nested
inside `publish`; permission is decided on data, grants and a clock that may have changed when it is
used. The hazards are listed with their lines in PROJECT.json.

## 2. Modules

Each module states its constants with named assumptions, its variables, one action per operation, its
mutants beside what they mutate, and its properties last.

* `Governance` - `check_access` and the reservoir rules, as operators every other module uses.
* `Phases` - the transition table, the priority walk over fired triggers, the settling step.
* `WaterCycle` (with `MCWaterCycle`, `WaterCycleProofs`) - rows, the object each client holds, the
  tick thread, and every verb. A droplet keeps phase, reservoir, the taint flags, the seal, whether it
  is pure, one salience level and the cycle count. `dirty` and `forgotten` are history: the ids a
  pollute or a forget was reported for. `InlineSpec` is the engine whose ticks are calls of `Engine.tick`,
  `Spec` with `Background` the one beside which the scheduler's thread ticks.
* `Memory` - what a caller of the verbs may rely on: a set of records, one per memory, that a verb changes
  where they lie. A memory may be created, moved, sealed, polluted, filtered, recalled or forgotten; only
  pollution taints it, only a filter clears it, no seal comes off, recalls count one by one, and what was
  forgotten never returns. `ImplementsMemory` in `WaterCycle` is `INSTANCE Memory` with the rows, less their
  salience, for `memory`.
* `AuditLog` (with `AuditLogProofs`) - `append` as its four commits, abandonment between any two,
  changes of the stored rows by other means, `verify_chain`. A hash is the sequence of what it was
  computed from, so two hashes are equal only when all they depend on is (no collisions).
* `VectorStore` - rows, index per engine, index file, open transaction after an error, crash. Between its
  commit and the write of the file a call is at `persist`, or at `rebuild` when `rebuild_index` is what
  computed the index: a crash then loses the one droplet, or nothing that the rows do not still say.
* `IndexMap` - the abstract index: one map that is written with the rows, saved, read back and rebuilt, and
  that promises nothing (`Unsafe`) once read from a save that stopped halfway. `BruteIndex`, `FaissIndex`
  and `HnswIndex` are the three backends down to their positions, labels and files; hnswlib and faiss
  themselves are modelled from how `ann_index.py` uses them. Each defines `InMemory`, `OnDisk` (the map a
  search would compare with, now and after reading the files) and `Yields` (how many ids a search returns
  in the worst order of the rows), and `VectorIndexes` composes them as `build_vector_index` does:
  `ImplementsContract` is `INSTANCE IndexMap` with those two for `map` and `saved`. `IndexConstants` holds
  the constants and their assumptions; `IndexProofs` the proofs.
* `PgStore` - the Postgres repository statement by statement. A
  statement runs whole, waits for rows another transaction has written, and reads what is committed; any may
  be refused, and then every later one is, as nothing in the class rolls back. `owed` is history: what
  the returned calls say a droplet's row and links must be, or `Raced`.
* `Stores` (with `MCStores`, `StoresProofs`) - `open_store`: `PgStore`, which it extends, or an instance of `VectorStore`, as
  configured.
* `Scheduler` (with `SchedulerProofs`) - the owner's start and stop, and every thread they created. `gaveUp`,
  `wanted` and `spoiled` are history: the threads whose join timed out, whether start was called last,
  and whether the thread of that start failed to build its engine or was stopped by its own callback.
  What a tick does is in `WaterCycle`.
* `EventBus`, `Mesh` (with `MCMesh`, `MeshProofs`) - publish as a stack of calls in progress; the mesh's reactions,
  clients and relays that call verbs, on one thread. `Mesh` extends `EventBus`, which extends
  `Governance`. `maxDepth` is the constructor's `max_depth`, drawn from `Depths`; `due` is history.
* `Vault` (with `MCVault`, `VaultProofs`) - the rows as (app, key, body), the operator's key ring, and
  processes of three kinds on one file: vault stores with the ring of the moment they were opened, plain
  engines (`build_engine`), whose rows carry no vault token (`Bare`), and the stores of registered apps,
  which `_scoped_vault_for` gives a `NullCipher` whatever keys are set (`Plain`). Each is in the middle of
  at most one thing: a write, the tag that follows it in a commit of its own, a delete, or a walk of
  `rotate_keys` or `encrypt_plaintext_rows`, which reads a row in one step and rewrites it in another.
  `Upsert` takes any id, as `VaultRepository.upsert` asks for no scope. An app registered on an engine is a
  process of its own beside that engine, whose connection it shares: the calls of the two interleave
  whole, which is fewer interleavings than the model has. History: `drawn`, the keys there have been;
  `rotated` and `migrated`, what the walks that returned left; `astray`, the ids last written under a key
  that was not the primary then; `handed`, which ids an app's store was given to upsert.
* `Grants` (with `MCGrants`, `GrantsProofs`) - grant rows and the clock, an app's scope of the vault,
  and recall as one query followed by one `enforce_grant` per candidate, with owners deciding, time
  passing and memories moving in between. `live` is history: the grants in force at some moment of the
  recall under way.
* `Recall` (with `MCRecall`; proofs in `WaterCycleProofs`) - both recalls beside the verbs and the tick of `WaterCycle`,
  which it extends, by readers with engines of their own. Each read of a row is a step: by the search,
  which asks the gate; by spreading activation, whose droplets `precipitate` keeps and renders; by the
  rendering of any other hit; and `touch_cycle`'s SELECT before its UPDATE. Of a droplet a call keeps
  whether the gate permits it and what its possible renderings carry, the memory or only the reason for
  a warning. `readable` and `untainted` are history: the ids that were so at some moment of the call.

## 3. Runs

Every run ends by itself; bounds are constants of the cfg or named as a bound in the module.

| run | what it shows | bounds, and why they suffice |
|---|---|---|
| `lifecycle` | one client, every verb, the idle tick: a polluted memory is refused for generation until a filter (`NoGenerationUntilFiltered`), nothing else taints one (`TaintIsEarned`), phase and taint agree, cycle counts never fall, and reading, changing and writing back a copy of a row is one step of `Memory` (`ImplementsMemory`) | two memories (distill derives one from the other), one level of pressure and one counted cycle: the code only compares them |
| `tick_loses_updates` | *violated*: `DecayFadesSalienceOnly` | one client and the thread, one memory: the race is over a single row |
| `sealed_memory_read` | *violated*: `SealedStaysInaccessible` | one client suffices |
| `audit_single` | one appender that may die at any statement, and one edit, loss or exchange of rows at any moment: the chain is intact, damage stays visible, loss is noticed, a completed append's head verifies | four appends: a row before, at and after the damage, and one later append |
| `stores` | SQLite: one engine, crashes between commit and index write, refused embeddings, another dimension on reopen: shapes agree, stale only where lost, reopening recovers. Postgres: two repositories, every statement interleaved, refused or cut off: `OnlyRacesLose` | two ids (a link needs two), two dimensions, two values; two connections, alike (symmetry), one embedding or none, one counted cycle |
| `backends` | the three indexes under any adds, removals, rebuilds, saves that stop between two files, and reopening: each implements `IndexMap`, and a search for k finds k ids or all (`SearchYields`) | two ids and two embeddings, an hnswlib capacity of 1 (1024 in the code) that doubles once, four vectors per index: enough to replace, remove and add again, to run out of room and to have more soft-deleted positions than live ones; searches for 1 and 2 |
| `scheduler` | starts, stops, join timeouts, engines that cannot be built, callbacks that call stop: `SingleThread`, `StopSilences`, `TicksGoOn` | four threads: one held, up to three given up on |
| `mesh` | buses with `max_depth` 1 (the default) and 2 (as the integration harness builds it), a relay that listens or calls verbs, events replayed with any `_depth`: what is absorbed is assessed by the time publish returns, follow-ons report stored changes, at depth 1 nobody is overtaken, every publish returns | one droplet (reactions do not relate two), cascade depth 1 |
| `vault` | two processes of any kind; the operator rekeying twice and dropping retired keys; rotation and migration at any time, dying anywhere: rows not astray stay readable, returned walks have passed only rows without a token, rows change app only by that app's upsert | one row, two apps, three keys and keyless: each property speaks of one row, and another row enters its history only by ending a walk early, which dying does too. With two rows, one app and two keys it passes as well (5.5 million states). |
| `rotation_race` | *violated*: `RotationTouchesOnlyKeys` | two rows, two keys, two bodies |
| `grants` | the owner, an agent that claims to be a proxy and one of little trust recall while two requests are decided on in any order: `ReturnedWasGranted`, `GrantsOnlyNarrow` | two memories, two requests (neither of two covers what both would between them), a clock of two values: expiry before, at and after |
| `recall` | a recall of either kind while a client calls every verb and the scheduler's thread writes back stale objects: `ShownWasReadable`, `TaintedOnlyAsWarning`, and `PhaseMatchesTaint` with the thread | one memory (candidates are decided on one by one, and a link may start outside the model), one agent that some reservoirs admit and others do not; no level of pressure and no counted cycle, which decide nothing here; states that differ in `dirty` only, which nothing in the run reads, count as one (`VIEW`) |

`CHECK_DEADLOCK FALSE` is set where the bounds let the system run out of what to do: all ids forgotten,
all appends spent.

**Fairness.** `Mesh` has `WF_vars(Dispatch)`: `publish` is a synchronous call of finitely many handlers on
one thread, so once begun its next step is taken. `Scheduler` has `WF_vars(Run(t))` for every thread: the
operating system schedules it, a tick over a finite store ends, and `Event.wait` returns after the
interval. Clients, owners, joins and callbacks are never assumed to act. Everything else is checked for
safety only.

**Assumptions.** Two runs model one actor where the code has no lock against a second. `audit_single`
has one appender: `AuditLog.append` reads the last hash and inserts its row in separate transactions
(`vault/audit.py:187`), so two processes that append at once can insert two rows with one predecessor, and
`ChainIntact` fails with `Appender` of two elements. `stores` has one engine per index file: every engine
writes its whole index over the shared file (`storage/vector_index.py:123`), so the last to write drops the
other's vectors, and `ReopenRecovers` fails with `Engine` of two. `rebuild_index` repairs the latter.

## 4. Findings

PROJECT.json quotes the line each finding is about. Three runs show the program doing otherwise than its
documents or comments say. A decay tick reverts what a client committed since it read the row; a sealed memory leaves
the glacier by infiltrate or melt and is then readable without consent; a rotation reverts a concurrent
write, or brings a deleted row back without its app.

Three more disagreements are exceptions that the properties of the passing run `vault` have to make; without
its exception each is violated within a few steps.

* Rotation "without downtime or data loss" (`docs/vault.md:313`): nothing makes an open store take up the new
  ring, so it writes under the old primary behind the rotation, and dropping the old key locks that row
  away. An app registered on a plain engine writes in plaintext whatever keys are set, and a plain engine's
  tick puts back the token it read. `RowsStayReadable`, `RotationIsComplete` and `MigrationIsComplete` except
  rows so written (`astray`) until a store with the present ring, or a walk, writes them again.
* "Encrypt every row still stored as plaintext" (`docs/vault.md:305`): both walks pass over rows without a
  vault token, which a plain engine wrote. They stay in plaintext (`Bare` in the properties).
* "On every method: per-app scope filtering" (`vault/vault.py:4`): `upsert` has none and tags what it
  wrote, so an app that is handed another's id overwrites the memory and takes it over.
  `AppsKeepTheirRows` excepts apps whose store was handed the id (`handed`).

What the passing runs had to allow for, each named in the property's comment or its model:

* faiss: `search` asks for `min(len(labels), 2k)` positions (`ann_index.py:268-270`), so with more than k
  soft-deleted ones nearest it may return fewer than k ids, down to none. `SearchYields` promises k only up
  to there.
* hnswlib: `_ensure_capacity` counts ids where the library counts labels, marked ones too. Replacements
  alone fill the 1024 of a new index; the next add raises, after it marked the old label, and a search
  misses that id until a rebuild. The contract has `Refuse` for it.
* Both: `persist` writes two files. After an end between them labels and points are of two saves, and
  nothing is promised until a rebuild.
* Scheduler: a stop that timed out and a start after it clear the event that the old thread was to see, so
  two threads tick one store (`SingleThread` has `gaveUp` for it). A start while the held thread
  closes after its callback called stop does nothing, and nobody is told; nor of a `build_engine` that raised.
* Postgres: after one refused statement every later call of the repository fails, also reads, until it is
  opened again; `touch_cycle` loses a count to an overlapping call, as its SQLite counterpart does.

## 5. Proofs

TLAPS proves the theorems listed in PROJECT.json for every value of the constants. Each invariant of
the runs is strengthened to an inductive one, and the proof has a step per action.

* `WaterCycleProofs`: `TypeInvariant`; `InlineIsACase`, by which all that follows holds of `InlineSpec` too; `PhaseTaintSafety` from "every copy of a droplet, stored, in a
  client's hands or in the tick's, is coherent", which needs no assumption about threads because every
  verb keeps the object coherent it works on. `OneClientSeesStore`, `PollutionSafety` and `FilterSafety`
  assume one client and no thread: `OneClientInv` adds that the object in hand and the row agree and
  that the mark of a dirty id is on both. `CyclesOnlyRise` needs the same: with a second client an object
  read before a touch writes the old count back. `InlineDecay` needs only that no thread ticks: the tick
  is then one step, so `DecayFadesSalienceOnly` holds for any number of clients, and what the run
  `tick_loses_updates` shows is the thread's doing alone. `Implements`: because object and row agree
  (`ObjectMatchesRow`, which `OneClientSeesStore` states), writing the object back is a change of the memory
  itself; loads, drains and ticks change nothing that `Memory` knows. With a second client, or the thread, a
  write-back may undo the other's change or bring back what it forgot, and the refinement fails.
* `AuditLogProofs`: `AuditTypes`; the rest with one appender. `ChainSafety`: an append extends the last row,
  whatever was done to the rows before (`LinkInv`). `DamageDetection`, for at most one change of the rows: an
  edit, a loss from the inside or an exchange breaks a link between two rows both of which stay, and
  hashes determine what they were computed from (`BreakInv`). `CompletedHead` and, for at most one change,
  `LossNoticed`: `HeadInv` says how far the watermark's two halves and the last row may be apart at each of
  the four commits, an append that died between them included.
* `VaultProofs`, from no assumption about when stores are opened or the operator acts: `VaultTypes`,
  `RotationSafety`, `ReadableSafety`, `MigrationSafety`, `AppSafety`, with the exceptions of section 4 in
  what they state. `RotationInv` says that every key a row is under, a process holds or a rotation returned
  with has been drawn (`KeysDrawn`), so a new primary is nobody's yet; that rows not astray are under the
  ring or in plaintext; and of a rotation to the present primary what it has behind it: every row not in
  its `todo` is under that primary, without a token, or astray. `MigrationInv` says the same of NullCipher
  payloads, and that whoever migrates has a key and so has the operator by then (`KeyedOnly`): a process
  that still writes them strays. `AppInv`: each app tag, standing or about to be written, is of an app whose
  store was handed the id (`TagsHanded`).
* `GrantsProofs`: `GrantsTypes`, `GrantedSafety`, `NarrowSafety`. `GrantsInv` says that every grant now in
  force is recorded for every recall under way, that a recorded grant was filed, so its terms are fixed,
  and that only the owner carries the proxy flag; `ScopeInv` that what waits to be checked came out of
  the app's own scoped query.
* Also in `WaterCycleProofs`, about `Recall`: `CallsTypes`, `ShownSafety`, `WarningSafety`, for any number of
  readers, clients and agents. `CoverInv` says that the history of a call covers what the store permits
  now, every hit of the recall that never asks again, every view `precipitate` kept, and what is shown.
  The invariant alone would not be inductive: a render rests on a view taken steps before.
* `SchedulerProofs`: `TypeCorrect` and `OneThread`, for any number of threads. A start replaces the handle only
  when the thread it held has died, and a stop forgets it only then or when it gives it up.
* `StoresProofs`, the Postgres side: `TypeCorrect` and `OnlyRaces`, for any droplets and any number of
  connections. The tables change in `Commit` alone, so the argument is about calls in progress: `Shape` says
  that what a call has written is about its own droplet, and `Fits` how a call that nobody disturbed stands to
  the tables as they are now, so that its commit makes them exactly what `After` owes. `StoreTypes` and
  `StoreRaces` say the same of what `open_store` hands out.
  The SQLite side: `StoreShapes` for any number of engines. `CacheIsRight` and `Reopening` for one (`OneEngine`;
  a second engine writes its whole index over the file): `FileInv` says what the file must have of every
  droplet that no step lost, `EngineInv` the same of the index in memory at each step of a call, where an open
  transaction makes the index run ahead of the rows.
* `MeshProofs`, for any handlers, memories, identities and depths: `TypeCorrect`, and `CascadeGuard`, from which
  `InOrder` follows. `FollowOn` and `Assessed` assume `VaultIdentity`, that the vault is opened under a
  filtration identity as `integration-levels.md` demands; without it the vault refuses what assessing
  routes to the contaminated pool. `Assessed` also assumes a mesh that reacts at all (`max_depth` at least 1).
  `AssessInv` says that while an absorbed droplet the agent was told of is not assessed, a call in progress
  has loaded it and still has the agent's turn before it (`Pending`), and that its key is not in the dedupe
  set: replaying the event early cannot use the key up, because the gate fails closed on a droplet that is
  not stored (`BornInv`).
* `IndexProofs`, whichever backend is configured, for any ids, embeddings, capacity and number of adds:
  `TypeCorrect`; `Implements`, the refinement of `IndexMap`; `SearchFindsEnough`. `IndexInv` has an invariant
  for each backend, kept while another one is used. `BruteInv` and `FaissInv`: a position that is not deleted
  is the live one of its id (`Good`), so no id has two; a row taken out of the exact index moves those after it
  by one, and their positions with them. `HnswInv`: labels are one id's alone and less than the next
  (`OwnLabels`), the library has a point for each and none that is live without an id (`Held`), and
  `_id_of` names no other id, and names it while the label is live (`Named`) - not always, as an add that raises
  has dropped the name and left the label. Of two files that are not of two saves the same is true (`FaissFiles`, `HnswFiles`).
  Each step then maps to a step of `IndexMap` or leaves its variables alone. For `SearchFindsEnough` the live
  positions, or points, are counted by a bijection with the ids.

Only model-checked: the liveness of `publish` and of the scheduler (`PublishReturns`, `StopSilences`,
`TicksGoOn`), as fairness is out of the prover's reach. Every other property of a passing run is a theorem.

## 6. What is left out

Floats (salience, scores and thresholds are a level or a free choice), texts and embeddings (an id or a
version), obligations (returned, never applied), logging and metrics. In components that are modelled:
association links and their upkeep by `upsert`, the queues of WebSocket clients, predicates and handler
errors of the bus, the mesh's consolidation, the announcement an
app's absorb makes, the derivation of keys, the order of recalled results and the events announcing
them, the reader that composes an answer. Collisions of sha256, and damage of SQLite's own file, are
assumed away. `Capture` in `WaterCycle` makes a new id; the pipeline also takes one from its caller's event
(`pipeline.py:185`), which no caller in the repository passes, and would overwrite that memory.

Of the vault: a key comes once, so an operator who goes back to an earlier key, or to none, is not in the
model; nor are identities other than a user proxy, which the walks refuse and `check_access` may deny
writes, in stores that `open_vault_store` opens.

Of the stores and indexes: the write of one index file is whole (a truncated `.hnsw` or `.faiss` makes the
next open raise); a search's ranking; the dimension, which `VectorStore` has; the reads of Postgres, which
change no row (`get` reads row and links by two statements), its check of the column's dimension, links of
more than one kind, and one anomaly of READ COMMITTED, a delete of links that waits for another
transaction and does not see the ones it inserts anew; errors of the client between two statements; and an
acknowledgement of a commit that is lost: `Commit` and the return of the call are one step, so a call that
raises after the server committed is not there. A rebuild of the exact index that raises leaves a partly
filled one, where `VectorStore` has an empty one; its ids are among the lost either way. Of the
scheduler: two threads that own one scheduler, and a thread that was given up on calling stop.

## 7. Plan

1. The rest of recall: `Engine.answer`, which reads what was recalled once more and without the gate, the
   packing of a working set, and the cap on how many droplets activation reaches.
2. Consolidation in `Mesh`: constellation, density gate, principles that are not consolidated again;
   bounded by the depth guard and the dedupe set; handler errors with it.
3. Links: `process_experience` links before it stores, and `upsert` rewrites the links of a stale object.
4. An abstract ledger that `AuditLog` with one appender implements, and `VectorStore` over `IndexMap` in
   place of its own index.
5. Client queues (drop-oldest, WebSocket teardown) and the cognitive bus's envelope gate.
