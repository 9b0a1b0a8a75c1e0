----------------------------- MODULE WaterCycle -----------------------------
(***************************************************************************)
(* The life of a droplet: the HydroMemory verbs (verbs.py, forgetting.py,  *)
(* contamination.py, pipeline.py) over the rows of one shared store, and   *)
(* Engine.tick, the idle-time decay, either called between verbs or run by *)
(* the scheduler thread with an engine of its own.                         *)
(*                                                                         *)
(* A verb takes a droplet OBJECT, changes it in memory and writes all of it *)
(* back with one upsert.  The object was read some time before, so two     *)
(* clients, or a client and the tick thread, may hold different copies of  *)
(* one row.  That is what held and tick are for.                           *)
(***************************************************************************)
EXTENDS Governance, Phases, FiniteSets

CONSTANTS
    Id,           \* droplet ids; each is used by new_id at most once
    Client,       \* threads of control that call verbs
    Agent,        \* agent identities passed to the governed verbs
    Background,   \* TRUE when the TickScheduler thread runs
    MaxPressure,  \* bound: levels of the salience dimension pressure
    MaxCycles,    \* bound: cycle_count
    NoRow, Nothing, NoAgent

ASSUME BoundsAssumption ==
    /\ MaxPressure \in Nat
    /\ MaxCycles \in Nat
    /\ Background \in BOOLEAN

(***************************************************************************)
(* The part of a droplet the properties tell apart.                        *)
(*   tainted  meta usable_for_generation = False, requires_filtering = True *)
(*            (the code always sets the two together)                      *)
(*   sealed   meta sealed = True, accessible = False                       *)
(*   pure     state.purity >= FILTERED_PURITY                              *)
(*   pressure stands for the salience dimensions decay fades               *)
(*   cycles   cycle.cycle_count                                            *)
(* Permissions keep their defaults: private, no allowed_agents.            *)
(***************************************************************************)
Droplet == [phase : Phase, reservoir : Reservoir, tainted : BOOLEAN,
            sealed : BOOLEAN, pure : BOOLEAN, pressure : 0..MaxPressure,
            cycles : 0..MaxCycles]

ASSUME NoRowAssumption == NoRow \notin Droplet

VARIABLES
    rows,       \* rows[d]: the stored row of d, or NoRow
    held,       \* held[c]: the id and droplet object client c works on
    tick,       \* the scheduler's tick: ids still to visit, and the object read
    dirty,      \* ids a POLLUTE was reported for, and no FILTER since
    forgotten   \* ids a FORGET was reported for

vars == <<rows, held, tick, dirty, forgotten>>

Object   == [id : Id, drop : Droplet]
Stored   == {d \in Id : rows[d] # NoRow}
Unused   == {d \in Id : rows[d] = NoRow /\ d \notin forgotten}
IdleTick == [todo |-> {}, obj |-> Nothing]

\* A droplet as check_access sees it.
Governed(drop) == [reservoir |-> drop.reservoir, tainted |-> drop.tainted,
                   allowed |-> {}, private |-> TRUE]

Allowed(drop, agent, ctx, op) == CheckAccess(Governed(drop), agent, ctx, op)

-----------------------------------------------------------------------------
(* What each verb makes of the object it is given. *)

\* verbs.infiltrate
Infiltrated(d) ==
    [d EXCEPT !.phase = IF @ \in {"liquid", "river"} THEN "groundwater" ELSE @,
              !.reservoir = "groundwater"]

\* verbs.freeze, once past the policy review
Frozen(d) == [d EXCEPT !.phase = "ice", !.reservoir = "glacier"]

\* Mutant of melt: a thaw takes the seal off.
MeltedUnsealed(d) == [d EXCEPT !.phase = "liquid", !.reservoir = "working_stream",
                               !.sealed = FALSE]

\* verbs.melt of an ICE droplet in a safe context
Melted(d) == [d EXCEPT !.phase = "liquid", !.reservoir = "working_stream"]

\* Mutant of mark_polluted: the meta flags are left to the caller.
MarkPollutedPhaseOnly(d) == [d EXCEPT !.phase = "polluted",
                                      !.reservoir = "contaminated"]

\* contamination.mark_polluted
MarkPolluted(d) == [d EXCEPT !.phase = "polluted", !.reservoir = "contaminated",
                             !.tainted = TRUE]

\* Mutants of filter_droplet: the purity is not raised; the flag is cleared only
\* for a droplet that still rests in the contaminated reservoir.
FilterDropletImpure(d) ==
    [d EXCEPT !.phase = "filtered",
              !.reservoir = IF @ = "contaminated" THEN "surface" ELSE @,
              !.tainted = FALSE]

FilterDropletInPlace(d) ==
    [d EXCEPT !.phase = "filtered",
              !.reservoir = IF @ = "contaminated" THEN "surface" ELSE @,
              !.pure = TRUE,
              !.tainted = @ /\ d.reservoir # "contaminated"]

\* contamination.filter_droplet: accepts a droplet of any phase
FilterDroplet(d) ==
    [d EXCEPT !.phase = "filtered",
              !.reservoir = IF @ = "contaminated" THEN "surface" ELSE @,
              !.pure = TRUE, !.tainted = FALSE]

\* Mutant of sediment: the meta of the consolidated droplet starts afresh.
SedimentedAfresh(d) == [d EXCEPT !.phase = "groundwater",
                                 !.reservoir = "groundwater", !.tainted = FALSE]

\* forgetting.drain, sediment, seal
Drained(d)    == [d EXCEPT !.pressure = 0]
Sedimented(d) == [d EXCEPT !.phase = "groundwater", !.reservoir = "groundwater"]
Sealed(d)     == [d EXCEPT !.phase = "ice", !.reservoir = "glacier",
                           !.sealed = TRUE]

\* Mutant of decay: no floor at zero.
DecayedBelowZero(d) == [d EXCEPT !.pressure = @ - 1]

\* forgetting.decay by one or more idle cycles: salience only
Decayed(d) == [d EXCEPT !.pressure = IF @ = 0 THEN 0 ELSE @ - 1]

\* A droplet a verb or the pipeline builds: no meta flag set, never recalled.
Fresh(ph, res, isPure, press) ==
    [phase |-> ph, reservoir |-> res, tainted |-> FALSE, sealed |-> FALSE,
     pure |-> isPure, pressure |-> press, cycles |-> 0]

-----------------------------------------------------------------------------
Init ==
    /\ rows = [d \in Id |-> NoRow]
    /\ held = [c \in Client |-> Nothing]
    /\ tick = IdleTick
    /\ dirty = {}
    /\ forgotten = {}

\* repo.upsert of the object a client holds after a verb.
WriteBack(c, id, drop) ==
    /\ rows' = [rows EXCEPT ![id] = drop]
    /\ held' = [held EXCEPT ![c] = [id |-> id, drop |-> drop]]

\* verbs.absorb: a LIQUID droplet, stored without any review.
Absorb(c) ==
    /\ \E id \in Unused, res \in Reservoir, isPure \in BOOLEAN,
          press \in 0..MaxPressure :
          WriteBack(c, id, Fresh("liquid", res, isPure, press))
    /\ UNCHANGED <<tick, dirty, forgotten>>

\* The triggers detect_triggers may fire together: an extreme charge is also
\* above the heat threshold.
FiredTriggers(cond) ==
    {T \in SUBSET Trigger : cond.charged => {"extreme_charge", "heat"} \subseteq T}

\* The phases a capture can leave a new droplet in: LIQUID, the walk, settling.
CapturedPhase ==
    UNION {{Settle(ApplyTransitions("liquid", T, cond)) : T \in FiredTriggers(cond)}
              : cond \in Condition}

\* process_experience: the reservoir is chosen before the walk and may be any
\* (the event's own, SACRED, the configured default); the policy review of the
\* finished droplet decides whether it is stored.  No object is handed back.
Captured ==
    {drop \in {Fresh(ph, res, isPure, press) : ph \in CapturedPhase, res \in Reservoir,
                     isPure \in BOOLEAN, press \in 0..MaxPressure} :
        \E agent \in Agent, ctx \in AccessContext : Allowed(drop, agent, ctx, "mutate")}

Capture ==
    /\ \E id \in Unused, drop \in Captured : rows' = [rows EXCEPT ![id] = drop]
    /\ UNCHANGED <<held, tick, dirty, forgotten>>

\* repo.get by a client about to call a verb.
Load(c) ==
    /\ \E id \in Stored : held' = [held EXCEPT ![c] = [id |-> id, drop |-> rows[id]]]
    /\ UNCHANGED <<rows, tick, dirty, forgotten>>

-----------------------------------------------------------------------------
(* The verbs.  Each works on the object client c holds. *)

\* A verb that only rewrites its droplet.
Rewrite(c, drop) ==
    /\ held[c] # Nothing
    /\ WriteBack(c, held[c].id, drop)
    /\ UNCHANGED <<tick, forgotten>>

Infiltrate(c) == Rewrite(c, Infiltrated(held[c].drop)) /\ UNCHANGED dirty

\* The review of freeze and forget is skipped when no agent is given.
Denied(drop, agent, ctx, op) == agent # NoAgent /\ ~Allowed(drop, agent, ctx, op)

AlwaysDenied(drop, op) ==
    \A agent \in Agent \cup {NoAgent}, ctx \in AccessContext :
        Denied(drop, agent, ctx, op)

\* A denied freeze writes nothing.
Freeze(c) ==
    /\ held[c] # Nothing
    /\ ~AlwaysDenied(held[c].drop, "overwrite")
    /\ Rewrite(c, Frozen(held[c].drop))
    /\ UNCHANGED dirty

\* melt asks for an ICE droplet and a safe context, which any caller may assert.
Melt(c) ==
    /\ held[c] # Nothing
    /\ held[c].drop.phase = "ice"
    /\ Rewrite(c, Melted(held[c].drop))
    /\ UNCHANGED dirty

Pollute(c) == Rewrite(c, MarkPolluted(held[c].drop)) /\ dirty' = dirty \cup {held[c].id}

Filter(c) == Rewrite(c, FilterDroplet(held[c].drop)) /\ dirty' = dirty \ {held[c].id}

Drain(c) == Rewrite(c, Drained(held[c].drop)) /\ UNCHANGED dirty

\* archive, without and with seal
Sediment(c) == Rewrite(c, Sedimented(held[c].drop)) /\ UNCHANGED dirty
Seal(c)     == Rewrite(c, Sealed(held[c].drop)) /\ UNCHANGED dirty

\* Mutant of irrigate: the cycle is counted in the row alone.
IrrigateRowOnly(c) ==
    /\ held[c] # Nothing
    /\ rows[held[c].id] # NoRow
    /\ rows[held[c].id].cycles < MaxCycles
    /\ rows' = [rows EXCEPT ![held[c].id].cycles = @ + 1]
    /\ UNCHANGED <<held, tick, dirty, forgotten>>

\* irrigate: touch_cycle increments the row's count, the verb the object's.
Irrigate(c) ==
    /\ held[c] # Nothing
    /\ LET id == held[c].id IN
       /\ held[c].drop.cycles < MaxCycles
       /\ rows[id] # NoRow => rows[id].cycles < MaxCycles
       /\ rows' = IF rows[id] = NoRow THEN rows
                  ELSE [rows EXCEPT ![id].cycles = @ + 1]
       /\ held' = [held EXCEPT ![c].drop.cycles = @ + 1]
    /\ UNCHANGED <<tick, dirty, forgotten>>

\* forget: reviewed as MUTATE when an agent is given; the row goes.  The caller
\* drops its object: a verb called on it again is a new write of that id.
Forget(c) ==
    /\ held[c] # Nothing
    /\ ~AlwaysDenied(held[c].drop, "mutate")
    /\ LET id == held[c].id IN
       /\ rows' = [rows EXCEPT ![id] = NoRow]
       /\ dirty' = dirty \ {id}
       /\ forgotten' = forgotten \cup {id}
    /\ held' = [held EXCEPT ![c] = Nothing]
    /\ UNCHANGED tick

\* evaporate: a new VAPOR droplet in the cloud reservoir.
Evaporate(c) ==
    /\ held[c] # Nothing
    /\ \E id \in Unused :
          WriteBack(c, id, Fresh("vapor", "cloud", held[c].drop.pure, 0))
    /\ UNCHANGED <<tick, dirty, forgotten>>

\* condense and distill of stored members.  condense averages purity and
\* pressure; distill keeps the best purity and raises it.
Condense(c) ==
    /\ \E id \in Unused, members \in SUBSET Stored \ {{}}, isPure \in BOOLEAN,
          press \in 0..MaxPressure :
          /\ isPure => \E m \in members : rows[m].pure
          /\ (\A m \in members : rows[m].pure) => isPure
          /\ WriteBack(c, id, Fresh("cloud", "cloud", isPure, press))
    /\ UNCHANGED <<tick, dirty, forgotten>>

Distill(c) ==
    /\ \E id \in Unused, members \in SUBSET Stored \ {{}}, isPure \in BOOLEAN :
          /\ (\E m \in members : rows[m].pure) => isPure
          /\ WriteBack(c, id, Fresh("groundwater", "cloud", isPure, 0))
    /\ UNCHANGED <<tick, dirty, forgotten>>

-----------------------------------------------------------------------------
(* Engine.tick. *)

\* tick called on the clients' own engine and thread: nothing runs in between.
\* due is the set of droplets at least one idle cycle old.
TickInline ==
    /\ ~Background
    /\ \E due \in SUBSET Stored \ {{}} :
          rows' = [d \in Id |-> IF d \in due THEN Decayed(rows[d]) ELSE rows[d]]
    /\ UNCHANGED <<held, tick, dirty, forgotten>>

\* The scheduler thread: all_ids, then for each id a get and, when the droplet
\* has been idle long enough, an upsert of the decayed object.
TickStart ==
    /\ Background
    /\ tick = IdleTick
    /\ Stored # {}
    /\ tick' = [todo |-> Stored, obj |-> Nothing]
    /\ UNCHANGED <<rows, held, dirty, forgotten>>

TickRead ==
    /\ tick.obj = Nothing
    /\ \E id \in tick.todo :
          tick' = [todo |-> tick.todo \ {id},
                   obj  |-> IF rows[id] = NoRow THEN Nothing
                            ELSE [id |-> id, drop |-> rows[id]]]
    /\ UNCHANGED <<rows, held, dirty, forgotten>>

TickWrite ==
    /\ tick.obj # Nothing
    /\ rows' = [rows EXCEPT ![tick.obj.id] = Decayed(tick.obj.drop)]
    /\ tick' = [tick EXCEPT !.obj = Nothing]
    /\ UNCHANGED <<held, dirty, forgotten>>

\* Less than one idle cycle has elapsed.
TickSkip ==
    /\ tick.obj # Nothing
    /\ tick' = [tick EXCEPT !.obj = Nothing]
    /\ UNCHANGED <<rows, held, dirty, forgotten>>

-----------------------------------------------------------------------------
Verb(c) ==
    \/ Absorb(c) \/ Load(c) \/ Infiltrate(c) \/ Freeze(c) \/ Melt(c)
    \/ Pollute(c) \/ Filter(c) \/ Drain(c) \/ Sediment(c) \/ Seal(c)
    \/ Irrigate(c) \/ Forget(c) \/ Evaporate(c) \/ Condense(c) \/ Distill(c)

Tick == TickInline \/ TickStart \/ TickRead \/ TickWrite \/ TickSkip

Next == Capture \/ Tick \/ \E c \in Client : Verb(c)

Spec == Init /\ [][Next]_vars

\* The engine without a scheduler thread: time passes in calls of Engine.tick only.
InlineNext == Capture \/ TickInline \/ \E c \in Client : Verb(c)

InlineSpec == Init /\ [][InlineNext]_vars

-----------------------------------------------------------------------------
(* Properties. *)

\* Type invariant of the rows, the objects in use and the history variables.
TypeOK ==
    /\ rows \in [Id -> Droplet \cup {NoRow}]
    /\ held \in [Client -> Object \cup {Nothing}]
    /\ tick \in [todo : SUBSET Id, obj : Object \cup {Nothing}]
    /\ dirty \in SUBSET Id
    /\ forgotten \in SUBSET Id

\* A stored row is at rest in a storable phase (ADR-0003: never river, snow, fog
\* or steam, although a capture walks through river); one that says it is polluted
\* is marked unusable, and one that says it was filtered is clean and pure; also
\* when writers with stale objects overwrite each other's changes.
Coherent(drop) ==
    /\ drop.phase \in StorablePhase
    /\ drop.phase = "polluted" => drop.tainted
    /\ drop.phase = "filtered" => ~drop.tainted /\ drop.pure

PhaseMatchesTaint == \A d \in Stored : Coherent(rows[d])

\* contamination.py: from a POLLUTE until a FILTER governance refuses to use the
\* memory in responses, whatever verbs moved or transformed it in between.
NoGenerationUntilFiltered ==
    \A d \in dirty \cap Stored, agent \in Agent, ctx \in AccessContext :
        ~Allowed(rows[d], agent, ctx, "use_for_generation")

\* The other direction: nothing but a POLLUTE makes a memory unusable for good,
\* so a FILTER always restores it.
TaintIsEarned == \A d \in Stored : rows[d].tainted => d \in dirty

\* With one client and no scheduler thread, the object the client works on is
\* the stored row, but for the salience an inline tick has faded meanwhile.
SameButSalience(a, b) == [a EXCEPT !.pressure = 0] = [b EXCEPT !.pressure = 0]

ObjectMatchesRow ==
    \A c \in Client : held[c] # Nothing =>
        /\ rows[held[c].id] # NoRow
        /\ SameButSalience(rows[held[c].id], held[c].drop)

\* With one client and no scheduler thread, working on copies is as good as
\* changing the memories where they lie: the store is what Memory says, where a
\* row is a memory but for its salience.
Remembered(d, drop) ==
    [id |-> d, phase |-> drop.phase, reservoir |-> drop.reservoir,
     tainted |-> drop.tainted, sealed |-> drop.sealed, pure |-> drop.pure,
     cycles |-> drop.cycles]

Memories == {Remembered(d, rows[d]) : d \in Stored}

Contract == INSTANCE Memory
    WITH memory <- Memories, gone <- forgotten,
         FirstPhase <- StorablePhase \ {"polluted", "filtered"}, Place <- Reservoir

\* Every verb, capture and tick changes the store as one step of Memory would, or
\* changes nothing of it: no verb brings back what another took away, because it
\* works on the droplet as it was before.
ImplementsMemory == Contract!Spec

\* irrigate counts cycles in the row and in the object, so a later write of the
\* object does not take the count back.
CyclesNeverFall ==
    [][\A d \in Id : rows[d] # NoRow /\ rows'[d] # NoRow =>
           rows'[d].cycles >= rows[d].cycles]_vars

\* ADR-0032: a decay pass fades salience and leaves everything else alone; a
\* memory that was forgotten meanwhile is not written again.
DecayFadesSalienceOnly ==
    [][Tick => \A d \in Id :
           /\ rows[d] = NoRow => rows'[d] = NoRow
           /\ rows[d] # NoRow => /\ rows'[d] # NoRow
                                 /\ SameButSalience(rows'[d], rows[d])
                                 /\ rows'[d].pressure <= rows[d].pressure]_vars

\* forgetting.seal: a sealed memory stays unreadable to anyone who brings
\* neither consent nor a thaw grant.
SealedStaysInaccessible ==
    \A d \in Stored, agent \in Agent : rows[d].sealed =>
        ~Allowed(rows[d], agent, NeutralContext, "read")
=============================================================================
