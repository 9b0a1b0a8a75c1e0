-------------------------------- MODULE Mesh --------------------------------
(***************************************************************************)
(* The agentic mesh (hydromemory/platform/mesh.py, its engine adapter in   *)
(* platform/runtime.py) on the event bus: the filtration and reflection    *)
(* agents react to what the verbs announce, write through a vault opened   *)
(* under an identity of its own, and announce what they did.               *)
(*                                                                         *)
(* Everything runs on one thread.  Between two handlers of one event other *)
(* handlers have run, which only listen, or call verbs (as the agents of   *)
(* bus/runtime.py do) that write and publish in turn.                      *)
(* Consolidation (consolidate=True) is left out.                           *)
(***************************************************************************)
EXTENDS EventBus

CONSTANTS
    Relay,       \* subscriptions of other handlers, which may call a verb
    VaultAgent,  \* the identity of the vault the mesh writes through
    MeshDepth,   \* the mesh's max_depth
    Rest         \* bound: the reservoirs new droplets are put in

\* The mesh's own subscriptions, in the order of DEFAULT_REACTIONS.
Reactions == <<"assess", "filter", "reverify">>
Reaction  == ToSet(Reactions)

ASSUME MeshAssumption ==
    /\ MeshDepth \in Nat /\ MeshDepth <= MaxHop
    /\ Rest \subseteq Reservoir
    /\ Sub = Relay \cup Reaction /\ Relay \cap Reaction = {}
    /\ TopicsOf["assess"] = {"absorbed"}
    /\ TopicsOf["filter"] = {"polluted"}
    /\ TopicsOf["reverify"] = {"distilled"}

(***************************************************************************)
(* bad      what the detector says of the content; filtering reframes a    *)
(*          droplet and leaves its content alone                           *)
(* tainted  meta usable_for_generation = False                             *)
(* checked  meta contamination_checked                                     *)
(* stage    polluted and filtered are the phases; any other is plain       *)
(***************************************************************************)
Droplet == [reservoir : Reservoir, stage : {"plain", "polluted", "filtered"},
            tainted : BOOLEAN, bad : BOOLEAN, checked : BOOLEAN]

VARIABLES
    rows,   \* rows[d]: the stored droplet, or NoRow
    born,   \* ids ever used
    fired,  \* the mesh's dedupe set
    due     \* ids the filtration agent was told about and has not had to skip

vars == <<maxDepth, subs, stack, rows, born, fired, due>>

Stored == {d \in Id : rows[d] # NoRow}

Allowed(drop, agent, op) ==
    CheckAccess([reservoir |-> drop.reservoir, tainted |-> drop.tainted,
                 allowed |-> {}, private |-> TRUE], agent, NeutralContext, op)

\* VaultRepository.get, which gates on READ, and what upsert accepts.
VaultGet(table, d) ==
    IF d = NoId \/ table[d] = NoRow \/ ~Allowed(table[d], VaultAgent, "read")
    THEN NoRow ELSE table[d]

\* Mutant of the vault's gate: a row that must not be used is not stored.
VaultStoresUsable(drop) == Allowed(drop, VaultAgent, "mutate") /\ ~drop.tainted

VaultStores(drop) == Allowed(drop, VaultAgent, "mutate")

-----------------------------------------------------------------------------
(* The engine adapter: each works on a copy. *)

MarkPolluted(d) == [d EXCEPT !.reservoir = "contaminated", !.stage = "polluted",
                             !.tainted = TRUE]

AssessAndRoute(d) ==
    LET checked == [d EXCEPT !.checked = TRUE]
    IN  IF d.bad THEN MarkPolluted(checked) ELSE checked

FilterDroplet(d) ==
    [d EXCEPT !.reservoir = IF @ = "contaminated" THEN "surface" ELSE @,
              !.stage = "filtered", !.tainted = FALSE]

Reverify(d) == IF d.bad THEN MarkPolluted(d) ELSE d

\* The rows of DEFAULT_REACTIONS: operation, proposal, follow-on event.
OperationOf(s) == IF s = "filter" THEN "transform" ELSE "mutate"
Proposal(s, d) == CASE s = "assess"   -> AssessAndRoute(d)
                    [] s = "filter"   -> FilterDroplet(d)
                    [] s = "reverify" -> Reverify(d)
Emits(s) == IF s = "filter" THEN "filtered" ELSE "transformed"

-----------------------------------------------------------------------------
Init ==
    /\ maxDepth \in Depths
    /\ subs = <<>>
    /\ stack = <<>>
    /\ rows = [d \in Id |-> NoRow]
    /\ born = {}
    /\ fired = {}
    /\ due = {}

\* Mesh.attach
Attach ==
    /\ Idle
    /\ ToSet(subs) \cap Reaction = {}
    /\ subs' = subs \o Reactions
    /\ UNCHANGED <<maxDepth, stack, rows, born, fired, due>>

\* Clients come and go between publish calls; the server is one event loop.
Connect ==
    /\ Idle
    /\ \E s \in Relay : Subscribe(s) \/ Unsubscribe(s)
    /\ UNCHANGED <<rows, born, fired, due>>

ResetCycle ==
    /\ Idle
    /\ fired' = {}
    /\ UNCHANGED <<maxDepth, subs, stack, rows, born, due>>

-----------------------------------------------------------------------------
(* The verbs: a write, then the event, published on the calls in progress. *)

\* Mutant of the order: the event goes out before the write.
AnnounceEarly(calls, type, d, table) ==
    stack' = Publish(calls, [type |-> type, id |-> d, hop |-> 0], VaultGet(rows, d))

Announce(calls, type, d, table) ==
    stack' = Publish(calls, [type |-> type, id |-> d, hop |-> 0], VaultGet(table, d))

Write(d, row) == rows' = [rows EXCEPT ![d] = row]

\* The filtration agent is going to hear of d's ABSORBED, and may act on it.
Told(calls, row) ==
    /\ Len(calls) < maxDepth
    /\ "assess" \in ToSet(subs)
    /\ Allowed(row, VaultAgent, "read")
    /\ \A op \in {"read", "mutate"} : Allowed(row, IdentityOf["assess"], op)

\* absorb, distill
Create(calls, type) ==
    \E d \in Id \ born, res \in Rest, bad \in BOOLEAN :
       LET row == [reservoir |-> IF type = "distilled" THEN "cloud" ELSE res,
                   stage |-> "plain", tainted |-> FALSE, bad |-> bad,
                   checked |-> FALSE] IN
       /\ Write(d, row)
       /\ born' = born \cup {d}
       /\ due' = IF type = "absorbed" /\ Told(calls, row) THEN due \cup {d} ELSE due
       /\ Announce(calls, type, d, rows')

\* pollute, filter, forget
Change(calls) ==
    \E d \in Stored :
       /\ \/ Write(d, MarkPolluted(rows[d])) /\ Announce(calls, "polluted", d, rows')
          \/ Write(d, FilterDroplet(rows[d])) /\ Announce(calls, "filtered", d, rows')
          \/ Write(d, NoRow) /\ Announce(calls, "forgotten", d, rows')
       /\ UNCHANGED <<born, due>>

\* An event published by itself (POST /events), of any type and _depth.
PublishEvent(calls) ==
    /\ \E ev \in Event : stack' = Publish(calls, ev, VaultGet(rows, ev.id))
    /\ UNCHANGED <<rows, born, due>>

Act(calls) ==
    /\ Create(calls, "absorbed") \/ Create(calls, "distilled")
          \/ Change(calls) \/ PublishEvent(calls)
    /\ UNCHANGED <<maxDepth, subs, fired>>

Client == Idle /\ Act(stack)

-----------------------------------------------------------------------------
(* The handlers. *)

RelayVerb(s) ==
    /\ s \in Relay /\ Turn(s) /\ Receives(s, Current)
    /\ Act(Advanced(stack))

RelayNothing(s) ==
    /\ s \in Relay /\ Turn(s) /\ Receives(s, Current)
    /\ stack' = Advanced(stack)
    /\ UNCHANGED <<maxDepth, subs, rows, born, fired, due>>

\* Mesh._react up to the dedupe test.
Key(s)    == <<Current.event.type, Current.event.id, IdentityOf[s].name>>
Called(s) == s \in Reaction /\ Turn(s) /\ Receives(s, Current)

\* Mutant of the early return: an event that carries no droplet is reacted to.
HeededWithoutId(s) ==
    Called(s) /\ Current.event.hop < MeshDepth /\ Key(s) \notin fired

Heeded(s) ==
    /\ Called(s)
    /\ Current.event.hop < MeshDepth
    /\ Current.event.id # NoId
    /\ Key(s) \notin fired

Ignore(s) ==
    /\ Called(s) /\ ~Heeded(s)
    /\ stack' = Advanced(stack)
    /\ UNCHANGED <<maxDepth, subs, rows, born, fired, due>>

\* The reaction counts as fired even when the droplet is gone, was filtered, or
\* the agent is denied.
MayReact(s, d) == d # NoRow /\ d.stage # "filtered" /\ Allowed(d, IdentityOf[s], OperationOf(s))

Skip(s) ==
    /\ Heeded(s)
    /\ ~MayReact(s, VaultGet(rows, Current.event.id))
    /\ fired' = fired \cup {Key(s)}
    /\ due' = due \ {Current.event.id}
    /\ stack' = Advanced(stack)
    /\ UNCHANGED <<maxDepth, subs, rows, born>>

\* The proposal is the droplet itself.  A reverified one has a new timestamp.
NoChange(s) ==
    /\ Heeded(s)
    /\ LET d == VaultGet(rows, Current.event.id) IN
       MayReact(s, d) /\ s # "reverify" /\ Proposal(s, d) = d
    /\ fired' = fired \cup {Key(s)}
    /\ stack' = Advanced(stack)
    /\ UNCHANGED <<maxDepth, subs, rows, born, due>>

\* upsert through the vault, whose answer is not looked at, and the follow-on.
\* The droplets may differ in what the model leaves out (reason, confidence).
Apply(s) ==
    /\ Heeded(s)
    /\ LET id  == Current.event.id
           d   == VaultGet(rows, id)
           new == Proposal(s, d) IN
       /\ MayReact(s, d)
       /\ rows' = IF VaultStores(new) THEN [rows EXCEPT ![id] = new] ELSE rows
       /\ stack' = Publish(Advanced(stack),
                           [type |-> Emits(s), id |-> id, hop |-> Current.event.hop + 1],
                           VaultGet(rows', id))
    /\ fired' = fired \cup {Key(s)}
    /\ UNCHANGED <<maxDepth, subs, born, due>>

Handle(s) ==
    \/ PassOver(s) /\ UNCHANGED <<rows, born, fired, due>>
    \/ RelayVerb(s) \/ RelayNothing(s)
    \/ Ignore(s) \/ Skip(s) \/ NoChange(s) \/ Apply(s)

Dispatch == (Return /\ UNCHANGED <<rows, born, fired, due>>) \/ \E s \in Sub : Handle(s)

Next == Attach \/ Connect \/ ResetCycle \/ Client \/ Dispatch

\* A publish call runs to its end: the thread does nothing else meanwhile.
Spec == Init /\ [][Next]_vars /\ WF_vars(Dispatch)

-----------------------------------------------------------------------------
(* Properties. *)

\* Type invariant of the calls in progress, the rows and the dedupe set.
Call == [event : Event, todo : Seq(Sub), seen : Droplet \cup {NoRow}]

TypeOK ==
    /\ maxDepth \in Depths
    /\ subs \in Seq(Sub)
    /\ stack \in Seq(Call)
    /\ rows \in [Id -> Droplet \cup {NoRow}]
    /\ born \in SUBSET Id
    /\ fired \in SUBSET (Topic \X Id \X {IdentityOf[s].name : s \in Reaction})
    /\ due \in SUBSET Id

\* integration-levels.md: a freshly absorbed droplet is assessed by the time its
\* publish returns, whatever other handlers wrote, published or replayed before
\* the agent's turn, unless they left the agent nothing it may work on.
AbsorbedIsAssessed == Idle => \A d \in due \cap Stored : rows[d].checked

\* A follow-on reports a change that was stored: the vault's identity may write
\* every proposal its agents make.
FollowOnIsStored ==
    [][\A s \in Reaction : Apply(s) =>
           LET id == Current.event.id IN
           rows'[id] = Proposal(s, VaultGet(rows, id))]_vars

\* At max_depth 1, the default, a handler that only listens is handed events in
\* the order they were published: none waits for it in a call further out.
Waiting(s, call) == s \in ToSet(call.todo) /\ Receives(s, call)

NoOvertaking ==
    [][\A s \in Relay : maxDepth = 1 /\ RelayNothing(s) =>
           \A i \in 1..(Len(stack) - 1) : ~Waiting(s, stack[i])]_vars

\* The cascade guard prevents event storms: every publish returns.
PublishReturns == ~Idle ~> Idle
=============================================================================
