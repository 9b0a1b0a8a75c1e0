------------------------------ MODULE EventBus ------------------------------
(***************************************************************************)
(* The event bus of hydromemory/bus/bus.py.  publish is an ordinary        *)
(* function call: it takes a snapshot of the subscriptions and runs their  *)
(* handlers one after the other.  A handler may write droplets and publish *)
(* again, so the calls in progress form a stack, and max_depth bounds it.  *)
(*                                                                         *)
(* A droplet is loaded once per publish and decides who may receive the    *)
(* event.  Predicates, handler errors and the queues of WebSocket clients  *)
(* do not change what the bus does next and are left out.                  *)
(***************************************************************************)
EXTENDS Governance, Sequences, SequencesExt

CONSTANTS
    Id,          \* droplet ids
    Sub,         \* subscriptions, each made at most once at a time
    TopicsOf,    \* TopicsOf[s]: the event types s is subscribed to
    IdentityOf,  \* IdentityOf[s]: the agent the permission gate asks about
    Depths,      \* the values of max_depth buses are built with
    MaxHop,      \* bound: the largest _depth an event carries
    NoId,        \* an event about no droplet
    NoRow        \* no such droplet

Topic == {"absorbed", "polluted", "distilled", "filtered", "transformed",
          "forgotten"}

ASSUME BusAssumption ==
    /\ Depths \subseteq Nat
    /\ MaxHop \in Nat
    /\ TopicsOf \in [Sub -> SUBSET Topic]
    /\ NoId \notin Id

\* hop is payload["_depth"], absent from the events the verbs emit: 0.
Event == [type : Topic, id : Id \cup {NoId}, hop : 0..MaxHop]

VARIABLES
    maxDepth,  \* max_depth of this bus
    subs,      \* the subscriptions in the order they were made
    stack      \* the publish calls in progress, the innermost last

bus == <<maxDepth, subs, stack>>

(***************************************************************************)
(* A publish call: its event, the snapshot's subscriptions still to visit, *)
(* and the droplet as it was loaded for the permission gate.               *)
(***************************************************************************)
Frame(event, todo, seen) == [event |-> event, todo |-> todo, seen |-> seen]

Idle    == stack = <<>>
Current == Last(stack)

\* Mutant of publish: the guard lets one more level in.
PublishOneDeeper(calls, event, seen) ==
    IF Len(calls) <= maxDepth THEN Append(calls, Frame(event, subs, seen)) ELSE calls

\* publish with the calls in progress: dropped at max_depth (the test is >=).
Publish(calls, event, seen) ==
    IF Len(calls) < maxDepth THEN Append(calls, Frame(event, subs, seen)) ELSE calls

\* Mutant of the step: a visited subscription goes to the end of the snapshot.
AdvancedAround(calls) ==
    [calls EXCEPT ![Len(calls)].todo = Append(Tail(@), Head(@))]

\* The innermost call goes on to its next subscription.
Advanced(calls) == [calls EXCEPT ![Len(calls)].todo = Tail(@)]

\* The permission gate, with the context-free READ; it fails closed.
Readable(drop, agent) ==
    CheckAccess([reservoir |-> drop.reservoir, tainted |-> drop.tainted,
                 allowed |-> {}, private |-> TRUE],
                agent, NeutralContext, "read")

Permitted(s, call) ==
    \/ call.event.id = NoId
    \/ call.seen # NoRow /\ Readable(call.seen, IdentityOf[s])

Receives(s, call) == call.event.type \in TopicsOf[s] /\ Permitted(s, call)

\* s is the next the innermost call visits.
Turn(s) == ~Idle /\ Current.todo # <<>> /\ Head(Current.todo) = s

-----------------------------------------------------------------------------
Subscribe(s) ==
    /\ s \notin ToSet(subs)
    /\ subs' = Append(subs, s)
    /\ UNCHANGED <<maxDepth, stack>>

Unsubscribe(s) ==
    /\ \E i \in DOMAIN subs : subs[i] = s /\ subs' = RemoveAt(subs, i)
    /\ UNCHANGED <<maxDepth, stack>>

\* The topic does not match, or the gate denies.
PassOver(s) ==
    /\ Turn(s) /\ ~Receives(s, Current)
    /\ stack' = Advanced(stack)
    /\ UNCHANGED <<maxDepth, subs>>

\* The loop is over and publish returns to its caller.
Return ==
    /\ ~Idle /\ Current.todo = <<>>
    /\ stack' = Front(stack)
    /\ UNCHANGED <<maxDepth, subs>>
=============================================================================
