----------------------------- MODULE MeshProofs -----------------------------
(***************************************************************************)
(* Proofs about the event bus and the mesh, for any handlers, memories,    *)
(* depths and identities.                                                  *)
(*                                                                         *)
(* 1. The calls in progress are well formed and never more than max_depth, *)
(*    so at the default no event overtakes another.                        *)
(* 2. The vault the mesh writes through stores every proposal.             *)
(* 3. An absorbed droplet the filtration agent was told of is assessed, or *)
(*    a call in progress still has the agent's turn before it, and nothing *)
(*    the bus carried before could have used up that turn.                 *)
(***************************************************************************)
EXTENDS Mesh, SequenceTheorems, TLAPS

-----------------------------------------------------------------------------
(* The calls in progress. *)

\* DEFAULT_REACTIONS has these three rows.
LEMMA ReactionIs == Reaction = {"assess", "filter", "reverify"} /\ Reactions \in Seq(Reaction)
  BY DEF Reaction, Reactions, ToSet

\* publish leaves the calls there were alone and puts at most one on top, within
\* max_depth.
LEMMA PublishKeeps ==
    ASSUME NEW calls \in Seq(Call), NEW ev \in Event, NEW seen \in Droplet \cup {NoRow},
           subs \in Seq(Sub), maxDepth \in Nat
    PROVE  LET next == Publish(calls, ev, seen) IN
           /\ next \in Seq(Call)
           /\ Len(calls) <= maxDepth => Len(next) <= maxDepth
           /\ Len(calls) <= Len(next)
           /\ \A i \in 1..Len(calls) : next[i] = calls[i]
           /\ \A i \in 1..Len(next) : i \notin 1..Len(calls) => next[i] = Frame(ev, subs, seen)
           /\ Len(calls) < maxDepth =>
                 /\ Len(calls) + 1 \in 1..Len(next)
                 /\ next[Len(calls) + 1] = Frame(ev, subs, seen)
  <1>1. Frame(ev, subs, seen) \in Call
    BY DEF Frame, Call
  <1>2. CASE Len(calls) < maxDepth
    BY <1>1, <1>2, AppendProperties DEF Publish
  <1>3. CASE ~(Len(calls) < maxDepth)
    BY <1>3 DEF Publish
  <1> QED BY <1>2, <1>3

\* Going on to the next subscription takes the one whose turn it was off the
\* snapshot of the innermost call, and nothing else.
LEMMA AdvancedKeeps ==
    ASSUME NEW calls \in Seq(Call), calls # <<>>, Last(calls).todo # <<>>
    PROVE  /\ Advanced(calls) \in Seq(Call)
           /\ Len(Advanced(calls)) = Len(calls)
           /\ \A i \in 1..Len(calls) :
                 /\ Advanced(calls)[i].event = calls[i].event
                 /\ Advanced(calls)[i].seen = calls[i].seen
                 /\ i # Len(calls) => Advanced(calls)[i] = calls[i]
           /\ ToSet(Last(calls).todo)
                 = {Head(Last(calls).todo)} \cup ToSet(Advanced(calls)[Len(calls)].todo)
  <1> DEFINE n    == Len(calls)
             call == Last(calls)
             next == [call EXCEPT !.todo = Tail(@)]
  <1>1. n \in Nat /\ n >= 1 /\ n \in 1..Len(calls)
    BY EmptySeq, LenProperties
  <1>2. call \in Call
    BY <1>1, ElementOfSeq DEF Last
  <1>3. call.todo \in Seq(Sub)
    BY <1>2 DEF Call
  <1>4. Tail(call.todo) \in Seq(Sub)
    BY <1>3, HeadTailProperties
  <1>5. next \in Call
    BY <1>2, <1>4 DEF Call
  <1>6. Advanced(calls) = [calls EXCEPT ![n] = next]
    BY <1>1 DEF Advanced, Last
  <1>7. Advanced(calls) \in Seq(Call) /\ Len(Advanced(calls)) = n
    BY <1>1, <1>5, <1>6, ExceptSeq
  <1>8. Advanced(calls)[n] = next
    BY <1>1, <1>6
  <1>9. \A i \in 1..n : i # n => Advanced(calls)[i] = calls[i]
    BY <1>6
  <1>10. next.event = call.event /\ next.seen = call.seen /\ next.todo = Tail(call.todo)
    BY <1>2 DEF Call
  <1>11. ToSet(call.todo) = {Head(call.todo)} \cup ToSet(Tail(call.todo))
    <2>1. Len(call.todo) \in Nat /\ Len(call.todo) >= 1
      BY <1>3, EmptySeq, LenProperties
    <2>2. /\ Head(call.todo) = call.todo[1]
          /\ Len(Tail(call.todo)) = Len(call.todo) - 1
          /\ \A i \in 1..(Len(call.todo) - 1) : Tail(call.todo)[i] = call.todo[i + 1]
      BY <1>3, HeadTailProperties
    <2>3. DOMAIN call.todo = 1..Len(call.todo) /\ DOMAIN Tail(call.todo) = 1..(Len(call.todo) - 1)
      BY <1>3, <1>4, <2>2, LenProperties
    <2>4. ToSet(call.todo) \subseteq {Head(call.todo)} \cup ToSet(Tail(call.todo))
      <3> SUFFICES ASSUME NEW i \in 1..Len(call.todo)
                   PROVE  call.todo[i] \in {Head(call.todo)} \cup ToSet(Tail(call.todo))
        BY <2>3 DEF ToSet
      <3>1. CASE i = 1
        BY <2>2, <3>1
      <3>2. CASE i # 1
        <4>1. i - 1 \in 1..(Len(call.todo) - 1)
          BY <2>1, <3>2
        <4>2. Tail(call.todo)[i - 1] = call.todo[i]
          BY <2>1, <2>2, <4>1
        <4> QED BY <2>3, <4>1, <4>2 DEF ToSet
      <3> QED BY <3>1, <3>2
    <2>5. {Head(call.todo)} \cup ToSet(Tail(call.todo)) \subseteq ToSet(call.todo)
      <3>1. 1 \in 1..Len(call.todo) /\ \A i \in 1..(Len(call.todo) - 1) : i + 1 \in 1..Len(call.todo)
        BY <2>1
      <3> QED BY <2>2, <2>3, <3>1 DEF ToSet
    <2> QED BY <2>4, <2>5
  <1> QED BY <1>7, <1>8, <1>9, <1>10, <1>11 DEF Last

\* A publish that returns leaves the calls it was made from.
LEMMA FrontKeeps ==
    ASSUME NEW calls \in Seq(Call), calls # <<>>
    PROVE  /\ Front(calls) \in Seq(Call)
           /\ Len(Front(calls)) = Len(calls) - 1
           /\ \A i \in 1..(Len(calls) - 1) : Front(calls)[i] = calls[i]
  <1> DEFINE n == Len(calls) - 1
  <1>1. n \in Nat
    BY EmptySeq, LenProperties
  <1>2. \A i \in 1..n : calls[i] \in Call
    BY <1>1, LenProperties, ElementOfSeq
  <1> HIDE DEF n
  <1>3. /\ SubSeq(calls, 1, n) \in Seq(Call)
        /\ Len(SubSeq(calls, 1, n)) = IF 1 <= n THEN n - 1 + 1 ELSE 0
        /\ \A i \in 1..(n - 1 + 1) : SubSeq(calls, 1, n)[i] = calls[1 + i - 1]
    BY <1>1, <1>2, SubSeqProperties
  <1>4. Len(SubSeq(calls, 1, n)) = n
    BY <1>1, <1>3
  <1>5. \A i \in 1..n : SubSeq(calls, 1, n)[i] = calls[i]
    BY <1>1, <1>3
  <1> QED BY <1>3, <1>4, <1>5 DEF Front, n

\* A handler's turn is in a call that has it on top of its snapshot.
LEMMA TurnCall ==
    ASSUME TypeOK, NEW s, Turn(s)
    PROVE  /\ stack # <<>> /\ Last(stack).todo # <<>> /\ Head(Last(stack).todo) = s
           /\ Len(stack) \in 1..Len(stack)
           /\ Current = stack[Len(stack)] /\ Current \in Call /\ Current.event \in Event
  <1>1. stack # <<>> /\ stack \in Seq(Call)
    BY DEF Turn, Idle, TypeOK
  <1>2. Len(stack) \in 1..Len(stack)
    BY <1>1, EmptySeq, LenProperties
  <1>3. stack[Len(stack)] \in Call
    BY <1>1, <1>2, ElementOfSeq
  <1> QED BY <1>1, <1>2, <1>3 DEF Turn, Current, Last, Call

-----------------------------------------------------------------------------
(* Types. *)

\* What the permission gate of a publish loads is a droplet or nothing, and a
\* droplet only if it is the row itself, readable through the vault.
LEMMA VaultGetRow ==
    ASSUME NEW table \in [Id -> Droplet \cup {NoRow}], NEW d \in Id \cup {NoId}
    PROVE  /\ VaultGet(table, d) \in Droplet \cup {NoRow}
           /\ VaultGet(table, d) # NoRow =>
                 /\ d \in Id /\ table[d] # NoRow /\ VaultGet(table, d) = table[d]
                 /\ Allowed(table[d], VaultAgent, "read")
           /\ d \in Id /\ table[d] # NoRow /\ Allowed(table[d], VaultAgent, "read") =>
                 VaultGet(table, d) = table[d]
  BY BusAssumption DEF VaultGet

\* The agents make droplets of droplets.
LEMMA ProposalType ==
    ASSUME NEW s \in Reaction, NEW d \in Droplet
    PROVE  Proposal(s, d) \in Droplet
  <1>1. MarkPolluted(d) \in Droplet /\ FilterDroplet(d) \in Droplet
    BY DEF MarkPolluted, FilterDroplet, Droplet, Reservoir
  <1>2. Reverify(d) \in Droplet
    BY <1>1 DEF Reverify
  <1>3. AssessAndRoute(d) \in Droplet
    BY DEF AssessAndRoute, MarkPolluted, Droplet, Reservoir
  <1>4. CASE s = "assess"
    BY <1>3, <1>4 DEF Proposal
  <1>5. CASE s = "filter"
    BY <1>1, <1>5 DEF Proposal
  <1>6. CASE s = "reverify"
    BY <1>2, <1>6 DEF Proposal
  <1> QED BY <1>4, <1>5, <1>6, ReactionIs

\* What a verb, or an event published by itself, leaves behind when it publishes
\* on top of the calls given.
VerbDone(calls) ==
    \E ev \in Event :
       /\ stack' = Publish(calls, ev, VaultGet(rows', ev.id))
       /\ rows' \in [Id -> Droplet \cup {NoRow}]
       /\ born' \in SUBSET Id /\ born \subseteq born'
       /\ \/ /\ ev.type \in {"absorbed", "distilled"} /\ ev.id \in Id \ born /\ ev.hop = 0
             /\ born' = born \cup {ev.id}
             /\ rows' = [rows EXCEPT ![ev.id] = rows'[ev.id]]
             /\ rows'[ev.id] \in Droplet
             /\ due' = IF ev.type = "absorbed" /\ Told(calls, rows'[ev.id])
                       THEN due \cup {ev.id} ELSE due
          \/ /\ UNCHANGED <<born, due>>
             /\ \A d \in Id : /\ rows'[d] # NoRow => rows[d] # NoRow
                              /\ rows'[d] # NoRow => rows'[d].checked = rows[d].checked

\* Each verb announces what it has done to the rows.
LEMMA ActDone ==
    ASSUME TypeOK, Rest \subseteq Reservoir, NEW calls, Act(calls)
    PROVE  VerbDone(calls)
  <1>0. rows \in [Id -> Droplet \cup {NoRow}] /\ born \subseteq Id
    BY DEF TypeOK
  <1>1. ASSUME NEW type \in {"absorbed", "distilled"}, Create(calls, type)
        PROVE  VerbDone(calls)
    <2>1. PICK d \in Id \ born, res \in Rest, bad \in BOOLEAN :
             LET row == [reservoir |-> IF type = "distilled" THEN "cloud" ELSE res,
                         stage |-> "plain", tainted |-> FALSE, bad |-> bad,
                         checked |-> FALSE] IN
             /\ Write(d, row)
             /\ born' = born \cup {d}
             /\ due' = IF type = "absorbed" /\ Told(calls, row) THEN due \cup {d} ELSE due
             /\ Announce(calls, type, d, rows')
      BY <1>1 DEF Create
    <2> DEFINE row == [reservoir |-> IF type = "distilled" THEN "cloud" ELSE res,
                       stage |-> "plain", tainted |-> FALSE, bad |-> bad,
                       checked |-> FALSE]
               ev  == [type |-> type, id |-> d, hop |-> 0]
    <2>2. row \in Droplet
      BY DEF Droplet, Reservoir
    <2>3. rows' = [rows EXCEPT ![d] = row] /\ rows'[d] = row
      BY <1>0, <2>1 DEF Write
    <2>4. ev \in Event /\ ev.type = type /\ ev.id = d /\ ev.hop = 0
      BY BusAssumption DEF Event, Topic
    <2>5. stack' = Publish(calls, ev, VaultGet(rows', ev.id))
      BY <2>1, <2>4 DEF Announce
    <2> HIDE DEF row, ev
    <2>6. due' = IF type = "absorbed" /\ Told(calls, row) THEN due \cup {d} ELSE due
      BY <2>1 DEF row
    <2>7. rows' \in [Id -> Droplet \cup {NoRow}]
      BY <1>0, <2>2, <2>3
    <2> QED BY <1>0, <2>1, <2>2, <2>3, <2>4, <2>5, <2>6, <2>7 DEF VerbDone
  <1>2. ASSUME Change(calls) PROVE VerbDone(calls)
    <2>1. PICK d \in Stored :
             \/ Write(d, MarkPolluted(rows[d])) /\ Announce(calls, "polluted", d, rows')
             \/ Write(d, FilterDroplet(rows[d])) /\ Announce(calls, "filtered", d, rows')
             \/ Write(d, NoRow) /\ Announce(calls, "forgotten", d, rows')
      BY <1>2 DEF Change
    <2>2. d \in Id /\ rows[d] \in Droplet /\ rows[d] # NoRow
      BY <1>0 DEF Stored
    <2>3. /\ MarkPolluted(rows[d]) \in Droplet
          /\ MarkPolluted(rows[d]).checked = rows[d].checked
          /\ FilterDroplet(rows[d]) \in Droplet
          /\ FilterDroplet(rows[d]).checked = rows[d].checked
      BY <2>2 DEF MarkPolluted, FilterDroplet, Droplet, Reservoir
    <2>4. PICK type \in Topic, new \in Droplet \cup {NoRow} :
             /\ rows' = [rows EXCEPT ![d] = new]
             /\ Announce(calls, type, d, rows')
             /\ new # NoRow => new.checked = rows[d].checked
      BY <2>1, <2>3 DEF Write, Topic
    <2> DEFINE ev == [type |-> type, id |-> d, hop |-> 0]
    <2>5. ev \in Event /\ ev.id = d
      BY <2>2, BusAssumption DEF Event
    <2>6. stack' = Publish(calls, ev, VaultGet(rows', ev.id))
      BY <2>4, <2>5 DEF Announce
    <2> HIDE DEF ev
    <2>7. rows' \in [Id -> Droplet \cup {NoRow}]
      BY <1>0, <2>4
    <2>8. \A x \in Id : /\ rows'[x] # NoRow => rows[x] # NoRow
                        /\ rows'[x] # NoRow => rows'[x].checked = rows[x].checked
      BY <1>0, <2>2, <2>4
    <2>9. UNCHANGED <<born, due>>
      BY <1>2 DEF Change
    <2> QED BY <1>0, <2>5, <2>6, <2>7, <2>8, <2>9 DEF VerbDone
  <1>3. ASSUME PublishEvent(calls) PROVE VerbDone(calls)
    <2>1. PICK ev \in Event : stack' = Publish(calls, ev, VaultGet(rows, ev.id))
      BY <1>3 DEF PublishEvent
    <2>2. UNCHANGED <<rows, born, due>>
      BY <1>3 DEF PublishEvent
    <2> QED BY <1>0, <2>1, <2>2 DEF VerbDone
  <1> QED BY <1>1, <1>2, <1>3 DEF Act

\* A verb keeps the types, whichever calls in progress it publishes on.
LEMMA VerbType ==
    ASSUME TypeOK, NEW calls \in Seq(Call), VerbDone(calls), UNCHANGED <<maxDepth, subs, fired>>
    PROVE  TypeOK'
  <1>1. PICK ev \in Event :
           /\ stack' = Publish(calls, ev, VaultGet(rows', ev.id))
           /\ rows' \in [Id -> Droplet \cup {NoRow}]
           /\ born' \in SUBSET Id
           /\ due' \subseteq Id
    BY DEF VerbDone, TypeOK
  <1>2. ev.id \in Id \cup {NoId}
    BY DEF Event
  <1>3. VaultGet(rows', ev.id) \in Droplet \cup {NoRow}
    BY <1>1, <1>2, VaultGetRow
  <1>4. maxDepth \in Nat /\ subs \in Seq(Sub)
    BY BusAssumption DEF TypeOK
  <1>5. stack' \in Seq(Call)
    BY <1>1, <1>3, <1>4, PublishKeeps
  <1> QED BY <1>1, <1>5 DEF TypeOK

\* What a reaction takes for the droplet, and what it counts as fired.
LEMMA HeededCall ==
    ASSUME TypeOK, NEW s \in Reaction, Heeded(s)
    PROVE  /\ Current.event.id \in Id
           /\ Key(s) \in Topic \X Id \X {IdentityOf[t].name : t \in Reaction}
           /\ Current.event.hop + 1 \in 0..MaxHop
  <1>1. Current.event \in Event
    BY TurnCall DEF Heeded, Called
  <1>2. Current.event.id \in Id
    BY <1>1 DEF Heeded, Event
  <1>3. Current.event.hop + 1 \in 0..MaxHop
    BY <1>1, MeshAssumption, BusAssumption DEF Heeded, Event
  <1> QED BY <1>1, <1>2, <1>3 DEF Key, Event

\* A reaction reads the row itself, writes its proposal if the vault takes it, and
\* publishes its follow-on with what the vault then reads.
LEMMA ApplyDone ==
    ASSUME TypeOK, NEW s \in Reaction, Apply(s)
    PROVE  LET id == Current.event.id IN
           /\ id \in Id /\ rows[id] \in Droplet /\ rows[id] # NoRow
           /\ VaultGet(rows, id) = rows[id]
           /\ Allowed(rows[id], VaultAgent, "read")
           /\ Proposal(s, rows[id]) \in Droplet
           /\ rows' = IF VaultStores(Proposal(s, rows[id]))
                      THEN [rows EXCEPT ![id] = Proposal(s, rows[id])] ELSE rows
           /\ rows' \in [Id -> Droplet \cup {NoRow}]
           /\ \E ev \in Event : /\ ev.id = id
                                /\ stack' = Publish(Advanced(stack), ev, VaultGet(rows', id))
  <1> DEFINE id == Current.event.id
             d  == VaultGet(rows, id)
             ev == [type |-> Emits(s), id |-> id, hop |-> Current.event.hop + 1]
  <1>1. rows \in [Id -> Droplet \cup {NoRow}]
    BY DEF TypeOK
  <1>2. id \in Id /\ Current.event.hop + 1 \in 0..MaxHop
    BY HeededCall DEF Apply
  <1>3. d # NoRow
    BY DEF Apply, MayReact
  <1>4. /\ rows[id] # NoRow /\ d = rows[id]
        /\ Allowed(rows[id], VaultAgent, "read")
    BY <1>1, <1>2, <1>3, VaultGetRow
  <1>5. rows[id] \in Droplet
    BY <1>1, <1>2, <1>4
  <1>6. Proposal(s, rows[id]) \in Droplet
    BY <1>5, ProposalType
  <1>7. rows' = IF VaultStores(Proposal(s, d)) THEN [rows EXCEPT ![id] = Proposal(s, d)] ELSE rows
    BY DEF Apply
  <1>8. stack' = Publish(Advanced(stack), ev, VaultGet(rows', id))
    BY DEF Apply
  <1>9. ev \in Event /\ ev.id = id
    BY <1>2 DEF Event, Emits, Topic
  <1> HIDE DEF id, d, ev
  <1>10. rows' \in [Id -> Droplet \cup {NoRow}]
    BY <1>1, <1>2, <1>4, <1>6, <1>7
  <1> QED BY <1>2, <1>4, <1>5, <1>6, <1>7, <1>8, <1>9, <1>10 DEF id, d

\* Every step keeps the types.
LEMMA TypeStep == TypeOK /\ [Next]_vars => TypeOK'
  <1> SUFFICES ASSUME TypeOK, [Next]_vars PROVE TypeOK'
    OBVIOUS
  <1>0. maxDepth \in Nat /\ subs \in Seq(Sub) /\ stack \in Seq(Call)
    BY BusAssumption DEF TypeOK
  <1>1. CASE Attach
    <2>1. Reactions \in Seq(Sub)
      BY ReactionIs, MeshAssumption, SeqMonotonic
    <2> QED BY <1>0, <1>1, <2>1, ConcatProperties DEF Attach, TypeOK
  <1>2. CASE Connect
    <2>1. PICK s \in Relay : Subscribe(s) \/ Unsubscribe(s)
      BY <1>2 DEF Connect
    <2>2. s \in Sub
      BY MeshAssumption
    <2>3. subs' \in Seq(Sub)
      <3>1. CASE Subscribe(s)
        BY <1>0, <2>2, <3>1, AppendProperties DEF Subscribe
      <3>2. CASE Unsubscribe(s)
        <4>1. PICK i \in DOMAIN subs : subs' = RemoveAt(subs, i)
          BY <3>2 DEF Unsubscribe
        <4>2. i \in 1..Len(subs) /\ Len(subs) \in Nat
          BY <1>0, LenProperties
        <4>3. SubSeq(subs, 1, i - 1) \in Seq(Sub)
          BY <1>0, <4>2, SubSeqProperties
        <4>4. SubSeq(subs, i + 1, Len(subs)) \in Seq(Sub)
          BY <1>0, <4>2, SubSeqProperties
        <4> QED BY <4>1, <4>3, <4>4, ConcatProperties DEF RemoveAt
      <3> QED BY <2>1, <3>1, <3>2
    <2>4. UNCHANGED <<maxDepth, stack, rows, born, fired, due>>
      BY <1>2, <2>1 DEF Connect, Subscribe, Unsubscribe
    <2> QED BY <2>3, <2>4 DEF TypeOK
  <1>3. CASE ResetCycle
    BY <1>3 DEF ResetCycle, TypeOK
  <1>4. CASE Client
    <2>1. VerbDone(stack) /\ UNCHANGED <<maxDepth, subs, fired>>
      BY <1>4, ActDone, MeshAssumption DEF Client, Act
    <2> QED BY <1>0, <2>1, VerbType
  <1>5. CASE Return /\ UNCHANGED <<rows, born, fired, due>>
    <2>1. stack # <<>> /\ stack' = Front(stack)
      BY <1>5 DEF Return, Idle
    <2>2. stack' \in Seq(Call)
      BY <1>0, <2>1, FrontKeeps
    <2> QED BY <1>5, <2>2 DEF TypeOK, Return
  <1>6. ASSUME NEW s \in Sub, Handle(s) PROVE TypeOK'
    <2>1. Turn(s)
      BY <1>6 DEF Handle, PassOver, RelayVerb, RelayNothing, Ignore, Skip, NoChange, Apply,
                  Heeded, Called
    <2>2. Advanced(stack) \in Seq(Call)
      BY <1>0, <2>1, TurnCall, AdvancedKeeps
    <2>3. CASE \/ PassOver(s) /\ UNCHANGED <<rows, born, fired, due>>
               \/ RelayNothing(s) \/ Ignore(s)
      BY <2>2, <2>3 DEF PassOver, RelayNothing, Ignore, TypeOK
    <2>4. CASE RelayVerb(s)
      <3>1. VerbDone(Advanced(stack)) /\ UNCHANGED <<maxDepth, subs, fired>>
        BY <2>4, ActDone, MeshAssumption DEF RelayVerb, Act
      <3> QED BY <2>2, <3>1, VerbType
    <2>5. CASE Skip(s) \/ NoChange(s)
      <3>1. s \in Reaction /\ Heeded(s)
        BY <2>5 DEF Skip, NoChange, Heeded, Called
      <3>2. Key(s) \in Topic \X Id \X {IdentityOf[t].name : t \in Reaction}
        BY <3>1, HeededCall
      <3>3. /\ stack' = Advanced(stack) /\ fired' = fired \cup {Key(s)}
            /\ due' \subseteq due /\ UNCHANGED <<maxDepth, subs, rows, born>>
        BY <2>5 DEF Skip, NoChange
      <3> QED BY <2>2, <3>2, <3>3 DEF TypeOK
    <2>6. CASE Apply(s)
      <3>1. s \in Reaction /\ Heeded(s)
        BY <2>6 DEF Apply, Heeded, Called
      <3>2. Key(s) \in Topic \X Id \X {IdentityOf[t].name : t \in Reaction}
        BY <3>1, HeededCall
      <3>3. rows' \in [Id -> Droplet \cup {NoRow}]
        BY <2>6, <3>1, ApplyDone
      <3>4. PICK ev \in Event : /\ ev.id \in Id
                                /\ stack' = Publish(Advanced(stack), ev, VaultGet(rows', ev.id))
        BY <2>6, <3>1, ApplyDone
      <3>5. VaultGet(rows', ev.id) \in Droplet \cup {NoRow}
        BY <3>3, <3>4, VaultGetRow
      <3>6. stack' \in Seq(Call)
        BY <1>0, <2>2, <3>4, <3>5, PublishKeeps
      <3>7. fired' = fired \cup {Key(s)} /\ UNCHANGED <<maxDepth, subs, born, due>>
        BY <2>6 DEF Apply
      <3> QED BY <3>2, <3>3, <3>6, <3>7 DEF TypeOK
    <2> QED BY <1>6, <2>3, <2>4, <2>5, <2>6 DEF Handle
  <1>7. CASE UNCHANGED vars
    BY <1>7 DEF vars, TypeOK
  <1> QED BY <1>1, <1>2, <1>3, <1>4, <1>5, <1>6, <1>7 DEF Next, Dispatch

\* The calls in progress, the rows and the dedupe set keep their types, for any
\* handlers, identities and depths (EventBus.publish, Mesh._react).
THEOREM TypeCorrect == Spec => []TypeOK
  <1>1. Init => TypeOK
    BY EmptySeq DEF Init, TypeOK
  <1> QED BY <1>1, TypeStep, PTL DEF Spec

-----------------------------------------------------------------------------
(* The cascade guard. *)

\* What a step may do to the calls in progress: go on in the innermost one, end it,
\* or publish on top of them.
LEMMA StackSteps ==
    ASSUME TypeOK, [Next]_vars
    PROVE  /\ maxDepth' = maxDepth
           /\ \/ stack' = stack
              \/ stack' = Advanced(stack) /\ Len(Advanced(stack)) = Len(stack)
              \/ Return
              \/ \E calls \in Seq(Call), ev \in Event, seen \in Droplet \cup {NoRow} :
                    Len(calls) = Len(stack) /\ stack' = Publish(calls, ev, seen)
  <1>0. stack \in Seq(Call) /\ TypeOK'
    BY TypeStep DEF TypeOK
  <1>1. ASSUME NEW calls \in Seq(Call), Len(calls) = Len(stack), Act(calls)
        PROVE  \E cs \in Seq(Call), ev \in Event, seen \in Droplet \cup {NoRow} :
                  Len(cs) = Len(stack) /\ stack' = Publish(cs, ev, seen)
    <2>1. PICK ev \in Event : stack' = Publish(calls, ev, VaultGet(rows', ev.id))
      BY <1>1, ActDone, MeshAssumption DEF VerbDone
    <2>2. VaultGet(rows', ev.id) \in Droplet \cup {NoRow}
      BY <1>0, VaultGetRow DEF TypeOK, Event
    <2> QED BY <1>1, <2>1, <2>2
  <1>2. CASE Attach \/ Connect \/ ResetCycle \/ UNCHANGED vars
    BY <1>2 DEF Attach, Connect, Subscribe, Unsubscribe, ResetCycle, vars
  <1>3. CASE Client
    BY <1>0, <1>1, <1>3 DEF Client, Act
  <1>4. CASE Return /\ UNCHANGED <<rows, born, fired, due>>
    BY <1>4 DEF Return
  <1>5. ASSUME NEW s \in Sub, Handle(s)
        PROVE  /\ maxDepth' = maxDepth
               /\ \/ stack' = Advanced(stack) /\ Len(Advanced(stack)) = Len(stack)
                  \/ \E calls \in Seq(Call), ev \in Event, seen \in Droplet \cup {NoRow} :
                        Len(calls) = Len(stack) /\ stack' = Publish(calls, ev, seen)
    <2>1. Turn(s)
      BY <1>5 DEF Handle, PassOver, RelayVerb, RelayNothing, Ignore, Skip, NoChange, Apply,
                  Heeded, Called
    <2>2. Advanced(stack) \in Seq(Call) /\ Len(Advanced(stack)) = Len(stack)
      BY <1>0, <2>1, TurnCall, AdvancedKeeps
    <2>3. CASE RelayVerb(s)
      BY <1>1, <2>2, <2>3 DEF RelayVerb, Act
    <2>4. CASE Apply(s)
      <3>1. s \in Reaction
        BY <2>4 DEF Apply, Heeded, Called
      <3>2. PICK ev \in Event :
               /\ ev.id \in Id
               /\ stack' = Publish(Advanced(stack), ev, VaultGet(rows', ev.id))
        BY <2>4, <3>1, ApplyDone
      <3>3. VaultGet(rows', ev.id) \in Droplet \cup {NoRow}
        BY <1>0, <3>2, VaultGetRow DEF TypeOK
      <3>4. maxDepth' = maxDepth
        BY <2>4 DEF Apply
      <3> QED BY <2>2, <3>2, <3>3, <3>4
    <2> QED BY <1>5, <2>2, <2>3, <2>4 DEF Handle, PassOver, RelayNothing, Ignore, Skip, NoChange
  <1> QED BY <1>2, <1>3, <1>4, <1>5 DEF Next, Dispatch

WithinDepth == Len(stack) <= maxDepth

\* No more publish calls are in progress than max_depth, whatever handlers do in
\* theirs: the cascade guard holds (EventBus.publish).
THEOREM CascadeGuard == Spec => []WithinDepth
  <1>1. Init => WithinDepth
    BY BusAssumption, EmptySeq, LenProperties DEF Init, WithinDepth
  <1>2. TypeOK /\ WithinDepth /\ [Next]_vars => WithinDepth'
    <2> SUFFICES ASSUME TypeOK, WithinDepth, [Next]_vars PROVE WithinDepth'
      OBVIOUS
    <2>1. maxDepth \in Nat /\ subs \in Seq(Sub) /\ stack \in Seq(Call)
      BY BusAssumption DEF TypeOK
    <2>2. maxDepth' = maxDepth
      BY StackSteps
    <2>3. CASE \/ stack' = stack
               \/ stack' = Advanced(stack) /\ Len(Advanced(stack)) = Len(stack)
      BY <2>2, <2>3 DEF WithinDepth
    <2>4. CASE Return
      <3>1. stack # <<>> /\ stack' = Front(stack)
        BY <2>4 DEF Return, Idle
      <3>2. Len(stack) \in Nat /\ Len(stack') = Len(stack) - 1
        BY <2>1, <3>1, FrontKeeps, LenProperties
      <3> QED BY <2>1, <2>2, <3>2 DEF WithinDepth
    <2>5. ASSUME NEW calls \in Seq(Call), NEW ev \in Event, NEW seen \in Droplet \cup {NoRow},
                 Len(calls) = Len(stack), stack' = Publish(calls, ev, seen)
          PROVE  WithinDepth'
      <3>1. Len(calls) <= maxDepth => Len(stack') <= maxDepth
        BY <2>1, <2>5, PublishKeeps
      <3> QED BY <2>2, <2>5, <3>1 DEF WithinDepth
    <2>6. \/ stack' = stack
          \/ stack' = Advanced(stack) /\ Len(Advanced(stack)) = Len(stack)
          \/ Return
          \/ \E calls \in Seq(Call), ev \in Event, seen \in Droplet \cup {NoRow} :
                Len(calls) = Len(stack) /\ stack' = Publish(calls, ev, seen)
      BY StackSteps
    <2> QED BY <2>3, <2>4, <2>5, <2>6
  <1> QED BY <1>1, <1>2, TypeCorrect, PTL DEF Spec

\* At max_depth 1, the default, a handler that only listens is handed events in the
\* order they were published, whichever handlers there are (EventBus.publish).
THEOREM InOrder == Spec => NoOvertaking
  <1> DEFINE HandedInOrder ==
        \A s \in Relay : maxDepth = 1 /\ RelayNothing(s) =>
           \A i \in 1..(Len(stack) - 1) : ~Waiting(s, stack[i])
  <1>1. TypeOK /\ WithinDepth /\ [Next]_vars => [HandedInOrder]_vars
    <2> SUFFICES ASSUME TypeOK, WithinDepth, maxDepth = 1,
                        NEW i \in 1..(Len(stack) - 1)
                 PROVE  FALSE
      OBVIOUS
    <2>1. Len(stack) \in Nat
      BY LenProperties DEF TypeOK
    <2> QED BY <2>1 DEF WithinDepth
  <1> QED BY <1>1, TypeCorrect, CascadeGuard, PTL DEF Spec, NoOvertaking

-----------------------------------------------------------------------------
(* The vault the mesh writes through. *)

\* "Mesh writes need a filtration identity": one that may write CONTAMINATED, where
\* assessing routes to, and SURFACE, where filtering does (integration-levels.md).
VaultIdentity == VaultAgent.filtration = TRUE /\ VaultAgent.trust \in Trust
                     /\ VaultAgent.trust >= Approved

\* What may be read through the vault may be written back by every agent: filtering
\* takes a droplet to SURFACE, assessing and reverifying to CONTAMINATED or nowhere.
LEMMA ProposalStored ==
    ASSUME VaultIdentity, NEW s \in Reaction, NEW d \in Droplet,
           Allowed(d, VaultAgent, "read")
    PROVE  VaultStores(Proposal(s, d))
  <1> DEFINE Admits(res) ==
        /\ res \in FiltrationOnly => VaultAgent.filtration
        /\ (VaultAgent.filtration /\ res \in FiltrationOnly)
              \/ VaultAgent.trust >= RequiredTrust(res)
        /\ res \notin RequiresThaw
        /\ res \in RequiresConsent => VaultAgent.proxy
  <1>1. \A drop \in Droplet, op \in {"read", "mutate"} :
           Allowed(drop, VaultAgent, op) <=> Admits(drop.reservoir)
    BY DEF Allowed, CheckAccess, ReservoirAdmits, NeutralContext, AgentInPermissions, TrustOk
  <1>2. Admits("contaminated") /\ Admits("surface")
    BY DEF VaultIdentity, FiltrationOnly, RequiresThaw, RequiresConsent, RequiredTrust,
           Approved, Session
  <1>3. Proposal(s, d).reservoir \in {d.reservoir, "contaminated", "surface"}
    <2>1. MarkPolluted(d).reservoir = "contaminated"
      BY DEF MarkPolluted, Droplet
    <2>2. FilterDroplet(d).reservoir \in {d.reservoir, "surface"}
      BY DEF FilterDroplet, Droplet
    <2>3. AssessAndRoute(d).reservoir \in {d.reservoir, "contaminated"}
      BY DEF AssessAndRoute, MarkPolluted, Droplet
    <2>4. CASE s = "assess"
      BY <2>3, <2>4 DEF Proposal
    <2>5. CASE s = "filter"
      BY <2>2, <2>5 DEF Proposal
    <2>6. CASE s = "reverify"
      BY <2>1, <2>6 DEF Proposal, Reverify
    <2> QED BY <2>4, <2>5, <2>6, ReactionIs
  <1> HIDE DEF Admits
  <1>4. Admits(d.reservoir)
    BY <1>1
  <1> QED BY <1>1, <1>2, <1>3, <1>4, ProposalType DEF VaultStores

\* A follow-on event reports a change that was stored, though the answer of the
\* vault's upsert is not looked at (Mesh._react).
THEOREM FollowOn == ASSUME VaultIdentity PROVE Spec => FollowOnIsStored
  <1> DEFINE Reported ==
        \A s \in Reaction : Apply(s) =>
           LET id == Current.event.id IN
           rows'[id] = Proposal(s, VaultGet(rows, id))
  <1>1. TypeOK /\ [Next]_vars => [Reported]_vars
    <2> SUFFICES ASSUME TypeOK, NEW s \in Reaction, Apply(s)
                 PROVE  LET id == Current.event.id IN
                        rows'[id] = Proposal(s, VaultGet(rows, id))
      OBVIOUS
    <2> DEFINE id == Current.event.id
    <2>1. /\ id \in Id /\ rows[id] \in Droplet /\ VaultGet(rows, id) = rows[id]
          /\ Allowed(rows[id], VaultAgent, "read")
          /\ rows' = IF VaultStores(Proposal(s, rows[id]))
                     THEN [rows EXCEPT ![id] = Proposal(s, rows[id])] ELSE rows
      BY ApplyDone
    <2>2. VaultStores(Proposal(s, rows[id]))
      BY <2>1, ProposalStored
    <2>3. rows \in [Id -> Droplet \cup {NoRow}]
      BY DEF TypeOK
    <2> HIDE DEF id
    <2>4. rows'[id] = Proposal(s, VaultGet(rows, id))
      BY <2>1, <2>2, <2>3
    <2> QED BY <2>4 DEF id
  <1> QED BY <1>1, TypeCorrect, PTL DEF Spec, FollowOnIsStored

-----------------------------------------------------------------------------
(***************************************************************************)
(* That a droplet is assessed.  While it is not, its ABSORBED is in a call *)
(* in progress that has yet to come to the agent, and has loaded a droplet *)
(* the agent may read; and its dedupe key is unused, because no event about *)
(* a droplet gets past the permission gate before the droplet is stored.   *)
(***************************************************************************)
AssessKey(d) == <<"absorbed", d, IdentityOf["assess"].name>>

\* The agent's turn on d's ABSORBED is still to come in this call.
Awaits(call, d) ==
    /\ call.event.type = "absorbed" /\ call.event.id = d /\ call.event.hop = 0
    /\ "assess" \in ToSet(call.todo)
    /\ call.seen # NoRow /\ Readable(call.seen, IdentityOf["assess"])

Pending(calls, d) == \E i \in 1..Len(calls) : Awaits(calls[i], d)

\* Whatever is stored, was loaded for the gate, or counts as fired was created.
BornInv ==
    /\ Stored \subseteq born
    /\ due \subseteq born
    /\ \A i \in 1..Len(stack) : stack[i].seen # NoRow => stack[i].event.id \in born
    /\ \A d \in Id : AssessKey(d) \in fired => d \in born

DueInv ==
    \A d \in due \cap Stored :
       rows[d].checked \/ (AssessKey(d) \notin fired /\ Pending(stack, d))

AssessInv == BornInv /\ DueInv

\* The parts of BornInv and DueInv that are about the calls given.
SeenBorn(calls) == \A i \in 1..Len(calls) : calls[i].seen # NoRow => calls[i].event.id \in born
Covers(calls) ==
    \A d \in due \cap Stored :
       rows[d].checked \/ (AssessKey(d) \notin fired /\ Pending(calls, d))

\* Only the filtration agent's turn on d's ABSORBED ends the wait for it.
LEMMA PendingAdvanced ==
    ASSUME TypeOK, NEW s, Turn(s), NEW d, Pending(stack, d)
    PROVE  \/ Pending(Advanced(stack), d)
           \/ s = "assess" /\ Awaits(Current, d)
  <1>1. PICK i \in 1..Len(stack) : Awaits(stack[i], d)
    BY DEF Pending
  <1>2. /\ Len(Advanced(stack)) = Len(stack)
        /\ \A k \in 1..Len(stack) :
              /\ Advanced(stack)[k].event = stack[k].event
              /\ Advanced(stack)[k].seen = stack[k].seen
              /\ k # Len(stack) => Advanced(stack)[k] = stack[k]
        /\ ToSet(Last(stack).todo)
              = {Head(Last(stack).todo)} \cup ToSet(Advanced(stack)[Len(stack)].todo)
    BY TurnCall, AdvancedKeeps DEF TypeOK
  <1>3. CASE i # Len(stack)
    BY <1>1, <1>2, <1>3 DEF Pending
  <1>4. CASE i = Len(stack) /\ "assess" \in ToSet(Advanced(stack)[i].todo)
    <2>1. Awaits(Advanced(stack)[i], d)
      BY <1>1, <1>2, <1>4 DEF Awaits
    <2> QED BY <1>2, <2>1 DEF Pending
  <1>5. CASE i = Len(stack) /\ "assess" \notin ToSet(Advanced(stack)[i].todo)
    <2>1. "assess" \in ToSet(Last(stack).todo)
      BY <1>1, <1>5 DEF Awaits, Last
    <2>2. Head(Last(stack).todo) = s /\ Current = stack[i]
      BY <1>5, TurnCall
    <2> QED BY <1>1, <1>2, <1>5, <2>1, <2>2
  <1> QED BY <1>3, <1>4, <1>5

\* A publish on top of the calls ends no wait.
LEMMA PendingPublish ==
    ASSUME TypeOK, NEW calls \in Seq(Call), NEW ev \in Event, NEW seen \in Droplet \cup {NoRow},
           NEW d, Pending(calls, d)
    PROVE  Pending(Publish(calls, ev, seen), d)
  <1>1. maxDepth \in Nat /\ subs \in Seq(Sub) /\ Len(calls) \in Nat
    BY BusAssumption, LenProperties DEF TypeOK
  <1>2. PICK i \in 1..Len(calls) : Awaits(calls[i], d)
    BY DEF Pending
  <1>3. /\ Len(calls) <= Len(Publish(calls, ev, seen))
        /\ Publish(calls, ev, seen)[i] = calls[i]
        /\ Len(Publish(calls, ev, seen)) \in Nat
    BY <1>1, PublishKeeps, LenProperties
  <1> QED BY <1>1, <1>2, <1>3 DEF Pending

\* Another handler's turn leaves every wait as it was.
LEMMA CoversAdvanced ==
    ASSUME TypeOK, DueInv, NEW s, Turn(s), s # "assess"
    PROVE  Covers(Advanced(stack))
  BY PendingAdvanced DEF DueInv, Covers

\* Going on shows the gate nothing new.
LEMMA SeenAdvanced ==
    ASSUME TypeOK, BornInv, NEW s, Turn(s)
    PROVE  SeenBorn(Advanced(stack))
  <1>1. /\ Len(Advanced(stack)) = Len(stack)
        /\ \A k \in 1..Len(stack) : /\ Advanced(stack)[k].event = stack[k].event
                                    /\ Advanced(stack)[k].seen = stack[k].seen
    BY TurnCall, AdvancedKeeps DEF TypeOK
  <1> QED BY <1>1 DEF BornInv, SeenBorn

\* A publish that loads its droplet from rows that were created shows the gate
\* only those.
LEMMA SeenPublish ==
    ASSUME TypeOK, NEW calls \in Seq(Call), NEW ev \in Event,
           rows' \in [Id -> Droplet \cup {NoRow}],
           SeenBorn(calls), born \subseteq born',
           \A d \in Id : rows'[d] # NoRow => d \in born',
           stack' = Publish(calls, ev, VaultGet(rows', ev.id))
    PROVE  SeenBorn(stack)'
  <1>1. maxDepth \in Nat /\ subs \in Seq(Sub)
    BY BusAssumption DEF TypeOK
  <1>2. ev.id \in Id \cup {NoId}
    BY DEF Event
  <1>3. VaultGet(rows', ev.id) \in Droplet \cup {NoRow}
    BY <1>2, VaultGetRow
  <1>4. VaultGet(rows', ev.id) # NoRow => ev.id \in born'
    BY <1>2, VaultGetRow
  <1>5. \A i \in 1..Len(calls) : stack'[i] = calls[i]
    BY <1>1, <1>3, PublishKeeps
  <1>6. \A i \in 1..Len(stack') : i \notin 1..Len(calls) =>
           stack'[i] = Frame(ev, subs, VaultGet(rows', ev.id))
    BY <1>1, <1>3, PublishKeeps
  <1> SUFFICES ASSUME NEW i \in 1..Len(stack'), stack'[i].seen # NoRow
               PROVE  stack'[i].event.id \in born'
    BY DEF SeenBorn
  <1>7. CASE i \in 1..Len(calls)
    BY <1>5, <1>7 DEF SeenBorn
  <1>8. CASE i \notin 1..Len(calls)
    BY <1>4, <1>6, <1>8 DEF Frame
  <1> QED BY <1>7, <1>8

\* A verb a handler or a client calls starts a wait for what it absorbs, if the
\* agent is told, and ends none.
LEMMA VerbAssess ==
    ASSUME TypeOK, BornInv, NEW calls \in Seq(Call), Covers(calls), SeenBorn(calls),
           VerbDone(calls), UNCHANGED <<maxDepth, subs, fired>>
    PROVE  AssessInv'
  <1>1. PICK ev \in Event :
           /\ stack' = Publish(calls, ev, VaultGet(rows', ev.id))
           /\ rows' \in [Id -> Droplet \cup {NoRow}]
           /\ born \subseteq born'
           /\ \/ /\ ev.type \in {"absorbed", "distilled"} /\ ev.id \in Id \ born /\ ev.hop = 0
                 /\ born' = born \cup {ev.id}
                 /\ rows' = [rows EXCEPT ![ev.id] = rows'[ev.id]]
                 /\ rows'[ev.id] \in Droplet
                 /\ due' = IF ev.type = "absorbed" /\ Told(calls, rows'[ev.id])
                           THEN due \cup {ev.id} ELSE due
              \/ /\ UNCHANGED <<born, due>>
                 /\ \A d \in Id : /\ rows'[d] # NoRow => rows[d] # NoRow
                                  /\ rows'[d] # NoRow => rows'[d].checked = rows[d].checked
    BY DEF VerbDone
  <1>2. rows \in [Id -> Droplet \cup {NoRow}] /\ maxDepth \in Nat /\ subs \in Seq(Sub)
    BY BusAssumption DEF TypeOK
  <1>3. VaultGet(rows', ev.id) \in Droplet \cup {NoRow}
    BY <1>1, VaultGetRow DEF Event
  <1>4. \A d : Pending(calls, d) => Pending(stack, d)'
    <2>1. \A d : Pending(calls, d) => Pending(Publish(calls, ev, VaultGet(rows', ev.id)), d)
      BY <1>3, PendingPublish
    <2>2. \A d : Pending(Publish(calls, ev, VaultGet(rows', ev.id)), d) => Pending(stack, d)'
      BY <1>1 DEF Pending, Awaits
    <2> QED BY <2>1, <2>2
  \* A droplet that is created.
  <1>5. CASE /\ ev.type \in {"absorbed", "distilled"} /\ ev.id \in Id \ born /\ ev.hop = 0
             /\ born' = born \cup {ev.id}
             /\ rows' = [rows EXCEPT ![ev.id] = rows'[ev.id]]
             /\ rows'[ev.id] \in Droplet
             /\ due' = IF ev.type = "absorbed" /\ Told(calls, rows'[ev.id])
                       THEN due \cup {ev.id} ELSE due
    <2>1. \A d \in Id : d # ev.id => rows'[d] = rows[d]
      BY <1>1, <1>2, <1>5
    <2>2. \A d \in Id : rows'[d] # NoRow => d \in born'
      BY <1>5, <2>1 DEF BornInv, Stored
    <2>3. SeenBorn(stack)'
      BY <1>1, <2>2, SeenPublish
    <2>4. BornInv'
      BY <1>5, <2>2, <2>3 DEF BornInv, SeenBorn, Stored, AssessKey
    <2>5. ASSUME NEW d \in due', d \in Id, rows'[d] # NoRow, d # ev.id
          PROVE  rows'[d].checked \/ (AssessKey(d) \notin fired' /\ Pending(stack, d)')
      BY <1>4, <1>5, <2>1, <2>5 DEF Covers, Stored
    <2>6. ASSUME ev.id \in due', rows'[ev.id] # NoRow
          PROVE  AssessKey(ev.id) \notin fired' /\ Pending(stack, ev.id)'
      <3>1. ev.type = "absorbed" /\ Told(calls, rows'[ev.id])
        BY <1>5, <2>6 DEF BornInv
      <3>2. /\ Len(calls) + 1 \in 1..Len(stack')
            /\ stack'[Len(calls) + 1] = Frame(ev, subs, VaultGet(rows', ev.id))
        BY <1>1, <1>2, <1>3, <3>1, PublishKeeps DEF Told
      <3>3. VaultGet(rows', ev.id) = rows'[ev.id]
        BY <1>1, <1>5, <2>6, <3>1, VaultGetRow DEF Told
      <3>4. Readable(rows'[ev.id], IdentityOf["assess"])
        BY <3>1 DEF Told, Allowed, Readable
      <3>5. Awaits(stack'[Len(calls) + 1], ev.id)
        BY <1>5, <2>6, <3>1, <3>2, <3>3, <3>4 DEF Awaits, Frame, Told
      <3>6. Pending(stack, ev.id)'
        BY <3>2, <3>5 DEF Pending, Awaits
      <3> QED BY <1>5, <3>6 DEF BornInv
    <2>7. DueInv'
      BY <2>5, <2>6 DEF DueInv, Stored, AssessKey
    <2> QED BY <2>4, <2>7 DEF AssessInv
  \* Anything else a verb does.
  <1>6. CASE /\ UNCHANGED <<born, due>>
             /\ \A d \in Id : /\ rows'[d] # NoRow => rows[d] # NoRow
                              /\ rows'[d] # NoRow => rows'[d].checked = rows[d].checked
    <2>1. \A d \in Id : rows'[d] # NoRow => d \in born'
      BY <1>6 DEF BornInv, Stored
    <2>2. SeenBorn(stack)'
      BY <1>1, <2>1, SeenPublish
    <2>3. BornInv'
      BY <1>6, <2>1, <2>2 DEF BornInv, SeenBorn, Stored, AssessKey
    <2>4. DueInv'
      BY <1>4, <1>6 DEF DueInv, Covers, Stored, AssessKey
    <2> QED BY <2>3, <2>4 DEF AssessInv
  <1> QED BY <1>1, <1>5, <1>6

\* An event a reaction acts on is about a droplet that was created, and uses up the
\* key of an assessment only when it is one.
LEMMA HeededKey ==
    ASSUME TypeOK, BornInv, NEW s \in Reaction, Heeded(s)
    PROVE  /\ Current.event.id \in born
           /\ \A d : Key(s) = AssessKey(d) => Current.event.id = d /\ s = "assess"
  <1>1. Current = stack[Len(stack)] /\ Len(stack) \in 1..Len(stack)
    BY TurnCall DEF Heeded, Called
  <1>2. Current.event.type \in TopicsOf[s] /\ Current.seen # NoRow
    BY DEF Heeded, Called, Receives, Permitted
  <1>3. Current.event.type = "absorbed" => s = "assess"
    BY <1>2, ReactionIs, MeshAssumption
  <1> QED BY <1>1, <1>2, <1>3 DEF BornInv, Key, AssessKey

\* When the agent's turn on d's ABSORBED comes, it takes the event up.
LEMMA AwaitedIsHeeded ==
    ASSUME TypeOK, MeshDepth >= 1, NEW d \in Id, Turn("assess"), Awaits(Current, d),
           AssessKey(d) \notin fired
    PROVE  Heeded("assess")
  <1>1. Receives("assess", Current)
    BY MeshAssumption DEF Awaits, Receives, Permitted
  <1>2. Current.event.hop < MeshDepth
    BY MeshAssumption DEF Awaits
  <1>3. Current.event.id # NoId
    BY BusAssumption DEF Awaits
  <1>4. Key("assess") = AssessKey(d)
    BY DEF Awaits, Key, AssessKey
  <1> QED BY <1>1, <1>2, <1>3, <1>4, ReactionIs DEF Heeded, Called

\* A turn that is not taken up ends no wait.
LEMMA PassedAssess ==
    ASSUME TypeOK, AssessInv, MeshDepth >= 1, NEW s, Turn(s),
           s = "assess" => ~Heeded(s), stack' = Advanced(stack),
           UNCHANGED <<rows, born, fired, due>>
    PROVE  AssessInv'
  <1>1. SeenBorn(Advanced(stack))
    BY SeenAdvanced DEF AssessInv
  <1>2. BornInv'
    BY <1>1 DEF AssessInv, BornInv, SeenBorn, Stored, AssessKey
  <1>3. ASSUME NEW d \in due \cap Stored
        PROVE  rows[d].checked \/ (AssessKey(d) \notin fired /\ Pending(Advanced(stack), d))
    <2>1. CASE rows[d].checked
      BY <2>1
    <2>2. CASE AssessKey(d) \notin fired /\ Pending(stack, d)
      <3>1. ~(s = "assess" /\ Awaits(Current, d))
        BY <2>2, AwaitedIsHeeded DEF Stored
      <3> QED BY <2>2, <3>1, PendingAdvanced
    <2> QED BY <2>1, <2>2 DEF AssessInv, DueInv
  <1>4. DueInv'
    BY <1>3 DEF DueInv, Stored, Pending, Awaits, AssessKey
  <1> QED BY <1>2, <1>4 DEF AssessInv

\* A turn that a reaction takes up uses the key of its event, and ends the wait for
\* no other droplet.
LEMMA TakenUp ==
    ASSUME TypeOK, AssessInv, NEW s \in Reaction, Heeded(s),
           NEW d \in due \cap Stored, ~rows[d].checked,
           ~(s = "assess" /\ Current.event.id = d)
    PROVE  AssessKey(d) \notin fired \cup {Key(s)} /\ Pending(Advanced(stack), d)
  <1>1. AssessKey(d) \notin fired /\ Pending(stack, d)
    BY DEF AssessInv, DueInv
  <1>2. Key(s) # AssessKey(d)
    BY HeededKey DEF AssessInv
  <1>3. Pending(Advanced(stack), d)
    BY <1>1, PendingAdvanced DEF Heeded, Called, Awaits
  <1> QED BY <1>1, <1>2, <1>3

\* Taking an event up leaves what is stored, loaded and fired among what was created.
LEMMA ReactedBorn ==
    ASSUME TypeOK, BornInv, NEW s \in Reaction, Heeded(s),
           fired' = fired \cup {Key(s)}, born' = born, due' \subseteq due,
           \A d \in Id : rows'[d] # NoRow => rows[d] # NoRow, SeenBorn(stack)'
    PROVE  BornInv'
  BY HeededKey DEF BornInv, SeenBorn, Stored, AssessKey

\* What an agent makes of a droplet was assessed if it was, or if it just was.
LEMMA ProposalChecked ==
    ASSUME NEW s \in Reaction, NEW d \in Droplet
    PROVE  Proposal(s, d).checked = (s = "assess" \/ d.checked)
  <1>1. CASE s = "assess"
    BY <1>1 DEF Proposal, AssessAndRoute, MarkPolluted, Droplet
  <1>2. CASE s = "filter"
    BY <1>2 DEF Proposal, FilterDroplet, Droplet
  <1>3. CASE s = "reverify"
    BY <1>3 DEF Proposal, Reverify, MarkPolluted, Droplet
  <1> QED BY <1>1, <1>2, <1>3, ReactionIs

\* Every step of a handler keeps AssessInv.
LEMMA HandleAssess ==
    ASSUME TypeOK, AssessInv, MeshDepth >= 1, VaultIdentity, NEW s \in Sub, Handle(s)
    PROVE  AssessInv'
  <1>1. Turn(s)
    BY DEF Handle, PassOver, RelayVerb, RelayNothing, Ignore, Skip, NoChange, Apply,
           Heeded, Called
  <1>2. Advanced(stack) \in Seq(Call) /\ SeenBorn(Advanced(stack))
    BY <1>1, TurnCall, AdvancedKeeps, SeenAdvanced DEF TypeOK, AssessInv
  <1>3. CASE PassOver(s) /\ UNCHANGED <<rows, born, fired, due>>
    BY <1>1, <1>3, PassedAssess DEF PassOver, Heeded, Called
  <1>4. CASE RelayNothing(s)
    <2>1. s # "assess"
      BY <1>4, ReactionIs, MeshAssumption DEF RelayNothing
    <2> QED BY <1>1, <1>4, <2>1, PassedAssess DEF RelayNothing
  <1>5. CASE Ignore(s)
    BY <1>1, <1>5, PassedAssess DEF Ignore
  <1>6. CASE RelayVerb(s)
    <2>1. s # "assess"
      BY <1>6, ReactionIs, MeshAssumption DEF RelayVerb
    <2>2. Covers(Advanced(stack))
      BY <1>1, <2>1, CoversAdvanced DEF AssessInv
    <2>3. VerbDone(Advanced(stack)) /\ UNCHANGED <<maxDepth, subs, fired>>
      BY <1>6, ActDone, MeshAssumption DEF RelayVerb, Act
    <2> QED BY <1>2, <2>2, <2>3, VerbAssess DEF AssessInv
  <1>7. CASE Skip(s)
    <2>1. s \in Reaction /\ Heeded(s)
      BY <1>7 DEF Skip, Heeded, Called
    <2>2. /\ fired' = fired \cup {Key(s)} /\ due' = due \ {Current.event.id}
          /\ stack' = Advanced(stack) /\ UNCHANGED <<rows, born>>
      BY <1>7 DEF Skip
    <2>3. SeenBorn(stack)'
      BY <1>2, <2>2 DEF SeenBorn
    <2>4. BornInv'
      BY <2>1, <2>2, <2>3, ReactedBorn DEF AssessInv
    <2>5. \A d \in due' \cap Stored :
             rows[d].checked \/ (AssessKey(d) \notin fired' /\ Pending(Advanced(stack), d))
      BY <2>1, <2>2, TakenUp
    <2>6. DueInv'
      BY <2>2, <2>5 DEF DueInv, Stored, Pending, Awaits, AssessKey
    <2> QED BY <2>4, <2>6 DEF AssessInv
  <1>8. CASE NoChange(s)
    <2>1. s \in Reaction /\ Heeded(s)
      BY <1>8 DEF NoChange, Heeded, Called
    <2>2. /\ fired' = fired \cup {Key(s)} /\ stack' = Advanced(stack)
          /\ UNCHANGED <<rows, born, due>>
      BY <1>8 DEF NoChange
    <2>3. SeenBorn(stack)'
      BY <1>2, <2>2 DEF SeenBorn
    <2>4. BornInv'
      BY <2>1, <2>2, <2>3, ReactedBorn DEF AssessInv
    \* The droplet is the proposal, and a proposal of assessing was assessed.
    <2>5. s = "assess" => rows[Current.event.id].checked
      <3>1. LET d == VaultGet(rows, Current.event.id) IN d # NoRow /\ Proposal(s, d) = d
        BY <1>8 DEF NoChange, MayReact
      <3>2. Current.event.id \in Id /\ rows \in [Id -> Droplet \cup {NoRow}]
        BY <2>1, HeededCall DEF TypeOK
      <3>3. /\ rows[Current.event.id] \in Droplet
            /\ Proposal(s, rows[Current.event.id]) = rows[Current.event.id]
        BY <3>1, <3>2, VaultGetRow
      <3> QED BY <2>1, <3>3, ProposalChecked
    <2>6. \A d \in due \cap Stored :
             rows[d].checked \/ (AssessKey(d) \notin fired' /\ Pending(Advanced(stack), d))
      BY <2>1, <2>2, <2>5, TakenUp
    <2>7. DueInv'
      BY <2>2, <2>6 DEF DueInv, Stored, Pending, Awaits, AssessKey
    <2> QED BY <2>4, <2>7 DEF AssessInv
  <1>9. CASE Apply(s)
    <2> DEFINE id == Current.event.id
    <2>1. s \in Reaction /\ Heeded(s)
      BY <1>9 DEF Apply, Heeded, Called
    <2>2. /\ id \in Id /\ rows[id] \in Droplet /\ rows[id] # NoRow
          /\ Allowed(rows[id], VaultAgent, "read")
          /\ rows' = IF VaultStores(Proposal(s, rows[id]))
                     THEN [rows EXCEPT ![id] = Proposal(s, rows[id])] ELSE rows
          /\ rows' \in [Id -> Droplet \cup {NoRow}]
      BY <1>9, <2>1, ApplyDone
    <2>3. PICK ev \in Event : /\ ev.id = id
                              /\ stack' = Publish(Advanced(stack), ev, VaultGet(rows', ev.id))
      BY <1>9, <2>1, ApplyDone
    <2>4. fired' = fired \cup {Key(s)} /\ UNCHANGED <<born, due>>
      BY <1>9 DEF Apply
    <2>5. VaultStores(Proposal(s, rows[id]))
      BY <2>1, <2>2, ProposalStored
    <2> HIDE DEF id
    <2>6. rows' = [rows EXCEPT ![id] = Proposal(s, rows[id])]
      BY <2>2, <2>5
    <2>7. rows \in [Id -> Droplet \cup {NoRow}]
      BY DEF TypeOK
    <2>8. \A d \in Id : d # id => rows'[d] = rows[d]
      BY <2>6, <2>7
    <2>9. rows'[id].checked = (s = "assess" \/ rows[id].checked)
      BY <2>1, <2>2, <2>6, <2>7, ProposalChecked
    <2>10. \A d \in Id : rows'[d] # NoRow => rows[d] # NoRow
      BY <2>2, <2>8
    <2>11. \A d \in Id : rows'[d] # NoRow => d \in born'
      BY <2>4, <2>10 DEF AssessInv, BornInv, Stored
    <2>12. SeenBorn(stack)'
      BY <1>2, <2>2, <2>3, <2>4, <2>11, SeenPublish
    <2>13. BornInv'
      BY <2>1, <2>4, <2>10, <2>12, ReactedBorn DEF AssessInv
    <2>14. VaultGet(rows', ev.id) \in Droplet \cup {NoRow}
      BY <2>2, <2>3, VaultGetRow
    <2>15. \A d : Pending(Advanced(stack), d) => Pending(stack, d)'
      <3>1. \A d : Pending(Advanced(stack), d)
                     => Pending(Publish(Advanced(stack), ev, VaultGet(rows', ev.id)), d)
        BY <1>2, <2>14, PendingPublish
      <3>2. \A d : Pending(Publish(Advanced(stack), ev, VaultGet(rows', ev.id)), d)
                     => Pending(stack, d)'
        BY <2>3 DEF Pending, Awaits
      <3> QED BY <3>1, <3>2
    <2>16. ASSUME NEW d \in due \cap Stored
           PROVE  rows'[d].checked \/ (AssessKey(d) \notin fired' /\ Pending(stack, d)')
      <3>1. CASE rows[d].checked
        BY <2>8, <2>9, <3>1 DEF Stored
      <3>2. CASE s = "assess" /\ id = d
        BY <2>9, <3>2
      <3>3. CASE ~rows[d].checked /\ ~(s = "assess" /\ id = d)
        BY <2>1, <2>4, <2>15, <3>3, TakenUp DEF id
      <3> QED BY <3>1, <3>2, <3>3
    <2>17. DueInv'
      BY <2>4, <2>10, <2>16 DEF DueInv, Stored, AssessKey
    <2> QED BY <2>13, <2>17 DEF AssessInv
  <1> QED BY <1>3, <1>4, <1>5, <1>6, <1>7, <1>8, <1>9 DEF Handle

\* A droplet that was absorbed is assessed, or the agent's turn on it is to come.
LEMMA AssessStep ==
    ASSUME TypeOK, AssessInv, MeshDepth >= 1, VaultIdentity, [Next]_vars
    PROVE  AssessInv'
  <1>0. stack \in Seq(Call)
    BY DEF TypeOK
  <1>1. CASE Attach \/ Connect \/ UNCHANGED vars
    <2>1. UNCHANGED <<stack, rows, born, fired, due>>
      BY <1>1 DEF Attach, Connect, Subscribe, Unsubscribe, vars
    <2> QED BY <2>1 DEF AssessInv, BornInv, DueInv, Stored, Pending, Awaits, AssessKey
  <1>2. CASE ResetCycle
    <2>1. fired' = {} /\ UNCHANGED <<stack, rows, born, due>>
      BY <1>2 DEF ResetCycle
    <2> QED BY <2>1 DEF AssessInv, BornInv, DueInv, Stored, Pending, Awaits, AssessKey
  <1>3. CASE Client
    <2>1. VerbDone(stack) /\ UNCHANGED <<maxDepth, subs, fired>>
      BY <1>3, ActDone, MeshAssumption DEF Client, Act
    <2>2. Covers(stack) /\ SeenBorn(stack)
      BY DEF AssessInv, BornInv, DueInv, Covers, SeenBorn
    <2> QED BY <1>0, <2>1, <2>2, VerbAssess DEF AssessInv
  \* The call that ends has nobody's turn to come.
  <1>4. CASE Return /\ UNCHANGED <<rows, born, fired, due>>
    <2>1. stack # <<>> /\ stack' = Front(stack) /\ stack[Len(stack)].todo = <<>>
      BY <1>4 DEF Return, Idle, Current, Last
    <2>2. Len(stack) \in Nat /\ Len(stack') = Len(stack) - 1
      BY <1>0, <2>1, FrontKeeps, LenProperties
    <2>3. \A i \in 1..(Len(stack) - 1) : stack'[i] = stack[i]
      BY <1>0, <2>1, FrontKeeps
    <2>4. SeenBorn(stack)'
      BY <1>4, <2>2, <2>3 DEF AssessInv, BornInv, SeenBorn
    <2>5. BornInv'
      BY <1>4, <2>4 DEF AssessInv, BornInv, SeenBorn, Stored, AssessKey
    <2>6. ASSUME NEW d, Pending(stack, d) PROVE Pending(stack, d)'
      <3>1. PICK i \in 1..Len(stack) : Awaits(stack[i], d)
        BY <2>6 DEF Pending
      <3>2. i # Len(stack)
        BY <2>1, <3>1 DEF Awaits, ToSet
      <3> QED BY <2>2, <2>3, <3>1, <3>2 DEF Pending, Awaits
    <2>7. DueInv'
      BY <1>4, <2>6 DEF AssessInv, DueInv, Stored, AssessKey
    <2> QED BY <2>5, <2>7 DEF AssessInv
  <1>5. ASSUME NEW s \in Sub, Handle(s) PROVE AssessInv'
    BY <1>5, HandleAssess
  <1> QED BY <1>1, <1>2, <1>3, <1>4, <1>5 DEF Next, Dispatch

\* "a freshly absorbed droplet is assessed" (integration-levels.md), by the time
\* its publish returns, whatever other handlers wrote, published, replayed or
\* forgot before the agent's turn, at any max_depth of the bus and the mesh.
THEOREM Assessed ==
  ASSUME MeshDepth >= 1, VaultIdentity PROVE Spec => []AbsorbedIsAssessed
  <1>1. Init => AssessInv
    BY EmptySeq, LenProperties DEF Init, AssessInv, BornInv, DueInv, Stored
  <1>2. TypeOK /\ AssessInv /\ [Next]_vars => AssessInv'
    BY AssessStep
  <1>3. AssessInv => AbsorbedIsAssessed
    BY EmptySeq, LenProperties DEF AssessInv, DueInv, AbsorbedIsAssessed, Idle, Pending
  <1> QED BY <1>1, <1>2, <1>3, TypeCorrect, PTL DEF Spec

=============================================================================
