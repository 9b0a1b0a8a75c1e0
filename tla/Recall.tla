------------------------------- MODULE Recall -------------------------------
(***************************************************************************)
(* Recall beside the verbs: pipeline.recall_for_agent and verbs.precipitate *)
(* called by a reader with an engine of its own over the rows of            *)
(* WaterCycle, while a client calls verbs and the scheduler's thread ticks. *)
(*                                                                         *)
(* A call reads the store once for every droplet its search considers and   *)
(* again for every hit it renders, or before that, when activation spreads  *)
(* to it.  What was permitted when it was searched may have changed when it *)
(* is shown, so each read is a step.                                        *)
(* Scores are floats: that one clears its threshold is a choice.            *)
(***************************************************************************)
EXTENDS WaterCycle

CONSTANT Reader       \* threads that recall, each with an engine of its own

VARIABLE calls        \* calls[r]: the call reader r is in, or Nothing

recallVars == <<vars, calls>>

Kind    == {"recall_for_agent", "precipitate"}
Carried == {"memory", "reason"}
Result  == [id : Id, carries : Carried]
Touch   == [id : Id, cycles : 0..MaxCycles \cup {Nothing}]
View    == [permitted : BOOLEAN, renderings : SUBSET Carried]

Call == [kind : Kind, agent : Agent,
         traverse : BOOLEAN,        \* precipitate is to spread activation first
         todo : SUBSET Id,          \* ids the search has still to read
         hits : SUBSET Id,          \* candidates, until they are rendered
         seen : [Id -> View \cup {Nothing}],  \* precipitate's cache of droplets
         shown : SUBSET Result,     \* the results so far
         touch : Touch \cup {Nothing},  \* what touch_cycle is at, if it runs
         readable : SUBSET Id,      \* history: readable to agent during the call
         untainted : SUBSET Id]     \* history: stored without a taint during it

-----------------------------------------------------------------------------
(* What a call makes of one droplet. *)

\* permission_score(droplet, agent) > 0: what it subtracts for obligations never
\* amounts to 1, so only a denied READ scores 0.
Permitted(d, agent) == d # NoRow /\ Allowed(d, agent, NeutralContext, "read")

\* What select_recall_mode reads besides the fields of Droplet.
RecallData == [sensitive : BOOLEAN, unsure : BOOLEAN, contradicted : BOOLEAN,
               ask : {"nothing", "show_memory", "exact_quote"}]

\* Mutant of Contaminated: the mark that outlives the polluted phase is ignored.
ContaminatedByPlace(d, data) ==
    d.phase = "polluted" \/ d.reservoir = "contaminated" \/ data.contradicted

Contaminated(d, data) ==
    d.phase = "polluted" \/ d.reservoir = "contaminated" \/ data.contradicted \/ d.tainted

\* select_recall_mode: the first rule that fits.  Every droplet here is private.
SelectRecallMode(d, data) ==
    IF Contaminated(d, data) THEN "warning"
    ELSE IF data.sensitive THEN "silent"
    ELSE IF data.unsure THEN "reflective"
    ELSE IF data.ask = "show_memory" THEN "user_visible"
    ELSE IF data.ask = "exact_quote" THEN "literal"
    ELSE IF d.phase \in {"vapor", "cloud"} THEN "pattern" ELSE "behavioral"

\* format_recall: a warning carries the reason for it.  Every other mode carries the
\* memory, its content or a pattern of it, as the text to surface or as guidance.
FormatRecall(mode) == IF mode = "warning" THEN "reason" ELSE "memory"

Renderings(d) == {FormatRecall(SelectRecallMode(d, data)) : data \in RecallData}

\* All a call makes of the droplet it read, if there was one.
Look(d, agent) ==
    IF d = NoRow THEN [permitted |-> FALSE, renderings |-> {}]
    ELSE [permitted |-> Permitted(d, agent), renderings |-> Renderings(d)]

-----------------------------------------------------------------------------
RecallInit == Init /\ calls = [r \in Reader |-> Nothing]

Readable(store, agent) == {id \in Id : Permitted(store[id], agent)}
Untainted(store)       == {id \in Id : store[id] # NoRow /\ ~store[id].tainted}

\* A call under way when the store becomes store.
Witness(call, store) ==
    [call EXCEPT !.readable = @ \cup Readable(store, call.agent),
                 !.untainted = @ \cup Untainted(store)]

StoreStep ==
    /\ Next
    /\ calls' = [r \in Reader |-> IF calls[r] = Nothing THEN Nothing
                                  ELSE Witness(calls[r], rows')]

\* The reader goes on; the store stays.
Continue(r, call) == calls' = [calls EXCEPT ![r] = call] /\ UNCHANGED vars

Searching(r) == calls[r] # Nothing /\ calls[r].todo # {}
Spreading(r) == calls[r] # Nothing /\ calls[r].todo = {} /\ calls[r].traverse
Rendering(r) ==
    /\ calls[r] # Nothing
    /\ calls[r].todo = {}
    /\ ~calls[r].traverse
    /\ calls[r].touch = Nothing
Touching(r)  == calls[r] # Nothing /\ calls[r].touch # Nothing

\* The reader's own index decides what is searched: it knows nothing of what other
\* engines stored since it was loaded, and the search stops at k hits.
Begin(r) ==
    /\ calls[r] = Nothing
    /\ \E kind \in Kind, agent \in Agent, indexed \in SUBSET Id, traverse \in BOOLEAN :
          /\ traverse => kind = "precipitate"
          /\ Continue(r, [kind |-> kind, agent |-> agent, traverse |-> traverse,
                          todo |-> indexed, hits |-> {},
                          seen |-> [id \in Id |-> Nothing],
                          shown |-> {}, touch |-> Nothing,
                          readable |-> Readable(rows, agent),
                          untainted |-> Untainted(rows)])

\* search_similar reads a candidate and asks the gate.
Search(r) ==
    /\ Searching(r)
    /\ \E id \in calls[r].todo :
          Continue(r, [calls[r] EXCEPT
              !.todo = @ \ {id},
              !.hits = IF Permitted(rows[id], calls[r].agent) THEN @ \cup {id} ELSE @])

\* precipitate spreads activation over links, which may start at memories not in Id.
\* It keeps every droplet it reads on the way, hits and droplets no gate has seen.  One
\* that is read and not reached is as one that is below its threshold.
Spread(r) ==
    /\ Spreading(r)
    /\ \E id \in Id :
          /\ calls[r].seen[id] = Nothing
          /\ Continue(r, [calls[r] EXCEPT !.hits = @ \cup {id},
                                          !.seen[id] = Look(rows[id], calls[r].agent)])

EndSpread(r) == Spreading(r) /\ Continue(r, [calls[r] EXCEPT !.traverse = FALSE])

\* The droplet of a candidate as it is rendered: what was kept of it, or the row.
Looked(call, id) ==
    IF call.seen[id] # Nothing THEN call.seen[id] ELSE Look(rows[id], call.agent)

\* Mutant of Admits: neither kind of call asks again.
AdmitsHits(call, view) == TRUE

\* precipitate asks the gate again of what it renders, recall_for_agent does not.
Admits(call, view) == call.kind = "precipitate" => view.permitted

\* A candidate is rendered once: what was kept of it goes with it.
Settled(call, id) == [call EXCEPT !.hits = @ \ {id}, !.seen[id] = Nothing]

\* A candidate that is gone, not permitted or below its threshold.
RenderNothing(r) ==
    /\ Rendering(r)
    /\ \E id \in calls[r].hits : Continue(r, Settled(calls[r], id))

\* A candidate that is shown, as the mode chosen for it has it.  recall_for_agent
\* then counts the use.
Render(r) ==
    /\ Rendering(r)
    /\ \E id \in calls[r].hits :
          /\ Admits(calls[r], Looked(calls[r], id))
          /\ \E text \in Looked(calls[r], id).renderings :
                Continue(r, [Settled(calls[r], id) EXCEPT
                    !.shown = @ \cup {[id |-> id, carries |-> text]},
                    !.touch = IF calls[r].kind = "precipitate" THEN Nothing
                              ELSE [id |-> id, cycles |-> Nothing]])

\* Mutant of TouchRead: a recall is counted as a cycle.
TouchReadCounting(r) ==
    /\ Touching(r)
    /\ calls[r].touch.cycles = Nothing
    /\ LET row == rows[calls[r].touch.id] IN
       Continue(r, IF row = NoRow
                   THEN [calls[r] EXCEPT !.touch = Nothing]
                   ELSE [calls[r] EXCEPT !.touch.cycles = row.cycles + 1])

\* touch_cycle: a SELECT of the row's cycle data, then an UPDATE that writes all of
\* it back, with a count another engine may have increased in between.
TouchRead(r) ==
    /\ Touching(r)
    /\ calls[r].touch.cycles = Nothing
    /\ LET row == rows[calls[r].touch.id] IN
       Continue(r, IF row = NoRow
                   THEN [calls[r] EXCEPT !.touch = Nothing]
                   ELSE [calls[r] EXCEPT !.touch.cycles = row.cycles])

TouchWrite(r) ==
    /\ Touching(r)
    /\ calls[r].touch.cycles # Nothing
    /\ LET id == calls[r].touch.id IN
       rows' = IF rows[id] = NoRow THEN rows
               ELSE [rows EXCEPT ![id].cycles = calls[r].touch.cycles]
    /\ calls' = [calls EXCEPT ![r] = [@ EXCEPT !.touch = Nothing]]
    /\ UNCHANGED <<held, tick, dirty, forgotten>>

Return(r) ==
    /\ Rendering(r)
    /\ calls[r].hits = {}
    /\ calls' = [calls EXCEPT ![r] = Nothing]
    /\ UNCHANGED vars

Recalling(r) ==
    \/ Begin(r) \/ Search(r) \/ Spread(r) \/ EndSpread(r) \/ RenderNothing(r) \/ Render(r)
    \/ TouchRead(r) \/ TouchWrite(r) \/ Return(r)

RecallNext == StoreStep \/ \E r \in Reader : Recalling(r)

RecallSpec == RecallInit /\ [][RecallNext]_recallVars

-----------------------------------------------------------------------------
(* Properties. *)

\* Type invariant of the calls; that of the rows is WaterCycle's.
CallsTypeOK == calls \in [Reader -> Call \cup {Nothing}]

\* ADR-0030, section 4.6: traversal never widens access, and a recall shows nothing
\* that was not readable to its agent at some moment of the call, although the rows
\* change between the gate and the read that is rendered.
ShownWasReadable ==
    \A r \in Reader : calls[r] # Nothing =>
        \A x \in calls[r].shown : x.id \in calls[r].readable

\* recall.py: a memory that was polluted all through a call, wherever verbs moved it
\* to, comes back as a warning with the reason, never as the memory.
TaintedOnlyAsWarning ==
    \A r \in Reader : calls[r] # Nothing =>
        \A x \in calls[r].shown : x.carries = "memory" => x.id \in calls[r].untainted
=============================================================================
