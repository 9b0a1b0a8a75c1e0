-------------------------- MODULE WaterCycleProofs --------------------------
(***************************************************************************)
(* Proofs about WaterCycle and about Recall on top of it, for every set of *)
(* ids, clients, readers and agents.                                       *)
(*                                                                         *)
(* 1. TypeOK, and PhaseMatchesTaint however clients and the scheduler      *)
(*    thread interleave: every object in anybody's hands is Coherent, and  *)
(*    every verb makes a Coherent object of a Coherent one.                *)
(* 2. With one client and no scheduler thread, the client's object is the  *)
(*    stored row, so the pollution flag is what POLLUTE and FILTER made it,*)
(*    and the whole implements Memory.                                     *)
(* 3. Recall widens no access and shows no polluted memory as if it were   *)
(*    clean, whatever verbs and the scheduler's thread do meanwhile.       *)
(***************************************************************************)
EXTENDS Recall, TLAPS

USE DEF Droplet, Object

\* A fresh droplet is well formed when its phase and pressure are.
LEMMA FreshType ==
    ASSUME NEW ph \in Phase, NEW res \in Reservoir, NEW p \in BOOLEAN,
           NEW s \in 0..MaxPressure
    PROVE  Fresh(ph, res, p, s) \in Droplet
  BY BoundsAssumption DEF Fresh

\* A capture ends in a storable phase: the settling step sees to it.
LEMMA CapturedPhaseStorable == CapturedPhase \subseteq StorablePhase
  BY DEF CapturedPhase, Settle, StorablePhase

\* The walk starts in LIQUID, and only POLLUTED leads to FILTERED, so a capture
\* ends in neither.
UncleanPhase == {"polluted", "filtered"}

\* A capture never ends in a phase that says polluted or filtered.
LEMMA CapturedPhaseClean == CapturedPhase \cap UncleanPhase = {}
  <1> DEFINE Clean == Phase \ UncleanPhase
  <1>1. ASSUME NEW p \in Clean, NEW t, NEW T, NEW k
        PROVE  Walk(p, t, T, k) \in Clean
    <2>1. ASSUME NEW q \in Phase, Rule(p, t, k, q) PROVE q \in Clean
      BY <2>1 DEF Rule, UncleanPhase
    <2> DEFINE targets == {to \in Phase : Rule(p, t, k, to)}
    <2>2. targets # {} => (CHOOSE to \in targets : TRUE) \in targets
      OBVIOUS
    <2>3. ApplyTransition(p, t, k)
            = IF targets = {} THEN p ELSE CHOOSE to \in targets : TRUE
      BY DEF ApplyTransition
    <2>4. \A q \in targets : q \in Clean
      BY <2>1
    <2> HIDE DEF targets
    <2> QED BY <2>2, <2>3, <2>4 DEF Walk
  <1>2. "liquid" \in Clean
    BY DEF Phase, StorablePhase, UncleanPhase
  <1>3. ASSUME NEW p \in Clean
        PROVE  Settle(p) \notin UncleanPhase
    BY DEF Settle, UncleanPhase
  <1> HIDE DEF Clean
  <1>4. ASSUME NEW T, NEW k
        PROVE  ApplyTransitions("liquid", T, k) \in Clean
    BY <1>1, <1>2 DEF ApplyTransitions
  <1> QED BY <1>3, <1>4 DEF CapturedPhase

\* What a capture does to the store.
LEMMA CaptureStores ==
    ASSUME TypeOK, Capture
    PROVE  \E id \in Unused, ph \in StorablePhase \ UncleanPhase,
              res \in Reservoir, p \in BOOLEAN, s \in 0..MaxPressure :
              rows' = [rows EXCEPT ![id] = Fresh(ph, res, p, s)]
  <1>1. PICK id \in Unused, ph \in CapturedPhase, res \in Reservoir,
             p \in BOOLEAN, s \in 0..MaxPressure :
             rows' = [rows EXCEPT ![id] = Fresh(ph, res, p, s)]
    <2>1. PICK id \in Unused, drop \in Captured : rows' = [rows EXCEPT ![id] = drop]
      BY DEF Capture
    <2>2. \E ph \in CapturedPhase, res \in Reservoir, p \in BOOLEAN,
             s \in 0..MaxPressure : drop = Fresh(ph, res, p, s)
      BY DEF Captured
    <2> QED BY <2>1, <2>2
  <1>2. ph \in StorablePhase \ UncleanPhase
    BY CapturedPhaseStorable, CapturedPhaseClean
  <1> QED BY <1>1, <1>2

\* Every change a verb or the decay makes turns a droplet into a droplet.
LEMMA ChangeType ==
    ASSUME NEW d \in Droplet
    PROVE  /\ Infiltrated(d) \in Droplet
           /\ Frozen(d) \in Droplet
           /\ Melted(d) \in Droplet
           /\ MarkPolluted(d) \in Droplet
           /\ FilterDroplet(d) \in Droplet
           /\ Drained(d) \in Droplet
           /\ Sedimented(d) \in Droplet
           /\ Sealed(d) \in Droplet
           /\ Decayed(d) \in Droplet
  <1> USE BoundsAssumption DEF Phase, StorablePhase, Reservoir
  <1>1. Infiltrated(d) \in Droplet    BY DEF Infiltrated
  <1>2. Frozen(d) \in Droplet         BY DEF Frozen
  <1>3. Melted(d) \in Droplet         BY DEF Melted
  <1>4. MarkPolluted(d) \in Droplet   BY DEF MarkPolluted
  <1>5. FilterDroplet(d) \in Droplet  BY DEF FilterDroplet
  <1>6. Drained(d) \in Droplet        BY DEF Drained
  <1>7. Sedimented(d) \in Droplet     BY DEF Sedimented
  <1>8. Sealed(d) \in Droplet         BY DEF Sealed
  <1>9. Decayed(d) \in Droplet        BY DEF Decayed
  <1> QED BY <1>1, <1>2, <1>3, <1>4, <1>5, <1>6, <1>7, <1>8, <1>9

\* The same changes keep a droplet coherent.
LEMMA ChangeCoherent ==
    ASSUME NEW d \in Droplet, Coherent(d)
    PROVE  /\ Coherent(Infiltrated(d))
           /\ Coherent(Frozen(d))
           /\ Coherent(Melted(d))
           /\ Coherent(MarkPolluted(d))
           /\ Coherent(FilterDroplet(d))
           /\ Coherent(Drained(d))
           /\ Coherent(Sedimented(d))
           /\ Coherent(Sealed(d))
           /\ Coherent(Decayed(d))
  <1> USE DEF Coherent, StorablePhase
  <1>1. Coherent(Infiltrated(d))    BY DEF Infiltrated
  <1>2. Coherent(Frozen(d))         BY DEF Frozen
  <1>3. Coherent(Melted(d))         BY DEF Melted
  <1>4. Coherent(MarkPolluted(d))   BY DEF MarkPolluted
  <1>5. Coherent(FilterDroplet(d))  BY DEF FilterDroplet
  <1>6. Coherent(Drained(d))        BY DEF Drained
  <1>7. Coherent(Sedimented(d))     BY DEF Sedimented
  <1>8. Coherent(Sealed(d))         BY DEF Sealed
  <1>9. Coherent(Decayed(d))        BY DEF Decayed
  <1> QED BY <1>1, <1>2, <1>3, <1>4, <1>5, <1>6, <1>7, <1>8, <1>9

-----------------------------------------------------------------------------
(* Type correctness. *)

\* What a client holds is a droplet under an id.
LEMMA HeldType ==
    ASSUME TypeOK, NEW c \in Client, held[c] # Nothing
    PROVE  held[c].id \in Id /\ held[c].drop \in Droplet
  BY DEF TypeOK

\* Storing a well-formed droplet under an id keeps the types.
LEMMA WriteBackType ==
    ASSUME TypeOK, NEW c \in Client, NEW id \in Id, NEW d \in Droplet,
           WriteBack(c, id, d), UNCHANGED <<tick, forgotten>>,
           dirty' \in SUBSET Id
    PROVE  TypeOK'
  BY DEF TypeOK, WriteBack

\* Every step keeps the types.
LEMMA TypeStep == TypeOK /\ [Next]_vars => TypeOK'
  <1> SUFFICES ASSUME TypeOK, [Next]_vars PROVE TypeOK'
    OBVIOUS
  <1>1. CASE UNCHANGED vars
    BY <1>1 DEF TypeOK, vars
  <1>2. CASE Capture
    <2>1. PICK id \in Unused, ph \in StorablePhase \ UncleanPhase,
               res \in Reservoir, p \in BOOLEAN, s \in 0..MaxPressure :
               rows' = [rows EXCEPT ![id] = Fresh(ph, res, p, s)]
      BY <1>2, CaptureStores
    <2>2. Fresh(ph, res, p, s) \in Droplet
      BY FreshType DEF Phase
    <2> QED BY <1>2, <2>1, <2>2 DEF Capture, TypeOK, Unused
  <1>3. CASE Tick
    <2>1. CASE TickInline
      BY <2>1, ChangeType DEF TickInline, TypeOK, Stored
    <2>2. CASE TickStart
      BY <2>2 DEF TickStart, TypeOK, Stored
    <2>3. CASE TickRead
      BY <2>3 DEF TickRead, TypeOK
    <2>4. CASE TickWrite
      BY <2>4, ChangeType DEF TickWrite, TypeOK
    <2>5. CASE TickSkip
      BY <2>5 DEF TickSkip, TypeOK
    <2> QED BY <1>3, <2>1, <2>2, <2>3, <2>4, <2>5 DEF Tick
  <1>4. ASSUME NEW c \in Client, Verb(c) PROVE TypeOK'
    <2>1. CASE Absorb(c)
      BY <2>1, FreshType, WriteBackType
         DEF Absorb, Unused, TypeOK, Phase, StorablePhase
    <2>2. CASE Load(c)
      BY <2>2 DEF Load, TypeOK, Stored
    <2>3. CASE Infiltrate(c)
      BY <2>3, HeldType, ChangeType, WriteBackType DEF Infiltrate, Rewrite, TypeOK
    <2>4. CASE Freeze(c)
      BY <2>4, HeldType, ChangeType, WriteBackType DEF Freeze, Rewrite, TypeOK
    <2>5. CASE Melt(c)
      BY <2>5, HeldType, ChangeType, WriteBackType DEF Melt, Rewrite, TypeOK
    <2>6. CASE Pollute(c)
      BY <2>6, HeldType, ChangeType, WriteBackType DEF Pollute, Rewrite, TypeOK
    <2>7. CASE Filter(c)
      BY <2>7, HeldType, ChangeType, WriteBackType DEF Filter, Rewrite, TypeOK
    <2>8. CASE Drain(c)
      BY <2>8, HeldType, ChangeType, WriteBackType DEF Drain, Rewrite, TypeOK
    <2>9. CASE Sediment(c)
      BY <2>9, HeldType, ChangeType, WriteBackType DEF Sediment, Rewrite, TypeOK
    <2>10. CASE Seal(c)
      BY <2>10, HeldType, ChangeType, WriteBackType DEF Seal, Rewrite, TypeOK
    <2>11. CASE Irrigate(c)
      BY <2>11, BoundsAssumption DEF Irrigate, TypeOK
    <2>12. CASE Forget(c)
      BY <2>12 DEF Forget, TypeOK
    <2>13. CASE Evaporate(c)
      <3>1. PICK id \in Unused :
               WriteBack(c, id, Fresh("vapor", "cloud", held[c].drop.pure, 0))
        BY <2>13 DEF Evaporate
      <3>2. held[c].drop.pure \in BOOLEAN
        BY <2>13, HeldType DEF Evaporate
      <3>3. Fresh("vapor", "cloud", held[c].drop.pure, 0) \in Droplet
        BY <3>2, FreshType, BoundsAssumption DEF Phase, StorablePhase, Reservoir
      <3> QED BY <2>13, <3>1, <3>3, WriteBackType DEF Evaporate, Unused, TypeOK
    <2>14. CASE Condense(c)
      <3>1. PICK id \in Unused, p \in BOOLEAN, s \in 0..MaxPressure :
               WriteBack(c, id, Fresh("cloud", "cloud", p, s))
        BY <2>14 DEF Condense
      <3>2. Fresh("cloud", "cloud", p, s) \in Droplet
        BY FreshType DEF Phase, StorablePhase, Reservoir
      <3> QED BY <2>14, <3>1, <3>2, WriteBackType DEF Condense, Unused, TypeOK
    <2>15. CASE Distill(c)
      <3>1. PICK id \in Unused, p \in BOOLEAN :
               WriteBack(c, id, Fresh("groundwater", "cloud", p, 0))
        BY <2>15 DEF Distill
      <3>2. Fresh("groundwater", "cloud", p, 0) \in Droplet
        BY FreshType, BoundsAssumption DEF Phase, StorablePhase, Reservoir
      <3> QED BY <2>15, <3>1, <3>2, WriteBackType DEF Distill, Unused, TypeOK
    <2> QED BY <1>4, <2>1, <2>2, <2>3, <2>4, <2>5, <2>6, <2>7, <2>8, <2>9,
               <2>10, <2>11, <2>12, <2>13, <2>14, <2>15 DEF Verb
  <1> QED BY <1>1, <1>2, <1>3, <1>4 DEF Next

\* Rows, held objects, the tick and the histories keep their types, whatever the
\* clients, threads and ids (schema.py).
THEOREM TypeInvariant == Spec => []TypeOK
  <1>1. Init => TypeOK
    BY DEF Init, TypeOK, IdleTick
  <1> QED BY <1>1, TypeStep, PTL DEF Spec

\* The engine without a scheduler thread is a case of the whole, so what is proved
\* of Spec holds of it (engine.tick, scheduler.py).
THEOREM InlineIsACase == InlineSpec => Spec
  <1>1. [InlineNext]_vars => [Next]_vars
    BY DEF InlineNext, Next, Tick
  <1> QED BY <1>1, PTL DEF InlineSpec, Spec

-----------------------------------------------------------------------------
(* Coherence of every copy of a droplet, under any interleaving. *)

\* PhaseMatchesTaint is not inductive alone: a verb and the tick store objects
\* read earlier, so those must be coherent too.
AllCoherent ==
    /\ PhaseMatchesTaint
    /\ \A c \in Client : held[c] # Nothing => Coherent(held[c].drop)
    /\ tick.obj # Nothing => Coherent(tick.obj.drop)

\* A droplet built in a clean storable phase is coherent.
LEMMA FreshCoherent ==
    ASSUME NEW ph \in StorablePhase \ UncleanPhase, NEW res, NEW p, NEW s
    PROVE  Coherent(Fresh(ph, res, p, s))
  BY DEF Coherent, Fresh, UncleanPhase

\* Storing a coherent object keeps every copy coherent.
LEMMA WriteBackCoherent ==
    ASSUME TypeOK, AllCoherent, NEW c \in Client, NEW id \in Id, NEW d \in Droplet,
           Coherent(d), WriteBack(c, id, d), UNCHANGED tick
    PROVE  AllCoherent'
  <1>1. PhaseMatchesTaint'
    BY DEF TypeOK, AllCoherent, PhaseMatchesTaint, Stored, WriteBack
  <1>2. \A b \in Client : held'[b] # Nothing => Coherent(held'[b].drop)
    BY DEF TypeOK, AllCoherent, WriteBack
  <1> QED BY <1>1, <1>2 DEF AllCoherent

\* Counting a use changes no part Coherent reads.
LEMMA CountedCoherent ==
    ASSUME NEW d \in Droplet, Coherent(d)
    PROVE  Coherent([d EXCEPT !.cycles = @ + 1])
  BY DEF Coherent

\* PhaseMatchesTaint: for any number of clients, with or without the scheduler
\* thread, no stored row is in a transient phase, polluted without being marked
\* unusable, or filtered without being clean (verbs.py, contamination.py).
THEOREM PhaseTaintSafety == Spec => []PhaseMatchesTaint
  <1>1. Init => AllCoherent
    BY DEF Init, AllCoherent, PhaseMatchesTaint, Stored, IdleTick
  <1>2. TypeOK /\ AllCoherent /\ [Next]_vars => AllCoherent'
    <2> SUFFICES ASSUME TypeOK, AllCoherent, [Next]_vars PROVE AllCoherent'
      OBVIOUS
    <2>1. CASE UNCHANGED vars
      BY <2>1 DEF AllCoherent, PhaseMatchesTaint, Stored, vars
    <2>2. CASE Capture
      <3>1. PICK id \in Unused, ph \in StorablePhase \ UncleanPhase,
                 res \in Reservoir, p \in BOOLEAN, s \in 0..MaxPressure :
                 rows' = [rows EXCEPT ![id] = Fresh(ph, res, p, s)]
        BY <2>2, CaptureStores
      <3>2. Coherent(Fresh(ph, res, p, s))
        BY FreshCoherent
      <3> QED BY <2>2, <3>1, <3>2
              DEF Capture, TypeOK, Unused, AllCoherent, PhaseMatchesTaint, Stored
    <2>3. CASE Tick
      <3>1. CASE TickInline
        <4>1. ASSUME NEW d \in Stored PROVE Coherent(Decayed(rows[d]))
          BY <4>1, ChangeCoherent
             DEF TypeOK, Stored, AllCoherent, PhaseMatchesTaint
        <4> QED BY <3>1, <4>1
                DEF TickInline, TypeOK, Stored, AllCoherent, PhaseMatchesTaint
      <3>2. CASE TickStart
        BY <3>2 DEF TickStart, AllCoherent, PhaseMatchesTaint, Stored
      <3>3. CASE TickRead
        BY <3>3 DEF TickRead, TypeOK, AllCoherent, PhaseMatchesTaint, Stored
      <3>4. CASE TickWrite
        <4>1. Coherent(Decayed(tick.obj.drop))
          BY <3>4, ChangeCoherent DEF TickWrite, TypeOK, AllCoherent
        <4> QED BY <3>4, <4>1
                DEF TickWrite, TypeOK, AllCoherent, PhaseMatchesTaint, Stored
      <3>5. CASE TickSkip
        BY <3>5 DEF TickSkip, TypeOK, AllCoherent, PhaseMatchesTaint, Stored
      <3> QED BY <2>3, <3>1, <3>2, <3>3, <3>4, <3>5 DEF Tick
    <2>4. ASSUME NEW c \in Client, Verb(c) PROVE AllCoherent'
      <3>1. CASE Absorb(c)
        <4>1. PICK id \in Unused, res \in Reservoir, p \in BOOLEAN,
                   s \in 0..MaxPressure : WriteBack(c, id, Fresh("liquid", res, p, s))
          BY <3>1 DEF Absorb
        <4>2. "liquid" \in StorablePhase \ UncleanPhase /\ "liquid" \in Phase
          BY DEF StorablePhase, UncleanPhase, Phase
        <4>3. Fresh("liquid", res, p, s) \in Droplet
          BY <4>2, FreshType
        <4>4. Coherent(Fresh("liquid", res, p, s))
          BY <4>2, FreshCoherent
        <4> QED BY <3>1, <4>1, <4>3, <4>4, WriteBackCoherent DEF Absorb, Unused
      <3>2. CASE Load(c)
        BY <3>2 DEF Load, TypeOK, AllCoherent, PhaseMatchesTaint, Stored
      <3>3. CASE Infiltrate(c)
        BY <3>3, HeldType, ChangeType, ChangeCoherent, WriteBackCoherent
           DEF Infiltrate, Rewrite, AllCoherent
      <3>4. CASE Freeze(c)
        BY <3>4, HeldType, ChangeType, ChangeCoherent, WriteBackCoherent
           DEF Freeze, Rewrite, AllCoherent
      <3>5. CASE Melt(c)
        BY <3>5, HeldType, ChangeType, ChangeCoherent, WriteBackCoherent
           DEF Melt, Rewrite, AllCoherent
      <3>6. CASE Pollute(c)
        BY <3>6, HeldType, ChangeType, ChangeCoherent, WriteBackCoherent
           DEF Pollute, Rewrite, AllCoherent
      <3>7. CASE Filter(c)
        BY <3>7, HeldType, ChangeType, ChangeCoherent, WriteBackCoherent
           DEF Filter, Rewrite, AllCoherent
      <3>8. CASE Drain(c)
        BY <3>8, HeldType, ChangeType, ChangeCoherent, WriteBackCoherent
           DEF Drain, Rewrite, AllCoherent
      <3>9. CASE Sediment(c)
        BY <3>9, HeldType, ChangeType, ChangeCoherent, WriteBackCoherent
           DEF Sediment, Rewrite, AllCoherent
      <3>10. CASE Seal(c)
        BY <3>10, HeldType, ChangeType, ChangeCoherent, WriteBackCoherent
           DEF Seal, Rewrite, AllCoherent
      <3>11. CASE Irrigate(c)
        <4>1. ASSUME NEW d \in Stored PROVE Coherent(rows'[d])
          BY <3>11, <4>1, CountedCoherent
             DEF Irrigate, TypeOK, AllCoherent, PhaseMatchesTaint, Stored
        <4>2. Stored' = Stored
          BY <3>11, NoRowAssumption, BoundsAssumption DEF Irrigate, TypeOK, Stored
        <4>3. held'[c].drop = [held[c].drop EXCEPT !.cycles = @ + 1]
          BY <3>11 DEF Irrigate, TypeOK
        <4>4. Coherent(held'[c].drop)
          BY <3>11, <4>3, HeldType, CountedCoherent DEF Irrigate, AllCoherent
        <4> QED BY <3>11, <4>1, <4>2, <4>4
                DEF Irrigate, TypeOK, AllCoherent, PhaseMatchesTaint
      <3>12. CASE Forget(c)
        BY <3>12 DEF Forget, TypeOK, AllCoherent, PhaseMatchesTaint, Stored
      <3>13. CASE Evaporate(c)
        <4>1. PICK id \in Unused :
                 WriteBack(c, id, Fresh("vapor", "cloud", held[c].drop.pure, 0))
          BY <3>13 DEF Evaporate
        <4>2. held[c].drop.pure \in BOOLEAN
          BY <3>13, HeldType DEF Evaporate
        <4>3. Fresh("vapor", "cloud", held[c].drop.pure, 0) \in Droplet
          BY <4>2, FreshType, BoundsAssumption DEF Phase, StorablePhase, Reservoir
        <4>4. Coherent(Fresh("vapor", "cloud", held[c].drop.pure, 0))
          BY FreshCoherent DEF StorablePhase, UncleanPhase
        <4> QED BY <3>13, <4>1, <4>3, <4>4, WriteBackCoherent DEF Evaporate, Unused
      <3>14. CASE Condense(c)
        <4>1. PICK id \in Unused, p \in BOOLEAN, s \in 0..MaxPressure :
                 WriteBack(c, id, Fresh("cloud", "cloud", p, s))
          BY <3>14 DEF Condense
        <4>2. Fresh("cloud", "cloud", p, s) \in Droplet
          BY FreshType DEF Phase, StorablePhase, Reservoir
        <4>3. Coherent(Fresh("cloud", "cloud", p, s))
          BY FreshCoherent DEF StorablePhase, UncleanPhase
        <4> QED BY <3>14, <4>1, <4>2, <4>3, WriteBackCoherent DEF Condense, Unused
      <3>15. CASE Distill(c)
        <4>1. PICK id \in Unused, p \in BOOLEAN :
                 WriteBack(c, id, Fresh("groundwater", "cloud", p, 0))
          BY <3>15 DEF Distill
        <4>2. Fresh("groundwater", "cloud", p, 0) \in Droplet
          BY FreshType, BoundsAssumption DEF Phase, StorablePhase, Reservoir
        <4>3. Coherent(Fresh("groundwater", "cloud", p, 0))
          BY FreshCoherent DEF StorablePhase, UncleanPhase
        <4> QED BY <3>15, <4>1, <4>2, <4>3, WriteBackCoherent DEF Distill, Unused
      <3> QED BY <2>4, <3>1, <3>2, <3>3, <3>4, <3>5, <3>6, <3>7, <3>8, <3>9,
                 <3>10, <3>11, <3>12, <3>13, <3>14, <3>15 DEF Verb
    <2> QED BY <2>1, <2>2, <2>3, <2>4 DEF Next
  <1>3. AllCoherent => PhaseMatchesTaint
    BY DEF AllCoherent
  <1> QED BY <1>1, <1>2, <1>3, TypeInvariant, PTL DEF Spec

-----------------------------------------------------------------------------
(* One client, no scheduler thread. *)

OneClient == \A a, b \in Client : a = b

\* The client's object is the stored row, and the dirty ids are exactly the
\* rows marked unusable; the scheduler never starts.
OneClientInv ==
    /\ TypeOK
    /\ tick = IdleTick
    /\ ObjectMatchesRow
    /\ \A d \in Id : d \in dirty <=> (rows[d] # NoRow /\ rows[d].tainted)

\* Rewriting the object keeps the client in step with the store.
LEMMA WriteBackMatches ==
    ASSUME OneClient, TypeOK, NEW c \in Client, NEW id \in Id, NEW d \in Droplet,
           WriteBack(c, id, d)
    PROVE  /\ ObjectMatchesRow'
           /\ rows'[id] = d
           /\ \A e \in Id \ {id} : rows'[e] = rows[e]
  BY NoRowAssumption DEF OneClient, TypeOK, WriteBack, ObjectMatchesRow, SameButSalience

\* Which changes touch the mark.
LEMMA ChangeTaint ==
    ASSUME NEW d \in Droplet
    PROVE  /\ Infiltrated(d).tainted = d.tainted
           /\ Frozen(d).tainted = d.tainted
           /\ Melted(d).tainted = d.tainted
           /\ MarkPolluted(d).tainted
           /\ ~FilterDroplet(d).tainted
           /\ Drained(d).tainted = d.tainted
           /\ Sedimented(d).tainted = d.tainted
           /\ Sealed(d).tainted = d.tainted
           /\ Decayed(d).tainted = d.tainted
  BY DEF Infiltrated, Frozen, Melted, MarkPolluted, FilterDroplet, Drained,
         Sedimented, Sealed, Decayed

\* Fading is invisible to SameButSalience.
LEMMA DecaySameButSalience ==
    ASSUME NEW a \in Droplet, NEW b \in Droplet, SameButSalience(a, b)
    PROVE  SameButSalience(Decayed(a), b)
  BY DEF SameButSalience, Decayed

\* Storing a fresh droplet under an unused id: nothing is dirty there.
LEMMA FreshStep ==
    ASSUME OneClient, OneClientInv, NEW c \in Client, NEW id \in Unused,
           NEW d \in Droplet, ~d.tainted, WriteBack(c, id, d),
           UNCHANGED <<tick, dirty, forgotten>>
    PROVE  OneClientInv'
  <1>1. TypeOK'
    BY WriteBackType DEF OneClientInv, Unused, TypeOK
  <1>2. ObjectMatchesRow' /\ rows'[id] = d /\ \A e \in Id \ {id} : rows'[e] = rows[e]
    BY WriteBackMatches DEF OneClientInv, Unused
  <1>3. id \notin dirty
    BY DEF OneClientInv, Unused
  <1>4. \A e \in Id : e \in dirty' <=> (rows'[e] # NoRow /\ rows'[e].tainted)
    BY <1>2, <1>3 DEF OneClientInv
  <1> QED BY <1>1, <1>2, <1>4 DEF OneClientInv

\* The client's object carries the mark of the row.
LEMMA HeldMark ==
    ASSUME OneClientInv, NEW c \in Client, held[c] # Nothing
    PROVE  /\ held[c].id \in Id
           /\ held[c].drop \in Droplet
           /\ rows[held[c].id] \in Droplet
           /\ held[c].drop.tainted <=> held[c].id \in dirty
  <1>1. held[c].id \in Id /\ held[c].drop \in Droplet
    BY HeldType DEF OneClientInv
  <1>2. rows[held[c].id] \in Droplet
    BY <1>1 DEF OneClientInv, ObjectMatchesRow, TypeOK
  <1>3. rows[held[c].id].tainted = held[c].drop.tainted
    BY <1>1, <1>2 DEF OneClientInv, ObjectMatchesRow, SameButSalience
  <1> QED BY <1>1, <1>2, <1>3, NoRowAssumption DEF OneClientInv

\* A verb that writes its object back and reports the new mark.
LEMMA RewriteStep ==
    ASSUME OneClient, OneClientInv, NEW c \in Client, held[c] # Nothing,
           NEW d \in Droplet, WriteBack(c, held[c].id, d),
           UNCHANGED <<tick, forgotten>>,
           dirty' = IF d.tainted THEN dirty \cup {held[c].id}
                                 ELSE dirty \ {held[c].id}
    PROVE  OneClientInv'
  <1> DEFINE id == held[c].id
  <1>1. id \in Id
    BY HeldMark
  <1>2. dirty' \in SUBSET Id
    BY <1>1 DEF OneClientInv, TypeOK
  <1>3. TypeOK'
    BY <1>1, <1>2, WriteBackType DEF OneClientInv
  <1>4. ObjectMatchesRow' /\ rows'[id] = d /\ \A e \in Id \ {id} : rows'[e] = rows[e]
    BY <1>1, WriteBackMatches DEF OneClientInv
  <1>5. \A e \in Id : e \in dirty' <=> (rows'[e] # NoRow /\ rows'[e].tainted)
    BY <1>1, <1>4, NoRowAssumption DEF OneClientInv
  <1> QED BY <1>3, <1>4, <1>5 DEF OneClientInv

\* A verb that leaves the mark alone.
LEMMA UnmarkedRewriteStep ==
    ASSUME OneClient, OneClientInv, NEW c \in Client, held[c] # Nothing,
           NEW d \in Droplet, WriteBack(c, held[c].id, d),
           d.tainted = held[c].drop.tainted, UNCHANGED <<tick, dirty, forgotten>>
    PROVE  OneClientInv'
  <1>1. dirty' = IF d.tainted THEN dirty \cup {held[c].id} ELSE dirty \ {held[c].id}
    BY HeldMark
  <1> QED BY <1>1, RewriteStep

\* With one client and no thread the object in hand and the row agree, and the mark
\* of a dirty id is on both.
LEMMA OneClientInvariant ==
    ASSUME OneClient, ~Background
    PROVE  Spec => []OneClientInv
  <1>1. Init => OneClientInv
    <2> SUFFICES ASSUME Init PROVE OneClientInv
      OBVIOUS
    <2>1. TypeOK
      BY DEF Init, TypeOK, IdleTick
    <2> QED BY <2>1 DEF Init, OneClientInv, ObjectMatchesRow
  <1>2. OneClientInv /\ [Next]_vars => OneClientInv'
    <2> SUFFICES ASSUME OneClientInv, [Next]_vars PROVE OneClientInv'
      OBVIOUS
    <2>1. CASE UNCHANGED vars
      BY <2>1 DEF OneClientInv, TypeOK, ObjectMatchesRow, vars
    <2>2. CASE Capture
      <3>1. PICK id \in Unused, ph \in StorablePhase \ UncleanPhase,
                 res \in Reservoir, p \in BOOLEAN, s \in 0..MaxPressure :
                 rows' = [rows EXCEPT ![id] = Fresh(ph, res, p, s)]
        BY <2>2, CaptureStores DEF OneClientInv
      <3> DEFINE d == Fresh(ph, res, p, s)
      <3>2. d \in Droplet /\ ~d.tainted
        BY FreshType DEF Phase, Fresh
      <3> HIDE DEF d
      <3>3. TypeOK'
        BY <2>2, <3>1, <3>2 DEF Capture, OneClientInv, TypeOK, Unused, d
      <3>4. ObjectMatchesRow'
        BY <2>2, <3>1 DEF Capture, OneClientInv, ObjectMatchesRow, TypeOK, Unused
      <3>5. \A e \in Id : e \in dirty' <=> (rows'[e] # NoRow /\ rows'[e].tainted)
        BY <2>2, <3>1, <3>2 DEF Capture, OneClientInv, TypeOK, Unused, d
      <3> QED BY <2>2, <3>3, <3>4, <3>5 DEF Capture, OneClientInv
    <2>3. CASE Tick
      <3>1. TickInline
        BY <2>3 DEF Tick, TickStart, TickRead, TickWrite, TickSkip,
                    OneClientInv, IdleTick
      <3>2. PICK due \in SUBSET Stored \ {{}} :
              rows' = [d \in Id |-> IF d \in due THEN Decayed(rows[d]) ELSE rows[d]]
        BY <3>1 DEF TickInline
      <3>3. UNCHANGED <<held, tick, dirty, forgotten>>
        BY <3>1 DEF TickInline
      <3>4. ASSUME NEW d \in due
            PROVE  /\ rows[d] \in Droplet /\ Decayed(rows[d]) \in Droplet
                   /\ Decayed(rows[d]) # NoRow
                   /\ Decayed(rows[d]).tainted = rows[d].tainted
        <4>1. d \in Id /\ rows[d] \in Droplet
          BY DEF OneClientInv, TypeOK, Stored
        <4>2. Decayed(rows[d]) \in Droplet
          BY <4>1, ChangeType
        <4>3. Decayed(rows[d]).tainted = rows[d].tainted
          BY <4>1, ChangeTaint
        <4> QED BY <4>1, <4>2, <4>3, NoRowAssumption
      <3>5. TypeOK'
        BY <3>2, <3>3, <3>4 DEF OneClientInv, TypeOK
      <3>6. ObjectMatchesRow'
        <4> SUFFICES ASSUME NEW c \in Client, held[c] # Nothing
                     PROVE  /\ rows'[held[c].id] # NoRow
                            /\ SameButSalience(rows'[held[c].id], held[c].drop)
          BY <3>3 DEF ObjectMatchesRow
        <4>1. /\ rows[held[c].id] # NoRow
              /\ SameButSalience(rows[held[c].id], held[c].drop)
          BY DEF OneClientInv, ObjectMatchesRow
        <4> QED BY <3>2, <3>4, <4>1, HeldMark, DecaySameButSalience
      <3>7. \A e \in Id : e \in dirty' <=> (rows'[e] # NoRow /\ rows'[e].tainted)
        BY <3>2, <3>3, <3>4, NoRowAssumption DEF OneClientInv, Stored
      <3> QED BY <3>3, <3>5, <3>6, <3>7 DEF OneClientInv
    <2>4. ASSUME NEW c \in Client, Verb(c) PROVE OneClientInv'
      <3>1. CASE Absorb(c)
        <4>1. PICK id \in Unused, res \in Reservoir, p \in BOOLEAN,
                   s \in 0..MaxPressure : WriteBack(c, id, Fresh("liquid", res, p, s))
          BY <3>1 DEF Absorb
        <4>2. Fresh("liquid", res, p, s) \in Droplet
          BY FreshType DEF Phase, StorablePhase
        <4>3. ~Fresh("liquid", res, p, s).tainted
          BY DEF Fresh
        <4> QED BY <3>1, <4>1, <4>2, <4>3, FreshStep DEF Absorb
      <3>2. CASE Load(c)
        <4>1. PICK id \in Stored :
                 held' = [held EXCEPT ![c] = [id |-> id, drop |-> rows[id]]]
          BY <3>2 DEF Load
        <4>2. TypeOK'
          BY <3>2, <4>1 DEF Load, OneClientInv, TypeOK, Stored
        <4>3. ObjectMatchesRow'
          BY <3>2, <4>1 DEF Load, OneClient, OneClientInv, TypeOK, Stored,
                            ObjectMatchesRow, SameButSalience
        <4> QED BY <3>2, <4>2, <4>3 DEF Load, OneClientInv
      <3>3. CASE Infiltrate(c)
        BY <3>3, HeldMark, ChangeType, ChangeTaint, UnmarkedRewriteStep
           DEF Infiltrate, Rewrite
      <3>4. CASE Freeze(c)
        BY <3>4, HeldMark, ChangeType, ChangeTaint, UnmarkedRewriteStep
           DEF Freeze, Rewrite
      <3>5. CASE Melt(c)
        BY <3>5, HeldMark, ChangeType, ChangeTaint, UnmarkedRewriteStep
           DEF Melt, Rewrite
      <3>6. CASE Pollute(c)
        <4> DEFINE d == MarkPolluted(held[c].drop)
        <4>1. held[c] # Nothing /\ WriteBack(c, held[c].id, d)
          BY <3>6 DEF Pollute, Rewrite
        <4>2. d \in Droplet /\ d.tainted
          BY <4>1, HeldMark, ChangeType, ChangeTaint
        <4> HIDE DEF d
        <4> QED BY <3>6, <4>1, <4>2, RewriteStep DEF Pollute, Rewrite
      <3>7. CASE Filter(c)
        <4> DEFINE d == FilterDroplet(held[c].drop)
        <4>1. held[c] # Nothing /\ WriteBack(c, held[c].id, d)
          BY <3>7 DEF Filter, Rewrite
        <4>2. d \in Droplet /\ ~d.tainted
          BY <4>1, HeldMark, ChangeType, ChangeTaint
        <4> HIDE DEF d
        <4> QED BY <3>7, <4>1, <4>2, RewriteStep DEF Filter, Rewrite
      <3>8. CASE Drain(c)
        BY <3>8, HeldMark, ChangeType, ChangeTaint, UnmarkedRewriteStep
           DEF Drain, Rewrite
      <3>9. CASE Sediment(c)
        BY <3>9, HeldMark, ChangeType, ChangeTaint, UnmarkedRewriteStep
           DEF Sediment, Rewrite
      <3>10. CASE Seal(c)
        BY <3>10, HeldMark, ChangeType, ChangeTaint, UnmarkedRewriteStep
           DEF Seal, Rewrite
      <3>11. CASE Irrigate(c)
        <4> DEFINE id == held[c].id
        <4>1. id \in Id /\ rows[id] # NoRow /\ rows[id] \in Droplet
          BY <3>11, HeldMark DEF Irrigate, OneClientInv, ObjectMatchesRow
        <4>2. rows' = [rows EXCEPT ![id].cycles = @ + 1]
          BY <3>11, <4>1 DEF Irrigate
        <4>3. [rows[id] EXCEPT !.cycles = @ + 1] \in Droplet
          BY <3>11, <4>1, BoundsAssumption DEF Irrigate
        <4>4. TypeOK'
          BY <3>11, BoundsAssumption DEF Irrigate, TypeOK, OneClientInv
        <4>5. ObjectMatchesRow'
          <5>1. SameButSalience([rows[id] EXCEPT !.cycles = @ + 1],
                                [held[c].drop EXCEPT !.cycles = @ + 1])
            BY <3>11, <4>1, HeldMark
               DEF Irrigate, OneClientInv, ObjectMatchesRow, SameButSalience
          <5>2. /\ held'[c] = [held[c] EXCEPT !.drop.cycles = @ + 1]
                /\ held'[c].id = id
                /\ held'[c].drop = [held[c].drop EXCEPT !.cycles = @ + 1]
            BY <3>11, HeldMark DEF Irrigate, OneClientInv, TypeOK
          <5>3. rows'[id] = [rows[id] EXCEPT !.cycles = @ + 1]
            BY <4>1, <4>2 DEF OneClientInv, TypeOK
          <5>4. rows'[id] # NoRow
            BY <4>3, <5>3, NoRowAssumption
          <5>5. rows'[held'[c].id] # NoRow /\ SameButSalience(rows'[held'[c].id], held'[c].drop)
            BY <5>1, <5>2, <5>3, <5>4
          <5> QED BY <5>5 DEF OneClient, ObjectMatchesRow
        <4>6. \A e \in Id : e \in dirty <=> (rows'[e] # NoRow /\ rows'[e].tainted)
          BY <4>1, <4>2, <4>3, NoRowAssumption DEF OneClientInv, TypeOK
        <4> QED BY <3>11, <4>4, <4>5, <4>6 DEF Irrigate, OneClientInv
      <3>12. CASE Forget(c)
        <4>1. held[c].id \in Id
          BY <3>12, HeldMark DEF Forget
        <4>2. TypeOK'
          BY <3>12, <4>1 DEF Forget, OneClientInv, TypeOK
        <4>3. ObjectMatchesRow'
          BY <3>12 DEF Forget, OneClient, OneClientInv, TypeOK, ObjectMatchesRow
        <4>4. \A e \in Id : e \in dirty' <=> (rows'[e] # NoRow /\ rows'[e].tainted)
          BY <3>12, <4>1 DEF Forget, OneClientInv, TypeOK
        <4> QED BY <3>12, <4>2, <4>3, <4>4 DEF Forget, OneClientInv
      <3>13. CASE Evaporate(c)
        <4>1. PICK id \in Unused :
                 WriteBack(c, id, Fresh("vapor", "cloud", held[c].drop.pure, 0))
          BY <3>13 DEF Evaporate
        <4>2. held[c].drop.pure \in BOOLEAN
          BY <3>13, HeldMark DEF Evaporate
        <4>3. Fresh("vapor", "cloud", held[c].drop.pure, 0) \in Droplet
          BY <4>2, FreshType, BoundsAssumption DEF Phase, StorablePhase, Reservoir
        <4>4. ~Fresh("vapor", "cloud", held[c].drop.pure, 0).tainted
          BY DEF Fresh
        <4> QED BY <3>13, <4>1, <4>3, <4>4, FreshStep DEF Evaporate
      <3>14. CASE Condense(c)
        <4>1. PICK id \in Unused, p \in BOOLEAN, s \in 0..MaxPressure :
                 WriteBack(c, id, Fresh("cloud", "cloud", p, s))
          BY <3>14 DEF Condense
        <4>2. Fresh("cloud", "cloud", p, s) \in Droplet
          BY FreshType DEF Phase, StorablePhase, Reservoir
        <4>3. ~Fresh("cloud", "cloud", p, s).tainted
          BY DEF Fresh
        <4> QED BY <3>14, <4>1, <4>2, <4>3, FreshStep DEF Condense
      <3>15. CASE Distill(c)
        <4>1. PICK id \in Unused, p \in BOOLEAN :
                 WriteBack(c, id, Fresh("groundwater", "cloud", p, 0))
          BY <3>15 DEF Distill
        <4>2. Fresh("groundwater", "cloud", p, 0) \in Droplet
          BY FreshType, BoundsAssumption DEF Phase, StorablePhase, Reservoir
        <4>3. ~Fresh("groundwater", "cloud", p, 0).tainted
          BY DEF Fresh
        <4> QED BY <3>15, <4>1, <4>2, <4>3, FreshStep DEF Distill
      <3> QED BY <2>4, <3>1, <3>2, <3>3, <3>4, <3>5, <3>6, <3>7, <3>8, <3>9,
                 <3>10, <3>11, <3>12, <3>13, <3>14, <3>15 DEF Verb
    <2> QED BY <2>1, <2>2, <2>3, <2>4 DEF Next
  <1> QED BY <1>1, <1>2, PTL DEF Spec

\* ObjectMatchesRow: with one client and no scheduler thread, no verb ever works
\* on a stale object, whichever ids, agents and contexts there are (verbs.py).
THEOREM OneClientSeesStore ==
    ASSUME OneClient, ~Background
    PROVE  Spec => []ObjectMatchesRow
  <1>1. OneClientInv => ObjectMatchesRow
    BY DEF OneClientInv
  <1> QED BY <1>1, OneClientInvariant, PTL

\* NoGenerationUntilFiltered: a polluted memory is refused for generation, to
\* every agent in every context, until a FILTER (contamination.py, enforcement.py).
THEOREM PollutionSafety ==
    ASSUME OneClient, ~Background
    PROVE  Spec => []NoGenerationUntilFiltered
  <1>1. OneClientInv => NoGenerationUntilFiltered
    BY DEF OneClientInv, NoGenerationUntilFiltered, Stored, Allowed, Governed,
           CheckAccess, UsableForGeneration
  <1> QED BY <1>1, OneClientInvariant, PTL

\* TaintIsEarned: no other verb marks a memory unusable, and a FILTER always
\* lifts the mark (contamination.py).
THEOREM FilterSafety ==
    ASSUME OneClient, ~Background
    PROVE  Spec => []TaintIsEarned
  <1>1. OneClientInv => TaintIsEarned
    BY DEF OneClientInv, TaintIsEarned, Stored
  <1> QED BY <1>1, OneClientInvariant, PTL

-----------------------------------------------------------------------------
(* The store is what Memory says. *)

\* The records that memories are.
Record == [id : Id, phase : Phase, reservoir : Reservoir,
           tainted : BOOLEAN, sealed : BOOLEAN, pure : BOOLEAN,
           cycles : 0..MaxCycles]

LEMMA RememberedRecord ==
    ASSUME NEW id \in Id, NEW d \in Droplet
    PROVE  /\ Remembered(id, d) \in Record
           /\ Remembered(id, d).id = id
           /\ Remembered(id, d).phase = d.phase
           /\ Remembered(id, d).reservoir = d.reservoir
           /\ Remembered(id, d).tainted = d.tainted
           /\ Remembered(id, d).sealed = d.sealed
           /\ Remembered(id, d).pure = d.pure
           /\ Remembered(id, d).cycles = d.cycles
  BY DEF Remembered, Record

\* Salience is not remembered.
LEMMA SalienceForgotten ==
    ASSUME NEW id \in Id, NEW d \in Droplet, NEW e \in Droplet, SameButSalience(d, e)
    PROVE  Remembered(id, d) = Remembered(id, e)
  <1>1. d.phase = e.phase /\ d.reservoir = e.reservoir
    BY DEF SameButSalience
  <1>2. d.tainted = e.tainted /\ d.sealed = e.sealed
    BY DEF SameButSalience
  <1>3. d.pure = e.pure /\ d.cycles = e.cycles
    BY DEF SameButSalience
  <1> QED BY <1>1, <1>2, <1>3 DEF Remembered

\* Field by field, when one memory may become another.
LEMMA BecomesByField ==
    ASSUME NEW m \in Record, NEW n \in Record, n.id = m.id
    PROVE  /\ /\ n.tainted = m.tainted /\ n.sealed = m.sealed
              /\ n.pure = m.pure /\ n.cycles = m.cycles
              /\ \/ n.reservoir = "groundwater" /\ n.phase \in {m.phase, "groundwater"}
                 \/ n.reservoir = "glacier" /\ n.phase = "ice"
                 \/ /\ m.phase = "ice"
                    /\ n.reservoir = "working_stream" /\ n.phase = "liquid"
              => Contract!Moved(m, n)
           /\ /\ n.tainted = m.tainted /\ n.sealed /\ n.pure = m.pure
              /\ n.cycles = m.cycles /\ n.reservoir = "glacier" /\ n.phase = "ice"
              => Contract!Sealed(m, n)
           /\ /\ n.tainted /\ n.sealed = m.sealed /\ n.pure = m.pure
              /\ n.cycles = m.cycles /\ n.reservoir = "contaminated"
              /\ n.phase = "polluted"
              => Contract!Polluted(m, n)
           /\ /\ ~n.tainted /\ n.sealed = m.sealed /\ n.pure
              /\ n.cycles = m.cycles /\ n.phase = "filtered"
              /\ n.reservoir = (IF m.reservoir = "contaminated" THEN "surface"
                                ELSE m.reservoir)
              => Contract!Filtered(m, n)
           /\ /\ n.tainted = m.tainted /\ n.sealed = m.sealed /\ n.pure = m.pure
              /\ n.cycles = m.cycles + 1
              /\ n.reservoir = m.reservoir /\ n.phase = m.phase
              => Contract!Recalled(m, n)
  BY DEF Record, Contract!Moved, Contract!Sealed, Contract!Polluted,
         Contract!Filtered, Contract!Recalled

\* The same of the droplets they are remembered from.
LEMMA DropletBecomes ==
    ASSUME NEW id \in Id, NEW d \in Droplet, NEW e \in Droplet
    PROVE  /\ /\ e.tainted = d.tainted /\ e.sealed = d.sealed
              /\ e.pure = d.pure /\ e.cycles = d.cycles
              /\ \/ e.reservoir = "groundwater" /\ e.phase \in {d.phase, "groundwater"}
                 \/ e.reservoir = "glacier" /\ e.phase = "ice"
                 \/ /\ d.phase = "ice"
                    /\ e.reservoir = "working_stream" /\ e.phase = "liquid"
              => Contract!Moved(Remembered(id, d), Remembered(id, e))
           /\ /\ e.tainted = d.tainted /\ e.sealed /\ e.pure = d.pure
              /\ e.cycles = d.cycles /\ e.reservoir = "glacier" /\ e.phase = "ice"
              => Contract!Sealed(Remembered(id, d), Remembered(id, e))
           /\ /\ e.tainted /\ e.sealed = d.sealed /\ e.pure = d.pure
              /\ e.cycles = d.cycles /\ e.reservoir = "contaminated"
              /\ e.phase = "polluted"
              => Contract!Polluted(Remembered(id, d), Remembered(id, e))
           /\ /\ ~e.tainted /\ e.sealed = d.sealed /\ e.pure /\ e.cycles = d.cycles
              /\ e.reservoir = IF d.reservoir = "contaminated" THEN "surface"
                               ELSE d.reservoir
              /\ e.phase = "filtered"
              => Contract!Filtered(Remembered(id, d), Remembered(id, e))
           /\ /\ e.tainted = d.tainted /\ e.sealed = d.sealed /\ e.pure = d.pure
              /\ e.cycles = d.cycles + 1
              /\ e.reservoir = d.reservoir /\ e.phase = d.phase
              => Contract!Recalled(Remembered(id, d), Remembered(id, e))
  <1> DEFINE m == Remembered(id, d)
             n == Remembered(id, e)
  <1>1. /\ m \in Record
        /\ m.id = id /\ m.phase = d.phase /\ m.reservoir = d.reservoir
        /\ m.tainted = d.tainted /\ m.sealed = d.sealed
        /\ m.pure = d.pure /\ m.cycles = d.cycles
    BY RememberedRecord
  <1>2. /\ n \in Record
        /\ n.id = id /\ n.phase = e.phase /\ n.reservoir = e.reservoir
        /\ n.tainted = e.tainted /\ n.sealed = e.sealed
        /\ n.pure = e.pure /\ n.cycles = e.cycles
    BY RememberedRecord
  <1> HIDE DEF m, n
  <1>3. n.id = m.id
    BY <1>1, <1>2
  <1> USE <1>1, <1>2, <1>3, BecomesByField
  <1>4. /\ e.tainted = d.tainted /\ e.sealed = d.sealed
        /\ e.pure = d.pure /\ e.cycles = d.cycles
        /\ \/ e.reservoir = "groundwater" /\ e.phase \in {d.phase, "groundwater"}
           \/ e.reservoir = "glacier" /\ e.phase = "ice"
           \/ d.phase = "ice" /\ e.reservoir = "working_stream" /\ e.phase = "liquid"
        => Contract!Moved(m, n)
    OBVIOUS
  <1>5. /\ e.tainted = d.tainted /\ e.sealed /\ e.pure = d.pure
        /\ e.cycles = d.cycles /\ e.reservoir = "glacier" /\ e.phase = "ice"
        => Contract!Sealed(m, n)
    OBVIOUS
  <1>6. /\ e.tainted /\ e.sealed = d.sealed /\ e.pure = d.pure
        /\ e.cycles = d.cycles /\ e.reservoir = "contaminated"
        /\ e.phase = "polluted"
        => Contract!Polluted(m, n)
    OBVIOUS
  <1>7. /\ ~e.tainted /\ e.sealed = d.sealed /\ e.pure /\ e.cycles = d.cycles
        /\ e.reservoir = IF d.reservoir = "contaminated" THEN "surface"
                         ELSE d.reservoir
        /\ e.phase = "filtered"
        => Contract!Filtered(m, n)
    OBVIOUS
  <1>8. /\ e.tainted = d.tainted /\ e.sealed = d.sealed /\ e.pure = d.pure
        /\ e.cycles = d.cycles + 1
        /\ e.reservoir = d.reservoir /\ e.phase = d.phase
        => Contract!Recalled(m, n)
    OBVIOUS
  <1> QED BY <1>4, <1>5, <1>6, <1>7, <1>8 DEF m, n

\* What each verb makes of a droplet, its memory may become.
LEMMA VerbsBecome ==
    ASSUME NEW id \in Id, NEW d \in Droplet
    PROVE  /\ Contract!Becomes(Remembered(id, d), Remembered(id, Infiltrated(d)))
           /\ Contract!Becomes(Remembered(id, d), Remembered(id, Frozen(d)))
           /\ d.phase = "ice" => Contract!Becomes(Remembered(id, d), Remembered(id, Melted(d)))
           /\ Contract!Becomes(Remembered(id, d), Remembered(id, MarkPolluted(d)))
           /\ Contract!Becomes(Remembered(id, d), Remembered(id, FilterDroplet(d)))
           /\ Contract!Becomes(Remembered(id, d), Remembered(id, Sedimented(d)))
           /\ Contract!Becomes(Remembered(id, d), Remembered(id, Sealed(d)))
  <1>1. Contract!Moved(Remembered(id, d), Remembered(id, Infiltrated(d)))
    <2> DEFINE e == Infiltrated(d)
    <2>1. /\ e.tainted = d.tainted /\ e.sealed = d.sealed /\ e.pure = d.pure
          /\ e.cycles = d.cycles
          /\ e.reservoir = "groundwater" /\ e.phase \in {d.phase, "groundwater"}
      BY DEF Infiltrated
    <2>2. e \in Droplet
      BY ChangeType
    <2> HIDE DEF e
    <2>3. Contract!Moved(Remembered(id, d), Remembered(id, e))
      BY <2>1, <2>2, DropletBecomes
    <2> QED BY <2>3 DEF e
  <1>2. Contract!Moved(Remembered(id, d), Remembered(id, Frozen(d)))
    <2> DEFINE e == Frozen(d)
    <2>1. /\ e.tainted = d.tainted /\ e.sealed = d.sealed /\ e.pure = d.pure
          /\ e.cycles = d.cycles /\ e.reservoir = "glacier" /\ e.phase = "ice"
      BY DEF Frozen
    <2>2. e \in Droplet
      BY ChangeType
    <2> HIDE DEF e
    <2>3. Contract!Moved(Remembered(id, d), Remembered(id, e))
      BY <2>1, <2>2, DropletBecomes
    <2> QED BY <2>3 DEF e
  <1>3. d.phase = "ice" => Contract!Moved(Remembered(id, d), Remembered(id, Melted(d)))
    <2> HAVE d.phase = "ice"
    <2> DEFINE e == Melted(d)
    <2>1. /\ e.tainted = d.tainted /\ e.sealed = d.sealed /\ e.pure = d.pure
          /\ e.cycles = d.cycles /\ e.reservoir = "working_stream" /\ e.phase = "liquid"
      BY DEF Melted
    <2>2. e \in Droplet
      BY ChangeType
    <2> HIDE DEF e
    <2>3. Contract!Moved(Remembered(id, d), Remembered(id, e))
      BY <2>1, <2>2, DropletBecomes
    <2> QED BY <2>3 DEF e
  <1>4. Contract!Polluted(Remembered(id, d), Remembered(id, MarkPolluted(d)))
    <2> DEFINE e == MarkPolluted(d)
    <2>1. /\ e.tainted /\ e.sealed = d.sealed /\ e.pure = d.pure
          /\ e.cycles = d.cycles /\ e.reservoir = "contaminated" /\ e.phase = "polluted"
      BY DEF MarkPolluted
    <2>2. e \in Droplet
      BY ChangeType
    <2> HIDE DEF e
    <2>3. Contract!Polluted(Remembered(id, d), Remembered(id, e))
      BY <2>1, <2>2, DropletBecomes
    <2> QED BY <2>3 DEF e
  <1>5. Contract!Filtered(Remembered(id, d), Remembered(id, FilterDroplet(d)))
    <2> DEFINE e == FilterDroplet(d)
    <2>1. /\ ~e.tainted /\ e.sealed = d.sealed /\ e.pure
          /\ e.cycles = d.cycles /\ e.phase = "filtered"
          /\ e.reservoir = IF d.reservoir = "contaminated" THEN "surface"
                           ELSE d.reservoir
      BY DEF FilterDroplet
    <2>2. e \in Droplet
      BY ChangeType
    <2> HIDE DEF e
    <2>3. Contract!Filtered(Remembered(id, d), Remembered(id, e))
      BY <2>1, <2>2, DropletBecomes
    <2> QED BY <2>3 DEF e
  <1>6. Contract!Moved(Remembered(id, d), Remembered(id, Sedimented(d)))
    <2> DEFINE e == Sedimented(d)
    <2>1. /\ e.tainted = d.tainted /\ e.sealed = d.sealed /\ e.pure = d.pure
          /\ e.cycles = d.cycles
          /\ e.reservoir = "groundwater" /\ e.phase = "groundwater"
      BY DEF Sedimented
    <2>2. e \in Droplet
      BY ChangeType
    <2> HIDE DEF e
    <2>3. Contract!Moved(Remembered(id, d), Remembered(id, e))
      BY <2>1, <2>2, DropletBecomes
    <2> QED BY <2>3 DEF e
  <1>7. Contract!Sealed(Remembered(id, d), Remembered(id, Sealed(d)))
    <2> DEFINE e == Sealed(d)
    <2>1. /\ e.tainted = d.tainted /\ e.sealed /\ e.pure = d.pure
          /\ e.cycles = d.cycles /\ e.reservoir = "glacier" /\ e.phase = "ice"
      BY DEF Sealed
    <2>2. e \in Droplet
      BY ChangeType
    <2> HIDE DEF e
    <2>3. Contract!Sealed(Remembered(id, d), Remembered(id, e))
      BY <2>1, <2>2, DropletBecomes
    <2> QED BY <2>3 DEF e
  <1> QED BY <1>1, <1>2, <1>3, <1>4, <1>5, <1>6, <1>7 DEF Contract!Becomes

\* Storing a droplet replaces what is remembered under its id, and nothing else.
LEMMA StoreOne ==
    ASSUME TypeOK, NEW id \in Id, NEW d \in Droplet,
           rows' = [rows EXCEPT ![id] = d]
    PROVE  Memories' = {m \in Memories : m.id # id} \cup {Remembered(id, d)}
  <1>1. rows'[id] = d /\ \A e \in Id \ {id} : rows'[e] = rows[e]
    BY DEF TypeOK
  <1>2. Stored' = Stored \cup {id} /\ Stored \subseteq Id
    BY <1>1, NoRowAssumption DEF Stored
  <1>3. \A e \in Stored : Remembered(e, rows[e]).id = e
    BY DEF Remembered
  <1>4. Memories = {Remembered(e, rows[e]) : e \in Stored}
    BY DEF Memories
  <1>5. {m \in Memories : m.id # id} = {Remembered(e, rows[e]) : e \in Stored \ {id}}
    BY <1>3, <1>4
  <1>6. Memories' = {Remembered(e, rows'[e]) : e \in Stored \cup {id}}
    BY <1>2 DEF Memories
  <1>7. {Remembered(e, rows'[e]) : e \in Stored \ {id}}
          = {Remembered(e, rows[e]) : e \in Stored \ {id}}
    BY <1>1, <1>2
  <1>8. Memories' = {Remembered(e, rows'[e]) : e \in Stored \ {id}}
                       \cup {Remembered(id, rows'[id])}
    BY <1>6
  <1> QED BY <1>1, <1>5, <1>7, <1>8

\* A fresh droplet under an unused id is a new memory.
LEMMA CreateStep ==
    ASSUME TypeOK, NEW id \in Unused, NEW ph \in StorablePhase \ UncleanPhase,
           NEW res \in Reservoir, NEW p \in BOOLEAN, NEW s \in 0..MaxPressure,
           rows' = [rows EXCEPT ![id] = Fresh(ph, res, p, s)], UNCHANGED forgotten
    PROVE  Contract!Next
  <1> DEFINE d == Fresh(ph, res, p, s)
             n == Remembered(id, d)
  <1>1. d \in Droplet
    BY FreshType DEF Phase
  <1>2. id \in Id /\ rows[id] = NoRow /\ id \notin forgotten
    BY DEF Unused
  <1>3. n \in Contract!NewMemory /\ n.id = id
    BY <1>2 DEF Remembered, Fresh, Contract!NewMemory, UncleanPhase
  <1>4. \A m \in Memories : m.id # id
    BY <1>2 DEF Memories, Remembered, Stored
  <1> HIDE DEF d
  <1>5. Memories' = {m \in Memories : m.id # id} \cup {n}
    BY <1>1, <1>2, StoreOne DEF d
  <1> HIDE DEF n
  <1>6. Memories' = Memories \cup {n}
    BY <1>4, <1>5
  <1>7. Contract!Create(n)
    BY <1>2, <1>3, <1>4, <1>6 DEF Contract!Create
  <1> QED BY <1>6, <1>7 DEF Contract!Next

\* The object in hand tells what the store remembers under its id.
LEMMA HeldMemory ==
    ASSUME OneClientInv, NEW c \in Client, held[c] # Nothing,
           NEW id \in Id, id = held[c].id
    PROVE  /\ Remembered(id, held[c].drop) \in Memories
           /\ Remembered(id, held[c].drop) = Remembered(id, rows[id])
           /\ {m \in Memories : m.id # id} = Memories \ {Remembered(id, held[c].drop)}
  <1>1. /\ held[c].drop \in Droplet
        /\ rows[id] \in Droplet
    BY HeldMark
  <1>2. id \in Stored
    BY <1>1, NoRowAssumption DEF Stored
  <1>3. SameButSalience(rows[id], held[c].drop)
    BY DEF OneClientInv, ObjectMatchesRow
  <1>4. Remembered(id, rows[id]) = Remembered(id, held[c].drop)
    BY <1>1, <1>3, SalienceForgotten
  <1>5. \A e \in Stored : Remembered(e, rows[e]).id = e
    BY DEF Remembered
  <1>6. Memories = {Remembered(e, rows[e]) : e \in Stored}
    BY DEF Memories
  <1>7. {m \in Memories : m.id # id} = Memories \ {Remembered(id, rows[id])}
    BY <1>2, <1>5, <1>6
  <1> QED BY <1>2, <1>4, <1>6, <1>7

\* What is stored for the client's id is what its memory becomes.
LEMMA ChangeStep ==
    ASSUME OneClientInv, NEW c \in Client, held[c] # Nothing,
           NEW id \in Id, id = held[c].id, NEW d \in Droplet,
           rows' = [rows EXCEPT ![id] = d], UNCHANGED forgotten,
           \/ Remembered(id, d) = Remembered(id, held[c].drop)
           \/ Contract!Becomes(Remembered(id, held[c].drop), Remembered(id, d))
    PROVE  [Contract!Next]_Contract!vars
  <1> DEFINE m == Remembered(id, held[c].drop)
             n == Remembered(id, d)
  <1>1. m \in Memories /\ {r \in Memories : r.id # id} = Memories \ {m}
    BY HeldMemory
  <1>2. Memories' = (Memories \ {m}) \cup {n}
    BY <1>1, StoreOne DEF OneClientInv
  <1>3. n.id = id
    BY DEF Remembered
  <1>4. n = m \/ Contract!Becomes(m, n)
    OBVIOUS
  <1> HIDE DEF m, n
  <1>5. CASE n = m
    BY <1>1, <1>2, <1>5 DEF Contract!vars
  <1>6. CASE n # m /\ Contract!Becomes(m, n)
    <2>1. m \in Memories \ Memories' /\ n \in Memories' \ Memories
      BY <1>1, <1>2, <1>3, <1>6
    <2>2. Contract!Change(m, n)
      BY <1>2, <1>6 DEF Contract!Change
    <2> QED BY <2>1, <2>2 DEF Contract!Next
  <1> QED BY <1>4, <1>5, <1>6

\* Rows that are remembered as they were change no memory.
LEMMA Unremembered ==
    ASSUME Stored' = Stored,
           \A d \in Stored : Remembered(d, rows'[d]) = Remembered(d, rows[d]),
           UNCHANGED forgotten
    PROVE  UNCHANGED Contract!vars
  <1>1. Memories' = {Remembered(d, rows'[d]) : d \in Stored}
    BY DEF Memories
  <1> QED BY <1>1 DEF Memories, Contract!vars

\* A verb that writes back the object it changed.
LEMMA RewriteBecomes ==
    ASSUME OneClientInv, NEW c \in Client, NEW d \in Droplet, Rewrite(c, d),
           \A id \in Id :
              \/ Remembered(id, d) = Remembered(id, held[c].drop)
              \/ Contract!Becomes(Remembered(id, held[c].drop), Remembered(id, d))
    PROVE  [Contract!Next]_Contract!vars
  <1>1. held[c] # Nothing /\ WriteBack(c, held[c].id, d) /\ UNCHANGED forgotten
    BY DEF Rewrite
  <1>2. PICK id \in Id : id = held[c].id
    BY <1>1, HeldMark
  <1>3. rows' = [rows EXCEPT ![id] = d]
    BY <1>1, <1>2 DEF WriteBack
  <1> QED BY <1>1, <1>2, <1>3, ChangeStep

\* Every step is a step of Memory, or changes nothing of it.
LEMMA ContractSteps ==
    ASSUME ~Background, OneClientInv, [Next]_vars
    PROVE  [Contract!Next]_Contract!vars
  <1>1. CASE UNCHANGED vars
    BY <1>1, Unremembered DEF vars, Stored
  <1>2. CASE Capture
    <2>1. PICK id \in Unused, ph \in StorablePhase \ UncleanPhase,
               res \in Reservoir, p \in BOOLEAN, s \in 0..MaxPressure :
               rows' = [rows EXCEPT ![id] = Fresh(ph, res, p, s)]
      BY <1>2, CaptureStores DEF OneClientInv
    <2> QED BY <1>2, <2>1, CreateStep DEF Capture, OneClientInv
  <1>3. CASE Tick
    <2>1. TickInline
      BY <1>3 DEF Tick, TickStart, TickRead, TickWrite, TickSkip,
                  OneClientInv, IdleTick
    <2>2. PICK due \in SUBSET Stored \ {{}} :
            rows' = [d \in Id |-> IF d \in due THEN Decayed(rows[d]) ELSE rows[d]]
      BY <2>1 DEF TickInline
    <2>3. ASSUME NEW d \in Stored
          PROVE  /\ d \in Id /\ rows[d] \in Droplet /\ Decayed(rows[d]) \in Droplet
                 /\ Remembered(d, Decayed(rows[d])) = Remembered(d, rows[d])
      <3>1. d \in Id /\ rows[d] \in Droplet
        BY DEF OneClientInv, TypeOK, Stored
      <3>2. Decayed(rows[d]) \in Droplet
        BY <3>1, ChangeType
      <3>3. SameButSalience(Decayed(rows[d]), rows[d])
        BY <3>1, DecaySameButSalience DEF SameButSalience
      <3> QED BY <3>1, <3>2, <3>3, SalienceForgotten
    <2>4. \A d \in Id : rows'[d] = IF d \in due THEN Decayed(rows[d]) ELSE rows[d]
      BY <2>2
    <2>5. Stored' = Stored
      BY <2>3, <2>4, NoRowAssumption DEF Stored
    <2>6. \A d \in Stored : Remembered(d, rows'[d]) = Remembered(d, rows[d])
      BY <2>3, <2>4
    <2> QED BY <2>1, <2>5, <2>6, Unremembered DEF TickInline
  <1>4. ASSUME NEW c \in Client, Verb(c) PROVE [Contract!Next]_Contract!vars
    <2>1. CASE Absorb(c)
      <3>1. PICK id \in Unused, res \in Reservoir, p \in BOOLEAN,
                 s \in 0..MaxPressure : WriteBack(c, id, Fresh("liquid", res, p, s))
        BY <2>1 DEF Absorb
      <3>2. "liquid" \in StorablePhase \ UncleanPhase
        BY DEF StorablePhase, UncleanPhase
      <3> QED BY <2>1, <3>1, <3>2, CreateStep DEF Absorb, WriteBack, OneClientInv
    <2>2. CASE Load(c)
      BY <2>2, Unremembered DEF Load, Stored
    <2>3. CASE Infiltrate(c)
      BY <2>3, HeldMark, ChangeType, VerbsBecome, RewriteBecomes DEF Infiltrate, Rewrite
    <2>4. CASE Freeze(c)
      BY <2>4, HeldMark, ChangeType, VerbsBecome, RewriteBecomes DEF Freeze, Rewrite
    <2>5. CASE Melt(c)
      BY <2>5, HeldMark, ChangeType, VerbsBecome, RewriteBecomes DEF Melt, Rewrite
    <2>6. CASE Pollute(c)
      BY <2>6, HeldMark, ChangeType, VerbsBecome, RewriteBecomes DEF Pollute, Rewrite
    <2>7. CASE Filter(c)
      BY <2>7, HeldMark, ChangeType, VerbsBecome, RewriteBecomes DEF Filter, Rewrite
    <2>8. CASE Drain(c)
      <3>1. held[c] # Nothing /\ Rewrite(c, Drained(held[c].drop))
        BY <2>8 DEF Drain, Rewrite
      <3>2. held[c].drop \in Droplet /\ Drained(held[c].drop) \in Droplet
        BY <3>1, HeldMark, ChangeType
      <3>3. SameButSalience(Drained(held[c].drop), held[c].drop)
        BY <3>2 DEF SameButSalience, Drained
      <3>4. \A id \in Id : Remembered(id, Drained(held[c].drop))
                             = Remembered(id, held[c].drop)
        BY <3>2, <3>3, SalienceForgotten
      <3> QED BY <3>1, <3>2, <3>4, RewriteBecomes
    <2>9. CASE Sediment(c)
      BY <2>9, HeldMark, ChangeType, VerbsBecome, RewriteBecomes DEF Sediment, Rewrite
    <2>10. CASE Seal(c)
      BY <2>10, HeldMark, ChangeType, VerbsBecome, RewriteBecomes DEF Seal, Rewrite
    <2>11. CASE Irrigate(c)
      <3>1. held[c] # Nothing
        BY <2>11 DEF Irrigate
      <3>2. PICK id \in Id : id = held[c].id
        BY <3>1, HeldMark
      <3> DEFINE d == rows[id]
                 e == [d EXCEPT !.cycles = @ + 1]
      <3>3. d \in Droplet /\ d # NoRow
        BY <3>1, <3>2, HeldMark, NoRowAssumption
      <3>4. d.cycles < MaxCycles /\ rows' = [rows EXCEPT ![id] = e] /\ UNCHANGED forgotten
        BY <2>11, <3>2, <3>3 DEF Irrigate
      <3>5. Remembered(id, d) = Remembered(id, held[c].drop)
        BY <3>1, <3>2, HeldMemory
      <3> HIDE DEF d
      <3>6. /\ e.tainted = d.tainted /\ e.sealed = d.sealed /\ e.pure = d.pure
            /\ e.cycles = d.cycles + 1
            /\ e.reservoir = d.reservoir /\ e.phase = d.phase
        BY <3>3
      <3>7. e \in Droplet
        BY <3>3, <3>4, BoundsAssumption
      <3> HIDE DEF e
      <3>8. Contract!Becomes(Remembered(id, d), Remembered(id, e))
        BY <3>3, <3>6, <3>7, DropletBecomes DEF Contract!Becomes
      <3>9. Contract!Becomes(Remembered(id, held[c].drop), Remembered(id, e))
        BY <3>5, <3>8
      <3> QED BY <3>1, <3>2, <3>4, <3>7, <3>9, ChangeStep
    <2>12. CASE Forget(c)
      <3>1. held[c] # Nothing
        BY <2>12 DEF Forget
      <3>2. PICK id \in Id : id = held[c].id
        BY <3>1, HeldMark
      <3> DEFINE m == Remembered(id, held[c].drop)
      <3>3. /\ m \in Memories /\ m.id = id
            /\ {r \in Memories : r.id # id} = Memories \ {m}
        BY <3>1, <3>2, HeldMemory DEF Remembered
      <3> HIDE DEF m
      <3>4. rows' = [rows EXCEPT ![id] = NoRow] /\ forgotten' = forgotten \cup {id}
        BY <2>12, <3>2 DEF Forget
      <3>5. Stored' = Stored \ {id} /\ \A e \in Id \ {id} : rows'[e] = rows[e]
        BY <3>4 DEF Stored, OneClientInv, TypeOK
      <3>6. Memories' = {Remembered(e, rows[e]) : e \in Stored \ {id}}
        BY <3>5 DEF Memories, Stored
      <3>7. \A e \in Stored : Remembered(e, rows[e]).id = e
        BY DEF Remembered
      <3>8. Memories' = {r \in Memories : r.id # id}
        BY <3>6, <3>7 DEF Memories
      <3>9. Contract!Forget(m)
        BY <3>3, <3>4, <3>8 DEF Contract!Forget
      <3> QED BY <3>3, <3>9 DEF Contract!Next
    <2>13. CASE Evaporate(c)
      <3>1. PICK id \in Unused :
               WriteBack(c, id, Fresh("vapor", "cloud", held[c].drop.pure, 0))
        BY <2>13 DEF Evaporate
      <3>2. held[c].drop.pure \in BOOLEAN
        BY <2>13, HeldMark DEF Evaporate
      <3>3. /\ "vapor" \in StorablePhase \ UncleanPhase
            /\ "cloud" \in Reservoir /\ 0 \in 0..MaxPressure
        BY BoundsAssumption DEF StorablePhase, UncleanPhase, Reservoir
      <3> QED BY <2>13, <3>1, <3>2, <3>3, CreateStep
                 DEF Evaporate, WriteBack, OneClientInv
    <2>14. CASE Condense(c)
      <3>1. PICK id \in Unused, p \in BOOLEAN, s \in 0..MaxPressure :
               WriteBack(c, id, Fresh("cloud", "cloud", p, s))
        BY <2>14 DEF Condense
      <3>2. "cloud" \in StorablePhase \ UncleanPhase /\ "cloud" \in Reservoir
        BY DEF StorablePhase, UncleanPhase, Reservoir
      <3> QED BY <2>14, <3>1, <3>2, CreateStep DEF Condense, WriteBack, OneClientInv
    <2>15. CASE Distill(c)
      <3>1. PICK id \in Unused, p \in BOOLEAN :
               WriteBack(c, id, Fresh("groundwater", "cloud", p, 0))
        BY <2>15 DEF Distill
      <3>2. /\ "groundwater" \in StorablePhase \ UncleanPhase
            /\ "cloud" \in Reservoir /\ 0 \in 0..MaxPressure
        BY BoundsAssumption DEF StorablePhase, UncleanPhase, Reservoir
      <3> QED BY <2>15, <3>1, <3>2, CreateStep DEF Distill, WriteBack, OneClientInv
    <2> QED BY <1>4, <2>1, <2>2, <2>3, <2>4, <2>5, <2>6, <2>7, <2>8, <2>9,
               <2>10, <2>11, <2>12, <2>13, <2>14, <2>15 DEF Verb
  <1> QED BY <1>1, <1>2, <1>3, <1>4 DEF Next

\* ImplementsMemory: with one client and no scheduler thread, every verb, capture
\* and idle tick is one step of a memory changed where it lies, for any ids, agents
\* and bounds: reading, changing and writing back a copy loses nothing (verbs.py).
THEOREM Implements ==
    ASSUME OneClient, ~Background
    PROVE  Spec => ImplementsMemory
  <1>1. Init => Contract!Init
    BY DEF Init, Contract!Init, Memories, Stored
  <1>2. OneClientInv /\ [Next]_vars => [Contract!Next]_Contract!vars
    BY ContractSteps
  <1> QED BY <1>1, <1>2, OneClientInvariant, PTL
             DEF Spec, ImplementsMemory, Contract!Spec

-----------------------------------------------------------------------------
(* What a step never does to the rows. *)

\* No change of a droplet but irrigate's touches its count.
LEMMA ChangeCycles ==
    ASSUME NEW d \in Droplet
    PROVE  /\ Infiltrated(d).cycles = d.cycles
           /\ Frozen(d).cycles = d.cycles
           /\ Melted(d).cycles = d.cycles
           /\ MarkPolluted(d).cycles = d.cycles
           /\ FilterDroplet(d).cycles = d.cycles
           /\ Drained(d).cycles = d.cycles
           /\ Sedimented(d).cycles = d.cycles
           /\ Sealed(d).cycles = d.cycles
           /\ Decayed(d).cycles = d.cycles
  BY DEF Infiltrated, Frozen, Melted, MarkPolluted, FilterDroplet, Drained,
         Sedimented, Sealed, Decayed

\* The step of CyclesNeverFall.
CyclesKept == \A d \in Id : rows[d] # NoRow /\ rows'[d] # NoRow =>
                  rows'[d].cycles >= rows[d].cycles

\* A droplet stored under an unused id takes no count back.
LEMMA UnusedKeepsCycles ==
    ASSUME TypeOK, NEW id \in Unused, NEW d, rows' = [rows EXCEPT ![id] = d]
    PROVE  CyclesKept
  BY BoundsAssumption, NoRowAssumption DEF CyclesKept, TypeOK, Unused

\* Nor does the object in hand, which has the row's count.
LEMMA RewriteKeepsCycles ==
    ASSUME OneClientInv, NEW c \in Client, NEW d \in Droplet,
           Rewrite(c, d), d.cycles = held[c].drop.cycles
    PROVE  CyclesKept
  <1>1. held[c] # Nothing /\ rows' = [rows EXCEPT ![held[c].id] = d]
    BY DEF Rewrite, WriteBack
  <1>2. SameButSalience(rows[held[c].id], held[c].drop)
    BY <1>1 DEF OneClientInv, ObjectMatchesRow
  <1>3. /\ held[c].id \in Id /\ rows[held[c].id] \in Droplet
        /\ held[c].drop \in Droplet
    BY <1>1, HeldMark
  <1>4. d.cycles = rows[held[c].id].cycles
    BY <1>2, <1>3 DEF SameButSalience
  <1>5. \A e \in Id : rows[e] # NoRow => rows[e].cycles \in Nat
    BY BoundsAssumption DEF OneClientInv, TypeOK
  <1>6. \A e \in Id : rows'[e] = IF e = held[c].id THEN d ELSE rows[e]
    BY <1>1, <1>3 DEF OneClientInv, TypeOK
  <1> QED BY <1>3, <1>4, <1>5, <1>6, NoRowAssumption DEF CyclesKept

\* CyclesNeverFall: with one client and no scheduler thread no write of an object
\* and no decay takes back a use that irrigate counted (verbs.irrigate,
\* repository.touch_cycle).
THEOREM CyclesOnlyRise ==
    ASSUME OneClient, ~Background
    PROVE  Spec => CyclesNeverFall
  <1>1. OneClientInv /\ [Next]_vars => [CyclesKept]_vars
    <2> SUFFICES ASSUME OneClientInv, Next PROVE CyclesKept
      OBVIOUS
    <2>0. TypeOK /\ \A e \in Id : rows[e] # NoRow => rows[e].cycles \in Nat
      BY BoundsAssumption DEF OneClientInv, TypeOK
    <2>1. CASE Capture
      BY <2>0, <2>1, CaptureStores, UnusedKeepsCycles
    <2>2. CASE Tick
      <3>1. PICK due \in SUBSET Stored :
               rows' = [d \in Id |-> IF d \in due THEN Decayed(rows[d]) ELSE rows[d]]
        BY <2>2 DEF Tick, TickInline, TickStart, TickRead, TickWrite, TickSkip,
                    OneClientInv, IdleTick
      <3>2. \A d \in due : rows[d] \in Droplet
        BY DEF OneClientInv, TypeOK, Stored
      <3>3. \A d \in due : Decayed(rows[d]).cycles = rows[d].cycles
        BY <3>2, ChangeCycles
      <3> QED BY <2>0, <3>1, <3>3 DEF CyclesKept
    <2>3. ASSUME NEW c \in Client, Verb(c) PROVE CyclesKept
      <3>1. CASE Absorb(c) \/ Evaporate(c) \/ Condense(c) \/ Distill(c)
        <4>1. \E id \in Unused : \E d : rows' = [rows EXCEPT ![id] = d]
          BY <3>1 DEF Absorb, Evaporate, Condense, Distill, WriteBack
        <4> QED BY <2>0, <4>1, UnusedKeepsCycles
      <3>2. CASE Load(c)
        BY <2>0, <3>2 DEF Load, CyclesKept
      <3>3. ASSUME held[c] # Nothing
            PROVE  held[c].drop \in Droplet
        BY <3>3, HeldMark
      <3>4. CASE \/ Infiltrate(c) \/ Freeze(c) \/ Melt(c) \/ Pollute(c) \/ Filter(c)
                 \/ Drain(c) \/ Sediment(c) \/ Seal(c)
        <4> DEFINE h == held[c].drop
        <4>1. h \in Droplet
          BY <3>3, <3>4 DEF Infiltrate, Freeze, Melt, Pollute, Filter, Drain, Sediment,
                            Seal, Rewrite
        <4>2. \E d : /\ d \in {Infiltrated(h), Frozen(h), Melted(h), MarkPolluted(h),
                               FilterDroplet(h), Drained(h), Sedimented(h), Sealed(h)}
                     /\ Rewrite(c, d)
          BY <3>4 DEF Infiltrate, Freeze, Melt, Pollute, Filter, Drain, Sediment, Seal
        <4> HIDE DEF h
        <4>3. PICK d : /\ d \in {Infiltrated(h), Frozen(h), Melted(h), MarkPolluted(h),
                                 FilterDroplet(h), Drained(h), Sedimented(h), Sealed(h)}
                       /\ Rewrite(c, d)
          BY <4>2
        <4>4. d \in Droplet
          BY <4>1, <4>3, ChangeType
        <4>5. d.cycles = h.cycles
          BY <4>1, <4>3, ChangeCycles
        <4> QED BY <4>3, <4>4, <4>5, RewriteKeepsCycles DEF h
      <3>5. CASE Irrigate(c)
        <4> DEFINE id == held[c].id
        <4>1. id \in Id /\ rows[id] # NoRow /\ rows[id] \in Droplet
          BY <3>5, HeldMark DEF Irrigate, OneClientInv, ObjectMatchesRow
        <4>2. rows' = [rows EXCEPT ![id].cycles = @ + 1]
          BY <3>5, <4>1 DEF Irrigate
        <4>3. \A e \in Id : rows'[e] = IF e = id THEN [rows[id] EXCEPT !.cycles = @ + 1]
                                                 ELSE rows[e]
          BY <4>1, <4>2 DEF OneClientInv, TypeOK
        <4>4. [rows[id] EXCEPT !.cycles = @ + 1].cycles = rows[id].cycles + 1
          BY <4>1
        <4> HIDE DEF id
        <4> QED BY <2>0, <4>1, <4>3, <4>4 DEF CyclesKept
      <3>6. CASE Forget(c)
        BY <2>0, <3>6 DEF Forget, CyclesKept, TypeOK
      <3> QED BY <2>3, <3>1, <3>2, <3>4, <3>5, <3>6 DEF Verb
    <2> QED BY <2>1, <2>2, <2>3 DEF Next
  <1> QED BY <1>1, OneClientInvariant, PTL DEF Spec, CyclesNeverFall, CyclesKept

\* The step of DecayFadesSalienceOnly.
Fades == Tick => \A d \in Id :
    /\ rows[d] = NoRow => rows'[d] = NoRow
    /\ rows[d] # NoRow => /\ rows'[d] # NoRow
                          /\ SameButSalience(rows'[d], rows[d])
                          /\ rows'[d].pressure <= rows[d].pressure

\* DecayFadesSalienceOnly holds of a tick that runs between the verbs, for any
\* number of clients: what the scheduler thread breaks is the thread's doing
\* (Engine.tick, forgetting.decay).
THEOREM InlineDecay ==
    ASSUME ~Background
    PROVE  Spec => DecayFadesSalienceOnly
  <1> DEFINE AtRest == tick = IdleTick
  <1>1. Init => AtRest
    BY DEF Init
  <1>2. AtRest /\ [Next]_vars => AtRest'
    <2> SUFFICES ASSUME tick = IdleTick, [Next]_vars, tick' # tick PROVE FALSE
      OBVIOUS
    <2> QED BY DEF Next, vars, Capture, Tick, TickInline, TickStart, TickRead, TickWrite,
               TickSkip, IdleTick, Verb, Absorb, Load, Infiltrate, Freeze, Melt, Pollute,
               Filter, Drain, Sediment, Seal, Irrigate, Forget, Evaporate, Condense,
               Distill, Rewrite
  <1>3. TypeOK /\ AtRest /\ [Next]_vars => [Fades]_vars
    <2> SUFFICES ASSUME TypeOK, tick = IdleTick, Tick PROVE Fades
      BY DEF Fades
    <2>1. PICK due \in SUBSET Stored :
             rows' = [d \in Id |-> IF d \in due THEN Decayed(rows[d]) ELSE rows[d]]
      BY DEF Tick, TickInline, TickStart, TickRead, TickWrite, TickSkip, IdleTick
    <2>2. ASSUME NEW d \in Id, rows[d] # NoRow
          PROVE  /\ rows'[d] \in Droplet
                 /\ SameButSalience(rows'[d], rows[d])
                 /\ rows'[d].pressure <= rows[d].pressure
      <3>1. rows[d] \in Droplet
        BY <2>2 DEF TypeOK
      <3>2. /\ Decayed(rows[d]) \in Droplet
            /\ SameButSalience(Decayed(rows[d]), rows[d])
            /\ Decayed(rows[d]).pressure <= rows[d].pressure
        <4>1. SameButSalience(Decayed(rows[d]), rows[d])
          BY <3>1 DEF SameButSalience, Decayed
        <4>2. Decayed(rows[d]).pressure <= rows[d].pressure
          BY <3>1, BoundsAssumption DEF Decayed
        <4> QED BY <3>1, <4>1, <4>2, ChangeType
      <3>3. SameButSalience(rows[d], rows[d]) /\ rows[d].pressure <= rows[d].pressure
        BY <3>1, BoundsAssumption DEF SameButSalience
      <3> QED BY <2>1, <3>1, <3>2, <3>3
    <2>3. ASSUME NEW d \in Id, rows[d] = NoRow PROVE rows'[d] = NoRow
      BY <2>1, <2>3 DEF Stored
    <2> QED BY <2>2, <2>3, NoRowAssumption DEF Fades
  <1> HIDE DEF AtRest
  <1> QED BY <1>1, <1>2, <1>3, TypeInvariant, PTL DEF Spec, DecayFadesSalienceOnly, Fades

-----------------------------------------------------------------------------
(* Recall. *)

HIDE DEF Droplet, Object
(* Types. *)

\* A reader in a call is in a well-formed one.
LEMMA CallType ==
    ASSUME CallsTypeOK, NEW r \in Reader, calls[r] # Nothing
    PROVE  calls[r] \in Call
  BY DEF CallsTypeOK

\* A step of a reader to another well-formed call keeps the types.
LEMMA ContinueType ==
    ASSUME TypeOK, CallsTypeOK, NEW r \in Reader, NEW call \in Call, Continue(r, call)
    PROVE  TypeOK' /\ CallsTypeOK'
  BY DEF CallsTypeOK, Continue, vars, TypeOK

\* A history that grows by ids stays one.
LEMMA WitnessType ==
    ASSUME NEW call \in Call, NEW store
    PROVE  Witness(call, store) \in Call
  BY DEF Call, Witness, Readable, Untainted

\* What a call makes of a row is a view of it.
LEMMA LookType ==
    ASSUME NEW d, NEW agent
    PROVE  Look(d, agent) \in View
  <1>1. Renderings(d) \subseteq Carried
    BY DEF Renderings, FormatRecall, Carried
  <1>2. Permitted(d, agent) \in BOOLEAN
    BY DEF Permitted, Allowed, CheckAccess, ReservoirAdmits
  <1> QED BY <1>1, <1>2 DEF Look, View

\* Every step of a reader keeps the types.
LEMMA RecallingType ==
    ASSUME TypeOK, CallsTypeOK, NEW r \in Reader, Recalling(r)
    PROVE  TypeOK' /\ CallsTypeOK'
  <1>1. CASE Begin(r)
    <2>1. PICK kind \in Kind, agent \in Agent, indexed \in SUBSET Id, traverse \in BOOLEAN :
             Continue(r, [kind |-> kind, agent |-> agent, traverse |-> traverse,
                          todo |-> indexed, hits |-> {},
                          seen |-> [id \in Id |-> Nothing],
                          shown |-> {}, touch |-> Nothing,
                          readable |-> Readable(rows, agent),
                          untainted |-> Untainted(rows)])
      BY <1>1 DEF Begin
    <2> QED BY <2>1, ContinueType DEF Call, Readable, Untainted
  <1>2. CASE Search(r)
    <2>1. PICK id \in calls[r].todo :
             Continue(r, [calls[r] EXCEPT
                 !.todo = @ \ {id},
                 !.hits = IF Permitted(rows[id], calls[r].agent) THEN @ \cup {id} ELSE @])
      BY <1>2 DEF Search
    <2>2. calls[r] \in Call
      BY <1>2, CallType DEF Search, Searching
    <2> QED BY <2>1, <2>2, ContinueType DEF Call
  <1>3. CASE Spread(r)
    <2>1. PICK id \in Id :
             Continue(r, [calls[r] EXCEPT !.hits = @ \cup {id},
                                          !.seen[id] = Look(rows[id], calls[r].agent)])
      BY <1>3 DEF Spread
    <2>2. calls[r] \in Call
      BY <1>3, CallType DEF Spread, Spreading
    <2> QED BY <2>1, <2>2, LookType, ContinueType DEF Call
  <1>4. CASE EndSpread(r)
    BY <1>4, CallType, ContinueType DEF EndSpread, Spreading, Call
  <1>5. CASE RenderNothing(r)
    <2>1. PICK id \in calls[r].hits : Continue(r, Settled(calls[r], id))
      BY <1>5 DEF RenderNothing
    <2>2. calls[r] \in Call
      BY <1>5, CallType DEF RenderNothing, Rendering
    <2> QED BY <2>1, <2>2, ContinueType DEF Call, Settled
  <1>6. CASE Render(r)
    <2>0. PICK id \in calls[r].hits : \E text \in Looked(calls[r], id).renderings :
             Continue(r, [Settled(calls[r], id) EXCEPT
                 !.shown = @ \cup {[id |-> id, carries |-> text]},
                 !.touch = IF calls[r].kind = "precipitate" THEN Nothing
                           ELSE [id |-> id, cycles |-> Nothing]])
      BY <1>6 DEF Render
    <2>1. PICK text \in Looked(calls[r], id).renderings :
             Continue(r, [Settled(calls[r], id) EXCEPT
                 !.shown = @ \cup {[id |-> id, carries |-> text]},
                 !.touch = IF calls[r].kind = "precipitate" THEN Nothing
                           ELSE [id |-> id, cycles |-> Nothing]])
      BY <2>0
    <2>2. calls[r] \in Call
      BY <1>6, CallType DEF Render, Rendering
    <2>3. id \in Id /\ Looked(calls[r], id) \in View
      BY <2>2, LookType DEF Call, Looked
    <2>4. [id |-> id, carries |-> text] \in Result /\ [id |-> id, cycles |-> Nothing] \in Touch
      BY <2>1, <2>3 DEF Result, Touch, View
    <2> QED BY <2>1, <2>2, <2>4, ContinueType DEF Call, Settled
  <1>7. CASE TouchRead(r)
    <2>1. calls[r] \in Call /\ calls[r].touch \in Touch
      BY <1>7, CallType DEF TouchRead, Touching, Call
    <2>2. rows[calls[r].touch.id] # NoRow =>
             rows[calls[r].touch.id].cycles \in 0..MaxCycles
      BY <2>1 DEF TypeOK, Touch, Droplet
    <2>3. CASE rows[calls[r].touch.id] = NoRow
      BY <1>7, <2>1, <2>3, ContinueType DEF TouchRead, Call
    <2>4. CASE rows[calls[r].touch.id] # NoRow
      <3>1. Continue(r, [calls[r] EXCEPT !.touch.cycles = rows[calls[r].touch.id].cycles])
        BY <1>7, <2>4 DEF TouchRead
      <3>2. [calls[r].touch EXCEPT !.cycles = rows[calls[r].touch.id].cycles] \in Touch
        BY <2>1, <2>2, <2>4 DEF Touch
      <3>3. [calls[r] EXCEPT !.touch.cycles = rows[calls[r].touch.id].cycles] \in Call
        BY <2>1, <3>2 DEF Call
      <3> QED BY <3>1, <3>3, ContinueType
    <2> QED BY <2>3, <2>4
  <1>8. CASE TouchWrite(r)
    <2>1. calls[r] \in Call /\ calls[r].touch \in Touch
      BY <1>8, CallType DEF TouchWrite, Touching, Call
    <2>2. calls[r].touch.cycles \in 0..MaxCycles
      BY <1>8, <2>1 DEF TouchWrite, Touch
    <2>3. rows' \in [Id -> Droplet \cup {NoRow}]
      <3>1. calls[r].touch.id \in Id /\ rows \in [Id -> Droplet \cup {NoRow}]
        BY <2>1 DEF Touch, TypeOK
      <3>2. CASE rows[calls[r].touch.id] = NoRow
        BY <1>8, <3>1, <3>2 DEF TouchWrite
      <3>3. CASE rows[calls[r].touch.id] # NoRow
        <4>1. [rows[calls[r].touch.id] EXCEPT !.cycles = calls[r].touch.cycles] \in Droplet
          BY <2>2, <3>1, <3>3 DEF Droplet
        <4> QED BY <1>8, <3>1, <3>3, <4>1 DEF TouchWrite
      <3> QED BY <3>2, <3>3
    <2>4. [calls[r] EXCEPT !.touch = Nothing] \in Call
      BY <2>1 DEF Call
    <2> QED BY <1>8, <2>3, <2>4 DEF TouchWrite, TypeOK, CallsTypeOK
  <1>9. CASE Return(r)
    BY <1>9 DEF Return, CallsTypeOK, TypeOK, vars
  <1> QED BY <1>1, <1>2, <1>3, <1>4, <1>5, <1>6, <1>7, <1>8, <1>9 DEF Recalling

\* Rows and calls keep their types, whatever readers, clients and the thread do.
LEMMA RecallTypeStep ==
    TypeOK /\ CallsTypeOK /\ [RecallNext]_recallVars => TypeOK' /\ CallsTypeOK'
  <1> SUFFICES ASSUME TypeOK, CallsTypeOK, [RecallNext]_recallVars
               PROVE  TypeOK' /\ CallsTypeOK'
    OBVIOUS
  <1>1. CASE UNCHANGED recallVars
    BY <1>1 DEF recallVars, vars, TypeOK, CallsTypeOK
  <1>2. CASE StoreStep
    <2>1. TypeOK'
      BY <1>2, TypeStep DEF StoreStep
    <2>2. CallsTypeOK'
      BY <1>2, CallType, WitnessType DEF StoreStep, CallsTypeOK
    <2> QED BY <2>1, <2>2
  <1>3. CASE \E r \in Reader : Recalling(r)
    BY <1>3, RecallingType
  <1> QED BY <1>1, <1>2, <1>3 DEF RecallNext

\* Every call a reader is in is well formed, for any readers, clients and ids
\* (verbs.precipitate, pipeline.recall_for_agent).
THEOREM CallsTypes == RecallSpec => [](TypeOK /\ CallsTypeOK)
  <1>1. RecallInit => TypeOK /\ CallsTypeOK
    BY DEF RecallInit, Init, TypeOK, IdleTick, CallsTypeOK
  <1> QED BY <1>1, RecallTypeStep, PTL DEF RecallSpec

-----------------------------------------------------------------------------
(***************************************************************************)
(* The history of a call covers what the store permits now, what a call    *)
(* that never asks again has found, what precipitate keeps of droplets, and *)
(* what is shown.  The first part is what a render of the row rests on, the *)
(* third a render of what was kept, the second one without a second gate.   *)
(***************************************************************************)
\* A view that a call took of id at some moment of its history.
Tells(view, id, readable, untainted) ==
    /\ view.permitted => id \in readable
    /\ "memory" \in view.renderings => id \in untainted

Covered(call, store) ==
    /\ Readable(store, call.agent) \subseteq call.readable
    /\ Untainted(store) \subseteq call.untainted
    /\ call.traverse => call.kind = "precipitate"
    /\ call.kind = "recall_for_agent" => call.hits \subseteq call.readable
    /\ \A id \in Id : call.seen[id] # Nothing =>
          Tells(call.seen[id], id, call.readable, call.untainted)
    /\ \A x \in call.shown : /\ x.id \in call.readable
                             /\ x.carries = "memory" => x.id \in call.untainted

CoverInv == \A r \in Reader : calls[r] # Nothing => Covered(calls[r], rows)

\* Cycles are no part of what the gate or the taint decides.
LEMMA TouchChangesNoAccess ==
    ASSUME TypeOK, CallsTypeOK, NEW r \in Reader, TouchWrite(r), NEW agent
    PROVE  Readable(rows', agent) = Readable(rows, agent) /\ Untainted(rows') = Untainted(rows)
  <1>1. TypeOK'
    BY RecallingType DEF Recalling
  <1>2. calls[r] \in Call /\ calls[r].touch.id \in Id
    BY CallType DEF TouchWrite, Touching, Call, Touch
  <1>3. ASSUME NEW id \in Id
        PROVE  /\ rows'[id] = NoRow <=> rows[id] = NoRow
               /\ rows[id] # NoRow => /\ rows'[id].reservoir = rows[id].reservoir
                                      /\ rows'[id].tainted = rows[id].tainted
    <2>1. rows \in [Id -> Droplet \cup {NoRow}] /\ rows' \in [Id -> Droplet \cup {NoRow}]
      BY <1>1 DEF TypeOK
    <2>2. CASE rows[calls[r].touch.id] = NoRow \/ id # calls[r].touch.id
      BY <1>2, <2>1, <2>2 DEF TouchWrite
    <2>3. CASE rows[id] # NoRow /\ id = calls[r].touch.id
      <3>1. rows'[id] = [rows[id] EXCEPT !.cycles = calls[r].touch.cycles]
        BY <1>2, <2>1, <2>3 DEF TouchWrite
      <3>2. rows[id] \in Droplet
        BY <2>1, <2>3
      <3>3. calls[r].touch.cycles \in 0..MaxCycles
        BY CallType DEF TouchWrite, Touching, Call, Touch
      <3>4. rows'[id] \in Droplet
        BY <3>1, <3>2, <3>3 DEF Droplet
      <3> QED BY <3>1, <3>2, <3>4, <2>3, NoRowAssumption DEF Droplet
    <2> QED BY <2>2, <2>3
  <1>4. \A id \in Id : Permitted(rows'[id], agent) <=> Permitted(rows[id], agent)
    BY <1>3 DEF Permitted, Allowed, Governed
  <1> QED BY <1>3, <1>4 DEF Readable, Untainted

\* What carries the memory is of a droplet without a taint.
LEMMA MemoryIsUntainted ==
    ASSUME NEW d, "memory" \in Renderings(d), d.tainted \in BOOLEAN
    PROVE  ~d.tainted
  BY DEF Renderings, FormatRecall, SelectRecallMode, Contaminated

\* A look at the row tells what holds now.
LEMMA LookTells ==
    ASSUME TypeOK, NEW id \in Id, NEW agent, NEW readable, NEW untainted,
           Readable(rows, agent) \subseteq readable, Untainted(rows) \subseteq untainted
    PROVE  Tells(Look(rows[id], agent), id, readable, untainted)
  <1>1. Look(rows[id], agent).permitted => id \in readable
    BY DEF Look, Readable
  <1>2. "memory" \in Look(rows[id], agent).renderings => id \in untainted
    <2>1. CASE rows[id] = NoRow
      BY <2>1 DEF Look
    <2>2. CASE rows[id] # NoRow
      <3>1. rows[id].tainted \in BOOLEAN
        BY <2>2 DEF TypeOK, Droplet
      <3> QED BY <2>2, <3>1, MemoryIsUntainted DEF Look, Untainted
    <2> QED BY <2>1, <2>2
  <1> QED BY <1>1, <1>2 DEF Tells

\* A call that has settled a candidate stays covered.
LEMMA SettledCovered ==
    ASSUME NEW call \in Call, NEW store, NEW id \in Id, Covered(call, store)
    PROVE  Covered(Settled(call, id), store)
  BY DEF Covered, Settled, Call

\* A reader that goes on to a covered call, with the store as it was.
LEMMA ContinueCovered ==
    ASSUME CallsTypeOK, CoverInv, NEW r \in Reader, NEW call, Covered(call, rows),
           Continue(r, call)
    PROVE  CoverInv'
  BY DEF CallsTypeOK, CoverInv, Continue, Covered, vars

\* Every step of a reader keeps the calls covered.
LEMMA RecallingCovered ==
    ASSUME TypeOK, CallsTypeOK, CoverInv, NEW r \in Reader, Recalling(r)
    PROVE  CoverInv'
  <1>1. CASE Begin(r)
    <2>1. PICK kind \in Kind, agent \in Agent, indexed \in SUBSET Id, traverse \in BOOLEAN :
             /\ traverse => kind = "precipitate"
             /\ Continue(r, [kind |-> kind, agent |-> agent, traverse |-> traverse,
                             todo |-> indexed, hits |-> {},
                             seen |-> [id \in Id |-> Nothing],
                             shown |-> {}, touch |-> Nothing,
                             readable |-> Readable(rows, agent),
                             untainted |-> Untainted(rows)])
      BY <1>1 DEF Begin
    <2> QED BY <2>1, ContinueCovered DEF Covered
  <1>2. CASE Search(r)
    <2>1. PICK id \in calls[r].todo :
             Continue(r, [calls[r] EXCEPT
                 !.todo = @ \ {id},
                 !.hits = IF Permitted(rows[id], calls[r].agent) THEN @ \cup {id} ELSE @])
      BY <1>2 DEF Search
    <2>2. calls[r] \in Call /\ Covered(calls[r], rows)
      BY <1>2, CallType DEF Search, Searching, CoverInv
    <2>3. id \in Id
      BY <2>1, <2>2 DEF Call
    <2>4. Permitted(rows[id], calls[r].agent) => id \in calls[r].readable
      BY <2>2, <2>3 DEF Covered, Readable
    <2>5. Covered([calls[r] EXCEPT
                 !.todo = @ \ {id},
                 !.hits = IF Permitted(rows[id], calls[r].agent) THEN @ \cup {id} ELSE @], rows)
      BY <2>2, <2>4 DEF Covered, Call
    <2> QED BY <2>1, <2>5, ContinueCovered
  <1>3. CASE Spread(r)
    <2>1. PICK id \in Id :
             Continue(r, [calls[r] EXCEPT !.hits = @ \cup {id},
                                          !.seen[id] = Look(rows[id], calls[r].agent)])
      BY <1>3 DEF Spread
    <2>2. calls[r] \in Call /\ Covered(calls[r], rows) /\ calls[r].kind = "precipitate"
      BY <1>3, CallType DEF Spread, Spreading, CoverInv, Covered
    <2>3. Tells(Look(rows[id], calls[r].agent), id, calls[r].readable, calls[r].untainted)
      BY <2>2, LookTells DEF Covered
    <2>4. Covered([calls[r] EXCEPT !.hits = @ \cup {id},
                                   !.seen[id] = Look(rows[id], calls[r].agent)], rows)
      BY <2>2, <2>3 DEF Covered, Call
    <2> QED BY <2>1, <2>4, ContinueCovered
  <1>4. CASE EndSpread(r)
    <2>1. calls[r] \in Call /\ Covered(calls[r], rows)
      BY <1>4, CallType DEF EndSpread, Spreading, CoverInv
    <2>2. Covered([calls[r] EXCEPT !.traverse = FALSE], rows)
      BY <2>1 DEF Covered, Call
    <2> QED BY <1>4, <2>2, ContinueCovered DEF EndSpread
  <1>5. CASE RenderNothing(r)
    <2>1. PICK id \in calls[r].hits : Continue(r, Settled(calls[r], id))
      BY <1>5 DEF RenderNothing
    <2>2. calls[r] \in Call /\ Covered(calls[r], rows)
      BY <1>5, CallType DEF RenderNothing, Rendering, CoverInv
    <2>3. id \in Id
      BY <2>1, <2>2 DEF Call
    <2> QED BY <2>1, <2>2, <2>3, SettledCovered, ContinueCovered
  <1>6. CASE Render(r)
    <2>0. PICK id \in calls[r].hits :
             /\ Admits(calls[r], Looked(calls[r], id))
             /\ \E text \in Looked(calls[r], id).renderings :
                   Continue(r, [Settled(calls[r], id) EXCEPT
                       !.shown = @ \cup {[id |-> id, carries |-> text]},
                       !.touch = IF calls[r].kind = "precipitate" THEN Nothing
                                 ELSE [id |-> id, cycles |-> Nothing]])
      BY <1>6 DEF Render
    <2>1. PICK text \in Looked(calls[r], id).renderings :
             Continue(r, [Settled(calls[r], id) EXCEPT
                 !.shown = @ \cup {[id |-> id, carries |-> text]},
                 !.touch = IF calls[r].kind = "precipitate" THEN Nothing
                           ELSE [id |-> id, cycles |-> Nothing]])
      BY <2>0
    <2>2. calls[r] \in Call /\ Covered(calls[r], rows)
      BY <1>6, CallType DEF Render, Rendering, CoverInv
    <2>3. id \in Id
      BY <2>2 DEF Call
    <2>4. Tells(Looked(calls[r], id), id, calls[r].readable, calls[r].untainted)
      BY <2>2, <2>3, LookTells DEF Covered, Looked
    \* Either the gate is asked of the view, or it was asked in the search.
    <2>5. id \in calls[r].readable
      <3>1. CASE calls[r].kind = "precipitate"
        BY <2>0, <2>4, <3>1 DEF Admits, Tells
      <3>2. CASE calls[r].kind = "recall_for_agent"
        BY <2>2, <3>2 DEF Covered
      <3> QED BY <2>2, <3>1, <3>2 DEF Call, Kind
    <2>6. text = "memory" => id \in calls[r].untainted
      BY <2>1, <2>4 DEF Tells
    <2>7. Settled(calls[r], id) \in Call /\ Covered(Settled(calls[r], id), rows)
      BY <2>2, <2>3, SettledCovered DEF Call, Settled
    <2>8. /\ Settled(calls[r], id).readable = calls[r].readable
          /\ Settled(calls[r], id).untainted = calls[r].untainted
      BY <2>2 DEF Call, Settled
    <2>9. Covered([Settled(calls[r], id) EXCEPT
                 !.shown = @ \cup {[id |-> id, carries |-> text]},
                 !.touch = IF calls[r].kind = "precipitate" THEN Nothing
                           ELSE [id |-> id, cycles |-> Nothing]], rows)
      BY <2>5, <2>6, <2>7, <2>8 DEF Covered, Call
    <2> QED BY <2>1, <2>9, ContinueCovered
  <1>7. CASE TouchRead(r)
    <2>1. calls[r] \in Call /\ calls[r].touch \in Touch /\ Covered(calls[r], rows)
      BY <1>7, CallType DEF TouchRead, Touching, Call, CoverInv
    <2>2. PICK touch : Continue(r, [calls[r] EXCEPT !.touch = touch])
      <3>1. CASE rows[calls[r].touch.id] = NoRow
        BY <1>7, <3>1 DEF TouchRead
      <3>2. CASE rows[calls[r].touch.id] # NoRow
        BY <1>7, <3>2 DEF TouchRead
      <3> QED BY <3>1, <3>2
    <2>3. Covered([calls[r] EXCEPT !.touch = touch], rows)
      BY <2>1 DEF Covered, Call
    <2> QED BY <2>2, <2>3, ContinueCovered
  <1>8. CASE TouchWrite(r)
    <2>1. \A agent : Readable(rows', agent) = Readable(rows, agent)
      BY <1>8, TouchChangesNoAccess
    <2>2. Untainted(rows') = Untainted(rows)
      BY <1>8, TouchChangesNoAccess
    <2>3. \A call : Covered(call, rows) => Covered(call, rows')
      BY <2>1, <2>2 DEF Covered
    <2>4. calls[r] \in Call /\ Covered(calls[r], rows)
      BY <1>8, CallType DEF TouchWrite, Touching, CoverInv
    <2>5. Covered([calls[r] EXCEPT !.touch = Nothing], rows)
      BY <2>4 DEF Covered, Call
    <2>6. ASSUME NEW s \in Reader, calls'[s] # Nothing
          PROVE  Covered(calls'[s], rows)
      <3>1. CASE s = r
        BY <1>8, <2>5, <3>1 DEF TouchWrite, CallsTypeOK
      <3>2. CASE s # r
        BY <1>8, <2>6, <3>2 DEF TouchWrite, CallsTypeOK, CoverInv
      <3> QED BY <3>1, <3>2
    <2> QED BY <2>3, <2>6 DEF CoverInv
  <1>9. CASE Return(r)
    BY <1>9 DEF Return, CallsTypeOK, CoverInv, Covered, vars
  <1> QED BY <1>1, <1>2, <1>3, <1>4, <1>5, <1>6, <1>7, <1>8, <1>9 DEF Recalling

\* So does every step of the store, whose new rows the history takes in.
LEMMA StoreCovered ==
    ASSUME CallsTypeOK, CoverInv, StoreStep
    PROVE  CoverInv'
  <1> SUFFICES ASSUME NEW r \in Reader, calls'[r] # Nothing
               PROVE  Covered(calls'[r], rows')
    BY DEF CoverInv
  <1>1. calls[r] # Nothing /\ calls'[r] = Witness(calls[r], rows')
    BY DEF StoreStep
  <1>2. calls[r] \in Call /\ Covered(calls[r], rows)
    BY <1>1, CallType DEF CoverInv
  <1>3. /\ Witness(calls[r], rows').traverse = calls[r].traverse
        /\ Witness(calls[r], rows').kind = calls[r].kind
        /\ Witness(calls[r], rows').agent = calls[r].agent
        /\ Witness(calls[r], rows').hits = calls[r].hits
        /\ Witness(calls[r], rows').seen = calls[r].seen
        /\ Witness(calls[r], rows').shown = calls[r].shown
        /\ Witness(calls[r], rows').readable
              = calls[r].readable \cup Readable(rows', calls[r].agent)
        /\ Witness(calls[r], rows').untainted = calls[r].untainted \cup Untainted(rows')
    BY <1>2 DEF Witness, Call
  <1> QED BY <1>1, <1>2, <1>3 DEF Covered, Tells

\* The calls stay covered.
THEOREM Cover == RecallSpec => []CoverInv
  <1>1. RecallInit => CoverInv
    BY DEF RecallInit, CoverInv
  <1>2. TypeOK /\ CallsTypeOK /\ CoverInv /\ [RecallNext]_recallVars => CoverInv'
    <2> SUFFICES ASSUME TypeOK, CallsTypeOK, CoverInv, [RecallNext]_recallVars
                 PROVE  CoverInv'
      OBVIOUS
    <2>1. CASE UNCHANGED recallVars
      BY <2>1 DEF recallVars, vars, CoverInv, Covered
    <2>2. CASE StoreStep
      BY <2>2, StoreCovered
    <2>3. CASE \E r \in Reader : Recalling(r)
      BY <2>3, RecallingCovered
    <2> QED BY <2>1, <2>2, <2>3 DEF RecallNext
  <1> QED BY <1>1, <1>2, CallsTypes, PTL DEF RecallSpec

\* A recall shows nothing that was not readable to its agent at some moment of the
\* call, though links reach droplets no gate has seen and rows change in between
\* (verbs.precipitate, pipeline.recall_for_agent).
THEOREM ShownSafety == RecallSpec => []ShownWasReadable
  <1>1. CoverInv => ShownWasReadable
    BY DEF CoverInv, Covered, ShownWasReadable
  <1> QED BY <1>1, Cover, PTL

\* A memory that was polluted all through a call comes back as a warning only, for
\* any rows, any clients and any moves between reservoirs (select_recall_mode).
THEOREM WarningSafety == RecallSpec => []TaintedOnlyAsWarning
  <1>1. CoverInv => TaintedOnlyAsWarning
    BY DEF CoverInv, Covered, TaintedOnlyAsWarning
  <1> QED BY <1>1, Cover, PTL
=============================================================================
