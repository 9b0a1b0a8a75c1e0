------------------------------- MODULE Phases -------------------------------
(***************************************************************************)
(* The phase machine of hydromemory/phases.py: the transition table, the   *)
(* priority walk that applies a set of fired triggers, and the settling of *)
(* transient phases in pipeline.py.                                        *)
(***************************************************************************)

StorablePhase  == {"liquid", "vapor", "cloud", "rain", "groundwater", "ice",
                   "ocean", "polluted", "filtered"}
TransientPhase == {"river", "snow", "fog", "steam"}
Phase          == StorablePhase \cup TransientPhase

\* The forces of TRIGGER_PRIORITY.  The remaining ones have no row in the table.
Trigger == {"pollution", "filtration", "reintegration", "extreme_charge",
            "safe_context", "heat", "similarity", "density", "association",
            "repetition"}

(***************************************************************************)
(* What the guards and the dynamic target read besides the phase:          *)
(*   charged  emotional_charge reaches extreme_charge_threshold            *)
(*   settled  the context's cycle_count reaches repetition_cycles          *)
(*   heavy    gravity reaches groundwater_gravity_threshold                *)
(* The density and safe-context guards test the context entries that fired *)
(* their trigger, with the same threshold, so they pass whenever it fires. *)
(***************************************************************************)
Condition == [charged : BOOLEAN, settled : BOOLEAN, heavy : BOOLEAN]

\* The rows of the transition table, their guards and the dynamic target.
Rule(from, t, cond, to) ==
    \/ from = "liquid"   /\ t = "extreme_charge" /\ cond.charged /\ to = "ice"
    \/ from = "liquid"   /\ t = "heat"                           /\ to = "vapor"
    \/ from = "vapor"    /\ t = "similarity"                     /\ to = "cloud"
    \/ from = "cloud"    /\ t = "density"                        /\ to = "rain"
    \/ from = "rain"     /\ t = "association"                    /\ to = "river"
    \/ from = "river"    /\ t = "repetition" /\ cond.settled     /\ to = "groundwater"
    \/ from = "ice"      /\ t = "safe_context"                   /\ to = "liquid"
    \/ from = "polluted" /\ t = "filtration"                     /\ to = "filtered"
    \/ from = "filtered" /\ t = "reintegration" /\ cond.heavy    /\ to = "groundwater"
    \/ from = "filtered" /\ t = "reintegration" /\ ~cond.heavy   /\ to = "liquid"

\* apply_phase_transition: the matching row's target, or no change.
ApplyTransition(ph, t, cond) ==
    LET targets == {to \in Phase : Rule(ph, t, cond, to)}
    IN  IF targets = {} THEN ph ELSE CHOOSE to \in targets : TRUE

\* One turn of the loop of apply_phase_transitions.
Walk(ph, t, fired, cond) == IF t \in fired THEN ApplyTransition(ph, t, cond) ELSE ph

\* apply_phase_transitions: each fired trigger once, in the order of
\* TRIGGER_PRIORITY (cleaning, then safety, then the chain of the water cycle).
ApplyTransitions(ph, fired, cond) ==
    LET After(p, t) == Walk(p, t, fired, cond)
        cleaned == After(After(After(ph, "pollution"), "filtration"), "reintegration")
        safe    == After(After(cleaned, "extreme_charge"), "safe_context")
        risen   == After(After(safe, "heat"), "similarity")
    IN  After(After(After(risen, "density"), "association"), "repetition")

\* _settle_transient_phase
Settle(ph) == IF ph \in StorablePhase THEN ph
              ELSE IF ph = "river" THEN "groundwater" ELSE "liquid"
=============================================================================
