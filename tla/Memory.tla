------------------------------- MODULE Memory -------------------------------
(***************************************************************************)
(* What a caller of the verbs may rely on: each memory is one record that  *)
(* a verb changes where it lies, although the code (verbs.py) reads, works *)
(* on and writes back copies of it.  Only pollution makes a memory unusable *)
(* and only a filter lifts that; a seal is never taken off; recalls are    *)
(* counted one by one; what was forgotten never comes back.  Salience is   *)
(* left out: it may fade between any two steps.                            *)
(***************************************************************************)
EXTENDS Naturals

CONSTANTS
    Id,          \* names of memories
    FirstPhase,  \* the phases a new memory may be in
    Place        \* the reservoirs

VARIABLES
    memory,      \* the memories there are, as a set of records
    gone         \* the names of those that were forgotten

vars == <<memory, gone>>

\* A memory nobody has polluted, sealed or recalled yet.
NewMemory ==
    [id : Id, phase : FirstPhase, reservoir : Place, tainted : {FALSE},
     sealed : {FALSE}, pure : BOOLEAN, cycles : {0}]

Init == memory = {} /\ gone = {}

\* absorb, process_experience, and the verbs that make one memory of others
Create(n) ==
    /\ n \in NewMemory
    /\ n.id \notin gone /\ \A m \in memory : m.id # n.id
    /\ memory' = memory \cup {n}
    /\ UNCHANGED gone

\* What the memory m may become.
\* infiltrate, freeze, archive: the memory comes to rest; melt: only ice flows again.
Moved(m, n) ==
    /\ \/ n.reservoir = "groundwater" /\ n.phase \in {m.phase, "groundwater"}
       \/ n.reservoir = "glacier" /\ n.phase = "ice"
       \/ m.phase = "ice" /\ n.reservoir = "working_stream" /\ n.phase = "liquid"
    /\ n = [m EXCEPT !.phase = n.phase, !.reservoir = n.reservoir]

\* archive with seal
Sealed(m, n) ==
    n = [m EXCEPT !.phase = "ice", !.reservoir = "glacier", !.sealed = TRUE]

Polluted(m, n) ==
    n = [m EXCEPT !.phase = "polluted", !.reservoir = "contaminated",
                  !.tainted = TRUE]

Filtered(m, n) ==
    n = [m EXCEPT !.phase = "filtered", !.tainted = FALSE, !.pure = TRUE,
                  !.reservoir = IF @ = "contaminated" THEN "surface" ELSE @]

\* irrigate
Recalled(m, n) == n = [m EXCEPT !.cycles = @ + 1]

Becomes(m, n) ==
    Moved(m, n) \/ Sealed(m, n) \/ Polluted(m, n) \/ Filtered(m, n) \/ Recalled(m, n)

Change(m, n) ==
    /\ memory' = (memory \ {m}) \cup {n}
    /\ Becomes(m, n)
    /\ UNCHANGED gone

Forget(m) ==
    /\ memory' = memory \ {m}
    /\ gone' = gone \cup {m.id}

\* Every step is about one memory.
Next ==
    \/ \E n \in memory' : Create(n)
    \/ \E m \in memory \ memory', n \in memory' \ memory : Change(m, n)
    \/ \E m \in memory : Forget(m)

Spec == Init /\ [][Next]_vars
=============================================================================
