----------------------------- MODULE Scheduler ------------------------------
(***************************************************************************)
(* TickScheduler (scheduler.py): start and stop, called by the owner, and  *)
(* the daemon threads they create and leave.  All threads share the one    *)
(* stop event.  A tick and the callback after it are one step of a thread; *)
(* what a tick does to the store is in WaterCycle.                         *)
(***************************************************************************)
EXTENDS Naturals

CONSTANTS
    MaxThreads,   \* bound on the threads start creates
    NoThread      \* _thread is None

ASSUME ThreadsAssumption == MaxThreads \in Nat /\ NoThread \notin 1..MaxThreads

Thread == 1..MaxThreads

VARIABLES
    stop,      \* _stop, the event
    handle,    \* _thread
    phase,     \* phase[t]: where in _run thread t is
    owner,     \* the owner is "idle", or "joining" in stop
    gaveUp,    \* history: the threads whose join timed out
    wanted,    \* history: the owner's last call was start
    spoiled    \* history: since a start that created a thread, that thread failed
               \* to build its engine or the callback called stop

vars == <<stop, handle, phase, owner, gaveUp, wanted, spoiled>>

Phase == {"unborn", "building", "ticking", "waiting", "closing", "dead"}

Alive(t) == phase[t] \notin {"unborn", "dead"}

Live == {t \in Thread : Alive(t)}

Init ==
    /\ stop = FALSE /\ handle = NoThread
    /\ phase = [t \in Thread |-> "unborn"]
    /\ owner = "idle"
    /\ gaveUp = {} /\ wanted = FALSE /\ spoiled = FALSE

-----------------------------------------------------------------------------
(* The owner. *)

\* Mutant of Held: a thread that closes does not count as running.
HeldOpen == handle # NoThread /\ phase[handle] \in {"building", "ticking", "waiting"}

Held == handle # NoThread /\ Alive(handle)

\* start while the thread it holds is alive: a no-op, also when it is closing.
StartAgain ==
    /\ owner = "idle" /\ Held
    /\ wanted' = TRUE
    /\ UNCHANGED <<stop, handle, phase, owner, gaveUp, spoiled>>

\* Mutant of Start: the event is left as the last stop set it.
StartNoClear ==
    /\ owner = "idle" /\ ~Held
    /\ \E t \in Thread :
          /\ phase[t] = "unborn"
          /\ phase' = [phase EXCEPT ![t] = "building"]
          /\ handle' = t
    /\ wanted' = TRUE /\ spoiled' = FALSE
    /\ UNCHANGED <<stop, owner, gaveUp>>

Start ==
    /\ owner = "idle" /\ ~Held
    /\ stop' = FALSE
    /\ \E t \in Thread :
          /\ phase[t] = "unborn"
          /\ phase' = [phase EXCEPT ![t] = "building"]
          /\ handle' = t
    /\ wanted' = TRUE /\ spoiled' = FALSE
    /\ UNCHANGED <<owner, gaveUp>>

\* Event.set wakes the threads that wait; a thread that is woken closes, also
\* if the event is cleared before it runs.
Woken == [t \in Thread |-> IF phase[t] = "waiting" THEN "closing" ELSE phase[t]]

\* Mutant of Stop: it joins also when there is no thread.
StopUnchecked ==
    /\ owner = "idle"
    /\ stop' = TRUE
    /\ phase' = Woken
    /\ owner' = "joining"
    /\ wanted' = FALSE
    /\ UNCHANGED <<handle, gaveUp, spoiled>>

Stop ==
    /\ owner = "idle"
    /\ stop' = TRUE
    /\ phase' = Woken
    /\ owner' = IF handle = NoThread THEN "idle" ELSE "joining"
    /\ wanted' = FALSE
    /\ UNCHANGED <<handle, gaveUp, spoiled>>

JoinReturns ==
    /\ owner = "joining" /\ ~Alive(handle)
    /\ handle' = NoThread /\ owner' = "idle"
    /\ UNCHANGED <<stop, phase, gaveUp, wanted, spoiled>>

\* The join times out, in a tick longer than the timeout: the thread is forgotten.
JoinTimesOut ==
    /\ owner = "joining" /\ Alive(handle)
    /\ gaveUp' = gaveUp \cup {handle}
    /\ handle' = NoThread /\ owner' = "idle"
    /\ UNCHANGED <<stop, phase, wanted, spoiled>>

-----------------------------------------------------------------------------
(* _run, in thread t. *)

\* build_engine returns, or raises: then the thread ends.
Build(t) ==
    /\ phase[t] = "building"
    /\ \/ /\ phase' = [phase EXCEPT ![t] = "ticking"]
          /\ UNCHANGED spoiled
       \/ /\ phase' = [phase EXCEPT ![t] = "dead"]
          /\ spoiled' = (spoiled \/ t = handle)
    /\ UNCHANGED <<stop, handle, owner, gaveUp, wanted>>

\* Mutant of Tick: the event is not looked at before the wait.
TickBlind(t) ==
    /\ phase[t] = "ticking"
    /\ phase' = [phase EXCEPT ![t] = "waiting"]
    /\ UNCHANGED <<stop, handle, owner, gaveUp, wanted, spoiled>>

\* tick and on_tick return or raise, and the thread looks at the event.
Tick(t) ==
    /\ phase[t] = "ticking"
    /\ phase' = [phase EXCEPT ![t] = IF stop THEN "closing" ELSE "waiting"]
    /\ UNCHANGED <<stop, handle, owner, gaveUp, wanted, spoiled>>

\* on_tick calls stop in the thread that stop would join: join raises, and the
\* handle stays.  A thread that was given up and calls stop is left out.
StopInCallback(t) ==
    /\ phase[t] = "ticking" /\ handle = t
    /\ stop' = TRUE
    /\ phase' = [Woken EXCEPT ![t] = "closing"]
    /\ spoiled' = TRUE
    /\ UNCHANGED <<handle, owner, gaveUp, wanted>>

\* The interval passes.
Wake(t) ==
    /\ phase[t] = "waiting"
    /\ phase' = [phase EXCEPT ![t] = "ticking"]
    /\ UNCHANGED <<stop, handle, owner, gaveUp, wanted, spoiled>>

Close(t) ==
    /\ phase[t] = "closing"
    /\ phase' = [phase EXCEPT ![t] = "dead"]
    /\ UNCHANGED <<stop, handle, owner, gaveUp, wanted, spoiled>>

Run(t) == Build(t) \/ Tick(t) \/ Wake(t) \/ Close(t)

Next ==
    \/ Start \/ StartAgain \/ Stop \/ JoinReturns \/ JoinTimesOut
    \/ \E t \in Thread : Run(t) \/ StopInCallback(t)

\* Threads are scheduled, ticks end and intervals pass; nobody has to call.
Spec == Init /\ [][Next]_vars /\ \A t \in Thread : WF_vars(Run(t))

-----------------------------------------------------------------------------
(* Properties. *)

\* Type invariant of the event, the handle and the threads.
TypeOK ==
    /\ stop \in BOOLEAN /\ wanted \in BOOLEAN /\ spoiled \in BOOLEAN
    /\ handle \in Thread \cup {NoThread}
    /\ phase \in [Thread -> Phase]
    /\ owner \in {"idle", "joining"} /\ (owner = "joining" => handle # NoThread)
    /\ gaveUp \in SUBSET Thread

\* "The scheduler owns a single daemon thread": no two threads tick one store,
\* and none runs that stop cannot reach, but those a stop gave up waiting for.
SingleThread == Live \subseteq gaveUp \cup {handle}

\* A thread a stop gave up on ends all the same unless start is called before it
\* looks at the event: after stop, no thread is left, or start was called.
StopSilences == stop ~> (~stop \/ Live = {})

\* As long as the owner wants ticks there are ticks, one bad tick or a stop that
\* timed out notwithstanding.  A callback that calls stop and an engine that
\* cannot be built end them, and nobody is told.
TicksGoOn == <>[](wanted /\ ~spoiled) => []<>(\E t \in Thread : phase[t] = "ticking")
=============================================================================
