--------------------------- MODULE SchedulerProofs ---------------------------
(* For any number of threads start may create: what Scheduler promises of them. *)
EXTENDS Scheduler, TLAPS

\* The threads and the handle keep their types, and stop joins only a thread.
THEOREM TypeCorrect == Spec => []TypeOK
<1>1. Init => TypeOK
  BY ThreadsAssumption DEF Init, TypeOK, Thread, Phase
<1>2. TypeOK /\ [Next]_vars => TypeOK'
  <2> SUFFICES ASSUME TypeOK, [Next]_vars PROVE TypeOK'
    OBVIOUS
  <2> USE DEF TypeOK, Phase
  <2>0. Woken \in [Thread -> Phase]
    BY DEF Woken
  <2>1. CASE StartAgain
    BY <2>1 DEF StartAgain
  <2>2. CASE Start
    BY <2>2 DEF Start
  <2>3. CASE Stop
    BY <2>0, <2>3 DEF Stop
  <2>4. CASE JoinReturns
    BY <2>4 DEF JoinReturns
  <2>5. CASE JoinTimesOut
    <3>1. handle \in Thread
      BY <2>5, ThreadsAssumption DEF JoinTimesOut
    <3> QED
      BY <2>5, <3>1 DEF JoinTimesOut
  <2>6. ASSUME NEW t \in Thread, Run(t) PROVE TypeOK'
    BY <2>6 DEF Run, Build, Tick, Wake, Close
  <2>7. ASSUME NEW t \in Thread, StopInCallback(t) PROVE TypeOK'
    BY <2>0, <2>7 DEF StopInCallback
  <2>8. CASE UNCHANGED vars
    BY <2>8 DEF vars
  <2> QED
    BY <2>1, <2>2, <2>3, <2>4, <2>5, <2>6, <2>7, <2>8 DEF Next
<1> QED
  BY <1>1, <1>2, PTL DEF Spec

\* "The scheduler owns a single daemon thread" (scheduler.py:3), in every
\* interleaving of start, stop, their timeouts and the callbacks, except that a
\* thread whose join timed out may go on, and start does not wait for it.
THEOREM OneThread == Spec => []SingleThread
<1>1. Init => SingleThread
  BY DEF Init, SingleThread, Live, Alive
<1>2. TypeOK /\ SingleThread /\ [Next]_vars => SingleThread'
  <2> SUFFICES ASSUME TypeOK, SingleThread, [Next]_vars,
                      NEW t \in Thread, Alive(t)'
               PROVE  t \in (gaveUp \cup {handle})'
    BY DEF SingleThread, Live
  <2> USE DEF TypeOK, SingleThread, Live, Alive
  \* A thread that lives after a step lived before it, but for the one start made.
  <2>1. CASE Start
    <3>1. PICK u \in Thread : phase' = [phase EXCEPT ![u] = "building"] /\ handle' = u
      BY <2>1 DEF Start
    <3>2. CASE t = u
      BY <3>1, <3>2
    <3>3. CASE t # u
      <4>1. phase'[t] = phase[t]
        BY <3>1, <3>3
      <4>2. t \in gaveUp \/ t = handle
        BY <4>1
      <4>3. t # handle
        BY <2>1, <4>1, ThreadsAssumption DEF Start, Held, Thread
      <4> QED
        BY <2>1, <4>2, <4>3 DEF Start
    <3> QED
      BY <3>2, <3>3
  <2>2. CASE StartAgain
    BY <2>2 DEF StartAgain
  <2>3. CASE Stop
    BY <2>3 DEF Stop, Woken
  <2>4. CASE JoinReturns
    BY <2>4 DEF JoinReturns
  <2>5. CASE JoinTimesOut
    BY <2>5 DEF JoinTimesOut
  <2>6. ASSUME NEW u \in Thread, Run(u) PROVE t \in (gaveUp \cup {handle})'
    BY <2>6 DEF Run, Build, Tick, Wake, Close
  <2>7. ASSUME NEW u \in Thread, StopInCallback(u) PROVE t \in (gaveUp \cup {handle})'
    BY <2>7 DEF StopInCallback, Woken
  <2>8. CASE UNCHANGED vars
    BY <2>8 DEF vars
  <2> QED
    BY <2>1, <2>2, <2>3, <2>4, <2>5, <2>6, <2>7, <2>8 DEF Next
<1> QED
  BY <1>1, <1>2, TypeCorrect, PTL DEF Spec
=============================================================================
