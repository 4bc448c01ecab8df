------------------------- MODULE EsipaPollingProofs -------------------------
(***************************************************************************)
(* Proofs about EsipaPolling for every number of tasks and every limit.    *)
(***************************************************************************)
EXTENDS EsipaPolling, TLAPS

\* OneLoop is not inductive on its own: a polling device has a session, an entry
\* and a count that polling may go on with, and only tasks that have not ended
\* wait for their cancellation.
Inv ==
  /\ TypeOK
  /\ OneLoop
  /\ polling => registered /\ poll_task \in Tasks /\ error_count <= MaxCount
  /\ \A t \in cancelled : loop[t] # "over"

LEMMA InitInv == Init => Inv
<1> SUFFICES ASSUME Init PROVE Inv
  OBVIOUS
<1>1. ~ polling /\ cancelled = {} /\ \A t \in Tasks : loop[t] = "over"
  BY DEF Init
<1>2. registered \in BOOLEAN /\ polling \in BOOLEAN
  BY Zenon DEF Init
<1>3. TypeOK
  BY <1>2, PollingAssumption DEF Init, TypeOK, Stages
<1>4. OneLoop
  BY <1>1 DEF OneLoop
<1> QED  BY <1>1, <1>3, <1>4 DEF Inv

LEMMA HandlersInv ==
  ASSUME Inv,
         \/ register_device \/ stop_polling \/ Restart
         \/ \E t \in Tasks : start_polling(t)
  PROVE  Inv'
<1> USE PollingAssumption DEF Inv, TypeOK, OneLoop, Stages
<1>1. CASE register_device
  BY <1>1 DEF register_device
<1>2. CASE stop_polling
  BY <1>2 DEF stop_polling
<1>3. CASE Restart
  <2>1. ~ polling' /\ cancelled' = {} /\ \A t \in Tasks : loop'[t] = "over"
    BY <1>3 DEF Restart
  <2>2. registered' \in BOOLEAN /\ polling' \in BOOLEAN
    BY <1>3, Zenon DEF Restart
  <2> QED  BY <1>3, <2>1, <2>2 DEF Restart
<1>4. ASSUME NEW t \in Tasks, start_polling(t) PROVE Inv'
  BY <1>4 DEF start_polling
<1> QED  BY <1>1, <1>2, <1>3, <1>4

\* A running task is the polling device's own, so that whatever it does to the
\* flag and to itself it does to the only loop.
LEMMA LoopInv ==
  ASSUME Inv, NEW t \in Tasks, LoopNext(t)
  PROVE  Inv'
<1> USE PollingAssumption DEF Inv, TypeOK, OneLoop, Stages
<1>1. ASSUME t \notin cancelled, loop[t] # "over"
      PROVE  polling /\ t = poll_task /\ error_count <= MaxCount
  BY <1>1
<1>2. CASE CycleBegins(t)
  BY <1>1, <1>2 DEF CycleBegins, Runs
<1>3. CASE GoodCycle(t)
  BY <1>1, <1>3 DEF GoodCycle, Runs
<1>4. CASE FailedCycle(t)
  <2>1. /\ polling /\ t = poll_task /\ error_count <= MaxCount
        /\ error_count' = error_count + 1 /\ error_count \in Nat
        /\ loop[t] = "cycle" /\ UNCHANGED <<registered, poll_task, cancelled>>
    BY <1>1, <1>4 DEF FailedCycle, Runs
  <2>2. CASE error_count' > MaxErrors
    <3>1. ~ (error_count' <= MaxErrors)
      BY <2>1, <2>2
    <3>2. polling' = FALSE /\ loop' = [loop EXCEPT ![t] = "over"]
      BY <1>4, <3>1, Zenon DEF FailedCycle
    <3>3. ~ polling' /\ polling' \in BOOLEAN
      BY <3>2, Zenon
    <3>4. loop' = [loop EXCEPT ![t] = "over"]
      BY <3>2, Zenon
    <3> QED  BY <2>1, <3>3, <3>4
  <2>3. CASE error_count' <= MaxErrors
    <3>1. ~ (error_count' > MaxErrors)
      BY <2>1, <2>3
    <3>2. UNCHANGED polling /\ loop' = [loop EXCEPT ![t] = "pause"]
      BY <1>4, <3>1, Zenon DEF FailedCycle
    <3> QED  BY <2>1, <2>3, <3>2
  <2> QED  BY <2>1, <2>2, <2>3
<1>5. CASE Unwinds(t)
  BY <1>5 DEF Unwinds
<1> QED  BY <1>2, <1>3, <1>4, <1>5 DEF LoopNext

LEMMA NextInv == Inv /\ [Next]_vars => Inv'
<1> SUFFICES ASSUME Inv, [Next]_vars PROVE Inv'
  OBVIOUS
<1>1. CASE Next
  BY <1>1, HandlersInv, LoopInv DEF Next
<1>2. CASE UNCHANGED vars
  BY <1>2 DEF vars, Inv, TypeOK, OneLoop
<1> QED  BY <1>1, <1>2

LEMMA Invariance == Spec => []Inv
BY InitInv, NextInv, PTL DEF Spec

\* The error count stays within its bound and everything else in its type.
THEOREM PollingTyped == Spec => []TypeOK
<1>1. Inv => TypeOK
  BY DEF Inv
<1> QED  BY <1>1, Invariance, PTL

\* A device shown as polling has exactly one loop that goes on, for every number
\* of tasks that are still unwinding.
THEOREM SingleLoop == Spec => []OneLoop
<1>1. Inv => OneLoop
  BY DEF Inv
<1> QED  BY <1>1, Invariance, PTL
=============================================================================
