---------------------------- MODULE EsipaPolling ----------------------------
(***************************************************************************)
(* The IPA's background polling of one device: registering it, starting    *)
(* and stopping its polling loop, and the loop itself, an asyncio task     *)
(* that runs poll cycles with a pause between two of them and gives up     *)
(* after too many errors in a row.                                         *)
(*                                                                         *)
(* Handlers do not await anything here.  A task is suspended in its cycle  *)
(* and in its pause, and has to wait for its first step.  task.cancel()    *)
(* only marks a task: CancelledError is raised at its next step, and other *)
(* handlers may run before.  What happens inside a cycle is EimRelay.      *)
(***************************************************************************)
EXTENDS Integers

CONSTANTS
  Tasks,       \* bound: the polling tasks that exist at the same time
  None,        \* no task
  MaxErrors,   \* errors in a row that the loop puts up with (10)
  MaxCount     \* bound: polling is started only up to this error count

ASSUME PollingAssumption ==
  /\ None \notin Tasks
  /\ MaxErrors \in Nat
  /\ MaxCount \in Nat /\ MaxErrors <= MaxCount

VARIABLES
  registered,    \* the device has an EsipaSession
  polling,       \* EsipaSession.polling
  error_count,   \* EsipaSession.error_count
  poll_task,     \* the device's entry of _poll_tasks
  loop,          \* where each task is in _poll_loop
  cancelled      \* tasks that CancelledError is still to be raised in

vars == <<registered, polling, error_count, poll_task, loop, cancelled>>

Stages == {"created", "cycle", "pause", "over"}

Init ==
  /\ registered = FALSE
  /\ polling = FALSE
  /\ error_count = 0
  /\ poll_task = None
  /\ loop = [t \in Tasks |-> "over"]
  /\ cancelled = {}

----------------------------------------------------------------------------
(* Handlers.                                                               *)

\* What registering a known device changes is in EimRelay.
register_device ==
  /\ ~ registered
  /\ registered' = TRUE
  /\ UNCHANGED <<polling, error_count, poll_task, loop, cancelled>>

\* Mutant: no task is made as long as there is an entry for one.
start_polling_reuse(t) ==
  /\ registered /\ ~ polling
  /\ error_count <= MaxCount
  /\ loop[t] = "over"
  /\ polling' = TRUE
  /\ IF poll_task = None
     THEN poll_task' = t /\ loop' = [loop EXCEPT ![t] = "created"]
     ELSE UNCHANGED <<poll_task, loop>>
  /\ UNCHANGED <<registered, error_count, cancelled>>

\* The error count stays as the last loop has left it.
start_polling(t) ==
  /\ registered /\ ~ polling
  /\ error_count <= MaxCount
  /\ loop[t] = "over"
  /\ polling' = TRUE
  /\ poll_task' = t
  /\ loop' = [loop EXCEPT ![t] = "created"]
  /\ UNCHANGED <<registered, error_count, cancelled>>

\* Mutant: the loop is left to find out by itself.
stop_polling_flag_only ==
  /\ registered
  /\ polling' = FALSE
  /\ poll_task' = None
  /\ UNCHANGED <<registered, error_count, loop, cancelled>>

\* Cancelling a task that is over has no effect.
stop_polling ==
  /\ registered
  /\ polling' = FALSE
  /\ poll_task' = None
  /\ cancelled' = cancelled \cup {t \in Tasks : t = poll_task /\ loop[t] # "over"}
  /\ UNCHANGED <<registered, error_count, loop>>

\* The process ends; sessions and tasks are in memory only.
Restart ==
  /\ registered' = FALSE
  /\ polling' = FALSE
  /\ error_count' = 0
  /\ poll_task' = None
  /\ loop' = [t \in Tasks |-> "over"]
  /\ cancelled' = {}

----------------------------------------------------------------------------
(* The loop.                                                               *)

Runs(t, stage) == loop[t] = stage /\ t \notin cancelled

\* Mutant: a cycle starts with a clean count.
CycleBegins_clean(t) ==
  /\ Runs(t, "created") \/ Runs(t, "pause")
  /\ loop' = [loop EXCEPT ![t] = IF polling THEN "cycle" ELSE "over"]
  /\ error_count' = 0
  /\ UNCHANGED <<registered, polling, poll_task, cancelled>>

\* The loop's condition, at the first step and after each pause.
CycleBegins(t) ==
  /\ Runs(t, "created") \/ Runs(t, "pause")
  /\ loop' = [loop EXCEPT ![t] = IF polling THEN "cycle" ELSE "over"]
  /\ UNCHANGED <<registered, polling, error_count, poll_task, cancelled>>

\* No package, an eIM that is not reached, an error that it answers with and, for
\* packages and scans, an eUICC that is not reached are good cycles as well.
GoodCycle(t) ==
  /\ Runs(t, "cycle")
  /\ error_count' = 0
  /\ loop' = [loop EXCEPT ![t] = "pause"]
  /\ UNCHANGED <<registered, polling, poll_task, cancelled>>

\* Mutant: the limit is not looked at.
FailedCycle_goes_on(t) ==
  /\ Runs(t, "cycle")
  /\ error_count' = error_count + 1
  /\ loop' = [loop EXCEPT ![t] = "pause"]
  /\ UNCHANGED <<registered, polling, poll_task, cancelled>>

\* An exception leaves the cycle; with too many in a row the loop ends, and its
\* entry stays.
FailedCycle(t) ==
  /\ Runs(t, "cycle")
  /\ error_count' = error_count + 1
  /\ \/ /\ error_count' > MaxErrors
        /\ polling' = FALSE
        /\ loop' = [loop EXCEPT ![t] = "over"]
     \/ /\ error_count' <= MaxErrors
        /\ loop' = [loop EXCEPT ![t] = "pause"]
        /\ UNCHANGED polling
  /\ UNCHANGED <<registered, poll_task, cancelled>>

\* CancelledError ends the task wherever it is, before its first step as well.
Unwinds(t) ==
  /\ t \in cancelled
  /\ loop' = [loop EXCEPT ![t] = "over"]
  /\ cancelled' = cancelled \ {t}
  /\ UNCHANGED <<registered, polling, error_count, poll_task>>

----------------------------------------------------------------------------

LoopNext(t) == CycleBegins(t) \/ GoodCycle(t) \/ FailedCycle(t) \/ Unwinds(t)

Next ==
  \/ register_device \/ stop_polling \/ Restart
  \/ \E t \in Tasks : start_polling(t) \/ LoopNext(t)

Spec == Init /\ [][Next]_vars

\* A task's pause ends, its awaited calls return or raise (their clients have
\* timeouts), and the event loop gives it its steps.
FairSpec == Spec /\ \A t \in Tasks : WF_vars(LoopNext(t))

----------------------------------------------------------------------------
(* Properties.                                                             *)

\* Flags, count, entry and tasks are typed; the count stays within what starting
\* at MaxCount and one more error give.
TypeOK ==
  /\ registered \in BOOLEAN /\ polling \in BOOLEAN
  /\ error_count \in 0..(MaxCount + 1)
  /\ poll_task \in Tasks \cup {None}
  /\ loop \in [Tasks -> Stages]
  /\ cancelled \in SUBSET Tasks

\* However often polling is stopped and started, also while a cancelled task is
\* still unwinding: the device is shown as polling if and only if there is a
\* loop that goes on, that loop is the one that stop_polling can reach, and
\* there is no second one.
OneLoop ==
  \A t \in Tasks :
    (loop[t] # "over" /\ t \notin cancelled) <=> (polling /\ t = poll_task)

\* As long as a device is shown as polling, one poll cycle follows the other: no
\* order of stops, starts, errors and late cancellations leaves it polling in
\* name only.
Cycling == \E t \in Tasks : Runs(t, "cycle")

KeepsPolling ==
  /\ []<>(~ polling \/ Cycling)
  /\ []<>(~ polling \/ ~ Cycling)

\* A loop does not fail for ever: good cycles come again and again, or polling
\* ends, by its limit or by a stop, and is seen to have ended.
GivesUp ==
  []<>(~ polling) \/ []<><<\E t \in Tasks : GoodCycle(t)>>_vars
=============================================================================
