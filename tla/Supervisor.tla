----------------------------- MODULE Supervisor -----------------------------
(***************************************************************************)
(* WorkerSupervisor: four asyncio tasks in one process, a stop event, and  *)
(* the coroutine run() that gathers them and shuts down.  The event loop   *)
(* switches only where a task waits, so an action is what a task or run()  *)
(* does between two waits.  Worker completes it with the scheduler's work. *)
(***************************************************************************)
EXTENDS Integers, FiniteSets

CONSTANTS
    Tasks,          \* heartbeat, scheduler, maintenance and the registered dispatcher
    Stuck,          \* tasks whose operation need not end by itself
    Budget          \* shutdown_budget, in ticks

ASSUME ConstantsAssumption ==
    /\ Tasks \subseteq {"heartbeat", "scheduler", "maintenance", "dispatcher"} /\ Stuck \subseteq Tasks
    /\ Budget \in Nat

VARIABLES
    task,           \* where each task is, and whether it has been cancelled
    stopping,       \* the event _stopping
    fatal,          \* _fatal_error is set
    main,           \* where run() is
    drain           \* ticks run() has waited in _shutdown

vars == <<task, stopping, fatal, main, drain>>

Ended == {"done", "failed", "cancelled"}
Finished(t) == task[t].at \in Ended
Unfinished == {t \in Tasks : ~Finished(t)}
Goes(t, place) == task' = [task EXCEPT ![t].at = place]

(* cancel() marks a task that is not done; CancelledError reaches it where it waits. *)
(* Fault: only tasks between two operations are cancelled. *)
CancelWaiting(S) == [t \in Tasks |-> IF t \in S /\ task[t].at = "waiting"
                                       THEN [task[t] EXCEPT !.cancel = TRUE] ELSE task[t]]
Cancel(S) == [t \in Tasks |-> IF t \in S /\ ~Finished(t) THEN [task[t] EXCEPT !.cancel = TRUE] ELSE task[t]]

-----------------------------------------------------------------------------
(* A loop looks at the event before it works or waits. *)
Unless(place) == IF stopping THEN "done" ELSE place

(* The first step of a task: the heartbeat beats in any case, maintenance waits first. *)
Begin(t) ==
    /\ task[t].at = "new" /\ ~task[t].cancel
    /\ Goes(t, CASE t = "heartbeat" -> "working"
                 [] t = "maintenance" -> Unless("waiting")
                 [] OTHER -> Unless("working"))
    /\ UNCHANGED <<stopping, fatal, main, drain>>

(* A cycle ends: scheduler cycle, beat, purge or dispatch. *)
Finish(t) ==
    /\ task[t].at = "working" /\ ~task[t].cancel /\ t \notin Stuck
    /\ Goes(t, Unless("waiting"))
    /\ UNCHANGED <<stopping, fatal, main, drain>>

(* _wait_or_stop returns True when the event is set ... *)
Wake(t) ==
    /\ task[t].at = "waiting" /\ ~task[t].cancel /\ stopping
    /\ Goes(t, Unless("waiting"))
    /\ UNCHANGED <<stopping, fatal, main, drain>>

(* ... and False when the timeout was first; scheduler and maintenance look once
   more, the heartbeat does not. *)
(* Fault: nobody looks once more. *)
TimeoutWithoutLook(t) ==
    /\ task[t].at = "waiting" /\ ~task[t].cancel
    /\ Goes(t, "working")
    /\ UNCHANGED <<stopping, fatal, main, drain>>
Timeout(t) ==
    /\ task[t].at = "waiting" /\ ~task[t].cancel
    /\ Goes(t, IF t = "heartbeat" THEN "working" ELSE Unless("working"))
    /\ UNCHANGED <<stopping, fatal, main, drain>>

(* An exception leaves a task: _wrap_task stops the others and cancels them. *)
Fails(t) ==
    /\ task' = [Cancel(Tasks \ {t}) EXCEPT ![t].at = "failed"]
    /\ stopping' = TRUE /\ fatal' = TRUE

(* The dispatcher logs an exception of its cycle and waits. *)
Raise(t) ==
    /\ task[t].at = "working" /\ ~task[t].cancel
    /\ IF t = "dispatcher" THEN Goes(t, Unless("waiting")) /\ UNCHANGED <<stopping, fatal>>
                           ELSE Fails(t)
    /\ UNCHANGED <<main, drain>>

(* A cancelled task unwinds; the cleanup of an operation may raise instead. *)
Unwind(t) ==
    /\ ~Finished(t) /\ task[t].cancel
    /\ \/ Goes(t, "cancelled") /\ UNCHANGED <<stopping, fatal>>
       \/ /\ task[t].at = "working"
          /\ IF t = "dispatcher" THEN Goes(t, Unless("waiting")) /\ UNCHANGED <<stopping, fatal>>
                                 ELSE Fails(t)
    /\ UNCHANGED <<main, drain>>

Signal ==
    /\ ~stopping /\ main = "gathering"
    /\ stopping' = TRUE
    /\ UNCHANGED <<task, fatal, main, drain>>

-----------------------------------------------------------------------------
(* gather ends when every task has, or as soon as one raises; then _shutdown
   waits for the rest within its budget. *)
(* Fault: a stop that was asked for is always clean. *)
GatherEndsCleanly ==
    /\ main = "gathering" /\ Unfinished = {}
    /\ main' = "exited 0" /\ stopping' = TRUE
    /\ UNCHANGED <<task, fatal, drain>>
GatherEnds ==
    /\ main = "gathering"
    /\ Unfinished = {} \/ \E t \in Tasks : task[t].at \in {"failed", "cancelled"}
    /\ main' = IF Unfinished # {} THEN "draining" ELSE IF fatal THEN "exited 1" ELSE "exited 0"
    /\ stopping' = TRUE
    /\ UNCHANGED <<task, fatal, drain>>

DrainEnds ==
    /\ main = "draining" /\ Unfinished = {}
    /\ main' = "exited 1"
    /\ UNCHANGED <<task, stopping, fatal, drain>>

BudgetExpires ==
    /\ main = "draining" /\ Unfinished # {} /\ drain = Budget
    /\ task' = Cancel(Unfinished) /\ main' = "reaping"
    /\ UNCHANGED <<stopping, fatal, drain>>

Reap ==
    /\ main = "reaping" /\ Unfinished = {}
    /\ main' = "exited 1"
    /\ UNCHANGED <<task, stopping, fatal, drain>>

(* The clock passes while only operations and cleanups are under way. *)
AtOnce(t) == task[t].at = "new" \/ (task[t].at = "waiting" /\ (stopping \/ task[t].cancel))
Tick ==
    /\ stopping /\ main \in {"gathering", "draining", "reaping"} /\ Unfinished # {}
    /\ ~\E t \in Tasks : AtOnce(t)
    /\ main = "gathering" => ~\E t \in Tasks : task[t].at \in {"failed", "cancelled"}
    /\ main = "draining" => drain < Budget
    /\ drain' = IF main = "draining" THEN drain + 1 ELSE drain
    /\ UNCHANGED <<task, stopping, fatal, main>>

NewTasks == [t \in Tasks |-> [at |-> "new", cancel |-> FALSE]]

Init ==
    /\ task = NewTasks
    /\ stopping = FALSE /\ fatal = FALSE
    /\ main = "gathering"
    /\ drain = 0

RunsOn(t) == Begin(t) \/ Finish(t) \/ Wake(t) \/ Unwind(t)
RunEnds == GatherEnds \/ DrainEnds \/ BudgetExpires \/ Reap

-----------------------------------------------------------------------------
Exited == main \in {"exited 0", "exited 1"}

(* Tasks, flags and clocks stay in their ranges; a task fails only with
   _fatal_error set and the stop requested. *)
TypeOK ==
    /\ task \in [Tasks -> [at: {"new", "waiting", "working"} \cup Ended, cancel: BOOLEAN]]
    /\ stopping \in BOOLEAN /\ fatal \in BOOLEAN
    /\ main \in {"gathering", "draining", "reaping", "exited 0", "exited 1"}
    /\ drain \in 0..Budget
    /\ fatal <=> \E t \in Tasks : task[t].at = "failed"
    /\ fatal => stopping

(* The process never exits over a task that still holds a session, and its exit
   code tells the orchestrator the truth: 1 exactly when a task failed, also when it
   failed while the others were stopping. *)
ExitTells == Exited => Unfinished = {} /\ (main = "exited 1" <=> fatal)

(* No cycle of the scheduler, purge or dispatch begins after the stop; only the
   heartbeat may beat once more. *)
NoNewCycle ==
    [][stopping => \A t \in Tasks \ {"heartbeat"} :
            task'[t].at = "working" => task[t].at = "working"]_vars

(* A stop that is asked for comes to an end, unless an operation that never ends was
   under way; after a failure it comes to an end even then.  (Until the process is
   started again.) *)
StopEnds ==
    stopping /\ (fatal \/ \A t \in Stuck : task[t].at # "working") ~> Exited \/ ~stopping
=============================================================================
