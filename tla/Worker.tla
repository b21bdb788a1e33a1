------------------------------- MODULE Worker -------------------------------
(***************************************************************************)
(* The worker process: WorkerSupervisor with the hold scheduler inside the *)
(* task "scheduler".  What Supervisor calls the operation of that task is  *)
(* one run_cycle of Scheduler, resource by resource, so that a stop, a     *)
(* failure of a sibling or a cancellation meets a cycle half done.  The    *)
(* orchestrator starts the process again, with an empty memory.            *)
(***************************************************************************)
EXTENDS Supervisor

CONSTANTS Resources, Batch, MaxCrashes      \* of Scheduler

ASSUME SchedulerAssumption ==
    /\ Resources \subseteq Nat \ {0}
    /\ Batch \in Nat \ {0}
    /\ MaxCrashes \in Nat
    /\ "scheduler" \in Tasks

VARIABLES candidate, cursor, batch, cycle, reachedEnd, crashes, last, passed

schedulerVars == <<candidate, cursor, batch, cycle, reachedEnd, crashes, last, passed>>
allVars == <<vars, schedulerVars>>

Holds == INSTANCE Scheduler

-----------------------------------------------------------------------------
(* The steps of run_cycle, while the task is at work and nobody cancelled it.
   run_cycle does not look at the event between two resources. *)
CycleStep ==
    /\ task["scheduler"].at = "working" /\ ~task["scheduler"].cancel
    /\ Holds!Discover \/ \E r \in batch : Holds!Visit(r)
    /\ UNCHANGED vars

FinishCycle == Finish("scheduler") /\ Holds!EndCycle

(* Everything else the supervisor does leaves the cycle as it is: a cycle that is
   cancelled or fails is not taken up again by this process. *)
SupervisorStep ==
    /\ \/ \E t \in Tasks : Begin(t) \/ Wake(t) \/ Unwind(t) \/ Timeout(t) \/ Raise(t)
       \/ \E t \in Tasks \ {"scheduler"} : Finish(t)
       \/ RunEnds \/ Signal \/ Tick
    /\ UNCHANGED schedulerVars

(* Requests and the clock, at any time, whether the worker is up or not. *)
Demand == (\E r \in Resources : Holds!Appear(r) \/ Holds!Settle(r)) /\ UNCHANGED vars

(* The process dies, or has exited, and is started again. *)
Restart ==
    /\ Holds!Crash
    /\ task' = NewTasks
    /\ stopping' = FALSE /\ fatal' = FALSE
    /\ main' = "gathering"
    /\ drain' = 0

WorkerInit == Init /\ Holds!Init

WorkerNext == CycleStep \/ FinishCycle \/ SupervisorStep \/ Demand \/ Restart

TaskRuns(t) ==
    IF t = "scheduler"
      THEN CycleStep \/ FinishCycle \/ ((Begin(t) \/ Wake(t) \/ Unwind(t)) /\ UNCHANGED schedulerVars)
      ELSE RunsOn(t) /\ UNCHANGED schedulerVars

(* The event loop runs what is ready, operations end (statement, lock and SMTP
   timeouts) except those of Stuck, cleanups end, and time passes: a shutdown uses
   up its budget, and after 30 seconds the next cycle begins. *)
WorkerSpec ==
    /\ WorkerInit /\ [][WorkerNext]_allVars
    /\ \A t \in Tasks : WF_allVars(TaskRuns(t))
    /\ WF_allVars(Timeout("scheduler") /\ UNCHANGED schedulerVars)
    /\ WF_allVars(RunEnds /\ UNCHANGED schedulerVars)
    /\ WF_allVars(Tick /\ UNCHANGED schedulerVars)

-----------------------------------------------------------------------------
(* While a resource waits for a visit, no other is visited more than twice, and
   once more for each restart: locked, busy or newly overdue resources do not push
   it back, and neither does a worker that dies in the middle of a batch. *)
BypassBounded == Holds!BypassBounded

(* Every candidate is visited in the end, however many others keep turning up,
   unless the worker is stopped or fails. *)
VisitComes ==
    \A r \in Resources : r \in candidate ~> (last = r \/ r \notin candidate \/ stopping)
=============================================================================
