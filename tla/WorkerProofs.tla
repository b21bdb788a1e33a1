---------------------------- MODULE WorkerProofs ----------------------------
(***************************************************************************)
(* Worker: its exit code tells the truth and no cycle begins after a stop, *)
(* for any tasks, budget and number of restarts.                           *)
(*                                                                         *)
(* The exit code is decided where run() ends, long after the failure it    *)
(* reports, and a cancellation reaches a task long after it was asked for. *)
(* What carries the truth from one to the other is that nothing but a      *)
(* failure cancels (CancelTells), so that whoever finds a cancelled task,  *)
(* or run() past its gather, finds _fatal_error set.                       *)
(***************************************************************************)
EXTENDS Worker, FiniteSetTheorems, TLAPS

(* A cancelled task, and a shutdown under way, have a failure behind them. *)
CancelTells ==
    /\ \A t \in Tasks : task[t].cancel \/ task[t].at = "cancelled" => fatal
    /\ main \in {"draining", "reaping"} => fatal

IInv == TypeOK /\ CancelTells /\ ExitTells

TaskRow == [at: {"new", "waiting", "working"} \cup Ended, cancel: BOOLEAN]

(* What a step does to the supervisor's variables. *)
TaskStep(t) == Begin(t) \/ Finish(t) \/ Wake(t) \/ Unwind(t) \/ Timeout(t) \/ Raise(t)
Reset ==
    /\ task' = NewTasks
    /\ stopping' = FALSE /\ fatal' = FALSE
    /\ main' = "gathering"
    /\ drain' = 0

-----------------------------------------------------------------------------
(* The scheduler's part of a step does not touch the supervisor's variables. *)
LEMMA StepsOfSupervisor ==
    ASSUME [WorkerNext]_allVars
    PROVE  \/ \E t \in Tasks : TaskStep(t)
           \/ RunEnds \/ Signal \/ Tick \/ Reset
           \/ UNCHANGED vars
  <1>1. CASE CycleStep
    BY <1>1 DEF CycleStep
  <1>2. CASE FinishCycle
    BY <1>2, SchedulerAssumption DEF FinishCycle, TaskStep
  <1>3. CASE SupervisorStep
    BY <1>3 DEF SupervisorStep, TaskStep
  <1>4. CASE Demand
    BY <1>4 DEF Demand
  <1>5. CASE Restart
    BY <1>5 DEF Restart, Reset
  <1>6. CASE UNCHANGED allVars
    BY <1>6 DEF allVars
  <1> QED  BY <1>1, <1>2, <1>3, <1>4, <1>5, <1>6 DEF WorkerNext

(* cancel() leaves where a task is and marks those that are not done. *)
LEMMA CancelRows ==
    ASSUME task \in [Tasks -> TaskRow], NEW S
    PROVE  /\ Cancel(S) \in [Tasks -> TaskRow]
           /\ \A t \in Tasks : Cancel(S)[t].at = task[t].at
  <1> DEFINE row(t) == IF t \in S /\ ~Finished(t) THEN [task[t] EXCEPT !.cancel = TRUE] ELSE task[t]
  <1>1. \A t \in Tasks : row(t) \in TaskRow /\ row(t).at = task[t].at
    BY DEF TaskRow
  <1>2. Cancel(S) = [t \in Tasks |-> row(t)]
    BY DEF Cancel
  <1> HIDE DEF row
  <1> QED  BY <1>1, <1>2

(* A step of one task that goes on, or ends by itself. *)
LEMMA GoesOn ==
    ASSUME IInv, NEW t \in Tasks, ~Finished(t),
           NEW place \in {"new", "waiting", "working", "done"},
           Goes(t, place), UNCHANGED <<stopping, fatal, main, drain>>
    PROVE  IInv'
  <1>1. task \in [Tasks -> TaskRow]
    BY DEF IInv, TypeOK, TaskRow
  <1>2. task' \in [Tasks -> TaskRow] /\ task'[t].at = place /\ task'[t].cancel = task[t].cancel
        /\ \A u \in Tasks \ {t} : task'[u] = task[u]
    BY <1>1 DEF Goes, TaskRow, Ended
  <1>3. TypeOK'
    <2>1. (\E u \in Tasks : task[u].at = "failed") <=> (\E u \in Tasks : task'[u].at = "failed")
      BY <1>2 DEF Finished, Ended
    <2> QED  BY <1>2, <2>1 DEF IInv, TypeOK, TaskRow, Ended
  <1>4. CancelTells'
    BY <1>2 DEF IInv, CancelTells
  <1>5. ~Exited
    BY DEF IInv, ExitTells, Unfinished
  <1> QED  BY <1>3, <1>4, <1>5 DEF IInv, ExitTells, Exited

(* A task fails. *)
LEMMA FailureTells ==
    ASSUME IInv, NEW t \in Tasks, ~Finished(t), Fails(t), UNCHANGED <<main, drain>>
    PROVE  IInv'
  <1>1. task \in [Tasks -> TaskRow]
    BY DEF IInv, TypeOK, TaskRow
  <1>2. task' \in [Tasks -> TaskRow] /\ task'[t].at = "failed"
    BY <1>1, CancelRows DEF Fails, TaskRow, Ended
  <1>3. ~Exited
    BY DEF IInv, ExitTells, Unfinished
  <1>4. fatal' /\ stopping'
    BY DEF Fails
  <1> QED  BY <1>2, <1>3, <1>4 DEF IInv, TypeOK, TaskRow, Ended, CancelTells, ExitTells, Exited

(* A cancelled task ends as such; the failure that cancelled it is known. *)
LEMMA CancelledTells ==
    ASSUME IInv, NEW t \in Tasks, ~Finished(t), task[t].cancel,
           Goes(t, "cancelled"), UNCHANGED <<stopping, fatal, main, drain>>
    PROVE  IInv'
  <1>1. task \in [Tasks -> TaskRow]
    BY DEF IInv, TypeOK, TaskRow
  <1>2. task' \in [Tasks -> TaskRow] /\ task'[t].at = "cancelled"
        /\ \A u \in Tasks \ {t} : task'[u] = task[u]
    BY <1>1 DEF Goes, TaskRow, Ended
  <1>3. fatal
    BY DEF IInv, CancelTells
  <1>4. \E u \in Tasks : task'[u].at = "failed"
    BY <1>2, <1>3 DEF IInv, TypeOK, Finished, Ended
  <1>5. ~Exited
    BY DEF IInv, ExitTells, Unfinished
  <1> QED  BY <1>2, <1>3, <1>4, <1>5 DEF IInv, TypeOK, TaskRow, Ended, CancelTells, ExitTells, Exited

LEMMA TaskStepKeeps ==
    ASSUME IInv, NEW t \in Tasks, TaskStep(t)
    PROVE  IInv'
  <1>1. CASE Begin(t)
    <2>1. ~Finished(t)
      BY <1>1 DEF Begin, Finished, Ended
    <2>2. Unless("waiting") \in {"waiting", "done"} /\ Unless("working") \in {"working", "done"}
      BY DEF Unless
    <2>3. \E place \in {"new", "waiting", "working", "done"} : Goes(t, place)
      BY <1>1, <2>2 DEF Begin
    <2> QED  BY <1>1, <2>1, <2>3, GoesOn DEF Begin
  <1>2. CASE Finish(t) \/ Wake(t)
    <2>1. ~Finished(t)
      BY <1>2 DEF Finish, Wake, Finished, Ended
    <2>2. \E place \in {"new", "waiting", "working", "done"} : Goes(t, place)
      BY <1>2 DEF Finish, Wake, Unless
    <2> QED  BY <1>2, <2>1, <2>2, GoesOn DEF Finish, Wake
  <1>3. CASE Timeout(t)
    <2>1. ~Finished(t)
      BY <1>3 DEF Timeout, Finished, Ended
    <2>2. \E place \in {"new", "waiting", "working", "done"} : Goes(t, place)
      BY <1>3 DEF Timeout, Unless
    <2> QED  BY <1>3, <2>1, <2>2, GoesOn DEF Timeout
  <1>4. CASE Raise(t)
    <2>1. ~Finished(t)
      BY <1>4 DEF Raise, Finished, Ended
    <2>2. CASE t = "dispatcher"
      <3>1. \E place \in {"new", "waiting", "working", "done"} : Goes(t, place)
        BY <1>4, <2>2 DEF Raise, Unless
      <3> QED  BY <1>4, <2>1, <2>2, <3>1, GoesOn DEF Raise
    <2>3. CASE t # "dispatcher"
      BY <1>4, <2>1, <2>3, FailureTells DEF Raise
    <2> QED  BY <2>2, <2>3
  <1>5. CASE Unwind(t)
    <2>1. ~Finished(t) /\ task[t].cancel /\ UNCHANGED <<main, drain>>
      BY <1>5 DEF Unwind
    <2>2. CASE Goes(t, "cancelled") /\ UNCHANGED <<stopping, fatal>>
      BY <2>1, <2>2, CancelledTells
    <2>3. CASE Goes(t, Unless("waiting")) /\ UNCHANGED <<stopping, fatal>>
      <3>1. \E place \in {"new", "waiting", "working", "done"} : Goes(t, place)
        BY <2>3 DEF Unless
      <3> QED  BY <2>1, <2>3, <3>1, GoesOn
    <2>4. CASE Fails(t)
      BY <2>1, <2>4, FailureTells
    <2> QED  BY <1>5, <2>2, <2>3, <2>4 DEF Unwind
  <1> QED  BY <1>1, <1>2, <1>3, <1>4, <1>5 DEF TaskStep

LEMMA RunEndsKeeps ==
    ASSUME IInv, RunEnds
    PROVE  IInv'
  <1>1. CASE GatherEnds
    <2>1. Unfinished' = Unfinished
      BY <1>1 DEF GatherEnds, Unfinished, Finished
    <2>2. fatal \/ Unfinished = {}
      BY <1>1 DEF GatherEnds, IInv, TypeOK, CancelTells
    <2>3. TypeOK'
      BY <1>1 DEF GatherEnds, IInv, TypeOK
    <2>4. CancelTells'
      BY <1>1, <2>2 DEF GatherEnds, IInv, CancelTells
    <2>5. ExitTells'
      BY <1>1, <2>1 DEF GatherEnds, ExitTells, Exited
    <2> QED  BY <2>3, <2>4, <2>5 DEF IInv
  <1>2. CASE DrainEnds \/ Reap
    <2>1. Unfinished = {} /\ Unfinished' = Unfinished
      BY <1>2 DEF DrainEnds, Reap, Unfinished, Finished
    <2>2. fatal /\ main' = "exited 1" /\ UNCHANGED <<task, stopping, fatal, drain>>
      BY <1>2 DEF DrainEnds, Reap, IInv, CancelTells
    <2> QED  BY <2>1, <2>2 DEF IInv, TypeOK, CancelTells, ExitTells, Exited
  <1>3. CASE BudgetExpires
    <2>1. fatal /\ task' = Cancel(Unfinished) /\ main' = "reaping" /\ UNCHANGED <<stopping, fatal, drain>>
      BY <1>3 DEF BudgetExpires, IInv, CancelTells
    <2>2. task \in [Tasks -> TaskRow]
      BY DEF IInv, TypeOK, TaskRow
    <2>3. task' \in [Tasks -> TaskRow] /\ \A t \in Tasks : task'[t].at = task[t].at
      BY <2>1, <2>2, CancelRows
    <2> QED  BY <2>1, <2>3 DEF IInv, TypeOK, TaskRow, CancelTells, ExitTells, Exited
  <1> QED  BY <1>1, <1>2, <1>3 DEF RunEnds

LEMMA NextKeeps ==
    ASSUME IInv, [WorkerNext]_allVars
    PROVE  IInv'
  <1>1. ASSUME NEW t \in Tasks, TaskStep(t) PROVE IInv'
    BY <1>1, TaskStepKeeps
  <1>2. CASE RunEnds
    BY <1>2, RunEndsKeeps
  <1>3. CASE Signal
    <2>1. Unfinished' = Unfinished
      BY <1>3 DEF Signal, Unfinished, Finished
    <2> QED  BY <1>3, <2>1 DEF Signal, IInv, TypeOK, CancelTells, ExitTells, Exited
  <1>4. CASE Tick
    <2>1. Unfinished' = Unfinished
      BY <1>4 DEF Tick, Unfinished, Finished
    <2>2. drain' \in 0..Budget
      <3>1. drain \in 0..Budget /\ Budget \in Nat
        BY ConstantsAssumption DEF IInv, TypeOK
      <3>2. CASE main = "draining"
        BY <1>4, <3>1, <3>2 DEF Tick
      <3>3. CASE main # "draining"
        BY <1>4, <3>1, <3>3 DEF Tick
      <3> QED  BY <3>2, <3>3
    <2> QED  BY <1>4, <2>1, <2>2 DEF Tick, IInv, TypeOK, CancelTells, ExitTells, Exited
  <1>5. CASE Reset
    <2>1. task' \in [Tasks -> TaskRow] /\ \A t \in Tasks : task'[t] = [at |-> "new", cancel |-> FALSE]
      BY <1>5 DEF Reset, NewTasks, TaskRow
    <2>2. 0 \in 0..Budget
      BY ConstantsAssumption
    <2>3. ~\E t \in Tasks : task'[t].cancel \/ task'[t].at \in {"failed", "cancelled"}
      BY <2>1
    <2>4. ~fatal' /\ ~stopping' /\ main' = "gathering" /\ drain' = 0
      BY <1>5 DEF Reset
    <2>5. TypeOK'
      BY <1>5, <2>1, <2>2, <2>3, <2>4 DEF Reset, TypeOK, TaskRow
    <2> QED  BY <2>3, <2>4, <2>5 DEF IInv, CancelTells, ExitTells, Exited
  <1>6. CASE UNCHANGED vars
    <2>1. Unfinished' = Unfinished
      BY <1>6 DEF vars, Unfinished, Finished
    <2> QED  BY <1>6, <2>1 DEF vars, IInv, TypeOK, CancelTells, ExitTells, Exited
  <1> QED  BY StepsOfSupervisor, <1>1, <1>2, <1>3, <1>4, <1>5, <1>6

LEMMA InitTells == WorkerInit => IInv
  <1> SUFFICES ASSUME WorkerInit PROVE IInv
    OBVIOUS
  <1>1. task \in [Tasks -> TaskRow] /\ \A t \in Tasks : task[t] = [at |-> "new", cancel |-> FALSE]
    BY DEF WorkerInit, Init, NewTasks, TaskRow
  <1>2. 0 \in 0..Budget
    BY ConstantsAssumption
  <1>3. ~\E t \in Tasks : task[t].cancel \/ task[t].at \in {"failed", "cancelled"}
    BY <1>1
  <1>4. ~fatal /\ ~stopping /\ fatal = FALSE /\ stopping = FALSE /\ main = "gathering" /\ drain = 0
    BY DEF WorkerInit, Init
  <1>5. TypeOK
    BY <1>1, <1>2, <1>3, <1>4 DEF TypeOK, TaskRow
  <1> QED  BY <1>3, <1>4, <1>5 DEF IInv, CancelTells, ExitTells, Exited

(* The inductive invariant: a cancellation and a shutdown have a failure behind
   them (worker.py, _wrap_task and _shutdown). *)
THEOREM Inductive == WorkerSpec => []IInv
  <1> QED  BY InitTells, NextKeeps, PTL DEF WorkerSpec

(* Tasks, flags and the shutdown's clock stay in their ranges, and the stop flag
   follows a failure at once (worker.py, _wrap_task). *)
THEOREM TypeCorrect == WorkerSpec => []TypeOK
  <1>1. IInv => TypeOK
    BY DEF IInv
  <1> QED  BY <1>1, Inductive, PTL

(* The exit code is 1 exactly when a task failed, and no task is left at work
   (worker.py, run and _shutdown). *)
THEOREM ExitCodeTells == WorkerSpec => []ExitTells
  <1>1. IInv => ExitTells
    BY DEF IInv
  <1> QED  BY <1>1, Inductive, PTL

(* No scheduler cycle, purge or dispatch begins once the stop is asked for
   (worker.py, the loops of the four tasks). *)
THEOREM NothingBeginsAfterStop == WorkerSpec => NoNewCycle
  <1> DEFINE A == stopping => \A t \in Tasks \ {"heartbeat"} :
                        task'[t].at = "working" => task[t].at = "working"
  <1>1. ASSUME IInv, [WorkerNext]_allVars
        PROVE  [A]_vars
    <2> SUFFICES ASSUME stopping, NEW u \in Tasks \ {"heartbeat"}, task'[u].at = "working"
                 PROVE  task[u].at = "working"
      OBVIOUS
    <2>1. task \in [Tasks -> TaskRow]
      BY <1>1 DEF IInv, TypeOK, TaskRow
    <2>2. \A place : Unless(place) = "done"
      BY DEF Unless
    <2>3. ASSUME NEW t \in Tasks, TaskStep(t)
          PROVE  task[u].at = "working"
      <3>1. CASE \E place \in {"done", "cancelled"} : Goes(t, place)
        BY <2>1, <3>1 DEF Goes, TaskRow
      <3>2. CASE t = "heartbeat" /\ \E place : Goes(t, place)
        BY <2>1, <3>2 DEF Goes, TaskRow
      <3>3. CASE Fails(t)
        BY <2>1, <3>3, CancelRows DEF Fails
      <3>4. CASE Begin(t)
        BY <2>2, <3>1, <3>2, <3>4 DEF Begin
      <3>5. CASE Finish(t) \/ Wake(t)
        BY <2>2, <3>1, <3>5 DEF Finish, Wake
      <3>6. CASE Timeout(t)
        BY <2>2, <3>1, <3>2, <3>6 DEF Timeout
      <3>7. CASE Raise(t)
        BY <2>2, <3>1, <3>3, <3>7 DEF Raise
      <3>8. CASE Unwind(t)
        BY <2>2, <3>1, <3>3, <3>8 DEF Unwind
      <3> QED  BY <2>3, <3>4, <3>5, <3>6, <3>7, <3>8 DEF TaskStep
    <2>4. CASE BudgetExpires
      BY <2>1, <2>4, CancelRows DEF BudgetExpires
    <2>5. CASE GatherEnds \/ DrainEnds \/ Reap \/ Signal \/ Tick \/ UNCHANGED vars
      BY <2>5 DEF GatherEnds, DrainEnds, Reap, Signal, Tick, vars
    <2>6. CASE Reset
      BY <2>6 DEF Reset, NewTasks
    <2> QED  BY <1>1, StepsOfSupervisor, <2>3, <2>4, <2>5, <2>6 DEF RunEnds
  <1> QED  BY <1>1, Inductive, PTL DEF WorkerSpec, NoNewCycle
-----------------------------------------------------------------------------
(* The scheduler's cursor.  Wrapped: the next visit turns back to the beginning.
   Ahead(r): the cursor meets r before it turns back once more.  Behind(q): the
   cursor has passed q since it last turned. *)
Wrapped == \E b \in batch : b <= cursor
Ahead(r) ==
    IF cycle THEN r \in batch \/ (~reachedEnd /\ (\A b \in batch : b < r) /\ (r > cursor \/ Wrapped))
             ELSE r > cursor
Behind(q) == q <= cursor /\ ~Wrapped

CursorTypeOK ==
    /\ candidate \subseteq Resources /\ batch \subseteq Resources
    /\ cursor \in Nat
    /\ cycle \in BOOLEAN /\ reachedEnd \in BOOLEAN
    /\ crashes \in 0..MaxCrashes
    /\ passed \in [Resources -> [Resources -> Nat]]
    /\ ~cycle => batch = {}

(* The visits a waiting candidate lets pass: none of its own; of another resource
   one for each restart, one that the cursor made since it last turned, and one
   more while the cursor has yet to turn before it comes to the candidate. *)
Allowance(r, q) == crashes + (IF Ahead(r) THEN 1 ELSE 0) + (IF Behind(q) THEN 1 ELSE 0)
PassedOf(r, q) == passed[r][q] <= IF q = r THEN 0 ELSE Allowance(r, q)
Passes == \A r \in candidate, q \in Resources : PassedOf(r, q)

CursorInv == CursorTypeOK /\ Passes

(* A step that leaves the counts, and takes nothing from an allowance. *)
LEMMA AllowanceKept ==
    ASSUME CursorTypeOK, NEW r \in Resources, NEW q \in Resources, PassedOf(r, q),
           UNCHANGED passed,
           \/ crashes' = crashes /\ (Ahead(r) => Ahead(r)') /\ (Behind(q) => Behind(q)')
           \/ crashes' = crashes /\ ~Ahead(r) /\ Ahead(r)'
           \/ crashes' = crashes /\ ~Ahead(r) /\ Behind(q)'
           \/ crashes' = crashes + 1 /\ Ahead(r)'
    PROVE  PassedOf(r, q)'
  <1>1. crashes \in Int /\ passed[r][q] \in Int
    BY SchedulerAssumption DEF CursorTypeOK
  <1> QED  BY <1>1 DEF PassedOf, Allowance

LEMMA AppearKeeps ==
    ASSUME CursorInv, NEW c \in Resources, Holds!Appear(c)
    PROVE  CursorInv'
  <1>1. passed' = [passed EXCEPT ![c] = Holds!Never] /\ candidate' = candidate \cup {c}
        /\ UNCHANGED <<cursor, batch, cycle, reachedEnd, crashes>>
    BY DEF Holds!Appear
  <1>2. Holds!Never \in [Resources -> Nat] /\ \A q \in Resources : Holds!Never[q] = 0
    BY DEF Holds!Never
  <1>3. CursorTypeOK'
    BY <1>1, <1>2 DEF CursorInv, CursorTypeOK
  <1>4. ASSUME NEW r \in candidate', NEW q \in Resources
        PROVE  PassedOf(r, q)'
    <2>1. crashes \in Nat /\ crashes' = crashes
      BY <1>1, SchedulerAssumption DEF CursorInv, CursorTypeOK
    <2>2. CASE r = c
      <3>1. passed'[r][q] = 0
        BY <1>1, <1>2, <2>2 DEF CursorInv, CursorTypeOK
      <3>2. Allowance(r, q)' >= 0
        BY <2>1 DEF Allowance
      <3> QED  BY <3>1, <3>2 DEF PassedOf
    <2>3. CASE r # c
      <3>1. r \in candidate /\ passed'[r] = passed[r]
        BY <1>1, <2>3 DEF CursorInv, CursorTypeOK
      <3>2. Allowance(r, q)' = Allowance(r, q)
        BY <1>1 DEF Allowance, Ahead, Behind, Wrapped
      <3> QED  BY <3>1, <3>2 DEF PassedOf, CursorInv, Passes
    <2> QED  BY <2>2, <2>3
  <1> QED  BY <1>3, <1>4 DEF CursorInv, Passes

LEMMA SettleKeeps ==
    ASSUME CursorInv, NEW c \in Resources, Holds!Settle(c)
    PROVE  CursorInv'
  <1>1. candidate' \subseteq candidate /\ UNCHANGED <<cursor, batch, cycle, reachedEnd, crashes, passed>>
    BY DEF Holds!Settle
  <1>2. CursorTypeOK'
    BY <1>1 DEF CursorInv, CursorTypeOK
  <1>3. \A r, q : PassedOf(r, q)' = PassedOf(r, q)
    BY <1>1 DEF PassedOf, Allowance, Ahead, Behind, Wrapped
  <1> QED  BY <1>1, <1>2, <1>3 DEF CursorInv, Passes

(* Scheduler's Cardinality is the one the library's theorems are about. *)
LEMMA SameCardinality == \A S : Holds!Cardinality(S) = Cardinality(S)
  BY DEF Holds!Cardinality, Cardinality

(* Discovery behind the cursor keeps what is ahead of it; when nothing is, it turns
   back, and everything that waits is ahead again. *)
LEMMA DiscoverKeeps ==
    ASSUME CursorInv, Holds!Discover
    PROVE  CursorInv'
  <1>1. PICK found \in SUBSET candidate :
            /\ ~cycle /\ cycle' = TRUE /\ batch' = found
            /\ Holds!Query(found, Holds!Start)
            /\ reachedEnd' = (Cardinality(found) < Batch)
            /\ UNCHANGED <<candidate, cursor, crashes, passed>>
    BY SameCardinality DEF Holds!Discover
  <1>2. CursorTypeOK'
    BY <1>1 DEF CursorInv, CursorTypeOK
  <1>3. batch = {} /\ ~Wrapped /\ cursor \in Nat /\ Batch \in Nat \ {0}
    BY <1>1, SchedulerAssumption DEF CursorInv, CursorTypeOK, Wrapped
  <1>4. found # Holds!Later(Holds!Start) => Cardinality(found) = Batch /\ found # {}
    BY <1>1, <1>3, SameCardinality, FS_EmptySet DEF Holds!Query
  <1>5. found # Holds!Later(Holds!Start) => ~reachedEnd'
    <2>1. ~(Batch < Batch)
      BY <1>3
    <2> QED  BY <1>1, <1>4, <2>1
  <1>6. ASSUME NEW r \in candidate', NEW q \in Resources
        PROVE  PassedOf(r, q)'
    <2>1. r \in candidate /\ r \in Nat /\ q \in Nat /\ r # 0
      BY <1>1, SchedulerAssumption DEF CursorInv, CursorTypeOK
    <2>2. found \subseteq Nat
      BY SchedulerAssumption DEF CursorInv, CursorTypeOK
    <2>3. r \in Holds!Later(Holds!Start) => r \in found \/ \A b \in found : b < r
      BY <1>1 DEF Holds!Query
    <2>4. found \subseteq Holds!Later(Holds!Start)
      BY <1>1 DEF Holds!Query
    <2>5. CASE Holds!Later(cursor) # {}
      <3>1. Holds!Start = cursor
        BY <2>5 DEF Holds!Start
      <3>2. \A b \in found : b > cursor
        BY <2>4, <3>1 DEF Holds!Later
      <3>3. ~Wrapped'
        BY <1>1, <1>3, <2>2, <3>2 DEF Wrapped
      <3>4. Behind(q) => Behind(q)'
        BY <1>1, <3>3 DEF Behind
      <3>5. Ahead(r) => r > cursor
        BY <1>1 DEF Ahead
      <3>6. r > cursor => Ahead(r)'
        <4>1. r > cursor => r \in Holds!Later(Holds!Start)
          BY <2>1, <3>1 DEF Holds!Later
        <4> QED  BY <1>1, <1>5, <2>3, <4>1 DEF Ahead
      <3> QED  BY <1>1, <2>1, <3>4, <3>5, <3>6, AllowanceKept DEF CursorInv, CursorTypeOK, Passes
    <2>6. CASE Holds!Later(cursor) = {}
      <3>1. Holds!Start = 0
        BY <2>6 DEF Holds!Start
      <3>2. ~Ahead(r)
        BY <1>1, <2>1, <2>6 DEF Ahead, Holds!Later
      <3>3. r \in Holds!Later(Holds!Start)
        BY <2>1, <3>1 DEF Holds!Later
      <3>4. found # {} => Wrapped'
        <4>1. \A b \in found : b <= cursor
          BY <1>3, <2>2, <2>6 DEF Holds!Later
        <4> QED  BY <1>1, <4>1 DEF Wrapped
      <3>5. Ahead(r)'
        BY <1>1, <1>4, <1>5, <2>3, <3>3, <3>4 DEF Ahead
      <3> QED  BY <1>1, <2>1, <3>2, <3>5, AllowanceKept DEF CursorInv, CursorTypeOK, Passes
    <2> QED  BY <2>5, <2>6
  <1> QED  BY <1>2, <1>6 DEF CursorInv, Passes

(* A visit counts against every other candidate once; the resource was not behind
   the cursor, and is now. *)
LEMMA VisitKeeps ==
    ASSUME CursorInv, NEW c \in batch, Holds!Visit(c)
    PROVE  CursorInv'
  <1> DEFINE row(q) == IF q = c THEN Holds!Never
                       ELSE IF q \in candidate THEN [passed[q] EXCEPT ![c] = Holds!Counted(@)]
                       ELSE passed[q]
  <1>1. /\ cycle /\ batch' = batch \ {c} /\ cursor' = c
        /\ \A b \in batch : c <= b
        /\ candidate' \subseteq candidate
        /\ passed' = [q \in Resources |-> row(q)]
        /\ UNCHANGED <<cycle, reachedEnd, crashes>>
    BY DEF Holds!Visit, Holds!MovedPast
  <1>2. c \in Resources /\ c \in Nat /\ batch \subseteq Nat /\ cursor \in Nat /\ crashes \in Nat
    BY SchedulerAssumption DEF CursorInv, CursorTypeOK
  <1>3. \A n \in Nat : Holds!Counted(n) \in Nat /\ Holds!Counted(n) <= n + 1
    BY DEF Holds!Counted
  <1>4. Holds!Never \in [Resources -> Nat] /\ \A q \in Resources : Holds!Never[q] = 0
    BY DEF Holds!Never
  <1>5. \A q \in Resources : row(q) \in [Resources -> Nat]
    BY <1>2, <1>3, <1>4 DEF CursorInv, CursorTypeOK
  <1>6. CursorTypeOK'
    BY <1>1, <1>2, <1>5 DEF CursorInv, CursorTypeOK
  <1>7. ~Wrapped'
    <2>1. \A b \in batch' : b # c /\ c <= b /\ b \in Nat
      BY <1>1, <1>2
    <2> QED  BY <1>1, <1>2, <2>1 DEF Wrapped
  <1>8. ASSUME NEW r \in candidate', NEW q \in Resources
        PROVE  PassedOf(r, q)'
    <2>1. r \in candidate /\ r \in Resources /\ r \in Nat /\ q \in Nat /\ passed[r][q] \in Nat
      BY <1>1, SchedulerAssumption DEF CursorInv, CursorTypeOK
    <2>2. passed'[r] = row(r)
      BY <1>1, <2>1
    <2>3. Allowance(r, q)' >= 0
      BY <1>1, <1>2 DEF Allowance
    <2>4. CASE r = c
      BY <1>4, <2>2, <2>3, <2>4 DEF PassedOf
    <2>5. CASE r # c /\ q # c
      <3>1. passed'[r][q] = passed[r][q]
        BY <1>2, <2>1, <2>2, <2>5 DEF CursorInv, CursorTypeOK
      <3>2. Ahead(r) => Ahead(r)'
        BY <1>1, <1>2, <2>1, <2>5 DEF Ahead
      <3>3. Behind(q) => Behind(q)'
        <4>1. ~Wrapped => cursor < c
          BY <1>2 DEF Wrapped
        <4> QED  BY <1>1, <1>2, <1>7, <2>1, <4>1 DEF Behind
      <3>4. Allowance(r, q)' >= Allowance(r, q)
        BY <1>1, <1>2, <3>2, <3>3 DEF Allowance
      <3>5. Allowance(r, q) \in Int /\ Allowance(r, q)' \in Int
        BY <1>1, <1>2 DEF Allowance
      <3> QED  BY <2>1, <3>1, <3>4, <3>5 DEF PassedOf, CursorInv, Passes
    <2>6. CASE r # c /\ q = c
      <3>1. passed'[r][q] = Holds!Counted(passed[r][q])
        BY <1>2, <2>1, <2>2, <2>6 DEF CursorInv, CursorTypeOK
      <3>2. passed'[r][q] \in Nat /\ passed'[r][q] <= passed[r][q] + 1
        BY <1>3, <2>1, <3>1
      <3>3. Ahead(r) => Ahead(r)'
        BY <1>1, <1>2, <2>1, <2>6 DEF Ahead
      <3>4. ~Behind(q)
        BY <1>2, <2>6 DEF Behind, Wrapped
      <3>5. Behind(q)'
        BY <1>1, <1>2, <1>7, <2>6 DEF Behind
      <3>6. Allowance(r, q)' >= Allowance(r, q) + 1
        BY <1>1, <1>2, <3>3, <3>4, <3>5 DEF Allowance
      <3>7. Allowance(r, q) \in Int /\ Allowance(r, q)' \in Int
        BY <1>1, <1>2 DEF Allowance
      <3>8. passed[r][q] <= Allowance(r, q)
        BY <2>1, <2>6 DEF PassedOf, CursorInv, Passes
      <3> QED  BY <2>1, <2>6, <3>2, <3>6, <3>7, <3>8 DEF PassedOf
    <2> QED  BY <2>4, <2>5, <2>6
  <1> QED  BY <1>6, <1>8 DEF CursorInv, Passes

(* The end of a cycle turns the cursor back when the keyset was exhausted: then
   nothing was ahead of it any more, and everything is. *)
LEMMA EndCycleKeeps ==
    ASSUME CursorInv, Holds!EndCycle
    PROVE  CursorInv'
  <1>1. /\ cycle /\ batch = {} /\ cycle' = FALSE
        /\ cursor' = IF reachedEnd THEN 0 ELSE cursor
        /\ UNCHANGED <<candidate, batch, reachedEnd, crashes, passed>>
    BY DEF Holds!EndCycle
  <1>2. CursorTypeOK'
    BY <1>1 DEF CursorInv, CursorTypeOK
  <1>3. ~Wrapped /\ ~Wrapped'
    BY <1>1 DEF Wrapped
  <1>4. ASSUME NEW r \in candidate', NEW q \in Resources
        PROVE  PassedOf(r, q)'
    <2>1. r \in candidate /\ r \in Resources /\ r \in Nat /\ r > 0
      BY <1>1, SchedulerAssumption DEF CursorInv, CursorTypeOK
    <2>2. CASE reachedEnd
      BY <1>1, <2>1, <2>2, AllowanceKept DEF Ahead, CursorInv, Passes
    <2>3. CASE ~reachedEnd
      <3>1. (Ahead(r) => Ahead(r)') /\ (Behind(q) => Behind(q)')
        BY <1>1, <1>3, <2>3 DEF Ahead, Behind
      <3> QED  BY <1>1, <2>1, <3>1, AllowanceKept DEF CursorInv, Passes
    <2> QED  BY <2>2, <2>3
  <1> QED  BY <1>2, <1>4 DEF CursorInv, Passes

(* A restart forgets the cursor; that is the visit each restart allows. *)
LEMMA CrashKeeps ==
    ASSUME CursorInv, Holds!Crash
    PROVE  CursorInv'
  <1>1. /\ crashes < MaxCrashes /\ crashes' = crashes + 1
        /\ cycle' = FALSE /\ batch' = {} /\ cursor' = 0 /\ reachedEnd' = FALSE
        /\ UNCHANGED <<candidate, passed>>
    BY DEF Holds!Crash
  <1>2. CursorTypeOK'
    <2>1. crashes \in 0..MaxCrashes /\ MaxCrashes \in Nat
      BY SchedulerAssumption DEF CursorInv, CursorTypeOK
    <2>2. crashes' \in 0..MaxCrashes
      BY <1>1, <2>1
    <2> QED  BY <1>1, <2>2 DEF CursorInv, CursorTypeOK
  <1>3. ASSUME NEW r \in candidate', NEW q \in Resources
        PROVE  PassedOf(r, q)'
    <2>1. r \in candidate /\ r \in Resources /\ r \in Nat /\ r > 0
      BY <1>1, SchedulerAssumption DEF CursorInv, CursorTypeOK
    <2> QED  BY <1>1, <2>1, AllowanceKept DEF Ahead, CursorInv, Passes
  <1> QED  BY <1>2, <1>3 DEF CursorInv, Passes

LEMMA CursorKeeps ==
    ASSUME CursorInv, [WorkerNext]_allVars
    PROVE  CursorInv'
  <1>1. CASE CycleStep
    BY <1>1, DiscoverKeeps, VisitKeeps DEF CycleStep
  <1>2. CASE FinishCycle
    BY <1>2, EndCycleKeeps DEF FinishCycle
  <1>3. CASE Demand
    BY <1>3, AppearKeeps, SettleKeeps DEF Demand
  <1>4. CASE Restart
    BY <1>4, CrashKeeps DEF Restart
  <1>5. CASE SupervisorStep \/ UNCHANGED allVars
    <2>1. UNCHANGED schedulerVars
      BY <1>5 DEF SupervisorStep, allVars
    <2>2. UNCHANGED <<candidate, cursor, batch, cycle, reachedEnd, crashes, passed>>
      BY <2>1 DEF schedulerVars
    <2>3. CursorTypeOK'
      BY <2>2 DEF CursorInv, CursorTypeOK
    <2>4. \A r, q : PassedOf(r, q)' = PassedOf(r, q)
      BY <2>2 DEF PassedOf, Allowance, Ahead, Behind, Wrapped
    <2> QED  BY <2>2, <2>3, <2>4 DEF CursorInv, Passes
  <1> QED  BY <1>1, <1>2, <1>3, <1>4, <1>5 DEF WorkerNext

LEMMA CursorInit == WorkerInit => CursorInv
  <1> SUFFICES ASSUME WorkerInit PROVE CursorInv
    OBVIOUS
  <1>1. /\ candidate \in SUBSET Resources /\ batch = {} /\ cursor = 0 /\ cycle = FALSE /\ reachedEnd = FALSE
        /\ crashes = 0 /\ passed = [r \in Resources |-> Holds!Never]
    BY DEF WorkerInit, Holds!Init
  <1>2. Holds!Never \in [Resources -> Nat] /\ \A q \in Resources : Holds!Never[q] = 0
    BY DEF Holds!Never
  <1>3. CursorTypeOK
    <2>1. 0 \in 0..MaxCrashes
      BY SchedulerAssumption
    <2> QED  BY <1>1, <1>2, <2>1 DEF CursorTypeOK
  <1>4. ASSUME NEW r \in candidate, NEW q \in Resources
        PROVE  PassedOf(r, q)
    <2>1. passed[r][q] = 0
      BY <1>1, <1>2
    <2>2. Allowance(r, q) >= 0
      BY <1>1 DEF Allowance
    <2> QED  BY <2>1, <2>2 DEF PassedOf
  <1> QED  BY <1>3, <1>4 DEF CursorInv, Passes

(* Where the cursor stands accounts for every visit a waiting resource has let pass
   (waitlist/scheduler.py, discover_candidate_resources and run_cycle). *)
THEOREM CursorAccounts == WorkerSpec => []CursorInv
  <1> QED  BY CursorInit, CursorKeeps, PTL DEF WorkerSpec

(* For any resources, batch size and number of restarts, no resource is visited more
   than twice, and once more for each restart, while another waits
   (waitlist/scheduler.py, run_cycle). *)
THEOREM BypassIsBounded == WorkerSpec => []BypassBounded
  <1>1. CursorInv => BypassBounded
    <2> SUFFICES ASSUME CursorInv, NEW r \in candidate, NEW q \in Resources
                 PROVE  passed[r][q] <= 2 + crashes
      BY DEF BypassBounded, Holds!BypassBounded
    <2>1. PassedOf(r, q) /\ passed[r][q] \in Int /\ crashes \in Nat
      BY SchedulerAssumption DEF CursorInv, CursorTypeOK, Passes
    <2> QED  BY <2>1 DEF PassedOf, Allowance
  <1> QED  BY <1>1, CursorAccounts, PTL
=============================================================================
