------------------------------ MODULE RaceLab ------------------------------
(***************************************************************************)
(* scripts/race_demo.py: two writers check and then insert the same slot,  *)
(* first into a table without and then into one with the exclusion         *)
(* constraint, in a database that the run creates and drops.  An approval  *)
(* document grants create, reset and cleanup one by one.                   *)
(***************************************************************************)
EXTENDS Integers, FiniteSets

CONSTANTS
    Writers,        \* the two coroutines of a race
    MaxRuns         \* BOUND: runs of the script with one run id

ASSUME LabAssumption == IsFiniteSet(Writers) /\ Cardinality(Writers) = 2 /\ MaxRuns \in Nat

VARIABLES
    database,       \* the disposable database: who made it, 0 for none, and its rows
    script,         \* where the run is, and what it was given
    writer,         \* where each writer of the present race is
    seen,           \* observed_overlaps_before_insert of each writer
    early,          \* history: a writer inserted before the other had looked
    report          \* what the finished races of this run returned

race == <<writer, seen, early>>
labVars == <<database, script, race, report>>

Tables == {"unprotected", "protected"}
Stages == {"create", "setup", "unprotected", "protected", "cleanup", "evidence"}
Ends == {"success", "failure"}
NoDatabase == [maker |-> 0, rows |-> [t \in Tables |-> {}]]

Racing == script.stage \in Tables
Rows == database.rows[script.stage]
Other(w) == CHOOSE v \in Writers : v # w
At(place) == {w \in Writers : writer[w] = place}
(* "absent" is a writer that failed before the barrier. *)
Over == {"committed", "rejected", "failed", "absent"}
(* The approval document: one that is not of this token, run, database and host
   grants nothing. *)
Approves(action) == action \in script.approval

GoesTo(stage) == script' = [script EXCEPT !.stage = stage]
Moves(w, place) == writer' = [writer EXCEPT ![w] = place]

(* What a race reports; a writer that has not looked has no count. *)
NoCount == -1
Result == [seen |-> seen, ended |-> writer, early |-> early]
NoResult == [seen |-> [w \in Writers |-> NoCount], ended |-> [w \in Writers |-> "idle"], early |-> FALSE]
NoRace ==
    /\ writer' = [w \in Writers |-> "idle"] /\ seen' = [w \in Writers |-> NoCount]
    /\ early' = FALSE

-----------------------------------------------------------------------------
Start ==
    /\ script.stage \in Ends /\ script.run < MaxRuns
    /\ \E approval \in SUBSET {"create", "reset", "cleanup"}, cleanup \in BOOLEAN :
        script' = [stage |-> "create", run |-> script.run + 1, approval |-> approval, cleanup |-> cleanup]
    /\ NoRace /\ report' = [t \in Tables |-> NoResult]
    /\ UNCHANGED database

Made == [NoDatabase EXCEPT !.maker = script.run]

(* create_disposable_database: a database that is there already is dropped only
   under reset. *)
(* Fault: it is used as it is. *)
CreateIfMissing ==
    /\ script.stage = "create"
    /\ IF Approves("create")
         THEN database' = (IF database.maker = 0 THEN Made ELSE database) /\ GoesTo("setup")
         ELSE UNCHANGED database /\ GoesTo("failure")
    /\ UNCHANGED <<race, report>>
Create ==
    /\ script.stage = "create"
    /\ IF Approves("create") /\ (database.maker = 0 \/ Approves("reset"))
         THEN database' = Made /\ GoesTo("setup")
         ELSE UNCHANGED database /\ GoesTo("failure")
    /\ UNCHANGED <<race, report>>

(* DROP and CREATE are two statements: the second may fail alone. *)
CreateFails ==
    /\ script.stage = "create" /\ Approves("create") /\ Approves("reset")
    /\ database' = NoDatabase /\ GoesTo("failure")
    /\ UNCHANGED <<race, report>>

Setup ==
    /\ script.stage = "setup"
    /\ GoesTo("unprotected")
    /\ UNCHANGED <<database, race, report>>

(* A writer has counted the overlapping rows it can see ... *)
Check(w) ==
    /\ Racing /\ writer[w] = "idle"
    /\ Moves(w, "barrier")
    /\ seen' = [seen EXCEPT ![w] = Cardinality(Rows)]
    /\ UNCHANGED <<database, script, early, report>>

(* ... and waits for the other. *)
(* Fault: it does not. *)
PassesAlone(w) == writer[w] = "barrier"
Passes(w) == writer[w] = "barrier" /\ \A v \in Writers : writer[v] \notin {"idle", "absent"}

Barrier(w) ==
    /\ Racing /\ Passes(w)
    /\ Moves(w, "ready")
    /\ UNCHANGED <<database, script, seen, early, report>>

(* The constraint looks at committed rows, and waits for a conflicting insert
   that is not committed. *)
Clear(w) == script.stage = "protected" => writer[Other(w)] # "inserted"

Insert(w) ==
    /\ Racing /\ writer[w] = "ready" /\ Clear(w)
    /\ Moves(w, IF script.stage = "protected" /\ Rows # {} THEN "rejected" ELSE "inserted")
    /\ early' = (early \/ \E v \in Writers : writer[v] \in {"idle", "absent"})
    /\ UNCHANGED <<database, script, seen, report>>

Commit(w) ==
    /\ Racing /\ writer[w] = "inserted"
    /\ Moves(w, "committed")
    /\ database' = [database EXCEPT !.rows[script.stage] = @ \cup {w}]
    /\ UNCHANGED <<script, seen, early, report>>

(* A statement of a writer fails: it rolls back and returns.  The other does not
   learn of it, and waits at the barrier for one that is absent. *)
WriterFails(w) ==
    /\ Racing /\ writer[w] \in {"idle", "ready", "inserted"}
    /\ Moves(w, IF writer[w] = "idle" THEN "absent" ELSE "failed")
    /\ UNCHANGED <<database, script, seen, early, report>>

(* gather has both results and the run asserts what it expects of them. *)
Expected ==
    IF script.stage = "unprotected" THEN Cardinality(Rows) = 2
    ELSE Cardinality(At("committed")) = 1 /\ Cardinality(At("rejected")) = 1 /\ Cardinality(Rows) = 1

NextStage == IF script.stage = "unprotected" THEN "protected" ELSE IF script.cleanup THEN "cleanup" ELSE "evidence"

Judge ==
    /\ Racing /\ \A w \in Writers : writer[w] \in Over
    /\ GoesTo(IF Expected THEN NextStage ELSE "failure")
    /\ report' = IF Expected THEN [report EXCEPT ![script.stage] = Result] ELSE report
    /\ NoRace
    /\ UNCHANGED database

(* cleanup_disposable_database, with an approval of its own, and the proof that
   the database is gone. *)
Cleanup ==
    /\ script.stage = "cleanup"
    /\ IF Approves("cleanup") THEN database' = NoDatabase /\ GoesTo("evidence")
                              ELSE UNCHANGED database /\ GoesTo("failure")
    /\ UNCHANGED <<race, report>>

(* write_evidence, and the answer of the run. *)
Finish ==
    /\ script.stage = "evidence"
    /\ GoesTo("success")
    /\ UNCHANGED <<database, race, report>>

(* A connection is refused or a statement of the run fails: the exception ends
   the run, and nothing else of it happens. *)
Break ==
    /\ script.stage \in Stages
    /\ GoesTo("failure")
    /\ NoRace
    /\ UNCHANGED <<database, report>>

LabInit ==
    /\ database = NoDatabase
    /\ script = [stage |-> "success", run |-> 0, approval |-> {}, cleanup |-> FALSE]
    /\ writer = [w \in Writers |-> "idle"] /\ seen = [w \in Writers |-> NoCount]
    /\ early = FALSE
    /\ report = [t \in Tables |-> NoResult]

LabNext ==
    \/ Start \/ Create \/ CreateFails \/ Setup \/ Judge \/ Cleanup \/ Finish \/ Break
    \/ \E w \in Writers : Check(w) \/ Barrier(w) \/ Insert(w) \/ Commit(w) \/ WriterFails(w)

LabSpec == LabInit /\ [][LabNext]_labVars

-----------------------------------------------------------------------------
(* A run touches no database of an earlier run, unless reset was approved: what
   it races in and what it drops is its own (docs/race-lab.md, "Separation of
   Create, Reset, and Drop Semantics"). *)
OnlyItsOwn ==
    [][database' # database =>
        database.maker \in {0, script.run} \/ Approves("reset")]_labVars

(* A race shows something only if both writers looked before either inserted and both
   found the slot free: the comment at the barrier, "both must observe count == 0
   before inserting", which no assertion of the script looks at. *)
BothLookedFirst(r) == ~r.early /\ \A w \in Writers : r.seen[w] = 0
TwoOverlap(r) == BothLookedFirst(r) /\ \A w \in Writers : r.ended[w] = "committed"
OneRejected(r) ==
    /\ BothLookedFirst(r)
    /\ \E v, w \in Writers : v # w /\ r.ended[v] = "committed" /\ r.ended[w] = "rejected"

(* A run that says success, with or without cleanup, has shown both outcomes: in
   either table both writers had found the slot free before either inserted, and then
   both committed without the constraint and just one of them with it.  The database
   is gone if it was to go, and otherwise holds the rows. *)
SuccessIsTrue ==
    [][script'.stage = "success" /\ script.stage # "success" =>
        /\ TwoOverlap(report["unprotected"]) /\ OneRejected(report["protected"])
        /\ IF script.cleanup THEN database' = NoDatabase
           ELSE /\ database.rows["unprotected"] = Writers
                /\ Cardinality(database.rows["protected"]) = 1]_labVars
=============================================================================
