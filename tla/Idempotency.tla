---------------------------- MODULE Idempotency -----------------------------
(***************************************************************************)
(* execute_create: POST /bookings with ONE Idempotency-Key of one user.    *)
(* A request is a transaction of several statements on the key's row, and  *)
(* between any two of them the others run, the clock goes on, maintenance  *)
(* purges the row and the process may die.  PostgreSQL's part is modelled  *)
(* by `holder': the transaction that locked the row or wrote it without    *)
(* having committed.                                                       *)
(*                                                                         *)
(*   new -> insert -> run -> commit -> done                                *)
(*            |  ^--------- row gone or expired ---------+                 *)
(*            v                                          |                 *)
(*          select -> wait -----> locked ----------------+--> done         *)
(***************************************************************************)
EXTENDS Integers, FiniteSets

CONSTANTS
    Requests,       \* attempts of the client, each with a transaction of its own
    Bodies,         \* request hashes
    Nothing,        \* no row
    Ttl,            \* 24 hours
    MaxTries,       \* 5 in the code
    MaxDuration,    \* BOUND: ticks a transaction lives (lock and statement timeouts)
    LastTick        \* BOUND: the clock stops here

Responses == {"null", "conflict"} \cup Requests
KeyRow == [hash: Bodies, created: 0..LastTick, response: Responses]

ASSUME ConstantsAssumption ==
    /\ {Ttl, MaxTries} \subseteq Nat \ {0} /\ {MaxDuration, LastTick} \subseteq Nat
    /\ MaxDuration < Ttl
    /\ Bodies # {}
    /\ Nothing \notin Requests /\ Nothing \notin KeyRow
    /\ Requests \cap {"none", "null", "conflict", "mismatch", "incomplete", "error", "exhausted"} = {}

VARIABLES
    now,            \* clock_timestamp()
    key,            \* the committed row of idempotency_keys
    holder,         \* the request that holds it, Nothing if none does
    dirty,          \* the holder inserted or deleted the row and has not committed
    draft,          \* the row as the holder sees it
    request,        \* what each request is doing
    made            \* requests whose booking was committed, with the time of its key

vars == <<now, key, holder, dirty, draft, request, made>>

Steps == {"new", "insert", "select", "wait", "locked", "run", "commit", "done"}
Outcomes == {"none", "conflict", "mismatch", "incomplete", "error", "exhausted"} \cup Requests
Request == [step: Steps, body: Bodies, tries: 0..MaxTries, since: 0..LastTick,
            seen: KeyRow \cup {Nothing}, expired: BOOLEAN, outcome: Outcomes]

Never == -1

Expired(row) == row.created + Ttl <= now
Free(r) == holder \in {Nothing, r}
Row(r) == IF holder = r THEN draft ELSE key

End(r, outcome) == request' = [request EXCEPT ![r].step = "done", ![r].outcome = outcome]
Rollback(r) ==
    /\ holder' = IF holder = r THEN Nothing ELSE holder
    /\ dirty' = (dirty /\ holder # r)
    /\ draft' = IF holder = r THEN key ELSE draft
CommitRow(row) == key' = row /\ holder' = Nothing /\ dirty' = FALSE /\ draft' = row

-----------------------------------------------------------------------------
Arrive(r) ==
    /\ request[r].step = "new"
    /\ \E body \in Bodies :
        request' = [request EXCEPT ![r].step = "insert", ![r].body = body, ![r].since = now]
    /\ UNCHANGED <<now, key, holder, dirty, draft, made>>

(* INSERT ... ON CONFLICT DO NOTHING.  It waits for a writer of the row, but not
   for a transaction that merely locked it. *)
Insert(r) ==
    /\ request[r].step = "insert"
    /\ Free(r) \/ ~dirty
    /\ \/ /\ Row(r) = Nothing
          /\ holder' = r /\ dirty' = TRUE
          /\ draft' = [hash |-> request[r].body, created |-> now, response |-> "null"]
          /\ request' = [request EXCEPT ![r].step = "run"]
       \/ /\ Row(r) # Nothing
          /\ request' = [request EXCEPT ![r].step = "select"]
          /\ UNCHANGED <<holder, dirty, draft>>
    /\ UNCHANGED <<now, key, made>>

(* Fault: expiry is left to maintenance. *)
SelectWithoutExpiry(r) ==
    /\ request[r].step = "select"
    /\ request' = [request EXCEPT ![r].step = "wait", ![r].seen = key]
    /\ UNCHANGED <<now, key, holder, dirty, draft, made>>
(* SELECT ... FOR UPDATE: the statement takes its snapshot, and is_expired. *)
Select(r) ==
    /\ request[r].step = "select"
    /\ request' = [request EXCEPT ![r].step = "wait", ![r].seen = key,
                                  ![r].expired = key # Nothing /\ Expired(key)]
    /\ UNCHANGED <<now, key, holder, dirty, draft, made>>

TryAgain(r) ==
    request' = [request EXCEPT
                    ![r].step = IF request[r].tries + 1 < MaxTries THEN "insert" ELSE "done",
                    ![r].outcome = IF request[r].tries + 1 < MaxTries THEN @ ELSE "exhausted",
                    ![r].tries = @ + 1]

(* The lock is granted, or the row was deleted since the statement began. *)
Grant(r) ==
    /\ request[r].step = "wait" /\ Free(r)
    /\ \/ /\ key # Nothing /\ key = request[r].seen
          /\ holder' = r
          /\ request' = [request EXCEPT ![r].step = "locked"]
          /\ UNCHANGED <<dirty, draft>>
       \/ /\ key = Nothing \/ key # request[r].seen
          /\ TryAgain(r)
          /\ IF request[r].tries + 1 < MaxTries THEN UNCHANGED <<holder, dirty, draft>>
                                                ELSE Rollback(r)
    /\ UNCHANGED <<now, key, made>>

(* An expired row is deleted and the insert tried again in the same transaction. *)
DropExpired(r) ==
    /\ request[r].step = "locked" /\ request[r].expired
    /\ TryAgain(r)
    /\ IF request[r].tries + 1 < MaxTries
       THEN dirty' = TRUE /\ draft' = Nothing /\ UNCHANGED holder
       ELSE Rollback(r)
    /\ UNCHANGED <<now, key, made>>

Answer(r) == CASE key.hash # request[r].body -> "mismatch"
               [] key.response = "null" -> "incomplete"
               [] OTHER -> key.response

(* Fault: a refused request leaves its transaction open. *)
ReplayKeepingLock(r) ==
    /\ request[r].step = "locked" /\ ~request[r].expired
    /\ End(r, Answer(r))
    /\ IF Answer(r) = "mismatch" THEN UNCHANGED <<holder, dirty, draft>> ELSE Rollback(r)
    /\ UNCHANGED <<now, key, made>>
(* The stored answer, or why there is none. *)
Replay(r) ==
    /\ request[r].step = "locked" /\ ~request[r].expired
    /\ End(r, Answer(r))
    /\ Rollback(r)
    /\ UNCHANGED <<now, key, made>>

(* operation(): a booking, a conflict stored like a success, or an exception. *)
(* Fault: the answer is not stored with the key. *)
RunWithoutStoring(r) ==
    /\ request[r].step = "run"
    /\ \E response \in {r, "conflict"} :
        request' = [request EXCEPT ![r].step = "commit", ![r].outcome = response]
    /\ UNCHANGED <<now, key, holder, dirty, draft, made>>
Run(r) ==
    /\ request[r].step = "run"
    /\ \E response \in {r, "conflict"} :
        /\ draft' = [draft EXCEPT !.response = response]
        /\ request' = [request EXCEPT ![r].step = "commit", ![r].outcome = response]
    /\ UNCHANGED <<now, key, holder, dirty, made>>

Commit(r) ==
    /\ request[r].step = "commit"
    /\ CommitRow(draft)
    /\ End(r, request[r].outcome)
    /\ made' = IF request[r].outcome = r THEN [made EXCEPT ![r] = draft.created] ELSE made
    /\ UNCHANGED now

(* A window that became invalid, a timeout, a lost connection, a dead process. *)
Fail(r) ==
    /\ request[r].step \notin {"new", "done"}
    /\ End(r, "error")
    /\ Rollback(r)
    /\ UNCHANGED <<now, key, made>>

(* Maintenance deletes the row once it has expired. *)
Purge ==
    /\ holder = Nothing /\ key # Nothing /\ Expired(key)
    /\ key' = Nothing /\ draft' = Nothing
    /\ UNCHANGED <<now, holder, dirty, request, made>>

Tick ==
    /\ now < LastTick
    /\ \A r \in Requests : request[r].step \notin {"new", "done"} => now < request[r].since + MaxDuration
    /\ now' = now + 1
    /\ UNCHANGED <<key, holder, dirty, draft, request, made>>

-----------------------------------------------------------------------------
Init ==
    /\ now = 0
    /\ key = Nothing
    /\ holder = Nothing /\ dirty = FALSE /\ draft = Nothing
    /\ request = [r \in Requests |->
                    [step |-> "new", body |-> CHOOSE body \in Bodies : TRUE, tries |-> 0, since |-> 0,
                     seen |-> Nothing, expired |-> FALSE, outcome |-> "none"]]
    /\ made = [r \in Requests |-> Never]

Advance(r) ==
    Insert(r) \/ Select(r) \/ Grant(r) \/ DropExpired(r) \/ Replay(r) \/ Run(r) \/ Commit(r)

Next ==
    \/ \E r \in Requests : Arrive(r) \/ Advance(r) \/ Fail(r)
    \/ Purge
    \/ Tick

Spec == Init /\ [][Next]_vars

(* A transaction that can go on does: nothing in it waits but for row locks. *)
FairSpec == Spec /\ \A r \in Requests : WF_vars(Advance(r))

-----------------------------------------------------------------------------
(* Columns and locks fit; only a holder has written without committing, and what
   it sees is the committed row until it writes. *)
TypeOK ==
    /\ now \in 0..LastTick
    /\ key \in KeyRow \cup {Nothing} /\ draft \in KeyRow \cup {Nothing}
    /\ holder \in Requests \cup {Nothing} /\ dirty \in BOOLEAN
    /\ request \in [Requests -> Request]
    /\ made \in [Requests -> {Never} \cup 0..LastTick]
    /\ holder = Nothing => ~dirty
    /\ ~dirty => draft = key

(* However many times a client repeats a create, and whatever dies on the way,
   two bookings of one key are a whole day apart. *)
OncePerDay ==
    \A r, s \in Requests :
        (r # s /\ made[r] # Never /\ made[s] # Never) => made[r] - made[s] \notin (1 - Ttl)..(Ttl - 1)

(* A request that is told of a booking, its own or a replayed one, is told of one
   that was committed, and that it asked for itself; and the two answers a client
   can do nothing about are never given: no committed key lacks its response, and
   five tries are always enough. *)
AnswersAreTrue ==
    \A r \in Requests :
        /\ request[r].outcome \notin {"incomplete", "exhausted"}
        /\ request[r].step = "done" /\ request[r].outcome \in Requests
            => /\ made[request[r].outcome] # Never
               /\ request[request[r].outcome].body = request[r].body

(* Requests, locks and rollbacks together implement a memory of one answer. *)
Promise == INSTANCE OncePerKey
    WITH Slack <- MaxDuration, clock <- now, memo <- key,
         reply <- [r \in Requests |-> IF request[r].step = "done" THEN request[r].outcome ELSE "none"]
KeepsPromise == Promise!Spec

(* No two requests wait for each other, and a lock is always given back. *)
RequestsEnd == \A r \in Requests : request[r].step # "new" ~> request[r].step = "done"
=============================================================================
