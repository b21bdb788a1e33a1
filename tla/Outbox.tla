------------------------------- MODULE Outbox -------------------------------
(***************************************************************************)
(* Delivery of the events the inventory appends: leases, mails, receipts.  *)
(* Every worker process runs one dispatcher, which takes one event at a    *)
(* time through five transactions and a mail that is sent between two of   *)
(* them.  A transaction touches one row under its lock and is one action;  *)
(* everything between two transactions interleaves with the other worker,  *)
(* the clock, administrators and crashes.                                  *)
(*                                                                         *)
(*   idle -> recover -> claim -> renew -> open -> send -> record -> idle   *)
(*                                                  \---> fail ----/       *)
(*                                                                         *)
(* Moments are kept relative to the present: a deadline is the number of   *)
(* ticks until it, a clock sample its age.  Beyond Memory ticks the past   *)
(* is simply long ago, so time never ends although the model is finite.    *)
(***************************************************************************)
EXTENDS Integers, FiniteSets

CONSTANTS
    Workers,
    Mailing,        \* workers whose EMAIL_ENABLED is set
    Events,         \* ids of outbox rows, ordered as uuids are
    Offers,         \* those of type waitlist_offered
    NoEvent,
    MaxAttempts,    \* 8 in the code
    Lease,          \* 60 s
    BaseDelay,      \* 5 s
    MaxDelay,       \* 3600 s
    Jitter,         \* 5 s: the id modulo this is added to a delay
    Memory,         \* BOUND: ticks after which a moment is long ago
    MaxRetries,     \* BOUND: retries of an event by administrators
    MaxCrashes      \* BOUND: dispatchers that give up in the middle

ASSUME ConstantsAssumption ==
    /\ Mailing \subseteq Workers
    /\ Events \subseteq Nat /\ NoEvent \notin Events
    /\ Offers \subseteq Events
    /\ {MaxAttempts, Lease, BaseDelay, MaxDelay, Jitter, Memory} \subseteq Nat \ {0}
    /\ {MaxRetries, MaxCrashes} \subseteq Nat

VARIABLES
    row,            \* outbox rows
    receipt,        \* notification_deliveries.state of the event's recipient
    moot,           \* events whose recipient is disabled or whose offer is over
    worker,         \* what each dispatcher is doing, with the lease it believes in
    retries,        \* retries of each event so far
    crashes,
    mailed,         \* the claims of each event under which a mail went out
    excused         \* the claims whose outcome the outbox could not learn in time

vars == <<row, receipt, moot, worker, retries, crashes, mailed, excused>>

-----------------------------------------------------------------------------
Status == {"absent", "pending", "processing", "delivered", "dead"}
Receipts == {"none", "pending", "sent", "skipped"}
Steps == {"idle", "recover", "claim", "renew", "open", "send", "record", "fail"}
Moments == -Memory .. (MaxDelay + Lease + Jitter)
Ages == 0..Memory
NoToken == 0
Tokens == 0 .. MaxAttempts * (MaxRetries + 1)    \* the n-th claim of an event has token n

Row == [status: Status, attempts: 0..MaxAttempts, token: Tokens, claims: Tokens,
        until: Moments, available: Moments]
Dispatcher == [step: Steps, event: Events \cup {NoEvent}, token: Tokens,
               attempts: 0..MaxAttempts, age: Ages]

AbsentRow == [status |-> "absent", attempts |-> 0, token |-> NoToken, claims |-> 0,
              until |-> 0, available |-> 0]
Idle == [step |-> "idle", event |-> NoEvent, token |-> NoToken, attempts |-> 0, age |-> 0]

AtLeast(m) == IF m < -Memory THEN -Memory ELSE m

(* compute_backoff_seconds *)
Backoff(e, attempt) ==
    LET delay == BaseDelay * 2^(attempt - 1)
    IN  (IF delay < MaxDelay THEN delay ELSE MaxDelay) + (e % Jitter)

(* The rows a lease still controls: id, token and status all match. *)
(* Fault: completion is not fenced by the token. *)
OwnsWithoutToken(d) == row[d.event].status = "processing"
Owns(d) == row[d.event].status = "processing" /\ row[d.event].token = d.token

Released(r, s, available) ==
    [status |-> s, attempts |-> r.attempts, token |-> NoToken, claims |-> r.claims,
     until |-> 0, available |-> available]

Acknowledged(d) ==
    IF Owns(d) THEN [row EXCEPT ![d.event] = Released(row[d.event], "delivered", 0)] ELSE row

Go(w, step) == worker' = [worker EXCEPT ![w].step = step]
Rest(w) == worker' = [worker EXCEPT ![w] = Idle]

-----------------------------------------------------------------------------
(* The domain transaction that causes the event. *)
AppendEvent(e) ==
    /\ row[e].status = "absent"
    /\ row' = [row EXCEPT ![e].status = "pending"]
    /\ UNCHANGED <<receipt, moot, worker, retries, crashes, mailed, excused>>

(* A recipient is disabled, or the booking an offer is about leaves its offered
   state or outlives its deadline; accounts may be enabled again. *)
BecomesMoot(e) ==
    /\ moot' = IF e \in moot THEN moot \ ({e} \ Offers) ELSE moot \cup {e}
    /\ UNCHANGED <<row, receipt, worker, retries, crashes, mailed, excused>>

(* An administrator retries a dead event. *)
RetryEvent(e) ==
    /\ row[e].status = "dead" /\ retries[e] < MaxRetries
    /\ row' = [row EXCEPT ![e] = [Released(row[e], "pending", 0) EXCEPT !.attempts = 0]]
    /\ retries' = [retries EXCEPT ![e] = @ + 1]
    /\ UNCHANGED <<receipt, moot, worker, crashes, mailed, excused>>

-----------------------------------------------------------------------------
(* One cycle of a dispatcher. *)

(* It samples its clock for the recovery and the claim. *)
Wake(w) ==
    /\ worker[w].step = "idle"
    /\ Go(w, "recover")
    /\ UNCHANGED <<row, receipt, moot, retries, crashes, mailed, excused>>

(* Fault: recovery does not wait for the end of a lease. *)
ExpiredAtOnce(r, age) == r.status = "processing"
(* Fault: recovery passes over the rows that have no attempt left. *)
ExpiredWithBudget(r, age) ==
    r.status = "processing" /\ r.until <= -age /\ r.attempts < MaxAttempts
Expired(r, age) == r.status = "processing" /\ r.until <= -age

(* A lease that ran out while its holder was at work.  The mail of such a claim
   may come late, and a second one may be sent under the next claim. *)
Overtaken(e) ==
    {row[e].token : w \in {w \in Workers : /\ worker[w].event = e
                                           /\ worker[w].token = row[e].token
                                           /\ worker[w].step \in {"open", "send", "record"}
                                           /\ row[e].until <= 0}}

(* Fault: recovery returns every row to pending, whatever its attempts. *)
RecoveredForever(r, age) == Released(r, "pending", -age)
Recovered(r, age) ==
    IF r.attempts >= MaxAttempts THEN Released(r, "dead", r.available)
                                 ELSE Released(r, "pending", -age)

(* recover_stale_leases, which also runs where mail is switched off. *)
Recover(w) ==
    /\ worker[w].step = "recover"
    /\ LET stale == {e \in Events : Expired(row[e], worker[w].age)}
       IN  /\ row' = [e \in Events |-> IF e \in stale THEN Recovered(row[e], worker[w].age)
                                                      ELSE row[e]]
           /\ excused' = [e \in Events |-> IF e \in stale THEN excused[e] \cup Overtaken(e)
                                                          ELSE excused[e]]
    /\ IF w \in Mailing THEN Go(w, "claim") ELSE Rest(w)
    /\ UNCHANGED <<receipt, moot, retries, crashes, mailed>>

Due(age) == {e \in Events : row[e].status = "pending" /\ row[e].available <= -age}

(* claim_batch: a due row that has been available the longest; it commits. *)
Claim(w) ==
    /\ worker[w].step = "claim" /\ Due(worker[w].age) # {}
    /\ \E e \in Due(worker[w].age) :
        /\ \A f \in Due(worker[w].age) : row[e].available <= row[f].available
        /\ LET token == row[e].claims + 1
               attempts == row[e].attempts + 1
           IN  /\ row' = [row EXCEPT ![e] = [status |-> "processing", attempts |-> attempts,
                                             token |-> token, claims |-> token,
                                             until |-> AtLeast(Lease - worker[w].age),
                                             available |-> row[e].available]]
               /\ worker' = [worker EXCEPT ![w] = [step |-> "renew", event |-> e, token |-> token,
                                                   attempts |-> attempts, age |-> 0]]
    /\ UNCHANGED <<receipt, moot, retries, crashes, mailed, excused>>

NothingDue(w) ==
    /\ worker[w].step = "claim" /\ Due(worker[w].age) = {}
    /\ Rest(w)
    /\ UNCHANGED <<row, receipt, moot, retries, crashes, mailed, excused>>

(* renew_lease, with a sample taken since the claim was committed. *)
Renew(w) ==
    LET d == worker[w] IN
    /\ d.step = "renew"
    /\ \/ /\ Owns(d)
          /\ \E age \in 0..d.age : row' = [row EXCEPT ![d.event].until = AtLeast(Lease - age)]
          /\ Go(w, "open")
       \/ /\ ~Owns(d)
          /\ Rest(w)
          /\ UNCHANGED row
    /\ UNCHANGED <<receipt, moot, retries, crashes, mailed, excused>>

(* The first transaction of _dispatch_event.  An event that is settled or moot
   is acknowledged; otherwise the handler goes on to send. *)
Open(w) ==
    LET d == worker[w]
        e == d.event IN
    /\ d.step = "open"
    /\ \/ /\ receipt[e] \in {"sent", "skipped"} \/ e \in moot
          /\ receipt' = [receipt EXCEPT ![e] = IF @ \in {"sent", "skipped"} THEN @ ELSE "skipped"]
          /\ row' = Acknowledged(d)
          /\ Rest(w)
       \/ /\ receipt[e] \in {"none", "pending"} /\ e \notin moot
          /\ receipt' = [receipt EXCEPT ![e] = "pending"]
          /\ worker' = [worker EXCEPT ![w] = [d EXCEPT !.step = "send", !.age = 0]]
          /\ UNCHANGED row
    /\ UNCHANGED <<moot, retries, crashes, mailed, excused>>

(* The mail, outside any transaction.  A failure may be reported after the
   relay took the message, for instance when its last answer times out. *)
Send(w) ==
    LET d == worker[w] IN
    /\ d.step = "send"
    /\ \E out, ok \in BOOLEAN :
        /\ ok => out
        /\ Go(w, IF ok THEN "record" ELSE "fail")
        /\ mailed' = [mailed EXCEPT ![d.event] = @ \cup (IF out THEN {d.token} ELSE {})]
        /\ excused' = [excused EXCEPT ![d.event] =
                            @ \cup (IF out /\ ~ok THEN {d.token} ELSE {})]
    /\ UNCHANGED <<row, receipt, moot, retries, crashes>>

(* The second transaction: the receipt whatever became of the lease, the row
   only if the lease is still ours. *)
(* Fault: the row is acknowledged and the receipt forgotten. *)
RecordWithoutReceipt(w) ==
    LET d == worker[w] IN
    /\ d.step = "record"
    /\ row' = Acknowledged(d)
    /\ Rest(w)
    /\ UNCHANGED <<receipt, moot, retries, crashes, mailed, excused>>
Record(w) ==
    LET d == worker[w] IN
    /\ d.step = "record"
    /\ receipt' = [receipt EXCEPT ![d.event] = "sent"]
    /\ row' = Acknowledged(d)
    /\ Rest(w)
    /\ UNCHANGED <<moot, retries, crashes, mailed, excused>>

(* fail_lease; the delay counts from before the mail was tried. *)
Fail(w) ==
    LET d == worker[w] IN
    /\ d.step = "fail"
    /\ row' = IF ~Owns(d) THEN row
              ELSE [row EXCEPT ![d.event] =
                        IF d.attempts >= MaxAttempts
                        THEN Released(row[d.event], "dead", AtLeast(-d.age))
                        ELSE Released(row[d.event], "pending", AtLeast(Backoff(d.event, d.attempts) - d.age))]
    /\ Rest(w)
    /\ UNCHANGED <<receipt, moot, retries, crashes, mailed, excused>>

(* The process dies and is started again, or a database error ends the cycle. *)
Abandon(w) ==
    LET d == worker[w] IN
    /\ d.step # "idle" /\ crashes < MaxCrashes
    /\ crashes' = crashes + 1
    /\ excused' = [e \in Events |->
                    excused[e] \cup (IF e = d.event /\ d.step = "record" THEN {d.token} ELSE {})]
    /\ Rest(w)
    /\ UNCHANGED <<row, receipt, moot, retries, mailed>>

(* The clock. *)
Older(age) == IF age < Memory THEN age + 1 ELSE Memory
Tick ==
    /\ row' = [e \in Events |->
                CASE row[e].status = "processing" -> [row[e] EXCEPT !.until = AtLeast(row[e].until - 1)]
                  [] row[e].status = "pending" -> [row[e] EXCEPT !.available = AtLeast(row[e].available - 1)]
                  [] OTHER -> row[e]]
    /\ worker' = [w \in Workers |-> IF worker[w].step \in {"idle", "open", "record"} THEN worker[w]
                                    ELSE [worker[w] EXCEPT !.age = Older(worker[w].age)]]
    /\ UNCHANGED <<receipt, moot, retries, crashes, mailed, excused>>

-----------------------------------------------------------------------------
Init ==
    /\ row = [e \in Events |-> AbsentRow]
    /\ receipt = [e \in Events |-> "none"]
    /\ moot = {}
    /\ worker = [w \in Workers |-> Idle]
    /\ retries = [e \in Events |-> 0]
    /\ crashes = 0
    /\ mailed = [e \in Events |-> {}]
    /\ excused = [e \in Events |-> {}]

Cycle(w) ==
    \/ Wake(w) \/ Recover(w) \/ Claim(w) \/ NothingDue(w) \/ Renew(w)
    \/ Open(w) \/ Send(w) \/ Record(w) \/ Fail(w)

Next ==
    \/ \E e \in Events : AppendEvent(e) \/ BecomesMoot(e) \/ RetryEvent(e)
    \/ \E w \in Workers : Cycle(w) \/ Abandon(w)
    \/ Tick

Spec == Init /\ [][Next]_vars

(* The dispatcher's loop never stops, its platform restarts the process, and
   time goes on.  Nothing obliges an administrator or a relay. *)
FairSpec == Spec /\ (\A w \in Workers : WF_vars(Cycle(w))) /\ WF_vars(Tick)

-----------------------------------------------------------------------------
(* Rows stay within their columns; a row has a lease exactly while it is
   processed (outbox_lease_check). *)
TypeOK ==
    /\ row \in [Events -> Row]
    /\ receipt \in [Events -> Receipts]
    /\ moot \subseteq Events
    /\ worker \in [Workers -> Dispatcher]
    /\ retries \in [Events -> 0..MaxRetries]
    /\ crashes \in 0..MaxCrashes
    /\ mailed \in [Events -> SUBSET Tokens] /\ excused \in [Events -> SUBSET Tokens]
    /\ \A e \in Events : row[e].status = "processing" <=> row[e].token # NoToken

(* Two processes work on the same table and a slow one may come back when its
   event belongs to another: only the holder of the current lease, or the end of
   that lease, takes a row out of processing. *)
OnlyTheHolderFinishes ==
    [][\A e \in Events :
        (row[e].status = "processing" /\ row'[e].status # "processing")
            => \/ row[e].until <= 0
               \/ \E w \in Workers : worker[w].event = e /\ worker[w].token = row[e].token
                                     /\ worker'[w] = Idle]_vars

(* Nobody is forgotten: an event is delivered only when its receipt says what
   happened, and a receipt says sent only when a mail went out. *)
DeliveredIsAccounted ==
    \A e \in Events : /\ row[e].status = "delivered" => receipt[e] \in {"sent", "skipped"}
                      /\ receipt[e] = "sent" => mailed[e] # {}

(* A late sender may turn a skipped receipt into sent; nothing unsends a mail. *)
SentIsFinal ==
    [][\A e \in Events : receipt[e] = "sent" => receipt'[e] = "sent"]_vars

(* At least once, and more often only for a reason: of all the claims of an event
   under which a mail went out, each but the last lost its lease to the clock
   while its holder was at work, was told of a failure that was none, or died
   before it could write the receipt. *)
DuplicatesAreExcused ==
    \A e \in Events : \A c, d \in mailed[e] : c < d => c \in excused[e]

(* The eighth attempt is the last on every path: an event is dead exactly when
   its attempts are used up, and is never claimed a ninth time; a retry starts
   the count again. *)
DeadAfterAllAttempts ==
    \A e \in Events :
        /\ row[e].status = "dead" => row[e].attempts = MaxAttempts
        /\ row[e].status = "pending" => row[e].attempts < MaxAttempts
        /\ row[e].claims <= MaxAttempts * retries[e] + row[e].attempts

(* Every event is settled in the end, whatever dies on the way. *)
EventsSettle ==
    \A e \in Events : row[e].status \in {"pending", "processing"}
                        ~> row[e].status \in {"delivered", "dead"}
=============================================================================
