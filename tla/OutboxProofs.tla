---------------------------- MODULE OutboxProofs ----------------------------
(***************************************************************************)
(* Proofs about Outbox, for any workers, events, leases, delays and        *)
(* budgets, and any number of retries and crashes.                         *)
(***************************************************************************)
EXTENDS Outbox, TLAPS

-----------------------------------------------------------------------------
(* The inductive invariant. *)

Working == {"renew", "open", "send", "record", "fail"}
Sending == {"open", "send", "record"}

(* A row under a lease carries the token of its last claim; the attempts are
   used up exactly when it is dead; every claim is paid for by an attempt. *)
RowOK(r, n) ==
    /\ r.status = "processing" <=> r.token # NoToken
    /\ r.status = "processing" => r.token = r.claims
    /\ r.status = "absent" => r.attempts = 0
    /\ r.status = "dead" => r.attempts = MaxAttempts
    /\ r.status = "pending" => r.attempts < MaxAttempts
    /\ r.claims <= MaxAttempts * n + r.attempts

(* A dispatcher works under a token the row once gave out, and counts the
   attempts of the lease it still has; if it lost the lease while it was on its
   way to a mail or had just sent it, its claim is excused. *)
WorkerOK(d) ==
    d.step \in Working =>
        /\ d.event \in Events
        /\ 1 <= d.token /\ d.token <= row[d.event].claims
        /\ row[d.event].token = d.token => row[d.event].attempts = d.attempts
        /\ d.step = "record" => d.token \in mailed[d.event]
        /\ (d.step \in Sending /\ row[d.event].token # d.token) => d.token \in excused[d.event]

(* No token is given out twice. *)
Rivals(c, d) ==
    (c.step \in Working /\ d.step \in Working /\ c.event = d.event) => c.token # d.token

At(d, step, e) == d.step = step /\ d.event = e

(* Of a mail that went out unexcused, the receipt tells, and nobody is left to
   send under a later claim; or its sender is about to write the receipt. *)
MailOK(e, c) ==
    \/ /\ receipt[e] = "sent"
       /\ \A u \in Workers : At(worker[u], "send", e) => worker[u].token <= c
    \/ \E u \in Workers : At(worker[u], "record", e) /\ worker[u].token = c

MailsOK ==
    /\ \A e \in Events : \A c \in mailed[e] : 1 <= c /\ c <= row[e].claims
    /\ \A e \in Events : \A c \in mailed[e] \ excused[e] : MailOK(e, c)

Columns ==
    /\ row \in [Events -> Row]
    /\ receipt \in [Events -> Receipts]
    /\ moot \subseteq Events
    /\ worker \in [Workers -> Dispatcher]
    /\ retries \in [Events -> 0..MaxRetries]
    /\ crashes \in 0..MaxCrashes
    /\ mailed \in [Events -> SUBSET Tokens] /\ excused \in [Events -> SUBSET Tokens]

RowsOK == \A e \in Events : RowOK(row[e], retries[e])
WorkersOK == /\ \A u \in Workers : WorkerOK(worker[u])
             /\ \A u, v \in Workers : u # v => Rivals(worker[u], worker[v])

Queue == RowsOK /\ WorkersOK
Mails == MailsOK /\ DeliveredIsAccounted /\ DuplicatesAreExcused

IInv == Columns /\ Queue /\ Mails

-----------------------------------------------------------------------------
(* Numbers. *)

LEMMA Numbers ==
    /\ MaxAttempts \in Nat /\ MaxAttempts > 0 /\ Lease \in Nat /\ Lease > 0
    /\ BaseDelay \in Nat /\ MaxDelay \in Nat /\ Jitter \in Nat /\ Jitter > 0
    /\ Memory \in Nat /\ Memory > 0 /\ MaxRetries \in Nat /\ MaxCrashes \in Nat
    /\ \A e \in Events : e \in Nat
  BY ConstantsAssumption

(* Claims that are paid for do not exhaust the tokens. *)
LEMMA PaidClaims ==
    ASSUME NEW n \in 0..MaxRetries, NEW a \in 0..MaxAttempts, NEW c \in Nat,
           c <= MaxAttempts * n + a
    PROVE  c \in Tokens
<1>1. PICK d \in Nat : MaxRetries = n + d
  <2>1. n \in Nat /\ MaxRetries - n \in Nat /\ MaxRetries = n + (MaxRetries - n)
    BY Numbers
  <2>2. QED
    BY <2>1
<1>2. n \in Nat /\ a \in Nat /\ a <= MaxAttempts
  BY Numbers
<1>3. MaxAttempts * (MaxRetries + 1) = MaxAttempts * n + MaxAttempts * d + MaxAttempts
  BY <1>1, <1>2, Numbers
<1>4. MaxAttempts * n \in Nat /\ MaxAttempts * d \in Nat
  BY <1>1, <1>2, Numbers
<1>5. QED
  <2> DEFINE p == MaxAttempts * n
             q == MaxAttempts * d
             top == MaxAttempts * (MaxRetries + 1)
  <2>1. p \in Nat /\ q \in Nat /\ top = p + q + MaxAttempts /\ c <= p + a
    BY <1>3, <1>4
  <2> HIDE DEF p, q, top
  <2>2. c \in 0..top
    BY <1>2, <2>1, Numbers
  <2>3. QED
    BY <2>2 DEF top, Tokens

(* A retry pays for a whole budget. *)
LEMMA RetryPays ==
    ASSUME NEW n \in Nat, NEW c \in Nat, c <= MaxAttempts * n + MaxAttempts
    PROVE  c <= MaxAttempts * (n + 1) + 0
<1>1. MaxAttempts * (n + 1) = MaxAttempts * n + MaxAttempts /\ MaxAttempts * n \in Nat
  BY Numbers
<1>2. QED
  BY <1>1, Numbers

(* A moment clamped at long ago is a moment. *)
LEMMA Clamped ==
    ASSUME NEW m \in Int, m <= MaxDelay + Lease + Jitter
    PROVE  AtLeast(m) \in Moments
  BY Numbers DEF AtLeast, Moments

LEMMA BackoffBound ==
    ASSUME NEW e \in Events, NEW a \in 0..MaxAttempts
    PROVE  Backoff(e, a) \in Int /\ Backoff(e, a) <= MaxDelay + Jitter
<1> DEFINE delay == BaseDelay * 2^(a - 1)
<1>1. 2^(a - 1) \in Int
  BY Z3
<1>2. delay \in Int
  BY <1>1, Numbers
<1>3. e % Jitter \in Nat /\ e % Jitter < Jitter
  BY Numbers
<1>4. Backoff(e, a) = (IF delay < MaxDelay THEN delay ELSE MaxDelay) + (e % Jitter)
  BY DEF Backoff
<1> HIDE DEF delay
<1>5. QED
  BY <1>2, <1>3, <1>4, Numbers

-----------------------------------------------------------------------------
(* Framing. *)

LEMMA RowColumns ==
    ASSUME Columns, NEW e \in Events
    PROVE  /\ row[e] \in Row
           /\ row[e].status \in Status /\ row[e].attempts \in 0..MaxAttempts
           /\ row[e].token \in Tokens /\ row[e].claims \in Tokens
           /\ row[e].until \in Moments /\ row[e].available \in Moments
           /\ row[e].claims \in Nat /\ row[e].attempts \in Nat
  BY Numbers DEF Columns, Row, Tokens

LEMMA WorkerColumns ==
    ASSUME Columns, NEW w \in Workers
    PROVE  /\ worker[w] \in Dispatcher
           /\ worker[w].step \in Steps /\ worker[w].event \in Events \cup {NoEvent}
           /\ worker[w].token \in Tokens /\ worker[w].token \in Int
           /\ worker[w].attempts \in 0..MaxAttempts /\ worker[w].age \in 0..Memory
           /\ worker[w].age \in Nat
  BY Numbers DEF Columns, Dispatcher, Tokens, Ages

LEMMA ReleasedRow ==
    ASSUME NEW r \in Row, NEW s \in Status, NEW m \in Moments
    PROVE  Released(r, s, m) \in Row
  BY Numbers DEF Released, Row, Moments, Tokens, NoToken

(* One dispatcher goes on. *)
LEMMA WorkerStep ==
    ASSUME Columns, NEW w \in Workers, NEW q \in Dispatcher,
           worker' = [worker EXCEPT ![w] = q]
    PROVE  /\ worker' \in [Workers -> Dispatcher]
           /\ worker'[w] = q
           /\ \A u \in Workers : u # w => worker'[u] = worker[u]
  BY DEF Columns

LEMMA GoStep ==
    ASSUME Columns, NEW w \in Workers, NEW s \in Steps, Go(w, s)
    PROVE  /\ worker' \in [Workers -> Dispatcher]
           /\ worker'[w] = [worker[w] EXCEPT !.step = s]
           /\ worker'[w].step = s /\ worker'[w].event = worker[w].event
           /\ worker'[w].token = worker[w].token /\ worker'[w].attempts = worker[w].attempts
           /\ \A u \in Workers : u # w => worker'[u] = worker[u]
  BY DEF Columns, Go, Dispatcher

LEMMA RestStep ==
    ASSUME Columns, NEW w \in Workers, Rest(w)
    PROVE  /\ worker' \in [Workers -> Dispatcher]
           /\ worker'[w] = Idle /\ worker'[w].step = "idle"
           /\ \A u \in Workers : u # w => worker'[u] = worker[u]
<1>1. Idle \in Dispatcher
  BY Numbers DEF Idle, Dispatcher, Steps, Tokens, NoToken, Ages
<1>2. QED
  BY <1>1 DEF Columns, Rest, Idle

(* One row changes. *)
LEMMA RowStep ==
    ASSUME Columns, NEW e \in Events, NEW r \in Row, row' = [row EXCEPT ![e] = r]
    PROVE  /\ row' \in [Events -> Row]
           /\ row'[e] = r
           /\ \A f \in Events : f # e => row'[f] = row[f]
  BY DEF Columns

(* Who owns a row is known to it, and nobody else does. *)
LEMMA OwnerIsKnown ==
    ASSUME IInv, NEW w \in Workers, worker[w].step \in Working, Owns(worker[w])
    PROVE  /\ worker[w].event \in Events
           /\ row[worker[w].event].token = worker[w].token
           /\ row[worker[w].event].claims = worker[w].token
           /\ row[worker[w].event].attempts = worker[w].attempts
           /\ \A u \in Workers : u # w /\ worker[u].step \in Working
                                   /\ worker[u].event = worker[w].event
                                     => worker[u].token # row[worker[w].event].token
  BY DEF IInv, Queue, RowsOK, WorkersOK, RowOK, WorkerOK, Rivals, Owns

-----------------------------------------------------------------------------
(* A dispatcher w puts its event down: its row is as before, or w owned it and
   releases it.  Mails and excuses may only be added for w's own event. *)
Finish(w) ==
    \/ row' = row
    \/ /\ worker[w].step \in Working /\ Owns(worker[w])
       /\ \E s \in {"delivered", "dead", "pending"}, m \in Moments :
            /\ row' = [row EXCEPT ![worker[w].event] = Released(row[worker[w].event], s, m)]
            /\ s = "dead" => worker[w].attempts = MaxAttempts
            /\ s = "pending" => worker[w].attempts < MaxAttempts

LEMMA FinishRows ==
    ASSUME IInv, NEW w \in Workers, Finish(w), retries' = retries
    PROVE  /\ row' \in [Events -> Row]
           /\ RowsOK'
           /\ \A e \in Events : /\ row'[e].claims = row[e].claims
                                /\ row'[e].attempts = row[e].attempts
                                /\ \/ row'[e] = row[e]
                                   \/ /\ row'[e].token = NoToken
                                      /\ Owns(worker[w]) /\ worker[w].step \in Working
                                      /\ worker[w].event = e
<1>0. Columns
  BY DEF IInv
<1>1. CASE row' = row
  BY <1>0, <1>1 DEF IInv, Queue, RowsOK, Columns
<1>2. CASE row' # row
  <2>1. worker[w].step \in Working /\ Owns(worker[w])
    BY <1>2 DEF Finish
  <2>2. PICK s \in {"delivered", "dead", "pending"}, m \in Moments :
            /\ row' = [row EXCEPT ![worker[w].event] = Released(row[worker[w].event], s, m)]
            /\ s = "dead" => worker[w].attempts = MaxAttempts
            /\ s = "pending" => worker[w].attempts < MaxAttempts
    BY <1>2 DEF Finish
  <2>3. PICK e \in Events : e = worker[w].event
    BY <2>1, OwnerIsKnown
  <2>4. row[e].attempts = worker[w].attempts /\ row[e] \in Row
    BY <1>0, <2>1, <2>3, OwnerIsKnown, RowColumns
  <2>5. Released(row[e], s, m) \in Row
    BY <2>4, ReleasedRow DEF Status
  <2>6. /\ row' \in [Events -> Row]
        /\ row'[e] = Released(row[e], s, m)
        /\ \A f \in Events : f # e => row'[f] = row[f]
    BY <1>0, <2>2, <2>3, <2>5, RowStep
  <2>7. /\ row'[e].status = s /\ row'[e].claims = row[e].claims
        /\ row'[e].attempts = row[e].attempts /\ row'[e].token = NoToken
    BY <2>6 DEF Released
  <2>8. RowOK(row'[e], retries[e])
    BY <2>2, <2>3, <2>4, <2>7 DEF RowOK, IInv, Queue, RowsOK
  <2>9. RowsOK'
    BY <2>6, <2>8 DEF IInv, Queue, RowsOK
  <2>10. QED
    BY <2>1, <2>3, <2>6, <2>7, <2>9
<1>3. QED
  BY <1>1, <1>2

LEMMA FinishQueue ==
    ASSUME IInv, NEW w \in Workers, Finish(w), Rest(w), retries' = retries,
           mailed' = mailed, \A e \in Events : excused[e] \subseteq excused'[e]
    PROVE  Queue' /\ row' \in [Events -> Row] /\ worker' \in [Workers -> Dispatcher]
<1>0. Columns
  BY DEF IInv
<1>1. /\ worker' \in [Workers -> Dispatcher]
      /\ worker'[w].step = "idle"
      /\ \A u \in Workers : u # w => worker'[u] = worker[u]
  BY <1>0, RestStep
<1>2. row' \in [Events -> Row] /\ RowsOK'
  BY FinishRows
<1>3. \A u \in Workers : WorkerOK(worker[u])'
  <2>1. SUFFICES ASSUME NEW u \in Workers, u # w, worker[u].step \in Working
                 PROVE  WorkerOK(worker[u])'
    BY <1>1 DEF WorkerOK, Working
  <2>2. worker'[u] = worker[u]
    BY <1>1, <2>1
  <2>3. PICK e \in Events : e = worker[u].event
    BY <2>1 DEF IInv, Queue, WorkersOK, WorkerOK
  <2>4. WorkerOK(worker[u])
    BY DEF IInv, Queue, WorkersOK
  <2>5. CASE row'[e] = row[e]
    BY <2>1, <2>2, <2>3, <2>4, <2>5 DEF WorkerOK
  <2>6. CASE row'[e] # row[e]
    <3>1. /\ row'[e].token = NoToken /\ row'[e].claims = row[e].claims
          /\ row[e].token # worker[u].token
      <4>1. Owns(worker[w]) /\ worker[w].step \in Working /\ worker[w].event = e
            /\ row'[e].token = NoToken /\ row'[e].claims = row[e].claims
        BY <2>6, FinishRows
      <4>2. QED
        BY <2>1, <2>3, <4>1, OwnerIsKnown
    <3>2. worker[u].token # NoToken
      BY <2>1, <2>4, <1>0, WorkerColumns DEF WorkerOK, NoToken
    <3>3. QED
      BY <2>1, <2>2, <2>3, <2>4, <3>1, <3>2 DEF WorkerOK
  <2>7. QED
    BY <2>5, <2>6
<1>4. \A u, v \in Workers : u # v => Rivals(worker[u], worker[v])'
  BY <1>1 DEF IInv, Queue, WorkersOK, Rivals, Working
<1>5. QED
  BY <1>1, <1>2, <1>3, <1>4 DEF Queue, WorkersOK

(* Mails are accounted for as long as receipts and rows only settle, nothing is
   mailed, and neither a sender appears nor a recorder goes. *)
LEMMA MailsKept ==
    ASSUME IInv, mailed' = mailed, \A e \in Events : excused[e] \subseteq excused'[e],
           \A e \in Events : /\ row'[e].claims \in Nat /\ row'[e].claims >= row[e].claims
                             /\ row'[e].status = "delivered" =>
                                  row[e].status = "delivered" \/ receipt'[e] \in {"sent", "skipped"}
                             /\ receipt[e] = "sent" => receipt'[e] = "sent"
                             /\ receipt'[e] = "sent" => receipt[e] = "sent"
                             /\ receipt[e] = "skipped" => receipt'[e] = "skipped",
           \A e \in Events, u \in Workers :
                /\ At(worker'[u], "send", e) /\ receipt[e] = "sent" =>
                     At(worker[u], "send", e) /\ worker'[u].token = worker[u].token
                /\ At(worker[u], "record", e) =>
                     \/ At(worker'[u], "record", e) /\ worker'[u].token = worker[u].token
                     \/ worker[u].token \in excused'[e]
    PROVE  Mails'
<1>1. \A e \in Events : \A c \in mailed'[e] : 1 <= c /\ c <= row'[e].claims
  <2>1. TAKE e \in Events
  <2>2. TAKE c \in mailed'[e]
  <2>3. row[e].claims \in Nat /\ c \in Nat
    BY RowColumns, Numbers DEF IInv, Columns, Tokens
  <2>4. 1 <= c /\ c <= row[e].claims
    BY DEF IInv, Mails, MailsOK
  <2>5. QED
    BY <2>3, <2>4
<1>2. \A e \in Events : \A c \in mailed'[e] \ excused'[e] : MailOK(e, c)'
  <2>1. TAKE e \in Events
  <2>2. TAKE c \in mailed'[e] \ excused'[e]
  <2>3. MailOK(e, c)
    BY DEF IInv, Mails, MailsOK
  <2>4. QED
    BY <2>3 DEF MailOK
<1>3. DeliveredIsAccounted'
  <2>1. DeliveredIsAccounted
    BY DEF IInv, Mails
  <2>2. \A e \in Events : row'[e].status = "delivered" => receipt'[e] \in {"sent", "skipped"}
    BY <2>1 DEF DeliveredIsAccounted
  <2>3. \A e \in Events : receipt'[e] = "sent" => mailed'[e] # {}
    BY <2>1 DEF DeliveredIsAccounted
  <2>4. QED
    BY <2>2, <2>3 DEF DeliveredIsAccounted
<1>4. DuplicatesAreExcused'
  BY DEF IInv, Mails, DuplicatesAreExcused
<1>5. QED
  BY <1>1, <1>2, <1>3, <1>4 DEF Mails, MailsOK

-----------------------------------------------------------------------------
(* A dispatcher w goes on with its event, and no lease changes hands. *)

SameLeases ==
    /\ row' \in [Events -> Row]
    /\ \A e \in Events : /\ row'[e].status = row[e].status /\ row'[e].token = row[e].token
                         /\ row'[e].claims = row[e].claims
                         /\ row'[e].attempts = row[e].attempts

LEMMA NoRowChanges ==
    ASSUME Columns, row' = row
    PROVE  SameLeases
  BY DEF Columns, SameLeases

LEMMA SameRows ==
    ASSUME IInv, SameLeases, retries' = retries
    PROVE  RowsOK'
  BY DEF IInv, Queue, RowsOK, RowOK, SameLeases

(* What a dispatcher believes of its event stays true while its lease is as it was. *)
LEMMA SameWorker ==
    ASSUME IInv, SameLeases, NEW u \in Workers,
           \A e \in Events : mailed[e] \subseteq mailed'[e] /\ excused[e] \subseteq excused'[e],
           worker'[u].step \in Working => /\ worker[u].step \in Working
                                          /\ worker'[u].event = worker[u].event
                                          /\ worker'[u].token = worker[u].token
                                          /\ worker'[u].attempts = worker[u].attempts,
           worker'[u].step = "record" => worker'[u].token \in mailed'[worker'[u].event],
           worker'[u].step \in Sending => \/ worker[u].step \in Sending
                                          \/ row[worker[u].event].token = worker[u].token
    PROVE  WorkerOK(worker[u])'
<1>1. SUFFICES ASSUME worker'[u].step \in Working PROVE WorkerOK(worker[u])'
  BY DEF WorkerOK
<1>2. WorkerOK(worker[u])
  BY DEF IInv, Queue, WorkersOK
<1>3. PICK e \in Events : e = worker[u].event
  BY <1>1, <1>2 DEF WorkerOK
<1>4. QED
  BY <1>1, <1>2, <1>3 DEF WorkerOK, SameLeases, Working, Sending

LEMMA GoQueue ==
    ASSUME IInv, SameLeases, retries' = retries, NEW w \in Workers, NEW q \in Dispatcher,
           worker' = [worker EXCEPT ![w] = q],
           worker[w].step \in Working, q.event = worker[w].event, q.token = worker[w].token,
           q.attempts = worker[w].attempts,
           \A e \in Events : mailed[e] \subseteq mailed'[e] /\ excused[e] \subseteq excused'[e],
           q.step = "record" => q.token \in mailed'[q.event],
           q.step \in Sending => \/ worker[w].step \in Sending
                                 \/ row[worker[w].event].token = worker[w].token
    PROVE  Queue' /\ worker' \in [Workers -> Dispatcher]
<1>0. Columns
  BY DEF IInv
<1>1. /\ worker' \in [Workers -> Dispatcher]
      /\ worker'[w] = q
      /\ \A u \in Workers : u # w => worker'[u] = worker[u]
  BY <1>0, WorkerStep
<1>2. RowsOK'
  BY SameRows
<1>3. \A u \in Workers : WorkerOK(worker[u])'
  <2>1. TAKE u \in Workers
  <2>2. CASE u = w
    BY <1>1, <2>2, SameWorker
  <2>3. CASE u # w
    <3>1. worker'[u] = worker[u]
      BY <1>1, <2>3
    <3>2. WorkerOK(worker[u])
      BY DEF IInv, Queue, WorkersOK
    <3>3. worker'[u].step = "record" => worker'[u].token \in mailed'[worker'[u].event]
      BY <3>1, <3>2 DEF WorkerOK, Working
    <3>4. QED
      BY <3>1, <3>3, SameWorker
  <2>4. QED
    BY <2>2, <2>3
<1>4. \A u, v \in Workers : u # v => Rivals(worker[u], worker[v])'
  BY <1>1 DEF IInv, Queue, WorkersOK, Rivals
<1>5. QED
  BY <1>1, <1>2, <1>3, <1>4 DEF Queue, WorkersOK

-----------------------------------------------------------------------------
(* Each action preserves the invariant. *)

LEMMA InitIInv == Init => IInv
<1> SUFFICES ASSUME Init PROVE IInv
  OBVIOUS
<1>1. Columns
  <2>1. AbsentRow \in Row
    BY Numbers DEF AbsentRow, Row, Status, Tokens, NoToken, Moments
  <2>2. Idle \in Dispatcher
    BY Numbers DEF Idle, Dispatcher, Steps, Tokens, NoToken, Ages
  <2>3. QED
    BY <2>1, <2>2, Numbers DEF Init, Columns, Receipts
<1>2. RowsOK
  BY Numbers DEF Init, RowsOK, RowOK, AbsentRow, NoToken
<1>3. WorkersOK
  BY DEF Init, WorkersOK, WorkerOK, Rivals, Idle, Working
<1>4. Mails
  BY DEF Init, Mails, MailsOK, DeliveredIsAccounted, DuplicatesAreExcused, AbsentRow
<1>5. QED
  BY <1>1, <1>2, <1>3, <1>4 DEF IInv, Queue

LEMMA OpenStep ==
    ASSUME IInv, NEW w \in Workers, Open(w)
    PROVE  IInv'
<1> DEFINE e == worker[w].event
<1>0. Columns
  BY DEF IInv
<1>1. worker[w].step = "open" /\ worker[w].step \in Working /\ e \in Events
  BY DEF Open, Working, IInv, Queue, WorkersOK, WorkerOK
<1>2. UNCHANGED <<moot, retries, crashes, mailed, excused>>
  BY DEF Open
<1>3. CASE /\ receipt[e] \in {"sent", "skipped"} \/ e \in moot
           /\ receipt' = [receipt EXCEPT ![e] = IF @ \in {"sent", "skipped"} THEN @ ELSE "skipped"]
           /\ row' = Acknowledged(worker[w])
           /\ Rest(w)
  <2>1. Finish(w)
    <3>1. 0 \in Moments
      BY Numbers DEF Moments
    <3>2. QED
      BY <1>1, <1>3, <3>1 DEF Finish, Acknowledged
  <2>2. Queue' /\ row' \in [Events -> Row] /\ worker' \in [Workers -> Dispatcher]
    BY <1>2, <1>3, <2>1, FinishQueue
  <2>3. /\ receipt' \in [Events -> Receipts]
        /\ receipt'[e] \in {"sent", "skipped"}
        /\ \A f \in Events : /\ receipt[f] = "sent" <=> receipt'[f] = "sent"
                             /\ receipt[f] = "skipped" => receipt'[f] = "skipped"
    BY <1>0, <1>1, <1>3 DEF Columns, Receipts
  <2>4. Columns'
    BY <1>0, <1>2, <2>2, <2>3 DEF Columns
  <2>5. \A f \in Events : /\ row'[f].claims \in Nat /\ row'[f].claims >= row[f].claims
                          /\ row'[f].status = "delivered" =>
                               row[f].status = "delivered" \/ receipt'[f] \in {"sent", "skipped"}
    <3>1. TAKE f \in Events
    <3>2. row'[f].claims = row[f].claims /\ row[f].claims \in Nat
      BY <1>0, <1>2, <2>1, FinishRows, RowColumns
    <3>3. row'[f] = row[f] \/ f = e
      BY <1>2, <2>1, FinishRows
    <3>4. QED
      BY <2>3, <3>2, <3>3
  <2>6. Mails'
    <3>1. \A u \in Workers : u # w => worker'[u] = worker[u]
      BY <1>0, <1>3, RestStep
    <3>2. worker'[w].step = "idle"
      BY <1>0, <1>3, RestStep
    <3>3. \A f \in Events, u \in Workers :
            /\ At(worker'[u], "send", f) => At(worker[u], "send", f) /\ worker'[u].token = worker[u].token
            /\ At(worker[u], "record", f) => At(worker'[u], "record", f) /\ worker'[u].token = worker[u].token
      BY <1>1, <3>1, <3>2 DEF At
    <3>4. QED
      BY <1>2, <2>3, <2>5, <3>3, MailsKept
  <2>7. QED
    BY <2>2, <2>4, <2>6 DEF IInv
<1>4. CASE /\ receipt[e] \in {"none", "pending"} /\ e \notin moot
           /\ receipt' = [receipt EXCEPT ![e] = "pending"]
           /\ worker' = [worker EXCEPT ![w] = [worker[w] EXCEPT !.step = "send", !.age = 0]]
           /\ UNCHANGED row
  <2> DEFINE q == [worker[w] EXCEPT !.step = "send", !.age = 0]
  <2>1. q \in Dispatcher /\ q.step = "send" /\ q.event = worker[w].event
        /\ q.token = worker[w].token /\ q.attempts = worker[w].attempts
    <3>1. [worker[w] EXCEPT !.step = "send"] \in Dispatcher
      BY <1>0, WorkerColumns DEF Dispatcher, Steps
    <3>2. q = [[worker[w] EXCEPT !.step = "send"] EXCEPT !.age = 0]
      BY <1>0, WorkerColumns DEF Dispatcher
    <3>3. 0 \in Ages
      BY Numbers DEF Ages
    <3>4. q \in Dispatcher
      BY <3>1, <3>2, <3>3 DEF Dispatcher
    <3>5. QED
      BY <1>0, <3>4, WorkerColumns DEF Dispatcher
  <2>2. SameLeases
    BY <1>0, <1>4, NoRowChanges
  <2> HIDE DEF q
  <2>3. worker' = [worker EXCEPT ![w] = q]
    BY <1>4 DEF q
  <2>4. Queue' /\ worker' \in [Workers -> Dispatcher]
    BY <1>1, <1>2, <2>1, <2>2, <2>3, GoQueue DEF Sending
  <2>5. /\ receipt' \in [Events -> Receipts]
        /\ receipt[e] # "sent" /\ receipt'[e] # "sent" /\ receipt[e] # "skipped"
        /\ \A f \in Events : f # e => receipt'[f] = receipt[f]
    BY <1>0, <1>1, <1>4 DEF Columns, Receipts
  <2>6. Columns'
    BY <1>0, <1>2, <1>4, <2>4, <2>5 DEF Columns
  <2>7. \A f \in Events : row'[f].claims \in Nat /\ row'[f] = row[f]
    BY <1>0, <1>4, RowColumns
  <2>8. \A f \in Events, u \in Workers :
            /\ At(worker'[u], "send", f) /\ receipt[f] = "sent" =>
                 At(worker[u], "send", f) /\ worker'[u].token = worker[u].token
            /\ At(worker[u], "record", f) => At(worker'[u], "record", f) /\ worker'[u].token = worker[u].token
    <3>1. worker'[w] = q /\ \A u \in Workers : u # w => worker'[u] = worker[u]
      BY <1>0, <2>1, <2>3, WorkerStep
    <3>2. QED
      BY <1>1, <2>1, <2>5, <3>1 DEF At
  <2>9. Mails'
    BY <1>2, <2>5, <2>7, <2>8, MailsKept
  <2>10. QED
    BY <2>4, <2>6, <2>9 DEF IInv
<1>5. QED
  BY <1>3, <1>4 DEF Open

(* Whatever happens to the rows that are not under a lease, and whatever leases
   end with an excuse, the dispatchers stay right. *)
LEMMA WorkersKept ==
    ASSUME IInv, mailed' = mailed, \A e \in Events : excused[e] \subseteq excused'[e],
           \A u \in Workers : worker'[u].step \in Working =>
                /\ worker'[u].step = worker[u].step /\ worker'[u].event = worker[u].event
                /\ worker'[u].token = worker[u].token /\ worker'[u].attempts = worker[u].attempts,
           \A e \in Events :
                /\ row'[e].claims = row[e].claims
                /\ \/ row'[e].token = row[e].token /\ row'[e].attempts = row[e].attempts
                   \/ row'[e].token = NoToken /\ row[e].token = NoToken
                   \/ /\ row'[e].token = NoToken
                      /\ \A u \in Workers :
                            worker[u].event = e /\ worker[u].step \in Sending
                              /\ worker[u].token = row[e].token => worker[u].token \in excused'[e]
    PROVE  WorkersOK'
<1>0. Columns
  BY DEF IInv
<1>1. \A u \in Workers : WorkerOK(worker[u])'
  <2>1. SUFFICES ASSUME NEW u \in Workers, worker'[u].step \in Working
                 PROVE  WorkerOK(worker[u])'
    BY DEF WorkerOK
  <2>2. WorkerOK(worker[u]) /\ worker[u].step \in Working
    BY <2>1 DEF IInv, Queue, WorkersOK
  <2>3. PICK e \in Events : e = worker[u].event
    BY <2>2 DEF WorkerOK
  <2>4. worker[u].token # NoToken
    BY <1>0, <2>2, WorkerColumns DEF WorkerOK, NoToken
  <2>5. QED
    BY <2>1, <2>2, <2>3, <2>4 DEF WorkerOK
<1>2. \A u, v \in Workers : u # v => Rivals(worker[u], worker[v])'
  BY DEF IInv, Queue, WorkersOK, Rivals
<1>3. QED
  BY <1>1, <1>2 DEF WorkersOK

LEMMA AppendStep ==
    ASSUME IInv, NEW e \in Events, AppendEvent(e)
    PROVE  IInv'
<1> DEFINE r == [row[e] EXCEPT !.status = "pending"]
<1>0. Columns
  BY DEF IInv
<1>1. /\ row[e].status = "absent" /\ row' = [row EXCEPT ![e] = r]
      /\ UNCHANGED <<receipt, moot, worker, retries, crashes, mailed, excused>>
  BY <1>0 DEF AppendEvent, Columns
<1>2. /\ r \in Row /\ r.status = "pending" /\ r.token = row[e].token
      /\ r.claims = row[e].claims /\ r.attempts = row[e].attempts
  BY <1>0, RowColumns DEF Row, Status
<1> HIDE DEF r
<1>3. row' \in [Events -> Row] /\ row'[e] = r /\ \A f \in Events : f # e => row'[f] = row[f]
  BY <1>0, <1>1, <1>2, RowStep
<1>4. RowOK(r, retries[e])
  BY <1>1, <1>2, Numbers DEF IInv, Queue, RowsOK, RowOK
<1>5. RowsOK'
  BY <1>1, <1>3, <1>4 DEF IInv, Queue, RowsOK
<1>6. WorkersOK'
  BY <1>1, <1>2, <1>3, WorkersKept
<1>7. Mails'
  <2>1. \A f \in Events : /\ row'[f].claims \in Nat /\ row'[f].claims = row[f].claims
                          /\ row'[f].status = "delivered" => row[f].status = "delivered"
    BY <1>0, <1>2, <1>3, RowColumns
  <2>2. QED
    BY <1>1, <2>1, MailsKept
<1>8. Columns'
  BY <1>0, <1>1, <1>3 DEF Columns
<1>9. QED
  BY <1>5, <1>6, <1>7, <1>8 DEF IInv, Queue

LEMMA MootStep ==
    ASSUME IInv, NEW e \in Events, BecomesMoot(e)
    PROVE  IInv'
<1>0. Columns
  BY DEF IInv
<1>1. UNCHANGED <<row, receipt, worker, retries, crashes, mailed, excused>> /\ moot' \subseteq Events
  BY <1>0 DEF BecomesMoot, Columns
<1>2. RowsOK' /\ WorkersOK'
  BY <1>1, WorkersKept DEF IInv, Queue, RowsOK
<1>3. Mails'
  BY <1>0, <1>1, MailsKept, RowColumns
<1>4. Columns'
  BY <1>0, <1>1 DEF Columns
<1>5. QED
  BY <1>2, <1>3, <1>4 DEF IInv, Queue

LEMMA RetryStep ==
    ASSUME IInv, NEW e \in Events, RetryEvent(e)
    PROVE  IInv'
<1> DEFINE r == [Released(row[e], "pending", 0) EXCEPT !.attempts = 0]
<1>0. Columns
  BY DEF IInv
<1>1. /\ row[e].status = "dead" /\ retries[e] < MaxRetries /\ row' = [row EXCEPT ![e] = r]
      /\ retries' = [retries EXCEPT ![e] = retries[e] + 1]
      /\ UNCHANGED <<receipt, moot, worker, crashes, mailed, excused>>
  BY DEF RetryEvent
<1>2. /\ r \in Row /\ r.status = "pending" /\ r.token = NoToken
      /\ r.claims = row[e].claims /\ r.attempts = 0
  <2>1. 0 \in Moments /\ 0 \in 0..MaxAttempts
    BY Numbers DEF Moments
  <2>2. Released(row[e], "pending", 0) \in Row
    BY <1>0, <2>1, RowColumns, ReleasedRow DEF Status
  <2>3. r \in Row
    BY <2>1, <2>2 DEF Row
  <2>4. QED
    BY <2>3 DEF Released
<1> HIDE DEF r
<1>3. row' \in [Events -> Row] /\ row'[e] = r /\ \A f \in Events : f # e => row'[f] = row[f]
  BY <1>0, <1>1, <1>2, RowStep
<1>4. /\ retries' \in [Events -> 0..MaxRetries] /\ retries'[e] = retries[e] + 1
      /\ \A f \in Events : f # e => retries'[f] = retries[f]
  <2>1. retries[e] + 1 \in 0..MaxRetries
    BY <1>0, <1>1, Numbers DEF Columns
  <2>2. QED
    BY <1>0, <1>1, <2>1 DEF Columns
<1>5. RowOK(r, retries'[e])
  <2>1. row[e].claims <= MaxAttempts * retries[e] + MaxAttempts /\ row[e].claims \in Nat
        /\ retries[e] \in Nat
    BY <1>0, <1>1, RowColumns, Numbers DEF IInv, Queue, RowsOK, RowOK, Columns
  <2>2. row[e].claims <= MaxAttempts * (retries[e] + 1) + 0
    BY <2>1, RetryPays
  <2>3. QED
    BY <1>2, <1>4, <2>2, Numbers DEF RowOK, NoToken
<1>6. RowsOK'
  BY <1>3, <1>4, <1>5 DEF IInv, Queue, RowsOK
<1>7. row[e].token = NoToken
  BY <1>1 DEF IInv, Queue, RowsOK, RowOK
<1>8. WorkersOK'
  BY <1>1, <1>2, <1>3, <1>7, WorkersKept
<1>9. Mails'
  <2>1. \A f \in Events : /\ row'[f].claims \in Nat /\ row'[f].claims = row[f].claims
                          /\ row'[f].status = "delivered" => row[f].status = "delivered"
    BY <1>0, <1>2, <1>3, RowColumns
  <2>2. QED
    BY <1>1, <2>1, MailsKept
<1>10. Columns'
  BY <1>0, <1>1, <1>3, <1>4 DEF Columns
<1>11. QED
  BY <1>6, <1>8, <1>9, <1>10 DEF IInv, Queue

LEMMA WakeStep ==
    ASSUME IInv, NEW w \in Workers, Wake(w) \/ NothingDue(w)
    PROVE  IInv'
<1>0. Columns
  BY DEF IInv
<1>1. /\ worker[w].step \in {"idle", "claim"}
      /\ Go(w, "recover") \/ Rest(w)
      /\ UNCHANGED <<row, receipt, moot, retries, crashes, mailed, excused>>
  BY DEF Wake, NothingDue
<1>2. /\ worker' \in [Workers -> Dispatcher] /\ worker'[w].step \in {"recover", "idle"}
      /\ \A u \in Workers : u # w => worker'[u] = worker[u]
  BY <1>0, <1>1, GoStep, RestStep DEF Steps
<1>3. WorkersOK'
  <2>1. \A u \in Workers : worker'[u].step \in Working => worker'[u] = worker[u]
    BY <1>2 DEF Working
  <2>2. QED
    BY <1>1, <2>1, WorkersKept
<1>4. Mails'
  <2>1. \A u \in Workers, e \in Events :
            /\ At(worker'[u], "send", e) => worker'[u] = worker[u]
            /\ At(worker[u], "record", e) => worker'[u] = worker[u]
    BY <1>1, <1>2 DEF At
  <2>2. QED
    BY <1>0, <1>1, <2>1, MailsKept, RowColumns
<1>5. Columns' /\ RowsOK'
  BY <1>0, <1>1, <1>2 DEF Columns, IInv, Queue, RowsOK
<1>6. QED
  BY <1>3, <1>4, <1>5 DEF IInv, Queue

LEMMA RecoverStep ==
    ASSUME IInv, NEW w \in Workers, Recover(w)
    PROVE  IInv'
<1> DEFINE age == worker[w].age
           stale == {e \in Events : Expired(row[e], age)}
<1>0. Columns
  BY DEF IInv
<1>1. /\ worker[w].step = "recover"
      /\ row' = [e \in Events |-> IF e \in stale THEN Recovered(row[e], age) ELSE row[e]]
      /\ excused' = [e \in Events |-> IF e \in stale THEN excused[e] \cup Overtaken(e) ELSE excused[e]]
      /\ Go(w, "claim") \/ Rest(w)
      /\ UNCHANGED <<receipt, moot, retries, crashes, mailed>>
  BY DEF Recover
<1>2. age \in 0..Memory
  BY <1>0, WorkerColumns
<1>3. \A e \in Events :
        /\ row'[e] \in Row /\ row'[e].claims = row[e].claims /\ row'[e].attempts = row[e].attempts
        /\ \/ row'[e] = row[e]
           \/ /\ e \in stale /\ row[e].until <= 0
              /\ row'[e].token = NoToken
              /\ \/ row'[e].status = "dead" /\ row[e].attempts >= MaxAttempts
                 \/ row'[e].status = "pending" /\ ~(row[e].attempts >= MaxAttempts)
  <2>1. TAKE e \in Events
  <2>2. CASE e \notin stale
    BY <1>0, <1>1, <2>2, RowColumns
  <2>3. CASE e \in stale
    <3>1. row[e].until <= 0
      BY <1>0, <1>2, <2>3, RowColumns, Numbers DEF Expired, Moments
    <3>2. row'[e] = Recovered(row[e], age)
      BY <1>1, <2>3
    <3>3. -age \in Moments
      BY <1>2, Numbers DEF Moments
    <3>4. CASE row[e].attempts >= MaxAttempts
      <4>1. row'[e] = Released(row[e], "dead", row[e].available)
        BY <3>2, <3>4 DEF Recovered
      <4>2. row'[e] \in Row
        BY <1>0, <4>1, RowColumns, ReleasedRow DEF Status
      <4>3. QED
        BY <2>3, <3>1, <3>4, <4>1, <4>2 DEF Released
    <3>5. CASE ~(row[e].attempts >= MaxAttempts)
      <4>1. row'[e] = Released(row[e], "pending", -age)
        BY <3>2, <3>5 DEF Recovered
      <4>2. row'[e] \in Row
        BY <1>0, <3>3, <4>1, RowColumns, ReleasedRow DEF Status
      <4>3. QED
        BY <2>3, <3>1, <3>5, <4>1, <4>2 DEF Released
    <3>6. QED
      BY <3>4, <3>5
  <2>4. QED
    BY <2>2, <2>3
<1>4. row' \in [Events -> Row]
  BY <1>1, <1>3
<1>5. excused' \in [Events -> SUBSET Tokens] /\ \A e \in Events : excused[e] \subseteq excused'[e]
  <2>1. \A e \in Events : Overtaken(e) \subseteq Tokens
    BY <1>0, RowColumns DEF Overtaken
  <2>2. QED
    BY <1>0, <1>1, <2>1 DEF Columns
<1>6. RowsOK'
  <2>1. \A e \in Events : RowOK(row[e], retries[e])
    BY DEF IInv, Queue, RowsOK
  <2>2. \A e \in Events : RowOK(row'[e], retries[e])
    BY <1>0, <1>3, <2>1, RowColumns, Numbers DEF RowOK
  <2>3. QED
    BY <1>1, <2>2 DEF RowsOK
<1>7. /\ worker' \in [Workers -> Dispatcher] /\ worker'[w].step \in {"claim", "idle"}
      /\ \A u \in Workers : u # w => worker'[u] = worker[u]
  BY <1>0, <1>1, GoStep, RestStep DEF Steps
<1>8. WorkersOK'
  <2>1. \A u \in Workers : worker'[u].step \in Working => worker'[u] = worker[u]
    BY <1>7 DEF Working
  <2>2. \A e \in Events :
            row'[e] = row[e] \/
              /\ row'[e].token = NoToken
              /\ \A u \in Workers :
                    worker[u].event = e /\ worker[u].step \in Sending
                      /\ worker[u].token = row[e].token => worker[u].token \in excused'[e]
    <3>1. SUFFICES ASSUME NEW e \in Events, e \in stale, row[e].until <= 0, NEW u \in Workers,
                          worker[u].event = e, worker[u].step \in Sending,
                          worker[u].token = row[e].token
                   PROVE  worker[u].token \in excused'[e]
      BY <1>3
    <3>2. worker[u].token \in Overtaken(e)
      BY <3>1 DEF Overtaken, Sending
    <3>3. QED
      BY <1>1, <3>1, <3>2
  <2>3. QED
    BY <1>1, <1>3, <1>5, <2>1, <2>2, WorkersKept
<1>9. Mails'
  <2>1. \A u \in Workers, e \in Events :
            /\ At(worker'[u], "send", e) => worker'[u] = worker[u]
            /\ At(worker[u], "record", e) => worker'[u] = worker[u]
    BY <1>1, <1>7 DEF At
  <2>2. \A e \in Events : /\ row'[e].claims \in Nat /\ row'[e].claims = row[e].claims
                          /\ row'[e].status = "delivered" => row[e].status = "delivered"
    BY <1>0, <1>3, RowColumns
  <2>3. QED
    BY <1>1, <1>5, <2>1, <2>2, MailsKept
<1>10. Columns'
  BY <1>0, <1>1, <1>4, <1>5, <1>7 DEF Columns
<1>11. QED
  BY <1>6, <1>8, <1>9, <1>10 DEF IInv, Queue

LEMMA ClaimStep ==
    ASSUME IInv, NEW w \in Workers, Claim(w)
    PROVE  IInv'
<1>0. Columns
  BY DEF IInv
<1>1. PICK e \in Due(worker[w].age) :
         LET token == row[e].claims + 1
             attempts == row[e].attempts + 1
         IN  /\ row' = [row EXCEPT ![e] = [status |-> "processing", attempts |-> attempts,
                                           token |-> token, claims |-> token,
                                           until |-> AtLeast(Lease - worker[w].age),
                                           available |-> row[e].available]]
             /\ worker' = [worker EXCEPT ![w] = [step |-> "renew", event |-> e, token |-> token,
                                                 attempts |-> attempts, age |-> 0]]
  BY DEF Claim
<1> DEFINE r == [status |-> "processing", attempts |-> row[e].attempts + 1,
                 token |-> row[e].claims + 1, claims |-> row[e].claims + 1,
                 until |-> AtLeast(Lease - worker[w].age), available |-> row[e].available]
           q == [step |-> "renew", event |-> e, token |-> row[e].claims + 1,
                 attempts |-> row[e].attempts + 1, age |-> 0]
<1>2. /\ worker[w].step = "claim" /\ e \in Events /\ row[e].status = "pending"
      /\ UNCHANGED <<receipt, moot, retries, crashes, mailed, excused>>
  BY DEF Claim, Due
<1>3. /\ row[e].attempts < MaxAttempts /\ row[e].token = NoToken
      /\ row[e].claims <= MaxAttempts * retries[e] + row[e].attempts
  BY <1>2 DEF IInv, Queue, RowsOK, RowOK
<1>4. row[e].attempts + 1 \in 0..MaxAttempts /\ row[e].claims + 1 \in Tokens
      /\ row[e].claims + 1 <= MaxAttempts * retries[e] + (row[e].attempts + 1)
  <2>1. /\ retries[e] \in 0..MaxRetries /\ retries[e] \in Nat
        /\ row[e].claims \in Nat /\ row[e].attempts \in Nat
    BY <1>0, <1>2, RowColumns, Numbers DEF Columns
  <2>2. row[e].attempts + 1 \in 0..MaxAttempts
    BY <1>3, <2>1, Numbers
  <2>3. row[e].claims + 1 <= MaxAttempts * retries[e] + (row[e].attempts + 1)
    <3> DEFINE p == MaxAttempts * retries[e]
    <3>1. p \in Nat /\ row[e].claims <= p + row[e].attempts
      BY <1>3, <2>1, Numbers
    <3> HIDE DEF p
    <3>2. row[e].claims + 1 <= p + (row[e].attempts + 1)
      BY <2>1, <3>1
    <3>3. QED
      BY <3>2 DEF p
  <2>4. row[e].claims + 1 \in Nat
    BY <2>1
  <2>5. QED
    BY <2>1, <2>2, <2>3, <2>4, PaidClaims
<1>5. r \in Row
  <2>1. AtLeast(Lease - worker[w].age) \in Moments
    <3>1. Lease - worker[w].age \in Int /\ Lease - worker[w].age <= MaxDelay + Lease + Jitter
      BY <1>0, WorkerColumns, Numbers
    <3>2. QED
      BY <3>1, Clamped
  <2>2. QED
    BY <1>0, <1>2, <1>4, <2>1, RowColumns DEF Row, Status
<1>6. q \in Dispatcher
  BY <1>2, <1>4, Numbers DEF Dispatcher, Steps, Ages
<1>7. /\ row' \in [Events -> Row] /\ row'[e] = r
      /\ \A f \in Events : f # e => row'[f] = row[f]
  <2>1. row' = [row EXCEPT ![e] = r]
    BY <1>1
  <2> HIDE DEF r
  <2>2. QED
    BY <1>0, <1>2, <1>5, <2>1, RowStep
<1>8. /\ worker' \in [Workers -> Dispatcher] /\ worker'[w] = q
      /\ \A u \in Workers : u # w => worker'[u] = worker[u]
  <2>1. worker' = [worker EXCEPT ![w] = q]
    BY <1>1
  <2> HIDE DEF q
  <2>2. QED
    BY <1>0, <1>6, <2>1, WorkerStep
<1>9. /\ row[e].claims \in Nat /\ row'[e].claims = row[e].claims + 1
      /\ row'[e].token = row[e].claims + 1 /\ row'[e].attempts = row[e].attempts + 1
      /\ row'[e].status = "processing"
      /\ worker'[w].step = "renew" /\ worker'[w].event = e
      /\ worker'[w].token = row[e].claims + 1 /\ worker'[w].attempts = row[e].attempts + 1
  BY <1>0, <1>2, <1>7, <1>8, RowColumns
<1>10. RowsOK'
  <2>1. RowOK(row'[e], retries[e])
    BY <1>4, <1>9 DEF RowOK, NoToken
  <2>2. QED
    BY <1>2, <1>7, <2>1 DEF IInv, Queue, RowsOK
<1>11. \A u \in Workers : WorkerOK(worker[u])'
  <2>1. TAKE u \in Workers
  <2>2. CASE u = w
    BY <1>2, <1>9, <2>2 DEF WorkerOK, Sending
  <2>3. CASE u # w
    <3>1. SUFFICES ASSUME worker[u].step \in Working PROVE WorkerOK(worker[u])'
      BY <1>8, <2>3 DEF WorkerOK
    <3>2. WorkerOK(worker[u])
      BY DEF IInv, Queue, WorkersOK
    <3>3. PICK f \in Events : f = worker[u].event
      BY <3>1, <3>2 DEF WorkerOK
    <3>4. CASE f # e
      BY <1>2, <1>7, <1>8, <2>3, <3>1, <3>2, <3>3, <3>4 DEF WorkerOK
    <3>5. CASE f = e
      <4>1. 1 <= worker[u].token /\ worker[u].token <= row[e].claims /\ worker[u].token \in Int
        BY <1>0, <3>1, <3>2, <3>3, <3>5, WorkerColumns DEF WorkerOK
      <4>2. worker[u].token # row[e].token /\ worker[u].token # row'[e].token
            /\ worker[u].token <= row'[e].claims
        BY <1>3, <1>9, <4>1 DEF NoToken
      <4>3. QED
        BY <1>2, <1>8, <2>3, <3>1, <3>2, <3>3, <3>5, <4>1, <4>2 DEF WorkerOK
    <3>6. QED
      BY <3>4, <3>5
  <2>4. QED
    BY <2>2, <2>3
<1>12. \A u, v \in Workers : u # v => Rivals(worker[u], worker[v])'
  <2>1. \A u \in Workers : u # w /\ worker[u].step \in Working /\ worker[u].event = e
            => worker[u].token # row[e].claims + 1
    <3>1. SUFFICES ASSUME NEW u \in Workers, worker[u].step \in Working, worker[u].event = e
                   PROVE  worker[u].token # row[e].claims + 1
      OBVIOUS
    <3>2. worker[u].token <= row[e].claims
      BY <3>1 DEF IInv, Queue, WorkersOK, WorkerOK
    <3>3. QED
      BY <1>0, <1>9, <3>2, WorkerColumns
  <2>2. QED
    BY <1>8, <1>9, <2>1 DEF IInv, Queue, WorkersOK, Rivals
<1>13. Mails'
  <2>1. \A u \in Workers, f \in Events :
            /\ At(worker'[u], "send", f) => worker'[u] = worker[u]
            /\ At(worker[u], "record", f) => worker'[u] = worker[u]
    BY <1>2, <1>8, <1>9 DEF At
  <2>2. \A f \in Events : /\ row'[f].claims \in Nat /\ row'[f].claims >= row[f].claims
                          /\ row'[f].status = "delivered" => row[f].status = "delivered"
    BY <1>0, <1>7, <1>9, RowColumns
  <2>3. QED
    BY <1>2, <2>1, <2>2, MailsKept
<1>14. Columns'
  BY <1>0, <1>2, <1>7, <1>8 DEF Columns
<1>15. QED
  BY <1>10, <1>11, <1>12, <1>13, <1>14 DEF IInv, Queue, WorkersOK

LEMMA RenewStep ==
    ASSUME IInv, NEW w \in Workers, Renew(w)
    PROVE  IInv'
<1> DEFINE e == worker[w].event
<1>0. Columns
  BY DEF IInv
<1>1. /\ worker[w].step = "renew" /\ worker[w].step \in Working /\ e \in Events
      /\ UNCHANGED <<receipt, moot, retries, crashes, mailed, excused>>
  BY DEF Renew, Working, IInv, Queue, WorkersOK, WorkerOK
<1>2. /\ SameLeases
      /\ \/ Owns(worker[w]) /\ Go(w, "open")
         \/ Rest(w) /\ row' = row
  <2>1. CASE Owns(worker[w]) /\ Go(w, "open")
             /\ \E a \in 0..worker[w].age : row' = [row EXCEPT ![e].until = AtLeast(Lease - a)]
    <3>1. PICK a \in 0..worker[w].age : row' = [row EXCEPT ![e].until = AtLeast(Lease - a)]
      BY <2>1
    <3>2. Lease - a \in Int /\ Lease - a <= MaxDelay + Lease + Jitter
      BY <1>0, WorkerColumns, Numbers
    <3>3. AtLeast(Lease - a) \in Moments
      BY <3>2, Clamped
    <3>4. [row[e] EXCEPT !.until = AtLeast(Lease - a)] \in Row
      BY <1>0, <1>1, <3>3, RowColumns DEF Row
    <3>5. row' = [row EXCEPT ![e] = [row[e] EXCEPT !.until = AtLeast(Lease - a)]]
      BY <1>0, <1>1, <3>1 DEF Columns
    <3>6. /\ row' \in [Events -> Row] /\ row'[e] = [row[e] EXCEPT !.until = AtLeast(Lease - a)]
          /\ \A f \in Events : f # e => row'[f] = row[f]
      BY <1>0, <1>1, <3>4, <3>5, RowStep
    <3>7. SameLeases
      BY <1>0, <1>1, <3>6, RowColumns DEF SameLeases, Row
    <3>8. QED
      BY <2>1, <3>7
  <2>2. CASE Rest(w) /\ UNCHANGED row
    BY <1>0, <2>2, NoRowChanges
  <2>3. QED
    BY <2>1, <2>2 DEF Renew
<1>3. Queue' /\ row' \in [Events -> Row] /\ worker' \in [Workers -> Dispatcher]
  <2>1. CASE Owns(worker[w]) /\ Go(w, "open")
    <3> DEFINE q == [worker[w] EXCEPT !.step = "open"]
    <3>1. /\ q \in Dispatcher /\ q.step = "open" /\ q.event = worker[w].event
          /\ q.token = worker[w].token /\ q.attempts = worker[w].attempts
      BY <1>0, WorkerColumns DEF Dispatcher, Steps
    <3>2. worker' = [worker EXCEPT ![w] = q]
      BY <1>0, <2>1 DEF Go, Columns
    <3> HIDE DEF q
    <3>3. row[worker[w].event].token = worker[w].token
      BY <2>1 DEF Owns
    <3>4. QED
      BY <1>1, <1>2, <3>1, <3>2, <3>3, GoQueue DEF SameLeases
  <2>2. CASE Rest(w) /\ row' = row
    BY <1>1, <2>2, FinishQueue DEF Finish
  <2>3. QED
    BY <1>2, <2>1, <2>2
<1>4. /\ worker'[w].step \in {"open", "idle"}
      /\ \A u \in Workers : u # w => worker'[u] = worker[u]
  BY <1>0, <1>2, GoStep, RestStep DEF Steps
<1>5. Mails'
  <2>1. \A u \in Workers, f \in Events :
            /\ At(worker'[u], "send", f) => worker'[u] = worker[u]
            /\ At(worker[u], "record", f) => worker'[u] = worker[u]
    BY <1>1, <1>4 DEF At
  <2>2. \A f \in Events : /\ row'[f].claims \in Nat /\ row'[f].claims = row[f].claims
                          /\ row'[f].status = row[f].status
    BY <1>0, <1>2, RowColumns DEF SameLeases
  <2>3. QED
    BY <1>1, <2>1, <2>2, MailsKept
<1>6. Columns'
  BY <1>0, <1>1, <1>3 DEF Columns
<1>7. QED
  BY <1>3, <1>5, <1>6 DEF IInv

(* The dispatcher that is about to send or to record, and whose claim is not
   excused, holds the last claim of its event. *)
LEMMA UnexcusedHolds ==
    ASSUME IInv, NEW w \in Workers, worker[w].step \in Sending,
           worker[w].token \notin excused[worker[w].event]
    PROVE  worker[w].token = row[worker[w].event].claims
<1>1. /\ worker[w].event \in Events /\ 1 <= worker[w].token
      /\ row[worker[w].event].token = worker[w].token
  BY DEF Sending, Working, IInv, Queue, WorkersOK, WorkerOK
<1>2. row[worker[w].event].status = "processing"
  BY <1>1 DEF IInv, Queue, RowsOK, RowOK, NoToken
<1>3. QED
  BY <1>1, <1>2 DEF IInv, Queue, RowsOK, RowOK

LEMMA SendStep ==
    ASSUME IInv, NEW w \in Workers, Send(w)
    PROVE  IInv'
<1> DEFINE e == worker[w].event
           t == worker[w].token
<1>0. Columns
  BY DEF IInv
<1>1. /\ worker[w].step = "send" /\ worker[w].step \in Working /\ e \in Events
      /\ 1 <= t /\ t <= row[e].claims
      /\ UNCHANGED <<row, receipt, moot, retries, crashes>>
  BY DEF Send, Working, IInv, Queue, WorkersOK, WorkerOK
<1>2. PICK out \in BOOLEAN, ok \in BOOLEAN :
        /\ ok => out
        /\ Go(w, IF ok THEN "record" ELSE "fail")
        /\ mailed' = [mailed EXCEPT ![e] = mailed[e] \cup (IF out THEN {t} ELSE {})]
        /\ excused' = [excused EXCEPT ![e] = excused[e] \cup (IF out /\ ~ok THEN {t} ELSE {})]
  BY DEF Send
<1>3. t \in Tokens /\ t \in Int
  BY <1>0, WorkerColumns
<1>4. /\ mailed' \in [Events -> SUBSET Tokens] /\ excused' \in [Events -> SUBSET Tokens]
      /\ mailed'[e] = mailed[e] \cup (IF out THEN {t} ELSE {})
      /\ excused'[e] = excused[e] \cup (IF out /\ ~ok THEN {t} ELSE {})
      /\ \A f \in Events : f # e => mailed'[f] = mailed[f] /\ excused'[f] = excused[f]
  BY <1>0, <1>1, <1>2, <1>3 DEF Columns
<1>5. \A f \in Events : mailed[f] \subseteq mailed'[f] /\ excused[f] \subseteq excused'[f]
  BY <1>1, <1>4
<1> DEFINE q == [worker[w] EXCEPT !.step = IF ok THEN "record" ELSE "fail"]
<1>6. /\ q \in Dispatcher /\ q.step = (IF ok THEN "record" ELSE "fail")
      /\ q.event = e /\ q.token = t /\ q.attempts = worker[w].attempts
  BY <1>0, WorkerColumns DEF Dispatcher, Steps
<1>7. worker' = [worker EXCEPT ![w] = q]
  BY <1>0, <1>2 DEF Go, Columns
<1> HIDE DEF q
<1>8. Queue' /\ worker' \in [Workers -> Dispatcher]
  <2>1. SameLeases
    BY <1>0, <1>1, NoRowChanges
  <2>2. q.step = "record" => q.token \in mailed'[q.event]
    BY <1>2, <1>4, <1>6
  <2>3. q.step \in Sending => worker[w].step \in Sending
    BY <1>1 DEF Sending
  <2>4. QED
    BY <1>1, <1>5, <1>6, <1>7, <2>1, <2>2, <2>3, GoQueue
<1>9. /\ worker'[w] = q
      /\ \A u \in Workers : u # w => worker'[u] = worker[u]
  BY <1>0, <1>6, <1>7, WorkerStep
<1>10. t \in excused[e] \/ t = row[e].claims
  BY <1>1, UnexcusedHolds DEF Sending
<1>11. MailsOK'
  <2>1. \A f \in Events : \A c \in mailed'[f] : 1 <= c /\ c <= row'[f].claims
    BY <1>1, <1>4 DEF IInv, Mails, MailsOK
  <2>2. \A f \in Events : \A c \in mailed'[f] \ excused'[f] : MailOK(f, c)'
    <3>1. TAKE f \in Events
    <3>2. TAKE c \in mailed'[f] \ excused'[f]
    <3>3. CASE c \in mailed[f] \ excused[f]
      <4>1. MailOK(f, c)
        BY <3>3 DEF IInv, Mails, MailsOK
      <4>2. \A u \in Workers : At(worker'[u], "send", f) => worker'[u] = worker[u]
        BY <1>6, <1>9 DEF At
      <4>3. \A u \in Workers : At(worker[u], "record", f) => worker'[u] = worker[u]
        BY <1>1, <1>9 DEF At
      <4>4. QED
        BY <1>1, <4>1, <4>2, <4>3 DEF MailOK
    <3>4. CASE c \notin mailed[f] \ excused[f]
      <4>1. f = e /\ c = t /\ ok
        BY <1>2, <1>4, <1>5, <3>2, <3>4
      <4>2. At(worker'[w], "record", f) /\ worker'[w].token = c
        BY <1>6, <1>9, <4>1 DEF At
      <4>3. QED
        BY <4>2 DEF MailOK
    <3>5. QED
      BY <3>3, <3>4
  <2>3. QED
    BY <2>1, <2>2 DEF MailsOK
<1>12. DeliveredIsAccounted'
  <2>1. DeliveredIsAccounted
    BY DEF IInv, Mails
  <2>2. QED
    BY <1>1, <1>4, <2>1 DEF DeliveredIsAccounted
<1>13. DuplicatesAreExcused'
  <2>1. SUFFICES ASSUME NEW f \in Events, NEW c \in mailed'[f], NEW d \in mailed'[f], c < d
                 PROVE  c \in excused'[f]
    BY DEF DuplicatesAreExcused
  <2>2. CASE c \in mailed[f] /\ d \in mailed[f]
    BY <1>5, <2>1, <2>2 DEF IInv, Mails, DuplicatesAreExcused
  <2>3. CASE d \notin mailed[f]
    <3>1. f = e /\ d = t /\ c # d /\ c \in Int
      BY <1>1, <1>3, <1>4, <2>1, <2>3 DEF Tokens
    <3>2. c \in mailed[e]
      BY <1>4, <2>1, <3>1
    <3>3. SUFFICES ASSUME c \notin excused[e] PROVE FALSE
      BY <1>4, <3>1
    <3>4. MailOK(e, c)
      BY <1>1, <3>2, <3>3 DEF IInv, Mails, MailsOK
    <3>5. \E u \in Workers : At(worker[u], "record", e) /\ worker[u].token = c
      <4>1. ~(t <= c)
        BY <1>3, <2>1, <3>1
      <4>2. At(worker[w], "send", e)
        BY <1>1 DEF At
      <4>3. QED
        BY <3>4, <4>1, <4>2 DEF MailOK
    <3>6. PICK u \in Workers : At(worker[u], "record", e) /\ worker[u].token = c
      BY <3>5
    <3>7. c = row[e].claims
      BY <3>3, <3>6, UnexcusedHolds DEF At, Sending
    <3>8. row[e].claims \in Nat
      BY <1>0, <1>1, RowColumns
    <3>9. QED
      BY <1>1, <1>3, <2>1, <3>1, <3>7, <3>8
  <2>4. CASE c \notin mailed[f] /\ d \in mailed[f]
    <3>1. f = e /\ c = t
      BY <1>1, <1>4, <2>1, <2>4
    <3>2. d <= row[e].claims /\ d \in Int /\ row[e].claims \in Nat
      BY <1>0, <1>1, <2>4, <3>1, RowColumns DEF IInv, Mails, MailsOK, Columns, Tokens
    <3>3. t # row[e].claims
      BY <1>3, <2>1, <3>1, <3>2
    <3>4. QED
      BY <1>5, <1>10, <3>1, <3>3
  <2>5. QED
    BY <2>2, <2>3, <2>4
<1>14. Columns'
  BY <1>0, <1>1, <1>4, <1>8 DEF Columns
<1>15. QED
  BY <1>8, <1>11, <1>12, <1>13, <1>14 DEF IInv, Mails

LEMMA RecordStep ==
    ASSUME IInv, NEW w \in Workers, Record(w)
    PROVE  IInv'
<1> DEFINE e == worker[w].event
           t == worker[w].token
<1>0. Columns
  BY DEF IInv
<1>1. /\ worker[w].step = "record" /\ worker[w].step \in Working /\ e \in Events
      /\ t \in mailed[e]
      /\ UNCHANGED <<moot, retries, crashes, mailed, excused>>
  BY DEF Record, Working, IInv, Queue, WorkersOK, WorkerOK
<1>2. receipt' = [receipt EXCEPT ![e] = "sent"] /\ row' = Acknowledged(worker[w]) /\ Rest(w)
  BY DEF Record
<1>3. Finish(w)
  <2>1. 0 \in Moments
    BY Numbers DEF Moments
  <2>2. QED
    BY <1>1, <1>2, <2>1 DEF Finish, Acknowledged
<1>4. Queue' /\ row' \in [Events -> Row] /\ worker' \in [Workers -> Dispatcher]
  BY <1>1, <1>2, <1>3, FinishQueue
<1>5. /\ receipt' \in [Events -> Receipts] /\ receipt'[e] = "sent"
      /\ \A f \in Events : f # e => receipt'[f] = receipt[f]
  BY <1>0, <1>1, <1>2 DEF Columns, Receipts
<1>6. \A f \in Events : row'[f].claims = row[f].claims /\ (f = e \/ row'[f] = row[f])
  BY <1>1, <1>3, FinishRows
<1>7. worker'[w].step = "idle" /\ \A u \in Workers : u # w => worker'[u] = worker[u]
  BY <1>0, <1>2, RestStep
<1>8. MailsOK'
  <2>1. \A f \in Events : \A c \in mailed'[f] : 1 <= c /\ c <= row'[f].claims
    BY <1>1, <1>6 DEF IInv, Mails, MailsOK
  <2>2. \A f \in Events : \A c \in mailed'[f] \ excused'[f] : MailOK(f, c)'
    <3>1. TAKE f \in Events
    <3>2. TAKE c \in mailed'[f] \ excused'[f]
    <3>3. MailOK(f, c)
      BY <1>1, <3>2 DEF IInv, Mails, MailsOK
    <3>4. CASE \E u \in Workers \ {w} : At(worker[u], "record", f) /\ worker[u].token = c
      BY <1>7, <3>4 DEF MailOK
    <3>5. CASE /\ receipt[f] = "sent"
               /\ \A u \in Workers : At(worker[u], "send", f) => worker[u].token <= c
      <4>1. receipt'[f] = "sent"
        BY <1>5, <3>5
      <4>2. \A u \in Workers : At(worker'[u], "send", f) => worker'[u] = worker[u]
        BY <1>7 DEF At
      <4>3. QED
        BY <3>5, <4>1, <4>2 DEF MailOK
    <3>6. CASE At(worker[w], "record", f) /\ t = c
      <4>1. f = e
        BY <3>6 DEF At
      <4>2. c = row[e].claims
        BY <1>1, <3>2, <3>6, <4>1, UnexcusedHolds DEF Sending
      <4>3. \A u \in Workers : At(worker'[u], "send", f) => worker'[u].token <= c
        <5>1. SUFFICES ASSUME NEW u \in Workers, At(worker'[u], "send", f)
                       PROVE  worker'[u].token <= c
          OBVIOUS
        <5>2. worker'[u] = worker[u]
          BY <1>7, <5>1 DEF At
        <5>3. worker[u].step \in Working /\ worker[u].event = e
          BY <4>1, <5>1, <5>2 DEF At, Working
        <5>4. QED
          BY <4>2, <5>2, <5>3 DEF IInv, Queue, WorkersOK, WorkerOK
      <4>4. QED
        BY <1>5, <4>1, <4>3 DEF MailOK
    <3>7. QED
      BY <3>3, <3>4, <3>5, <3>6 DEF MailOK
  <2>3. QED
    BY <2>1, <2>2 DEF MailsOK
<1>9. DeliveredIsAccounted'
  <2>1. DeliveredIsAccounted
    BY DEF IInv, Mails
  <2>2. \A f \in Events : f # e =>
            /\ row'[f].status = "delivered" => receipt'[f] \in {"sent", "skipped"}
            /\ receipt'[f] = "sent" => mailed'[f] # {}
    BY <1>1, <1>5, <1>6, <2>1 DEF DeliveredIsAccounted
  <2>3. receipt'[e] = "sent" /\ mailed'[e] # {}
    BY <1>1, <1>5
  <2>4. QED
    BY <2>2, <2>3 DEF DeliveredIsAccounted
<1>10. DuplicatesAreExcused'
  BY <1>1 DEF IInv, Mails, DuplicatesAreExcused
<1>11. Columns'
  BY <1>0, <1>1, <1>4, <1>5 DEF Columns
<1>12. QED
  BY <1>4, <1>8, <1>9, <1>10, <1>11 DEF IInv, Mails

LEMMA FailStep ==
    ASSUME IInv, NEW w \in Workers, Fail(w)
    PROVE  IInv'
<1> DEFINE d == worker[w]
<1>0. Columns
  BY DEF IInv
<1>1. /\ d.step = "fail" /\ d.step \in Working /\ d.event \in Events /\ Rest(w)
      /\ UNCHANGED <<receipt, moot, retries, crashes, mailed, excused>>
  BY DEF Fail, Working, IInv, Queue, WorkersOK, WorkerOK
<1>2. Finish(w)
  <2>1. d.attempts \in 0..MaxAttempts /\ d.age \in 0..Memory
    BY <1>0, WorkerColumns
  <2>2. CASE ~Owns(d)
    BY <2>2 DEF Fail, Finish
  <2>3. CASE Owns(d) /\ d.attempts >= MaxAttempts
    <3>1. row' = [row EXCEPT ![d.event] = Released(row[d.event], "dead", AtLeast(-d.age))]
      BY <2>3 DEF Fail
    <3>2. AtLeast(-d.age) \in Moments
      BY <2>1, Clamped, Numbers
    <3>3. d.attempts = MaxAttempts
      BY <2>1, <2>3, Numbers
    <3>4. QED
      BY <1>1, <2>3, <3>1, <3>2, <3>3 DEF Finish
  <2>4. CASE Owns(d) /\ ~(d.attempts >= MaxAttempts)
    <3> DEFINE m == AtLeast(Backoff(d.event, d.attempts) - d.age)
    <3>1. row' = [row EXCEPT ![d.event] = Released(row[d.event], "pending", m)]
      BY <2>4 DEF Fail
    <3>2. m \in Moments
      <4>1. Backoff(d.event, d.attempts) \in Int
            /\ Backoff(d.event, d.attempts) <= MaxDelay + Jitter
        BY <1>1, <2>1, BackoffBound
      <4>2. QED
        BY <2>1, <4>1, Clamped, Numbers
    <3>3. d.attempts < MaxAttempts
      BY <2>1, <2>4, Numbers
    <3> HIDE DEF m
    <3>4. QED
      BY <1>1, <2>4, <3>1, <3>2, <3>3 DEF Finish
  <2>5. QED
    BY <2>2, <2>3, <2>4
<1>3. Queue' /\ row' \in [Events -> Row] /\ worker' \in [Workers -> Dispatcher]
  BY <1>1, <1>2, FinishQueue
<1>4. worker'[w].step = "idle" /\ \A u \in Workers : u # w => worker'[u] = worker[u]
  BY <1>0, <1>1, RestStep
<1>5. \A f \in Events : /\ row'[f].claims \in Nat /\ row'[f].claims = row[f].claims
                        /\ row'[f].status = "delivered" => row[f].status = "delivered"
  <2>1. TAKE f \in Events
  <2>2. row'[f].claims = row[f].claims /\ row[f].claims \in Nat
    BY <1>0, <1>1, <1>2, FinishRows, RowColumns
  <2>3. row'[f].status = "delivered" => row[f].status = "delivered"
    <3>1. CASE row' = row
      BY <3>1
    <3>2. CASE \E s \in {"dead", "pending"}, m \in {AtLeast(-d.age), AtLeast(Backoff(d.event, d.attempts) - d.age)} :
                  row' = [row EXCEPT ![d.event] = Released(row[d.event], s, m)]
      BY <1>0, <1>1, <3>2 DEF Released, Columns
    <3>3. QED
      BY <3>1, <3>2 DEF Fail
  <2>4. QED
    BY <2>2, <2>3
<1>6. Mails'
  <2>1. \A u \in Workers, f \in Events :
            /\ At(worker'[u], "send", f) => worker'[u] = worker[u]
            /\ At(worker[u], "record", f) => worker'[u] = worker[u]
    BY <1>1, <1>4 DEF At
  <2>2. QED
    BY <1>1, <1>5, <2>1, MailsKept
<1>7. Columns'
  BY <1>0, <1>1, <1>3 DEF Columns
<1>8. QED
  BY <1>3, <1>6, <1>7 DEF IInv

LEMMA AbandonStep ==
    ASSUME IInv, NEW w \in Workers, Abandon(w)
    PROVE  IInv'
<1> DEFINE d == worker[w]
<1>0. Columns
  BY DEF IInv
<1>1. /\ d.step # "idle" /\ crashes < MaxCrashes /\ crashes' = crashes + 1 /\ Rest(w)
      /\ excused' = [e \in Events |->
            excused[e] \cup (IF e = d.event /\ d.step = "record" THEN {d.token} ELSE {})]
      /\ UNCHANGED <<row, receipt, moot, retries, mailed>>
  BY DEF Abandon
<1>2. /\ worker' \in [Workers -> Dispatcher] /\ worker'[w].step = "idle"
      /\ \A u \in Workers : u # w => worker'[u] = worker[u]
  BY <1>0, <1>1, RestStep
<1>3. excused' \in [Events -> SUBSET Tokens] /\ \A e \in Events : excused[e] \subseteq excused'[e]
  BY <1>0, <1>1, WorkerColumns DEF Columns
<1>4. crashes' \in 0..MaxCrashes
  BY <1>0, <1>1, Numbers DEF Columns
<1>5. WorkersOK'
  <2>1. \A u \in Workers : worker'[u].step \in Working => worker'[u] = worker[u]
    BY <1>2 DEF Working
  <2>2. QED
    BY <1>1, <1>3, <2>1, WorkersKept
<1>6. Mails'
  <2>1. \A u \in Workers, e \in Events :
            /\ At(worker'[u], "send", e) => worker'[u] = worker[u]
            /\ At(worker[u], "record", e) =>
                 worker'[u] = worker[u] \/ worker[u].token \in excused'[e]
    BY <1>1, <1>2 DEF At
  <2>2. QED
    BY <1>0, <1>1, <1>3, <2>1, MailsKept, RowColumns
<1>7. Columns' /\ RowsOK'
  BY <1>0, <1>1, <1>2, <1>3, <1>4 DEF Columns, IInv, Queue, RowsOK
<1>8. QED
  BY <1>5, <1>6, <1>7 DEF IInv, Queue

LEMMA TickStep ==
    ASSUME IInv, Tick
    PROVE  IInv'
<1>0. Columns
  BY DEF IInv
<1>1. UNCHANGED <<receipt, moot, retries, crashes, mailed, excused>>
  BY DEF Tick
<1>2. SameLeases
  <2>1. \A e \in Events :
          /\ row'[e] \in Row
          /\ row'[e].status = row[e].status /\ row'[e].token = row[e].token
          /\ row'[e].claims = row[e].claims /\ row'[e].attempts = row[e].attempts
    <3>1. TAKE e \in Events
    <3>2. AtLeast(row[e].until - 1) \in Moments /\ AtLeast(row[e].available - 1) \in Moments
      <4>1. \A m \in Moments : m - 1 \in Int /\ m - 1 <= MaxDelay + Lease + Jitter
        BY Numbers DEF Moments
      <4>2. QED
        BY <1>0, <4>1, RowColumns, Clamped
    <3>3. \/ row'[e] = row[e]
          \/ row'[e] = [row[e] EXCEPT !.until = AtLeast(row[e].until - 1)]
          \/ row'[e] = [row[e] EXCEPT !.available = AtLeast(row[e].available - 1)]
      BY DEF Tick
    <3>4. QED
      BY <1>0, <3>2, <3>3, RowColumns DEF Row
  <2>2. row' \in [Events -> Row]
    BY <2>1 DEF Tick
  <2>3. QED
    BY <2>1, <2>2 DEF SameLeases
<1>3. /\ worker' \in [Workers -> Dispatcher]
      /\ \A u \in Workers : /\ worker'[u].step = worker[u].step /\ worker'[u].event = worker[u].event
                            /\ worker'[u].token = worker[u].token
                            /\ worker'[u].attempts = worker[u].attempts
  <2>1. \A u \in Workers : Older(worker[u].age) \in Ages
    BY <1>0, WorkerColumns, Numbers DEF Older, Ages
  <2>2. \A u \in Workers :
          \/ worker'[u] = worker[u]
          \/ worker'[u] = [worker[u] EXCEPT !.age = Older(worker[u].age)]
    BY DEF Tick
  <2>3. \A u \in Workers :
          /\ worker'[u] \in Dispatcher
          /\ worker'[u].step = worker[u].step /\ worker'[u].event = worker[u].event
          /\ worker'[u].token = worker[u].token /\ worker'[u].attempts = worker[u].attempts
    BY <1>0, <2>1, <2>2, WorkerColumns DEF Dispatcher
  <2>4. worker' \in [Workers -> Dispatcher]
    BY <2>3 DEF Tick
  <2>5. QED
    BY <2>3, <2>4
<1>4. RowsOK'
  BY <1>1, <1>2, SameRows
<1>5. WorkersOK'
  BY <1>1, <1>2, <1>3, WorkersKept DEF SameLeases
<1>6. Mails'
  <2>1. \A e \in Events : /\ row'[e].claims \in Nat /\ row'[e].claims = row[e].claims
                          /\ row'[e].status = row[e].status
    BY <1>0, <1>2, RowColumns DEF SameLeases
  <2>2. QED
    BY <1>1, <1>3, <2>1, MailsKept DEF At
<1>7. Columns'
  BY <1>0, <1>1, <1>2, <1>3 DEF Columns, SameLeases
<1>8. QED
  BY <1>4, <1>5, <1>6, <1>7 DEF IInv, Queue

LEMMA NextIInv == IInv /\ [Next]_vars => IInv'
<1> SUFFICES ASSUME IInv, [Next]_vars PROVE IInv'
  OBVIOUS
<1>1. CASE UNCHANGED vars
  <2>1. UNCHANGED <<row, receipt, moot, worker, retries, crashes, mailed, excused>>
    BY <1>1 DEF vars
  <2>2. RowsOK' /\ Columns'
    BY <2>1 DEF IInv, Queue, RowsOK, Columns
  <2>3. WorkersOK'
    BY <2>1, WorkersKept
  <2>4. Mails'
    <3>1. Columns
      BY DEF IInv
    <3>2. QED
      BY <2>1, <3>1, MailsKept, RowColumns
  <2>5. QED
    BY <2>2, <2>3, <2>4 DEF IInv, Queue
<1>2. ASSUME NEW e \in Events, AppendEvent(e) \/ BecomesMoot(e) \/ RetryEvent(e) PROVE IInv'
  BY <1>2, AppendStep, MootStep, RetryStep
<1>3. ASSUME NEW w \in Workers, Cycle(w) PROVE IInv'
  BY <1>3, WakeStep, RecoverStep, ClaimStep, RenewStep, OpenStep, SendStep, RecordStep, FailStep
     DEF Cycle
<1>4. ASSUME NEW w \in Workers, Abandon(w) PROVE IInv'
  BY <1>4, AbandonStep
<1>5. CASE Tick
  BY <1>5, TickStep
<1>6. QED
  BY <1>1, <1>2, <1>3, <1>4, <1>5 DEF Next

LEMMA AlwaysIInv == Spec => []IInv
<1>1. QED
  BY InitIInv, NextIInv, PTL DEF Spec

-----------------------------------------------------------------------------
(* The theorems. *)

(* Rows, receipts and dispatchers stay within their columns, and a row has a
   lease exactly while it is processed (outbox_lease_check in the schema). *)
THEOREM TypeCorrect == Spec => []TypeOK
<1>1. IInv => TypeOK
  BY DEF IInv, Columns, Queue, RowsOK, RowOK, TypeOK
<1>2. QED
  BY <1>1, AlwaysIInv, PTL

(* No event is marked delivered without a receipt that says what became of it,
   and no receipt says sent unless a mail went out. *)
THEOREM NobodyIsForgotten == Spec => []DeliveredIsAccounted
<1>1. IInv => DeliveredIsAccounted
  BY DEF IInv, Mails
<1>2. QED
  BY <1>1, AlwaysIInv, PTL

(* A second mail for an event goes out only when the first one's outcome could
   not be learnt in time, however many workers, retries and crashes there are. *)
THEOREM NoSenselessDuplicates == Spec => []DuplicatesAreExcused
<1>1. IInv => DuplicatesAreExcused
  BY DEF IInv, Mails
<1>2. QED
  BY <1>1, AlwaysIInv, PTL

(* The last attempt is the last on the failure path and on the recovery path. *)
THEOREM BudgetIsKept == Spec => []DeadAfterAllAttempts
<1>1. IInv => DeadAfterAllAttempts
  BY DEF IInv, Queue, RowsOK, RowOK, DeadAfterAllAttempts
<1>2. QED
  BY <1>1, AlwaysIInv, PTL

(* A row leaves processing only at the hand of the dispatcher whose token it
   carries, or once its lease has run out. *)
THEOREM TheHolderFinishes == Spec => OnlyTheHolderFinishes
<1> DEFINE Fine(e) ==
        (row[e].status = "processing" /\ row'[e].status # "processing")
            => \/ row[e].until <= 0
               \/ \E w \in Workers : worker[w].event = e /\ worker[w].token = row[e].token
                                     /\ worker'[w] = Idle
<1>1. ASSUME IInv, [Next]_vars, NEW e \in Events PROVE Fine(e)
  <2>0. Columns
    BY <1>1 DEF IInv
  <2>1. SUFFICES ASSUME row[e].status = "processing", row'[e].status # "processing"
                 PROVE  \/ row[e].until <= 0
                        \/ \E w \in Workers : worker[w].event = e /\ worker[w].token = row[e].token
                                              /\ worker'[w] = Idle
    OBVIOUS
  <2>2. row'[e] # row[e]
    BY <2>1
  <2>3. ASSUME NEW w \in Workers, row' = Acknowledged(worker[w]), Rest(w)
        PROVE  worker[w].event = e /\ worker[w].token = row[e].token /\ worker'[w] = Idle
    BY <2>0, <2>2, <2>3, RestStep DEF Acknowledged, Owns, Columns
  <2>4. ASSUME NEW f \in Events, AppendEvent(f) \/ BecomesMoot(f) \/ RetryEvent(f) PROVE FALSE
    BY <2>0, <2>1, <2>2, <2>4 DEF AppendEvent, BecomesMoot, RetryEvent, Columns
  <2>5. ASSUME NEW w \in Workers, Recover(w) PROVE row[e].until <= 0
    <3>1. Expired(row[e], worker[w].age)
      BY <2>2, <2>5 DEF Recover
    <3>2. QED
      BY <2>0, <3>1, RowColumns, WorkerColumns, Numbers DEF Expired, Moments
  <2>6. ASSUME NEW w \in Workers, Claim(w) PROVE FALSE
    BY <2>0, <2>1, <2>2, <2>6 DEF Claim, Due, Columns
  <2>7. ASSUME NEW w \in Workers, Renew(w) PROVE FALSE
    <3>1. \E m : row' = [row EXCEPT ![worker[w].event].until = m]
      BY <2>1, <2>7 DEF Renew
    <3>2. row'[e].status = row[e].status
      BY <2>0, <3>1, RowColumns DEF Columns, Row
    <3>3. QED
      BY <2>1, <3>2
  <2>8. ASSUME NEW w \in Workers, Open(w) \/ Record(w)
        PROVE  worker[w].event = e /\ worker[w].token = row[e].token /\ worker'[w] = Idle
    BY <2>2, <2>3, <2>8 DEF Open, Record
  <2>9. ASSUME NEW w \in Workers, Fail(w)
        PROVE  worker[w].event = e /\ worker[w].token = row[e].token /\ worker'[w] = Idle
    <3>1. Owns(worker[w]) /\ worker[w].event = e /\ Rest(w)
      BY <2>0, <2>2, <2>9 DEF Fail, Columns
    <3>2. QED
      BY <2>0, <3>1, RestStep DEF Owns
  <2>10. ASSUME Tick PROVE FALSE
    BY <2>0, <2>1, <2>10, RowColumns DEF Tick, Row
  <2>11. ASSUME NEW w \in Workers, Wake(w) \/ NothingDue(w) \/ Send(w) \/ Abandon(w) PROVE FALSE
    BY <2>2, <2>11 DEF Wake, NothingDue, Send, Abandon
  <2>12. QED
    BY <1>1, <2>2, <2>4, <2>5, <2>6, <2>7, <2>8, <2>9, <2>10, <2>11 DEF Next, Cycle, vars
<1>2. IInv /\ [Next]_vars => [\A e \in Events : Fine(e)]_vars
  BY <1>1
<1>3. QED
  BY <1>2, AlwaysIInv, PTL DEF Spec, OnlyTheHolderFinishes

(* Nothing unsends a mail: a receipt that says sent says so for ever. *)
THEOREM SentForEver == Spec => SentIsFinal
<1> DEFINE Fine == \A e \in Events : receipt[e] = "sent" => receipt'[e] = "sent"
<1>1. ASSUME IInv, [Next]_vars PROVE Fine
  <2>0. Columns
    BY <1>1 DEF IInv
  <2>1. CASE \E w \in Workers : Open(w)
    BY <2>0, <2>1 DEF Open, Columns
  <2>2. CASE \E w \in Workers : Record(w)
    BY <2>0, <2>2 DEF Record, Columns
  <2>3. CASE receipt' = receipt
    BY <2>3
  <2>4. QED
    BY <1>1, <2>1, <2>2, <2>3 DEF Next, Cycle, vars, AppendEvent, BecomesMoot, RetryEvent, Wake,
       Recover, Claim, NothingDue, Renew, Send, Fail, Abandon, Tick
<1>2. IInv /\ [Next]_vars => [Fine]_vars
  BY <1>1
<1>3. QED
  BY <1>2, AlwaysIInv, PTL DEF Spec, SentIsFinal
=============================================================================
