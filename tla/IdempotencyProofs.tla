------------------------- MODULE IdempotencyProofs -------------------------
(***************************************************************************)
(* Proofs about Idempotency, for any requests, bodies and bounds.          *)
(***************************************************************************)
EXTENDS Idempotency, TLAPS

-----------------------------------------------------------------------------
(* The inductive invariant. *)

(* Every booking made so far was made a whole Ttl before t. *)
Past(t) == \A s \in Requests : made[s] # Never => made[s] + Ttl <= t

(* The answer in the making replaces nothing that is still remembered. *)
DraftOK ==
    /\ dirty /\ draft # Nothing
    /\ draft.hash = request[holder].body /\ draft.created <= now
    /\ key # Nothing => key.created + Ttl <= draft.created
    /\ Past(draft.created)

(* A row is held by a request that locked it as it saw it, that deleted it
   because it had expired, or that is about to commit an answer of its own. *)
HolderOK ==
    \/ request[holder].step = "locked" /\ ~dirty /\ key # Nothing /\ key = request[holder].seen
    \/ request[holder].step = "insert" /\ dirty /\ draft = Nothing /\ key # Nothing /\ Expired(key)
    \/ request[holder].step = "run" /\ DraftOK /\ draft.response = "null"
    \/ request[holder].step = "commit" /\ DraftOK /\ draft.response = request[holder].outcome
       /\ request[holder].outcome \in {holder, "conflict"}

LocksOK ==
    /\ \A r \in Requests : request[r].step \in {"locked", "run", "commit"} => holder = r
    /\ holder # Nothing => HolderOK

(* The request r may be told of the booking of s. *)
Told(r, s) == made[s] # Never /\ request[s].step = "done" /\ request[s].body = request[r].body

(* What is committed is true, and was not outlived by any booking. *)
KeyOK ==
    /\ key # Nothing =>
        /\ key.created <= now /\ key.response # "null"
        /\ key.response \in Requests =>
              /\ made[key.response] # Never /\ request[key.response].step = "done"
              /\ request[key.response].body = key.hash
        /\ \A s \in Requests : made[s] # Never => made[s] <= key.created
    /\ key = Nothing => Past(now)

Active(r) == request[r].step \notin {"new", "done"}

(* A transaction is young, and knows whether the row it saw had expired. *)
RequestOK(r) ==
    LET q == request[r] IN
    /\ Active(r) => q.since <= now /\ now <= q.since + MaxDuration
    /\ q.step \notin {"commit", "done"} => q.outcome = "none"
    /\ q.step = "new" => q.tries = 0
    /\ q.step \in {"wait", "locked"} =>
          /\ q.expired => q.seen # Nothing /\ q.seen.created + Ttl <= now
          /\ ~q.expired /\ q.seen # Nothing => q.since < q.seen.created + Ttl
    /\ q.step = "done" =>
          /\ q.outcome \in {"conflict", "mismatch", "error"} \cup Requests
          /\ q.outcome \in Requests => Told(r, q.outcome)

(* The row that r looks for, in the making or committed, is younger than r: it
   cannot expire while r lives. *)
Late(r) == dirty /\ draft # Nothing => request[r].since <= draft.created
Gone(r) == key # Nothing => request[r].since <= key.created
Seeking(r) == request[r].step \in {"insert", "select", "wait", "locked"} /\ ~(holder = r /\ dirty)

(* One more try is enough: whatever took the row away from r left nothing, or a
   row that outlives r. *)
TriesOK(r) ==
    LET q == request[r] IN
    /\ q.tries <= 1
    /\ Seeking(r) /\ q.step \in {"select", "wait"} => Late(r)
    /\ Seeking(r) /\ q.step = "wait" => (key # Nothing /\ key = q.seen) \/ Gone(r)
    /\ Seeking(r) /\ q.tries = 1 =>
          /\ Late(r) /\ Gone(r)
          /\ q.step \in {"select", "wait", "locked"} => key # Nothing
          /\ q.step = "wait" => key = q.seen

IInv ==
    /\ TypeOK /\ LocksOK /\ KeyOK /\ OncePerDay
    /\ \A r \in Requests : RequestOK(r)
    /\ \A r \in Requests : TriesOK(r)

-----------------------------------------------------------------------------
(* Columns. *)

LEMMA Numbers ==
    /\ Ttl \in Nat /\ Ttl > 0 /\ MaxTries \in Nat /\ MaxTries > 0
    /\ MaxDuration \in Nat /\ MaxDuration < Ttl /\ LastTick \in Nat
    /\ Nothing \notin Requests /\ Nothing \notin KeyRow
  BY ConstantsAssumption

LEMMA Words ==
    ASSUME NEW r \in Requests
    PROVE  /\ r # "none" /\ r # "null" /\ r # "conflict" /\ r # "mismatch"
           /\ r # "incomplete" /\ r # "error" /\ r # "exhausted" /\ r # Nothing
<1>1. r \notin {"none", "null", "conflict", "mismatch", "incomplete", "error", "exhausted"}
  BY ConstantsAssumption
<1>2. QED
  BY <1>1, ConstantsAssumption

LEMMA RowColumns ==
    ASSUME TypeOK
    PROVE  /\ now \in Nat /\ now <= LastTick
           /\ key # Nothing => /\ key \in KeyRow /\ key.created \in Nat /\ key.hash \in Bodies
                               /\ key.response \in Responses
           /\ draft # Nothing => /\ draft \in KeyRow /\ draft.created \in Nat
                                 /\ draft.created <= LastTick /\ draft.hash \in Bodies
                                 /\ draft.response \in Responses
           /\ holder \in Requests \cup {Nothing} /\ dirty \in BOOLEAN
           /\ \A s \in Requests : made[s] # Never => made[s] \in Nat
  BY Numbers DEF TypeOK, KeyRow, Never

LEMMA RequestColumns ==
    ASSUME TypeOK, NEW r \in Requests
    PROVE  /\ request[r] \in Request
           /\ request[r].step \in Steps /\ request[r].body \in Bodies
           /\ request[r].tries \in 0..MaxTries /\ request[r].tries \in Nat
           /\ request[r].since \in 0..LastTick /\ request[r].since \in Nat
           /\ request[r].seen \in KeyRow \cup {Nothing}
           /\ request[r].seen # Nothing => request[r].seen.created \in Nat
           /\ request[r].expired \in BOOLEAN /\ request[r].outcome \in Outcomes
<1>1. request[r] \in Request
  BY DEF TypeOK
<1>2. QED
  BY <1>1, Numbers DEF Request, KeyRow

(* One request goes on. *)
LEMMA RequestStep ==
    ASSUME TypeOK, NEW r \in Requests, NEW q \in Request,
           request' = [request EXCEPT ![r] = q]
    PROVE  /\ request' \in [Requests -> Request]
           /\ request'[r] = q
           /\ \A s \in Requests : s # r => request'[s] = request[s]
  BY DEF TypeOK

LEMMA EndStep ==
    ASSUME TypeOK, NEW r \in Requests, NEW o \in Outcomes, End(r, o)
    PROVE  /\ request' \in [Requests -> Request]
           /\ request'[r].step = "done" /\ request'[r].outcome = o
           /\ request'[r].body = request[r].body /\ request'[r].tries = request[r].tries
           /\ \A s \in Requests : s # r => request'[s] = request[s]
<1> DEFINE p == [request[r] EXCEPT !.step = "done"]
           q == [p EXCEPT !.outcome = o]
<1>1. p \in Request /\ p.body = request[r].body /\ p.tries = request[r].tries /\ p.step = "done"
  BY RequestColumns DEF Request, Steps
<1> HIDE DEF p
<1>2. q \in Request /\ q.body = p.body /\ q.tries = p.tries /\ q.step = p.step /\ q.outcome = o
  BY <1>1 DEF Request
<1> HIDE DEF q
<1>3. request' = [request EXCEPT ![r] = q]
  BY RequestColumns DEF End, Request, p, q, TypeOK
<1>4. QED
  BY <1>1, <1>2, <1>3, RequestStep

(* A young transaction. *)
LEMMA Young ==
    ASSUME IInv, NEW r \in Requests, Active(r)
    PROVE  /\ request[r].since \in Nat /\ request[r].since <= now
           /\ now <= request[r].since + MaxDuration /\ now < request[r].since + Ttl
<1>1. request[r].since <= now /\ now <= request[r].since + MaxDuration
  BY DEF IInv, RequestOK
<1>2. request[r].since \in Nat /\ now \in Nat
  BY RequestColumns, RowColumns DEF IInv
<1>3. QED
  BY <1>1, <1>2, Numbers

(* What is younger than an active request has not expired. *)
LEMMA YoungRow ==
    ASSUME IInv, NEW r \in Requests, Active(r), key # Nothing, Gone(r)
    PROVE  ~Expired(key)
<1>1. request[r].since <= key.created /\ key.created \in Nat /\ now \in Nat
  BY RowColumns DEF Gone, IInv
<1>2. QED
  BY <1>1, Young, Numbers DEF Expired

-----------------------------------------------------------------------------
(* What a step of one request leaves alone. *)

(* The request r takes a step at one moment of the clock. *)
OneMoves(r) ==
    /\ request[r].step # "done"
    /\ \A s \in Requests : s # r => request'[s] = request[s]
    /\ now' = now

LEMMA OthersOK ==
    ASSUME IInv, NEW r \in Requests, OneMoves(r),
           \A s \in Requests : made[s] # Never => made'[s] # Never
    PROVE  \A s \in Requests : s # r => RequestOK(s)'
<1>1. SUFFICES ASSUME NEW s \in Requests, s # r PROVE RequestOK(s)'
  OBVIOUS
<1>2. request'[s] = request[s] /\ now' = now /\ RequestOK(s)
  BY <1>1 DEF OneMoves, IInv
<1>3. \A o \in Requests : Told(s, o) => Told(s, o)'
  BY <1>1, <1>2 DEF OneMoves, Told
<1>4. QED
  BY <1>2, <1>3 DEF RequestOK, Active

LEMMA KeyKept ==
    ASSUME IInv, NEW r \in Requests, OneMoves(r), made' = made, key' = key
    PROVE  KeyOK' /\ OncePerDay'
<1>1. KeyOK /\ OncePerDay
  BY DEF IInv
<1>2. OncePerDay'
  BY <1>1 DEF OncePerDay
<1>3. Past(now) => Past(now)'
  BY DEF Past, OneMoves
<1>4. \A o \in Requests : request[o].step = "done" => request'[o] = request[o]
  BY DEF OneMoves
<1>5. key # Nothing => key.response \in Responses
  BY RowColumns DEF IInv
<1>6. QED
  BY <1>1, <1>2, <1>3, <1>4, <1>5 DEF KeyOK, OneMoves

(* The row in the making stays what it was, goes, or was begun just now. *)
SameDraft ==
    (dirty' /\ draft' # Nothing) =>
        \/ dirty /\ draft # Nothing /\ draft'.created = draft.created
        \/ draft'.created = now

LEMMA SeekersKept ==
    ASSUME IInv, NEW s \in Requests, request'[s] = request[s], key' = key, SameDraft,
           Seeking(s)' => Seeking(s)
    PROVE  TriesOK(s)'
<1>1. TriesOK(s)
  BY DEF IInv
<1>2. Seeking(s) => request[s].since <= now
  BY Young DEF Seeking, Active
<1>3. Seeking(s) /\ Late(s) => Late(s)'
  BY <1>2 DEF Late, SameDraft
<1>4. Gone(s) => Gone(s)'
  BY DEF Gone
<1>5. QED
  BY <1>1, <1>3, <1>4 DEF TriesOK

(* A step of r that keeps the locks keeps the holder right, if it is not r. *)
LEMMA HolderKept ==
    ASSUME IInv, NEW r \in Requests, OneMoves(r), holder # r,
           UNCHANGED <<key, holder, dirty, draft, made>>,
           request'[r].step \notin {"locked", "run", "commit"}
    PROVE  LocksOK'
<1>1. \A s \in Requests : request'[s].step \in {"locked", "run", "commit"} => holder' = s
  BY DEF OneMoves, IInv, LocksOK
<1>2. holder # Nothing => HolderOK'
  <2>1. SUFFICES ASSUME holder # Nothing PROVE HolderOK'
    OBVIOUS
  <2>2. HolderOK /\ holder \in Requests
    BY <2>1, RowColumns DEF IInv, LocksOK
  <2>3. request'[holder] = request[holder]
    BY <2>2 DEF OneMoves
  <2>4. DraftOK => DraftOK'
    BY <2>3 DEF DraftOK, Past, OneMoves
  <2>5. Expired(key) => Expired(key)'
    BY DEF Expired, OneMoves
  <2>6. QED
    BY <2>2, <2>3, <2>4, <2>5 DEF HolderOK
<1>3. QED
  BY <1>1, <1>2 DEF LocksOK

LEMMA NoHolderYet ==
    ASSUME IInv, holder = Nothing
    PROVE  ~dirty /\ draft = key
  BY DEF IInv, TypeOK

-----------------------------------------------------------------------------
(* Each action preserves the invariant. *)

LEMMA InitIInv == Init => IInv
<1> SUFFICES ASSUME Init PROVE IInv
  OBVIOUS
<1>1. TypeOK
  <2> DEFINE b == CHOOSE body \in Bodies : TRUE
             q == [step |-> "new", body |-> b, tries |-> 0, since |-> 0,
                   seen |-> Nothing, expired |-> FALSE, outcome |-> "none"]
  <2>1. b \in Bodies
    BY ConstantsAssumption
  <2> HIDE DEF b
  <2>2. q \in Request
    BY <2>1, Numbers DEF Request, Steps, Outcomes
  <2>3. request = [r \in Requests |-> q]
    BY DEF Init, b
  <2> HIDE DEF q
  <2>4. request \in [Requests -> Request]
    BY <2>2, <2>3
  <2>5. /\ now = 0 /\ key = Nothing /\ holder = Nothing /\ dirty = FALSE /\ draft = Nothing
        /\ made = [r \in Requests |-> Never]
    BY DEF Init
  <2>6. /\ now \in 0..LastTick
        /\ dirty \in BOOLEAN
        /\ made \in [Requests -> {Never} \cup 0..LastTick]
    <3>1. now \in 0..LastTick
      BY <2>5, Numbers
    <3>2. dirty \in BOOLEAN
      BY <2>5
    <3>3. made \in [Requests -> {Never} \cup 0..LastTick]
      BY <2>5
    <3>4. QED
      BY <3>1, <3>2, <3>3
  <2>7. QED
    BY <2>4, <2>5, <2>6 DEF TypeOK
<1>2. LocksOK
  BY DEF Init, LocksOK
<1>3. KeyOK /\ OncePerDay
  BY DEF Init, KeyOK, Past, OncePerDay
<1>4. \A r \in Requests : RequestOK(r)
  BY DEF Init, RequestOK, Active
<1>5. \A r \in Requests : TriesOK(r)
  BY DEF Init, TriesOK, Seeking
<1>6. QED
  BY <1>1, <1>2, <1>3, <1>4, <1>5 DEF IInv

LEMMA ArriveStep ==
    ASSUME IInv, NEW r \in Requests, Arrive(r)
    PROVE  IInv'
<1>0. TypeOK
  BY DEF IInv
<1>1. PICK body \in Bodies :
         request' = [request EXCEPT ![r].step = "insert", ![r].body = body, ![r].since = now]
  BY DEF Arrive
<1>2. request[r].step = "new" /\ UNCHANGED <<now, key, holder, dirty, draft, made>>
  BY DEF Arrive
<1> DEFINE q == [[[request[r] EXCEPT !.step = "insert"] EXCEPT !.body = body] EXCEPT !.since = now]
<1>3. /\ q \in Request /\ q.step = "insert" /\ q.since = now /\ q.tries = request[r].tries
      /\ q.outcome = request[r].outcome
  <2>1. [request[r] EXCEPT !.step = "insert"] \in Request
    BY <1>0, RequestColumns DEF Request, Steps
  <2>2. [[request[r] EXCEPT !.step = "insert"] EXCEPT !.body = body] \in Request
    BY <2>1 DEF Request
  <2>3. now \in 0..LastTick
    BY <1>0 DEF TypeOK
  <2>4. q \in Request
    BY <2>2, <2>3 DEF Request
  <2>5. QED
    BY <1>0, <2>4, RequestColumns DEF Request
<1>4. request' = [request EXCEPT ![r] = q]
  BY <1>0, <1>1, RequestColumns DEF TypeOK, Request
<1> HIDE DEF q
<1>5. request' \in [Requests -> Request] /\ request'[r] = q /\ OneMoves(r)
  BY <1>0, <1>2, <1>3, <1>4, RequestStep DEF OneMoves
<1>6. holder # r
  BY <1>2, Words DEF IInv, LocksOK, HolderOK
<1>7. TypeOK'
  BY <1>0, <1>2, <1>5 DEF TypeOK
<1>8. LocksOK'
  BY <1>2, <1>3, <1>5, <1>6, HolderKept
<1>9. KeyOK' /\ OncePerDay'
  BY <1>2, <1>5, KeyKept
<1>10. \A s \in Requests : RequestOK(s)'
  <2>1. RequestOK(r)
    BY DEF IInv
  <2>2. now <= now + MaxDuration /\ now <= now
    BY <1>0, RowColumns, Numbers
  <2>3. RequestOK(r)'
    BY <1>2, <1>3, <1>5, <2>1, <2>2 DEF RequestOK, Active
  <2>4. QED
    BY <1>2, <1>5, <2>3, OthersOK
<1>11. \A s \in Requests : TriesOK(s)'
  <2>1. TriesOK(r)'
    <3>1. request[r].tries = 0
      BY <1>2 DEF IInv, RequestOK
    <3>2. QED
      BY <1>3, <1>5, <3>1 DEF TriesOK
  <2>2. ASSUME NEW s \in Requests, s # r PROVE TriesOK(s)'
    BY <1>2, <1>5, <2>2, SeekersKept DEF OneMoves, SameDraft, Seeking
  <2>3. QED
    BY <2>1, <2>2
<1>12. QED
  BY <1>7, <1>8, <1>9, <1>10, <1>11 DEF IInv

LEMMA InsertStep ==
    ASSUME IInv, NEW r \in Requests, Insert(r)
    PROVE  IInv'
<1>0. TypeOK
  BY DEF IInv
<1>1. request[r].step = "insert" /\ (Free(r) \/ ~dirty) /\ UNCHANGED <<now, key, made>> /\ Active(r)
  BY DEF Insert, Active
<1>2. ASSUME NEW s \in Steps, request' = [request EXCEPT ![r].step = s]
      PROVE  /\ request' \in [Requests -> Request]
             /\ request'[r] = [request[r] EXCEPT !.step = s] /\ request'[r].step = s
             /\ request'[r].tries = request[r].tries /\ request'[r].since = request[r].since
             /\ request'[r].outcome = request[r].outcome /\ request'[r].body = request[r].body
             /\ OneMoves(r)
  <2> DEFINE q == [request[r] EXCEPT !.step = s]
  <2>1. /\ q \in Request /\ q.step = s /\ q.tries = request[r].tries
        /\ q.since = request[r].since /\ q.outcome = request[r].outcome /\ q.body = request[r].body
    BY <1>0, RequestColumns DEF Request
  <2>2. request' = [request EXCEPT ![r] = q]
    BY <1>0, <1>2 DEF TypeOK
  <2> HIDE DEF q
  <2>3. request'[r] = q
    BY <1>0, <2>1, <2>2, RequestStep
  <2>4. QED
    BY <1>0, <1>1, <2>1, <2>2, <2>3, RequestStep DEF OneMoves, q
<1>3. holder = r => dirty /\ draft = Nothing
  BY <1>0, <1>1, Words DEF IInv, LocksOK, HolderOK
<1>4. CASE /\ Row(r) = Nothing
           /\ holder' = r /\ dirty' = TRUE
           /\ draft' = [hash |-> request[r].body, created |-> now, response |-> "null"]
           /\ request' = [request EXCEPT ![r].step = "run"]
  <2>1. /\ request' \in [Requests -> Request] /\ request'[r].step = "run"
        /\ request'[r].tries = request[r].tries /\ request'[r].since = request[r].since
        /\ request'[r].outcome = request[r].outcome /\ request'[r].body = request[r].body
        /\ OneMoves(r)
    BY <1>2, <1>4 DEF Steps
  <2>2. holder \in {Nothing, r}
    <3>1. SUFFICES ASSUME holder # r, holder # Nothing PROVE FALSE
      OBVIOUS
    <3>2. ~dirty /\ key = Nothing
      BY <1>1, <1>4, <3>1 DEF Free, Row
    <3>3. QED
      BY <3>1, <3>2 DEF IInv, LocksOK, HolderOK, DraftOK
  <2>3. draft' \in KeyRow /\ draft' # Nothing /\ draft'.created = now /\ draft'.response = "null"
        /\ draft'.hash = request[r].body
    <3>1. now \in 0..LastTick /\ request[r].body \in Bodies /\ "null" \in Responses
      BY <1>0, RequestColumns DEF TypeOK, Responses
    <3>2. draft' \in KeyRow
      BY <1>4, <3>1 DEF KeyRow
    <3>3. QED
      BY <1>4, <3>2, Numbers
  <2>4. TypeOK'
    BY <1>0, <1>1, <1>4, <2>1, <2>3, Numbers DEF TypeOK
  <2>5. (key # Nothing => key.created + Ttl <= now) /\ Past(now)
    <3>1. CASE holder = r
      <4>1. key # Nothing /\ Expired(key)
        BY <1>1, <3>1, Words DEF IInv, LocksOK, HolderOK
      <4>2. \A s \in Requests : made[s] # Never => made[s] <= key.created
        BY <4>1 DEF IInv, KeyOK
      <4>3. \A s \in Requests : made[s] # Never => made[s] + Ttl <= now
        BY <1>0, <4>1, <4>2, RowColumns, Numbers DEF Expired
      <4>4. QED
        BY <4>1, <4>3 DEF Expired, Past
    <3>2. CASE holder # r
      <4>1. key = Nothing
        BY <1>4, <3>2 DEF Row
      <4>2. QED
        BY <4>1 DEF IInv, KeyOK
    <3>3. QED
      BY <3>1, <3>2
  <2>6. LocksOK'
    <3>1. \A s \in Requests : request'[s].step \in {"locked", "run", "commit"} => s = r
      BY <2>1, <2>2, Words DEF OneMoves, IInv, LocksOK
    <3>2. DraftOK'
      <4>1. \A s \in Requests : made'[s] # Never => made'[s] + Ttl <= draft'.created
        BY <1>1, <2>3, <2>5 DEF Past
      <4>2. now \in Nat
        BY <1>0, RowColumns
      <4>3. QED
        BY <1>1, <1>4, <2>1, <2>3, <2>5, <4>1, <4>2 DEF DraftOK, Past
    <3>3. QED
      BY <1>4, <2>1, <2>3, <3>1, <3>2 DEF LocksOK, HolderOK
  <2>7. KeyOK' /\ OncePerDay'
    BY <1>1, <2>1, KeyKept
  <2>8. \A s \in Requests : RequestOK(s)'
    <3>1. RequestOK(r)'
      BY <1>1, <2>1 DEF IInv, RequestOK, Active
    <3>2. QED
      BY <1>1, <2>1, <3>1, OthersOK
  <2>9. \A s \in Requests : TriesOK(s)'
    <3>1. TriesOK(r)'
      BY <2>1 DEF IInv, TriesOK, Seeking
    <3>2. ASSUME NEW s \in Requests, s # r PROVE TriesOK(s)'
      <4>1. Seeking(s)' => Seeking(s)
        BY <2>1, <2>2, <3>2, Words DEF Seeking, OneMoves
      <4>2. QED
        BY <1>1, <2>1, <2>3, <3>2, <4>1, SeekersKept DEF OneMoves, SameDraft
    <3>3. QED
      BY <3>1, <3>2
  <2>10. QED
    BY <2>4, <2>6, <2>7, <2>8, <2>9 DEF IInv
<1>5. CASE /\ Row(r) # Nothing
           /\ request' = [request EXCEPT ![r].step = "select"]
           /\ UNCHANGED <<holder, dirty, draft>>
  <2>1. /\ request' \in [Requests -> Request] /\ request'[r].step = "select"
        /\ request'[r].tries = request[r].tries /\ request'[r].since = request[r].since
        /\ request'[r].outcome = request[r].outcome /\ request'[r].body = request[r].body
        /\ OneMoves(r)
    BY <1>2, <1>5 DEF Steps
  <2>2. holder # r /\ key # Nothing
    BY <1>3, <1>5 DEF Row
  <2>3. ~dirty
    BY <1>1, <2>2, NoHolderYet DEF Free
  <2>4. TypeOK'
    BY <1>0, <1>1, <1>5, <2>1 DEF TypeOK
  <2>5. LocksOK'
    BY <1>1, <1>5, <2>1, <2>2, HolderKept
  <2>6. KeyOK' /\ OncePerDay'
    BY <1>1, <2>1, KeyKept
  <2>7. \A s \in Requests : RequestOK(s)'
    <3>1. RequestOK(r)'
      BY <1>1, <2>1 DEF IInv, RequestOK, Active
    <3>2. QED
      BY <1>1, <2>1, <3>1, OthersOK
  <2>8. \A s \in Requests : TriesOK(s)'
    <3>1. TriesOK(r)'
      <4>1. TriesOK(r) /\ Seeking(r)
        BY <1>1, <2>3 DEF IInv, Seeking
      <4>2. Late(r)'
        BY <1>5, <2>3 DEF Late
      <4>3. Gone(r) => Gone(r)'
        BY <1>1, <2>1 DEF Gone
      <4>4. QED
        BY <1>1, <2>1, <2>2, <4>1, <4>2, <4>3 DEF TriesOK
    <3>2. ASSUME NEW s \in Requests, s # r PROVE TriesOK(s)'
      BY <1>1, <1>5, <2>1, <3>2, SeekersKept DEF OneMoves, SameDraft, Seeking
    <3>3. QED
      BY <3>1, <3>2
  <2>9. QED
    BY <2>4, <2>5, <2>6, <2>7, <2>8 DEF IInv
<1>6. QED
  BY <1>4, <1>5 DEF Insert

LEMMA SelectStep ==
    ASSUME IInv, NEW r \in Requests, Select(r)
    PROVE  IInv'
<1>0. TypeOK
  BY DEF IInv
<1> DEFINE x == key # Nothing /\ Expired(key)
           q == [[[request[r] EXCEPT !.step = "wait"] EXCEPT !.seen = key] EXCEPT !.expired = x]
<1>1. /\ request[r].step = "select" /\ Active(r)
      /\ UNCHANGED <<now, key, holder, dirty, draft, made>>
  BY DEF Select, Active
<1>2. /\ q \in Request /\ q.step = "wait" /\ q.seen = key /\ q.expired = x
      /\ q.tries = request[r].tries /\ q.since = request[r].since
      /\ q.outcome = request[r].outcome /\ q.body = request[r].body
  <2>1. [request[r] EXCEPT !.step = "wait"] \in Request
    BY <1>0, RequestColumns DEF Request, Steps
  <2>2. key \in KeyRow \cup {Nothing} /\ x \in BOOLEAN
    BY <1>0 DEF TypeOK
  <2> HIDE DEF x
  <2>3. [[request[r] EXCEPT !.step = "wait"] EXCEPT !.seen = key] \in Request
    BY <2>1, <2>2 DEF Request
  <2>4. q \in Request
    BY <2>2, <2>3 DEF Request
  <2>5. QED
    BY <1>0, <2>4, RequestColumns DEF Request
<1>3. request' = [request EXCEPT ![r] = q]
  BY <1>0, RequestColumns DEF Select, TypeOK, Request
<1>4. x = (key # Nothing /\ Expired(key))
  OBVIOUS
<1> HIDE DEF q, x
<1>5. request' \in [Requests -> Request] /\ request'[r] = q /\ OneMoves(r)
  BY <1>0, <1>1, <1>2, <1>3, RequestStep DEF OneMoves
<1>6. holder # r
  BY <1>1, Words DEF IInv, LocksOK, HolderOK
<1>7. TypeOK'
  BY <1>0, <1>1, <1>5 DEF TypeOK
<1>8. LocksOK'
  BY <1>1, <1>2, <1>5, <1>6, HolderKept
<1>9. KeyOK' /\ OncePerDay'
  BY <1>1, <1>5, KeyKept
<1>10. \A s \in Requests : RequestOK(s)'
  <2>1. RequestOK(r)
    BY DEF IInv
  <2>2. x => key # Nothing /\ key.created + Ttl <= now
    BY <1>4 DEF Expired
  <2>3. ~x /\ key # Nothing => request[r].since < key.created + Ttl
    <3>1. SUFFICES ASSUME ~Expired(key), key # Nothing PROVE request[r].since < key.created + Ttl
      BY <1>4
    <3>2. /\ request[r].since <= now /\ request[r].since \in Nat /\ now \in Nat
          /\ key.created \in Nat /\ ~(key.created + Ttl <= now)
      BY <1>0, <1>1, <3>1, Young, RowColumns DEF Expired
    <3>3. QED
      BY <3>2, Numbers
  <2>4. RequestOK(r)'
    BY <1>1, <1>2, <1>5, <2>1, <2>2, <2>3 DEF RequestOK, Active
  <2>5. QED
    BY <1>1, <1>5, <2>4, OthersOK
<1>11. \A s \in Requests : TriesOK(s)'
  <2>1. TriesOK(r)'
    <3>1. TriesOK(r) /\ Seeking(r)
      BY <1>1, <1>6 DEF IInv, Seeking
    <3>2. Late(r) /\ Late(r)'
      BY <1>1, <1>2, <1>5, <3>1 DEF Late, TriesOK
    <3>3. Gone(r) => Gone(r)'
      BY <1>1, <1>2, <1>5 DEF Gone
    <3>4. key = Nothing => Gone(r)'
      BY <1>1 DEF Gone
    <3>5. QED
      BY <1>1, <1>2, <1>5, <3>1, <3>2, <3>3, <3>4 DEF TriesOK
  <2>2. ASSUME NEW s \in Requests, s # r PROVE TriesOK(s)'
    BY <1>1, <1>5, <2>2, SeekersKept DEF OneMoves, SameDraft, Seeking
  <2>3. QED
    BY <2>1, <2>2
<1>12. QED
  BY <1>7, <1>8, <1>9, <1>10, <1>11 DEF IInv

(* A request whose row was taken away tries again, for the second and last time. *)
LEMMA TryAgainStep ==
    ASSUME TypeOK, MaxTries >= 2, NEW r \in Requests, request[r].tries = 0, TryAgain(r)
    PROVE  /\ request' \in [Requests -> Request]
           /\ request'[r].step = "insert" /\ request'[r].tries = 1
           /\ request'[r].since = request[r].since /\ request'[r].outcome = request[r].outcome
           /\ request'[r].body = request[r].body
           /\ \A s \in Requests : s # r => request'[s] = request[s]
<1> DEFINE q == [[request[r] EXCEPT !.step = "insert"] EXCEPT !.tries = 1]
<1>1. request[r].tries + 1 < MaxTries /\ request[r].tries + 1 = 1
  BY Numbers
<1>2. request' = [request EXCEPT ![r].step = "insert", ![r].outcome = request[r].outcome,
                                 ![r].tries = 1]
  BY <1>1 DEF TryAgain, TypeOK, Request
<1>3. /\ q \in Request /\ q.step = "insert" /\ q.tries = 1 /\ q.since = request[r].since
      /\ q.outcome = request[r].outcome /\ q.body = request[r].body
  <2>1. [request[r] EXCEPT !.step = "insert"] \in Request
    BY RequestColumns DEF Request, Steps
  <2>2. 1 \in 0..MaxTries
    BY Numbers
  <2>3. q \in Request
    BY <2>1, <2>2 DEF Request
  <2>4. QED
    BY <2>3, RequestColumns DEF Request
<1>4. request' = [request EXCEPT ![r] = q]
  BY <1>2, RequestColumns DEF TypeOK, Request
<1> HIDE DEF q
<1>5. QED
  BY <1>3, <1>4, RequestStep

LEMMA GrantStep ==
    ASSUME IInv, MaxTries >= 2, NEW r \in Requests, Grant(r)
    PROVE  IInv'
<1>0. TypeOK
  BY DEF IInv
<1>1. request[r].step = "wait" /\ Free(r) /\ UNCHANGED <<now, key, made>> /\ Active(r)
  BY DEF Grant, Active
<1>2. holder = Nothing /\ ~dirty /\ draft = key
  <2>1. holder # r
    BY <1>1, Words DEF IInv, LocksOK, HolderOK
  <2>2. QED
    BY <1>1, <2>1, NoHolderYet DEF Free
<1>3. TriesOK(r) /\ Seeking(r) /\ RequestOK(r)
  BY <1>1, <1>2 DEF IInv, Seeking
<1>4. CASE /\ key # Nothing /\ key = request[r].seen
           /\ holder' = r
           /\ request' = [request EXCEPT ![r].step = "locked"]
           /\ UNCHANGED <<dirty, draft>>
  <2> DEFINE q == [request[r] EXCEPT !.step = "locked"]
  <2>1. /\ q \in Request /\ q.step = "locked" /\ q.seen = request[r].seen
        /\ q.expired = request[r].expired /\ q.tries = request[r].tries
        /\ q.since = request[r].since /\ q.outcome = request[r].outcome /\ q.body = request[r].body
    BY <1>0, RequestColumns DEF Request, Steps
  <2>2. request' = [request EXCEPT ![r] = q]
    BY <1>0, <1>4 DEF TypeOK
  <2> HIDE DEF q
  <2>3. request' \in [Requests -> Request] /\ request'[r] = q /\ OneMoves(r)
    BY <1>0, <1>1, <2>1, <2>2, RequestStep DEF OneMoves
  <2>4. TypeOK'
    BY <1>0, <1>1, <1>2, <1>4, <2>3 DEF TypeOK
  <2>5. LocksOK'
    <3>1. \A s \in Requests : request'[s].step \in {"locked", "run", "commit"} => s = r
      BY <1>2, <2>3, Words DEF OneMoves, IInv, LocksOK
    <3>2. QED
      BY <1>1, <1>2, <1>4, <2>1, <2>3, <3>1 DEF LocksOK, HolderOK
  <2>6. KeyOK' /\ OncePerDay'
    BY <1>1, <2>3, KeyKept
  <2>7. \A s \in Requests : RequestOK(s)'
    <3>1. RequestOK(r)'
      BY <1>1, <1>3, <2>1, <2>3 DEF RequestOK, Active
    <3>2. QED
      BY <1>1, <2>3, <3>1, OthersOK
  <2>8. \A s \in Requests : TriesOK(s)'
    <3>1. TriesOK(r)'
      <4>1. Late(r)' /\ (Gone(r) => Gone(r)')
        BY <1>1, <1>2, <1>4, <2>1, <2>3 DEF Late, Gone
      <4>2. QED
        BY <1>1, <1>3, <1>4, <2>1, <2>3, <4>1 DEF TriesOK
    <3>2. ASSUME NEW s \in Requests, s # r PROVE TriesOK(s)'
      BY <1>1, <1>2, <1>4, <2>3, <3>2, SeekersKept DEF OneMoves, SameDraft, Seeking
    <3>3. QED
      BY <3>1, <3>2
  <2>9. QED
    BY <2>4, <2>5, <2>6, <2>7, <2>8 DEF IInv
<1>5. CASE /\ key = Nothing \/ key # request[r].seen
           /\ TryAgain(r)
           /\ IF request[r].tries + 1 < MaxTries THEN UNCHANGED <<holder, dirty, draft>>
                                                 ELSE Rollback(r)
  <2>1. Gone(r) /\ request[r].tries = 0
    <3>1. request[r].tries # 1
      BY <1>1, <1>3, <1>5 DEF TriesOK
    <3>2. QED
      BY <1>0, <1>1, <1>3, <1>5, <3>1, RequestColumns DEF TriesOK
  <2>2. UNCHANGED <<holder, dirty, draft>>
    BY <1>5, <2>1, Numbers
  <2>3. /\ request' \in [Requests -> Request]
        /\ request'[r].step = "insert" /\ request'[r].tries = 1
        /\ request'[r].since = request[r].since /\ request'[r].outcome = request[r].outcome
        /\ OneMoves(r)
    BY <1>0, <1>1, <1>5, <2>1, TryAgainStep DEF OneMoves
  <2>4. TypeOK'
    BY <1>0, <1>1, <2>2, <2>3 DEF TypeOK
  <2>5. LocksOK'
    BY <1>1, <1>2, <2>2, <2>3, Words, HolderKept
  <2>6. KeyOK' /\ OncePerDay'
    BY <1>1, <2>3, KeyKept
  <2>7. \A s \in Requests : RequestOK(s)'
    <3>1. RequestOK(r)'
      BY <1>1, <1>3, <2>3 DEF RequestOK, Active
    <3>2. QED
      BY <1>1, <2>3, <3>1, OthersOK
  <2>8. \A s \in Requests : TriesOK(s)'
    <3>1. TriesOK(r)'
      <4>1. Late(r)' /\ Gone(r)'
        BY <1>1, <1>2, <2>1, <2>2, <2>3 DEF Late, Gone
      <4>2. QED
        BY <2>3, <4>1 DEF TriesOK
    <3>2. ASSUME NEW s \in Requests, s # r PROVE TriesOK(s)'
      BY <1>1, <2>2, <2>3, <3>2, SeekersKept DEF OneMoves, SameDraft, Seeking
    <3>3. QED
      BY <3>1, <3>2
  <2>9. QED
    BY <2>4, <2>5, <2>6, <2>7, <2>8 DEF IInv
<1>6. QED
  BY <1>4, <1>5 DEF Grant

(* A request ends and gives back what it held. *)
LEMMA RollbackStep ==
    ASSUME IInv, NEW r \in Requests, NEW o \in Outcomes, Active(r), End(r, o), Rollback(r),
           UNCHANGED <<now, key, made>>,
           o \in {"conflict", "mismatch", "error"} \cup Requests,
           o \in Requests => o # r /\ Told(r, o)
    PROVE  IInv'
<1>0. TypeOK
  BY DEF IInv
<1>1. /\ request' \in [Requests -> Request]
      /\ request'[r].step = "done" /\ request'[r].outcome = o
      /\ request'[r].body = request[r].body /\ request'[r].tries = request[r].tries
      /\ OneMoves(r)
  BY <1>0, EndStep DEF OneMoves, Active
<1>2. ASSUME holder = r PROVE TypeOK' /\ LocksOK' /\ \A s \in Requests : s # r => TriesOK(s)'
  <2>1. holder' = Nothing /\ dirty' = FALSE /\ draft' = key
    BY <1>2 DEF Rollback
  <2>2. TypeOK'
    BY <1>0, <1>1, <2>1 DEF TypeOK
  <2>3. LocksOK'
    BY <1>1, <1>2, <2>1 DEF IInv, LocksOK, OneMoves
  <2>4. \A s \in Requests : s # r => TriesOK(s)'
    BY <1>1, <1>2, <2>1, SeekersKept DEF OneMoves, SameDraft, Seeking
  <2>5. QED
    BY <2>2, <2>3, <2>4
<1>3. ASSUME holder # r PROVE TypeOK' /\ LocksOK' /\ \A s \in Requests : s # r => TriesOK(s)'
  <2>1. UNCHANGED <<holder, draft>> /\ dirty' = dirty
    BY <1>0, <1>3 DEF Rollback, TypeOK
  <2>2. TypeOK'
    BY <1>0, <1>1, <2>1 DEF TypeOK
  <2>3. LocksOK'
    BY <1>1, <1>3, <2>1, HolderKept
  <2>4. \A s \in Requests : s # r => TriesOK(s)'
    BY <1>1, <2>1, SeekersKept DEF OneMoves, SameDraft, Seeking
  <2>5. QED
    BY <2>2, <2>3, <2>4
<1>4. KeyOK' /\ OncePerDay'
  BY <1>1, KeyKept
<1>5. \A s \in Requests : RequestOK(s)'
  <2>1. o \in Requests => Told(r, o)'
    BY <1>1 DEF Told, OneMoves
  <2>2. RequestOK(r)'
    BY <1>1, <2>1 DEF RequestOK, Active
  <2>3. QED
    BY <1>1, <2>2, OthersOK
<1>6. TriesOK(r)'
  BY <1>1 DEF IInv, TriesOK, Seeking
<1>7. TypeOK' /\ LocksOK' /\ \A s \in Requests : s # r => TriesOK(s)'
  BY <1>2, <1>3
<1>8. QED
  BY <1>4, <1>5, <1>6, <1>7 DEF IInv

LEMMA LockedHolds ==
    ASSUME IInv, NEW r \in Requests, request[r].step = "locked"
    PROVE  holder = r /\ ~dirty /\ draft = key /\ key # Nothing /\ key = request[r].seen
<1>1. holder = r /\ holder # Nothing
  BY Words DEF IInv, LocksOK
<1>2. QED
  BY <1>1 DEF IInv, LocksOK, HolderOK, TypeOK

LEMMA DropExpiredStep ==
    ASSUME IInv, MaxTries >= 2, NEW r \in Requests, DropExpired(r)
    PROVE  IInv'
<1>0. TypeOK
  BY DEF IInv
<1>1. /\ request[r].step = "locked" /\ request[r].expired /\ TryAgain(r) /\ Active(r)
      /\ UNCHANGED <<now, key, made>>
  BY DEF DropExpired, Active
<1>2. holder = r /\ ~dirty /\ draft = key /\ key # Nothing /\ key = request[r].seen
  BY <1>1, LockedHolds
<1>3. Expired(key)
  BY <1>1, <1>2 DEF IInv, RequestOK, Expired
<1>4. request[r].tries = 0
  <2>1. ~Gone(r)
    BY <1>1, <1>2, <1>3, YoungRow
  <2>2. request[r].tries # 1 /\ request[r].tries <= 1
    BY <1>1, <1>2, <2>1 DEF IInv, TriesOK, Seeking
  <2>3. QED
    BY <1>0, <2>2, RequestColumns
<1>5. holder' = r /\ dirty' = TRUE /\ draft' = Nothing
  BY <1>2, <1>4, Numbers DEF DropExpired
<1>6. /\ request' \in [Requests -> Request]
      /\ request'[r].step = "insert" /\ request'[r].tries = 1
      /\ request'[r].since = request[r].since /\ request'[r].outcome = request[r].outcome
      /\ OneMoves(r)
  BY <1>0, <1>1, <1>4, TryAgainStep DEF OneMoves
<1>7. TypeOK'
  BY <1>0, <1>1, <1>5, <1>6, Words DEF TypeOK
<1>8. LocksOK'
  <2>1. \A s \in Requests : request'[s].step \in {"locked", "run", "commit"} => s = r
    BY <1>2, <1>6 DEF OneMoves, IInv, LocksOK
  <2>2. Expired(key)'
    BY <1>1, <1>3 DEF Expired
  <2>3. QED
    BY <1>1, <1>2, <1>5, <1>6, <2>1, <2>2 DEF LocksOK, HolderOK
<1>9. KeyOK' /\ OncePerDay'
  BY <1>1, <1>6, KeyKept
<1>10. \A s \in Requests : RequestOK(s)'
  <2>1. RequestOK(r)'
    BY <1>1, <1>6 DEF IInv, RequestOK, Active
  <2>2. QED
    BY <1>1, <1>6, <2>1, OthersOK
<1>11. \A s \in Requests : TriesOK(s)'
  <2>1. TriesOK(r)'
    BY <1>5, <1>6 DEF TriesOK, Seeking
  <2>2. ASSUME NEW s \in Requests, s # r PROVE TriesOK(s)'
    BY <1>1, <1>2, <1>5, <1>6, <2>2, SeekersKept DEF OneMoves, SameDraft, Seeking
  <2>3. QED
    BY <2>1, <2>2
<1>12. QED
  BY <1>7, <1>8, <1>9, <1>10, <1>11 DEF IInv

(* The answer of a key is one that may be given. *)
LEMMA AnswerIsTrue ==
    ASSUME IInv, NEW r \in Requests, request[r].step = "locked"
    PROVE  /\ Answer(r) \in {"conflict", "mismatch"} \cup Requests
           /\ Answer(r) = "mismatch" \/ Answer(r) = key.response
           /\ Answer(r) \in Requests => Answer(r) # r /\ Told(r, Answer(r))
<1>0. key # Nothing
  BY LockedHolds
<1>1. /\ key.response # "null" /\ key.response \in {"conflict"} \cup Requests
      /\ key.response \in Requests =>
              /\ made[key.response] # Never /\ request[key.response].step = "done"
              /\ request[key.response].body = key.hash
  BY <1>0, RowColumns DEF IInv, KeyOK, Responses
<1>2. CASE key.hash # request[r].body
  <2>1. Answer(r) = "mismatch"
    BY <1>1, <1>2 DEF Answer
  <2>2. QED
    BY <2>1, Words
<1>3. CASE key.hash = request[r].body
  <2>1. Answer(r) = key.response
    BY <1>1, <1>3 DEF Answer
  <2>2. QED
    BY <1>1, <1>3, <2>1 DEF Told
<1>4. QED
  BY <1>2, <1>3

LEMMA ReplayStep ==
    ASSUME IInv, NEW r \in Requests, Replay(r)
    PROVE  IInv'
<1>1. /\ request[r].step = "locked" /\ Active(r) /\ End(r, Answer(r)) /\ Rollback(r)
      /\ UNCHANGED <<now, key, made>>
  BY DEF Replay, Active
<1>2. PICK o \in Outcomes : o = Answer(r)
  BY <1>1, AnswerIsTrue DEF Outcomes
<1>3. QED
  BY <1>1, <1>2, AnswerIsTrue, RollbackStep

LEMMA FailStep ==
    ASSUME IInv, NEW r \in Requests, Fail(r)
    PROVE  IInv'
<1>1. Active(r) /\ End(r, "error") /\ Rollback(r) /\ UNCHANGED <<now, key, made>>
  BY DEF Fail, Active
<1>2. "error" \in Outcomes /\ "error" \notin Requests
  BY Words DEF Outcomes
<1>3. QED
  BY <1>1, <1>2, RollbackStep

LEMMA RunStep ==
    ASSUME IInv, NEW r \in Requests, Run(r)
    PROVE  IInv'
<1>0. TypeOK
  BY DEF IInv
<1>1. PICK response \in {r, "conflict"} :
        /\ draft' = [draft EXCEPT !.response = response]
        /\ request' = [request EXCEPT ![r].step = "commit", ![r].outcome = response]
  BY DEF Run
<1>2. request[r].step = "run" /\ Active(r) /\ UNCHANGED <<now, key, holder, dirty, made>>
  BY DEF Run, Active
<1>3. holder = r /\ DraftOK
  BY <1>2, Words DEF IInv, LocksOK, HolderOK
<1> DEFINE q == [[request[r] EXCEPT !.step = "commit"] EXCEPT !.outcome = response]
<1>4. /\ q \in Request /\ q.step = "commit" /\ q.outcome = response /\ q.tries = request[r].tries
      /\ q.since = request[r].since /\ q.body = request[r].body
  <2>1. [request[r] EXCEPT !.step = "commit"] \in Request
    BY <1>0, RequestColumns DEF Request, Steps
  <2>2. q \in Request
    BY <2>1 DEF Request, Outcomes
  <2>3. QED
    BY <1>0, <2>2, RequestColumns DEF Request
<1>5. request' = [request EXCEPT ![r] = q]
  BY <1>0, <1>1, RequestColumns DEF TypeOK, Request
<1> HIDE DEF q
<1>6. request' \in [Requests -> Request] /\ request'[r] = q /\ OneMoves(r)
  BY <1>0, <1>2, <1>4, <1>5, RequestStep DEF OneMoves
<1>7. /\ draft' \in KeyRow /\ draft' # Nothing /\ draft'.created = draft.created
      /\ draft'.hash = draft.hash /\ draft'.response = response
  <2>1. draft \in KeyRow
    BY <1>0, <1>3, RowColumns DEF DraftOK
  <2>2. draft' \in KeyRow
    BY <1>1, <2>1 DEF KeyRow, Responses
  <2>3. QED
    BY <1>1, <2>1, <2>2, Numbers DEF KeyRow
<1>8. TypeOK'
  BY <1>0, <1>2, <1>3, <1>6, <1>7 DEF TypeOK, DraftOK
<1>9. LocksOK'
  <2>1. \A s \in Requests : request'[s].step \in {"locked", "run", "commit"} => s = r
    BY <1>3, <1>6 DEF OneMoves, IInv, LocksOK
  <2>2. \A s \in Requests : made'[s] # Never => made'[s] + Ttl <= draft'.created
    BY <1>2, <1>3, <1>7 DEF DraftOK, Past
  <2>3. DraftOK'
    BY <1>2, <1>3, <1>4, <1>6, <1>7, <2>2 DEF DraftOK, Past
  <2>4. QED
    BY <1>2, <1>3, <1>4, <1>6, <1>7, <2>1, <2>3 DEF LocksOK, HolderOK
<1>10. KeyOK' /\ OncePerDay'
  BY <1>2, <1>6, KeyKept
<1>11. \A s \in Requests : RequestOK(s)'
  <2>1. RequestOK(r)'
    BY <1>2, <1>4, <1>6 DEF IInv, RequestOK, Active
  <2>2. QED
    BY <1>2, <1>6, <2>1, OthersOK
<1>12. \A s \in Requests : TriesOK(s)'
  <2>1. TriesOK(r)'
    BY <1>4, <1>6 DEF IInv, TriesOK, Seeking
  <2>2. ASSUME NEW s \in Requests, s # r PROVE TriesOK(s)'
    <3>1. SameDraft
      BY <1>2, <1>3, <1>7 DEF SameDraft, DraftOK
    <3>2. QED
      BY <1>2, <1>6, <2>2, <3>1, SeekersKept DEF OneMoves, Seeking
  <2>3. QED
    BY <2>1, <2>2
<1>13. QED
  BY <1>8, <1>9, <1>10, <1>11, <1>12 DEF IInv

(* What a commit makes of the key. *)
LEMMA Committing ==
    ASSUME IInv, NEW r \in Requests, Commit(r)
    PROVE  /\ request[r].step = "commit" /\ Active(r) /\ holder = r /\ DraftOK
           /\ draft.response = request[r].outcome /\ request[r].outcome \in {r, "conflict"}
           /\ draft \in KeyRow /\ draft.created \in Nat /\ draft.created <= now
           /\ key' = draft /\ holder' = Nothing /\ dirty' = FALSE /\ draft' = draft /\ now' = now
           /\ request' \in [Requests -> Request]
           /\ request'[r].step = "done" /\ request'[r].outcome = request[r].outcome
           /\ request'[r].body = request[r].body /\ request'[r].tries = request[r].tries
           /\ OneMoves(r)
           /\ made' \in [Requests -> {Never} \cup 0..LastTick]
           /\ \A s \in Requests : s # r => made'[s] = made[s]
           /\ made'[r] = IF request[r].outcome = r THEN draft.created ELSE made[r]
<1>0. TypeOK
  BY DEF IInv
<1>1. /\ request[r].step = "commit" /\ Active(r) /\ now' = now
      /\ key' = draft /\ holder' = Nothing /\ dirty' = FALSE /\ draft' = draft
      /\ End(r, request[r].outcome)
      /\ made' = IF request[r].outcome = r THEN [made EXCEPT ![r] = draft.created] ELSE made
  BY DEF Commit, CommitRow, Active
<1>2. /\ holder = r /\ DraftOK
      /\ draft.response = request[r].outcome /\ request[r].outcome \in {r, "conflict"}
  BY <1>1, Words DEF IInv, LocksOK, HolderOK
<1>3. draft \in KeyRow /\ draft.created \in Nat /\ draft.created <= now /\ draft.created \in 0..LastTick
  BY <1>0, <1>2, RowColumns, Numbers DEF DraftOK
<1>4. /\ request' \in [Requests -> Request]
      /\ request'[r].step = "done" /\ request'[r].outcome = request[r].outcome
      /\ request'[r].body = request[r].body /\ request'[r].tries = request[r].tries
      /\ OneMoves(r)
  BY <1>0, <1>1, EndStep, RequestColumns DEF OneMoves
<1>5. /\ made' \in [Requests -> {Never} \cup 0..LastTick]
      /\ \A s \in Requests : s # r => made'[s] = made[s]
      /\ made'[r] = IF request[r].outcome = r THEN draft.created ELSE made[r]
  BY <1>0, <1>1, <1>3 DEF TypeOK
<1>6. QED
  BY <1>1, <1>2, <1>3, <1>4, <1>5

LEMMA CommitStep ==
    ASSUME IInv, NEW r \in Requests, Commit(r)
    PROVE  IInv'
<1>0. TypeOK
  BY DEF IInv
<1>1. /\ request[r].step = "commit" /\ Active(r) /\ holder = r /\ DraftOK
      /\ draft.response = request[r].outcome /\ request[r].outcome \in {r, "conflict"}
      /\ draft \in KeyRow /\ draft.created \in Nat /\ draft.created <= now
      /\ key' = draft /\ holder' = Nothing /\ dirty' = FALSE /\ draft' = draft /\ now' = now
  BY Committing
<1>2. /\ request' \in [Requests -> Request]
      /\ request'[r].step = "done" /\ request'[r].outcome = request[r].outcome
      /\ request'[r].body = request[r].body /\ request'[r].tries = request[r].tries
      /\ OneMoves(r)
  BY Committing
<1>3. /\ made' \in [Requests -> {Never} \cup 0..LastTick]
      /\ \A s \in Requests : s # r => made'[s] = made[s]
      /\ made'[r] = IF request[r].outcome = r THEN draft.created ELSE made[r]
  BY Committing
<1>4. /\ \A s \in Requests : made[s] # Never => made'[s] # Never
      /\ draft.created # Never
  BY <1>1, <1>3 DEF Never
<1>5. \A s \in Requests : made[s] # Never => made[s] + Ttl <= draft.created /\ made[s] \in Nat
  BY <1>0, <1>1, RowColumns DEF DraftOK, Past
<1>6. TypeOK'
  BY <1>0, <1>1, <1>2, <1>3 DEF TypeOK
<1>7. LocksOK'
  <2>1. \A s \in Requests : request'[s].step \notin {"locked", "run", "commit"}
    BY <1>1, <1>2 DEF OneMoves, IInv, LocksOK
  <2>2. QED
    BY <1>1, <2>1 DEF LocksOK
<1>8. KeyOK'
  <2>1. draft # Nothing /\ draft.hash = request[r].body
    BY <1>1 DEF DraftOK
  <2>2. "conflict" \notin Requests /\ r # "null"
    BY Words
  <2>3. \A s \in Requests : made'[s] # Never => made'[s] <= draft.created
    <3>1. TAKE s \in Requests
    <3>2. CASE s # r \/ request[r].outcome # r
      <4>1. made'[s] = made[s]
        BY <1>3, <3>2
      <4>2. made[s] # Never => made[s] <= draft.created
        BY <1>1, <1>5, Numbers
      <4>3. QED
        BY <4>1, <4>2
    <3>3. CASE s = r /\ request[r].outcome = r
      BY <1>1, <1>3, <3>3
    <3>4. QED
      BY <3>2, <3>3
  <2>4. QED
    BY <1>1, <1>2, <1>3, <1>4, <2>1, <2>2, <2>3 DEF KeyOK
<1>9. OncePerDay'
  <2>1. \A a \in Nat : a + Ttl <= draft.created =>
            /\ a - draft.created \notin (1 - Ttl)..(Ttl - 1)
            /\ draft.created - a \notin (1 - Ttl)..(Ttl - 1)
    BY <1>1, Numbers
  <2>2. SUFFICES ASSUME NEW s \in Requests, NEW t \in Requests, s # t,
                        made'[s] # Never, made'[t] # Never
                 PROVE  made'[s] - made'[t] \notin (1 - Ttl)..(Ttl - 1)
    BY DEF OncePerDay
  <2>3. CASE made'[s] = made[s] /\ made'[t] = made[t]
    BY <2>2, <2>3 DEF IInv, OncePerDay
  <2>4. CASE made'[s] # made[s]
    BY <1>3, <1>5, <2>1, <2>2, <2>4
  <2>5. CASE made'[t] # made[t]
    BY <1>3, <1>5, <2>1, <2>2, <2>5
  <2>6. QED
    BY <2>3, <2>4, <2>5
<1>10. \A s \in Requests : RequestOK(s)'
  <2>1. RequestOK(r)'
    <3>1. request[r].outcome = r => Told(r, r)'
      BY <1>2, <1>3, <1>4 DEF Told
    <3>2. QED
      BY <1>1, <1>2, <3>1, Words DEF RequestOK, Active
  <2>2. QED
    BY <1>2, <1>4, <2>1, OthersOK
<1>11. \A s \in Requests : TriesOK(s)'
  <2>1. TriesOK(r)'
    BY <1>2 DEF IInv, TriesOK, Seeking
  <2>2. ASSUME NEW s \in Requests, s # r PROVE TriesOK(s)'
    <3>1. TriesOK(s) /\ request'[s] = request[s] /\ (Seeking(s)' => Seeking(s))
      BY <1>1, <1>2, <2>2, Words DEF IInv, OneMoves, Seeking
    <3>2. Late(s)' /\ (Late(s) => Gone(s)')
      BY <1>1, <3>1 DEF Late, Gone, DraftOK
    <3>3. ~(Seeking(s) /\ request[s].step = "wait" /\ request[s].tries = 1)
      <4>1. SUFFICES ASSUME Seeking(s), request[s].step = "wait", request[s].tries = 1 PROVE FALSE
        OBVIOUS
      <4>2. key # Nothing /\ request[s].since <= key.created /\ Active(s)
        BY <3>1, <4>1 DEF TriesOK, Gone, Active
      <4>3. key.created + Ttl <= draft.created /\ key.created \in Nat /\ now \in Nat
        BY <1>0, <1>1, <4>2, RowColumns DEF DraftOK
      <4>4. now < request[s].since + Ttl /\ request[s].since \in Nat
        BY <4>2, Young
      <4>5. QED
        BY <1>1, <4>2, <4>3, <4>4, Numbers
    <3>4. key' # Nothing
      BY <1>1 DEF DraftOK
    <3>5. request[s].tries <= 1 /\ request[s].tries \in Nat
      BY <1>0, <3>1, RequestColumns DEF TriesOK
    <3>6. QED
      BY <3>1, <3>2, <3>3, <3>4, <3>5 DEF TriesOK
  <2>3. QED
    BY <2>1, <2>2
<1>12. QED
  BY <1>6, <1>7, <1>8, <1>9, <1>10, <1>11 DEF IInv

LEMMA PurgeStep ==
    ASSUME IInv, Purge
    PROVE  IInv'
<1>0. TypeOK
  BY DEF IInv
<1>1. /\ holder = Nothing /\ key # Nothing /\ Expired(key) /\ key' = Nothing /\ draft' = Nothing
      /\ UNCHANGED <<now, holder, dirty, request, made>>
  BY DEF Purge
<1>2. TypeOK'
  BY <1>0, <1>1 DEF TypeOK
<1>3. LocksOK'
  BY <1>1 DEF IInv, LocksOK
<1>4. KeyOK'
  <2>1. \A s \in Requests : made[s] # Never => made[s] + Ttl <= now
    <3>1. \A s \in Requests : made[s] # Never => made[s] <= key.created /\ made[s] \in Nat
      BY <1>0, <1>1, RowColumns DEF IInv, KeyOK
    <3>2. QED
      BY <1>0, <1>1, <3>1, RowColumns, Numbers DEF Expired
  <2>2. QED
    BY <1>1, <2>1 DEF KeyOK, Past
<1>5. OncePerDay' /\ \A s \in Requests : RequestOK(s)'
  BY <1>1 DEF IInv, OncePerDay, RequestOK, Active, Told
<1>6. \A s \in Requests : TriesOK(s)'
  <2>1. TAKE s \in Requests
  <2>2. TriesOK(s) /\ (Seeking(s)' <=> Seeking(s)) /\ Gone(s)' /\ Late(s)'
    BY <1>0, <1>1 DEF IInv, Seeking, Gone, Late
  <2>3. ~(Seeking(s) /\ request[s].tries = 1 /\ request[s].step \in {"select", "wait", "locked"})
    BY <1>1, <2>2, YoungRow DEF TriesOK, Active
  <2>4. QED
    BY <1>1, <2>2, <2>3 DEF TriesOK
<1>7. QED
  BY <1>2, <1>3, <1>4, <1>5, <1>6 DEF IInv

LEMMA TickStep ==
    ASSUME IInv, Tick
    PROVE  IInv'
<1>0. TypeOK
  BY DEF IInv
<1>1. /\ now < LastTick /\ now' = now + 1 /\ now \in Nat
      /\ \A r \in Requests : Active(r) => now < request[r].since + MaxDuration
      /\ UNCHANGED <<key, holder, dirty, draft, request, made>>
  BY <1>0, RowColumns DEF Tick, Active
<1>2. TypeOK'
  <2>1. now' \in 0..LastTick
    BY <1>1, Numbers
  <2>2. QED
    BY <1>0, <1>1, <2>1 DEF TypeOK
<1>3. key # Nothing /\ Expired(key) => Expired(key)'
  BY <1>0, <1>1, RowColumns, Numbers DEF Expired
<1>4. DraftOK => DraftOK'
  <2>1. SUFFICES ASSUME DraftOK PROVE DraftOK'
    OBVIOUS
  <2>2. draft.created <= now + 1
    BY <1>0, <1>1, <2>1, RowColumns DEF DraftOK
  <2>3. QED
    BY <1>1, <2>1, <2>2 DEF DraftOK, Past
<1>5. LocksOK'
  BY <1>1, <1>3, <1>4 DEF IInv, LocksOK, HolderOK
<1>6. KeyOK'
  <2>1. key # Nothing => key.created <= now + 1
    BY <1>0, <1>1, RowColumns DEF IInv, KeyOK
  <2>2. Past(now) => Past(now + 1)
    <3>1. \A s \in Requests : made[s] # Never /\ made[s] + Ttl <= now => made[s] + Ttl <= now + 1
      BY <1>0, <1>1, RowColumns, Numbers
    <3>2. QED
      BY <3>1 DEF Past
  <2>3. Past(now + 1) => Past(now)'
    BY <1>1 DEF Past
  <2>4. QED
    BY <1>1, <2>1, <2>2, <2>3 DEF IInv, KeyOK
<1>7. OncePerDay'
  BY <1>1 DEF IInv, OncePerDay
<1>8. \A s \in Requests : RequestOK(s)'
  <2>1. TAKE s \in Requests
  <2>2. RequestOK(s)
    BY DEF IInv
  <2>3. Active(s) => request[s].since <= now + 1 /\ now + 1 <= request[s].since + MaxDuration
    BY <1>1, Young, Numbers
  <2>4. request[s].seen # Nothing /\ request[s].seen.created + Ttl <= now
            => request[s].seen.created + Ttl <= now + 1
    BY <1>0, <1>1, RequestColumns, Numbers
  <2>5. QED
    BY <1>1, <2>2, <2>3, <2>4 DEF RequestOK, Active, Told
<1>9. \A s \in Requests : TriesOK(s)'
  BY <1>1, SeekersKept DEF SameDraft, Seeking
<1>10. QED
  BY <1>2, <1>5, <1>6, <1>7, <1>8, <1>9 DEF IInv

LEMMA NextIInv ==
    ASSUME MaxTries >= 2, IInv, [Next]_vars
    PROVE  IInv'
<1>1. CASE UNCHANGED vars
  <2>1. UNCHANGED <<now, key, holder, dirty, draft, request, made>>
    BY <1>1 DEF vars
  <2>2. TypeOK' /\ LocksOK' /\ KeyOK' /\ OncePerDay'
    BY <2>1 DEF IInv, TypeOK, LocksOK, HolderOK, DraftOK, Expired, KeyOK, Past, OncePerDay
  <2>3. \A s \in Requests : RequestOK(s)' /\ TriesOK(s)'
    BY <2>1 DEF IInv, RequestOK, Active, Told, TriesOK, Seeking, Late, Gone
  <2>4. QED
    BY <2>2, <2>3 DEF IInv
<1>2. ASSUME NEW r \in Requests, Arrive(r) \/ Advance(r) \/ Fail(r) PROVE IInv'
  BY <1>2, ArriveStep, InsertStep, SelectStep, GrantStep, DropExpiredStep, ReplayStep, RunStep,
     CommitStep, FailStep DEF Advance
<1>3. CASE Purge
  BY <1>3, PurgeStep
<1>4. CASE Tick
  BY <1>4, TickStep
<1>5. QED
  BY <1>1, <1>2, <1>3, <1>4 DEF Next

LEMMA AlwaysIInv ==
    ASSUME MaxTries >= 2
    PROVE  Spec => []IInv
<1>1. IInv /\ [Next]_vars => IInv'
  BY NextIInv
<1>2. QED
  BY <1>1, InitIInv, PTL DEF Spec

-----------------------------------------------------------------------------
(* The theorems.  They ask for a second try; the code has five. *)

(* Rows and locks fit together: only the request that holds the key's row has
   written it without committing. *)
THEOREM TypeCorrect ==
    ASSUME MaxTries >= 2
    PROVE  Spec => []TypeOK
<1>1. IInv => TypeOK
  BY DEF IInv
<1>2. QED
  BY <1>1, AlwaysIInv, PTL

(* Two bookings made under one key are at least Ttl apart, however often the
   client repeats itself and whatever dies on the way. *)
THEOREM BookedOncePerDay ==
    ASSUME MaxTries >= 2
    PROVE  Spec => []OncePerDay
<1>1. IInv => OncePerDay
  BY DEF IInv
<1>2. QED
  BY <1>1, AlwaysIInv, PTL

(* Whoever is told of a booking is told of one that was committed and asked for,
   no committed key lacks its response, and the tries are never used up. *)
THEOREM NobodyIsMisled ==
    ASSUME MaxTries >= 2
    PROVE  Spec => []AnswersAreTrue
<1>1. IInv => AnswersAreTrue
  <2>1. SUFFICES ASSUME IInv, NEW r \in Requests
                 PROVE  /\ request[r].outcome \notin {"incomplete", "exhausted"}
                        /\ request[r].step = "done" /\ request[r].outcome \in Requests
                             => /\ made[request[r].outcome] # Never
                                /\ request[request[r].outcome].body = request[r].body
    BY DEF AnswersAreTrue
  <2>2. RequestOK(r)
    BY <2>1 DEF IInv
  <2>3. CASE request[r].step = "done"
    BY <2>2, <2>3, Words DEF RequestOK, Told
  <2>4. CASE request[r].step = "commit"
    <3>1. request[r].outcome \in {r, "conflict"}
      BY <2>1, <2>4, Words DEF IInv, LocksOK, HolderOK
    <3>2. QED
      BY <2>4, <3>1, Words
  <2>5. CASE request[r].step \notin {"commit", "done"}
    BY <2>2, <2>5 DEF RequestOK
  <2>6. QED
    BY <2>3, <2>4, <2>5
<1>2. QED
  BY <1>1, AlwaysIInv, PTL

-----------------------------------------------------------------------------
(* Refinement of OncePerKey: the commit is the step in which the create takes
   place, a replay repeats it, and the locks, the rollbacks and the tries are
   steps that nobody sees. *)

reply == [r \in Requests |-> IF request[r].step = "done" THEN request[r].outcome ELSE "none"]

LEMMA ReplyStays ==
    ASSUME \A s \in Requests : \/ request'[s] = request[s]
                               \/ request[s].step # "done" /\ request'[s].step # "done"
    PROVE  reply' = reply
  BY DEF reply

LEMMA ReplyComes ==
    ASSUME NEW r \in Requests, OneMoves(r), request'[r].step = "done"
    PROVE  reply[r] = "none" /\ reply' = [reply EXCEPT ![r] = request'[r].outcome]
  BY DEF reply, OneMoves

LEMMA InitPromise == Init => Promise!Init
<1> SUFFICES ASSUME Init PROVE Promise!Init
  OBVIOUS
<1>1. \A r \in Requests : request[r].step = "new"
  BY DEF Init
<1>2. [r \in Requests |-> IF request[r].step = "done" THEN request[r].outcome ELSE "none"]
        = [r \in Requests |-> "none"]
  BY <1>1
<1>3. QED
  BY <1>2 DEF Init, Promise!Init

(* The abstract actions in terms of this module. *)
LEMMA PromisePerform ==
    ASSUME NEW r \in Requests, reply[r] = "none", NEW body \in Bodies, NEW at \in 0..now,
           NEW response \in {r, "conflict"}, key = Nothing \/ at - key.created >= Ttl,
           key' = [hash |-> body, created |-> at, response |-> response],
           reply' = [reply EXCEPT ![r] = response], now' = now
    PROVE  Promise!Next
  BY DEF Promise!Next, Promise!Perform, reply

LEMMA PromiseRepeat ==
    ASSUME NEW r \in Requests, reply[r] = "none", key # Nothing,
           now - key.created < Ttl + MaxDuration,
           reply' = [reply EXCEPT ![r] = key.response], UNCHANGED <<now, key>>
    PROVE  Promise!Next
  BY DEF Promise!Next, Promise!Repeat, reply

LEMMA PromiseDecline ==
    ASSUME NEW r \in Requests, reply[r] = "none", UNCHANGED <<now, key>>,
           \/ reply' = [reply EXCEPT ![r] = "error"]
           \/ key # Nothing /\ reply' = [reply EXCEPT ![r] = "mismatch"]
    PROVE  Promise!Next
  BY DEF Promise!Next, Promise!Decline, reply

LEMMA PromiseForget ==
    ASSUME key # Nothing, ~(now - key.created < Ttl), key' = Nothing, now' = now, reply' = reply
    PROVE  Promise!Next
  BY DEF Promise!Next, Promise!Forget, Promise!Remembered, reply

LEMMA PromisePass ==
    ASSUME now' = now + 1, key' = key, reply' = reply
    PROVE  Promise!Next
  BY DEF Promise!Next, Promise!Pass, reply

LEMMA PromiseStutters ==
    ASSUME UNCHANGED <<now, key>>, reply' = reply
    PROVE  UNCHANGED Promise!State
  BY DEF Promise!State, reply

LEMMA NextPromise ==
    ASSUME MaxTries >= 2, IInv, [Next]_vars
    PROVE  [Promise!Next]_(Promise!State)
<1>0. TypeOK
  BY DEF IInv
<1>1. CASE UNCHANGED vars
  BY <1>1, PromiseStutters DEF vars, reply
<1>2. ASSUME NEW r \in Requests, Arrive(r) \/ Insert(r) \/ Select(r) \/ Run(r)
      PROVE  UNCHANGED Promise!State
  <2>1. \A s \in Requests : s # r => request'[s] = request[s]
    BY <1>0, <1>2 DEF Arrive, Insert, Select, Run, TypeOK
  <2>2. request[r].step # "done" /\ request'[r].step # "done" /\ UNCHANGED <<now, key>>
    <3>1. request[r].step # "done" /\ UNCHANGED <<now, key>>
      BY <1>2 DEF Arrive, Insert, Select, Run
    <3>2. request'[r].step # "done"
      <4>1. CASE Arrive(r)
        BY <1>0, <4>1, RequestColumns DEF Arrive, TypeOK, Request
      <4>2. CASE Insert(r)
        BY <1>0, <4>2, RequestColumns DEF Insert, TypeOK, Request
      <4>3. CASE Select(r)
        BY <1>0, <4>3, RequestColumns DEF Select, TypeOK, Request
      <4>4. CASE Run(r)
        BY <1>0, <4>4, RequestColumns DEF Run, TypeOK, Request
      <4>5. QED
        BY <1>2, <4>1, <4>2, <4>3, <4>4
    <3>3. QED
      BY <3>1, <3>2
  <2>3. QED
    BY <2>1, <2>2, ReplyStays, PromiseStutters
<1>3. ASSUME NEW r \in Requests, Grant(r) \/ DropExpired(r)
      PROVE  UNCHANGED Promise!State
  <2>1. CASE request' = [request EXCEPT ![r].step = "locked"] /\ request[r].step = "wait"
    <3>1. request'[r].step # "done" /\ \A s \in Requests : s # r => request'[s] = request[s]
      BY <1>0, <2>1, RequestColumns DEF TypeOK, Request
    <3>2. UNCHANGED <<now, key>>
      BY <1>3 DEF Grant, DropExpired
    <3>3. QED
      BY <2>1, <3>1, <3>2, ReplyStays, PromiseStutters
  <2>2. CASE TryAgain(r)
    <3>1. request[r].tries = 0
      <4>1. TriesOK(r)
        BY DEF IInv
      <4>2. CASE DropExpired(r)
        <5>1. /\ request[r].step = "locked" /\ request[r].expired /\ Active(r)
              /\ holder = r /\ ~dirty /\ key # Nothing /\ key = request[r].seen
          BY <4>2, LockedHolds DEF DropExpired, Active
        <5>2. Expired(key)
          BY <5>1 DEF IInv, RequestOK, Expired
        <5>3. ~Gone(r)
          BY <5>1, <5>2, YoungRow
        <5>4. QED
          BY <1>0, <4>1, <5>1, <5>3, RequestColumns DEF TriesOK, Seeking
      <4>3. CASE Grant(r) /\ (key = Nothing \/ key # request[r].seen)
        <5>1. request[r].step = "wait" /\ Free(r)
          BY <4>3 DEF Grant
        <5>2. holder # r
          BY <5>1, Words DEF IInv, LocksOK, HolderOK
        <5>3. QED
          BY <1>0, <4>1, <4>3, <5>1, <5>2, RequestColumns DEF TriesOK, Seeking
      <4>4. CASE Grant(r) /\ request' = [request EXCEPT ![r].step = "locked"]
        <5>1. request'[r].step = "locked" /\ request[r].step = "wait"
          BY <1>0, <4>4, RequestColumns DEF Grant, TypeOK, Request
        <5>2. request'[r].step \in {"insert", "done"}
          BY <1>0, <2>2, RequestColumns DEF TryAgain, TypeOK, Request
        <5>3. QED
          BY <5>1, <5>2
      <4>5. QED
        BY <1>3, <4>2, <4>3, <4>4 DEF Grant
    <3>2. request'[r].step = "insert" /\ \A s \in Requests : s # r => request'[s] = request[s]
      BY <1>0, <2>2, <3>1, TryAgainStep
    <3>3. request[r].step # "done" /\ UNCHANGED <<now, key>>
      BY <1>3 DEF Grant, DropExpired
    <3>4. QED
      BY <3>2, <3>3, ReplyStays, PromiseStutters
  <2>3. QED
    BY <1>3, <2>1, <2>2 DEF Grant, DropExpired
<1>4. ASSUME NEW r \in Requests, Replay(r) PROVE Promise!Next
  <2>1. /\ request[r].step = "locked" /\ ~request[r].expired /\ End(r, Answer(r)) /\ Active(r)
        /\ UNCHANGED <<now, key>>
    BY <1>4 DEF Replay, Active
  <2>2. /\ Answer(r) \in Outcomes /\ key # Nothing /\ key = request[r].seen
        /\ Answer(r) = "mismatch" \/ Answer(r) = key.response
    BY <2>1, AnswerIsTrue, LockedHolds DEF Outcomes
  <2>3. request'[r].step = "done" /\ request'[r].outcome = Answer(r) /\ OneMoves(r)
    <3>1. PICK o \in Outcomes : o = Answer(r)
      BY <2>2
    <3>2. QED
      BY <1>0, <2>1, <3>1, EndStep DEF OneMoves
  <2>4. reply[r] = "none" /\ reply' = [reply EXCEPT ![r] = Answer(r)]
    BY <2>3, ReplyComes
  <2>5. now - key.created < Ttl + MaxDuration
    <3>1. request[r].since < key.created + Ttl
      BY <2>1, <2>2 DEF IInv, RequestOK
    <3>2. now <= request[r].since + MaxDuration /\ request[r].since \in Nat
      BY <2>1, Young
    <3>3. key.created \in Nat /\ now \in Nat
      BY <1>0, <2>2, RowColumns
    <3>4. QED
      BY <3>1, <3>2, <3>3, Numbers
  <2>6. QED
    BY <2>1, <2>2, <2>4, <2>5, PromiseRepeat, PromiseDecline
<1>5. ASSUME NEW r \in Requests, Fail(r) PROVE Promise!Next
  <2>1. request[r].step # "done" /\ End(r, "error") /\ UNCHANGED <<now, key>>
    BY <1>5 DEF Fail
  <2>2. request'[r].step = "done" /\ request'[r].outcome = "error" /\ OneMoves(r)
    <3>1. "error" \in Outcomes
      BY DEF Outcomes
    <3>2. QED
      BY <1>0, <2>1, <3>1, EndStep DEF OneMoves
  <2>3. QED
    BY <2>1, <2>2, ReplyComes, PromiseDecline
<1>6. ASSUME NEW r \in Requests, Commit(r) PROVE Promise!Next
  <2>1. /\ DraftOK /\ draft.response = request[r].outcome /\ request[r].outcome \in {r, "conflict"}
        /\ draft \in KeyRow /\ draft.created \in Nat /\ draft.created <= now
        /\ key' = draft /\ now' = now
        /\ request'[r].step = "done" /\ request'[r].outcome = request[r].outcome /\ OneMoves(r)
    BY <1>6, Committing
  <2>2. reply[r] = "none" /\ reply' = [reply EXCEPT ![r] = draft.response]
    BY <2>1, ReplyComes
  <2>3. /\ draft.hash \in Bodies /\ draft.created \in 0..now /\ draft.response \in {r, "conflict"}
        /\ key' = [hash |-> draft.hash, created |-> draft.created, response |-> draft.response]
    BY <1>0, <2>1, RowColumns DEF KeyRow
  <2>4. key = Nothing \/ draft.created - key.created >= Ttl
    BY <1>0, <2>1, RowColumns, Numbers DEF DraftOK
  <2>5. QED
    BY <2>1, <2>2, <2>3, <2>4, PromisePerform
<1>7. CASE Purge
  <2>1. /\ key # Nothing /\ Expired(key) /\ key' = Nothing /\ now' = now /\ reply' = reply
    BY <1>7 DEF Purge, reply
  <2>2. ~(now - key.created < Ttl)
    BY <1>0, <2>1, RowColumns, Numbers DEF Expired
  <2>3. QED
    BY <2>1, <2>2, PromiseForget
<1>8. CASE Tick
  BY <1>8, PromisePass DEF Tick, reply
<1>9. QED
  BY <1>1, <1>2, <1>3, <1>4, <1>5, <1>6, <1>7, <1>8 DEF Next, Advance

(* execute_create with its locks, rollbacks and tries does what a memory of one
   answer would do. *)
THEOREM KeysKeepTheirPromise ==
    ASSUME MaxTries >= 2
    PROVE  Spec => KeepsPromise
<1>1. IInv /\ [Next]_vars => [Promise!Next]_(Promise!State)
  BY NextPromise
<1>2. QED
  BY <1>1, InitPromise, AlwaysIInv, PTL DEF Spec, KeepsPromise, Promise!Spec
=============================================================================
