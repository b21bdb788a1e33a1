-------------------------- MODULE RateLimitProofs --------------------------
(***************************************************************************)
(* Proofs about RateLimit, for any buckets, plans, limits and bounds.      *)
(***************************************************************************)
EXTENDS RateLimit, TLAPS, FiniteSetTheorems, SequenceTheorems

-----------------------------------------------------------------------------
(* Windows of time. *)

(* A moment lies in its window. *)
LEMMA InItsWindow ==
    ASSUME NEW t \in Nat
    PROVE  /\ WindowOf(t) \in Nat
           /\ WindowOf(t) * Window <= t /\ t < WindowOf(t) * Window + Window
           /\ t = WindowOf(t) * Window + (t % Window)
           /\ t % Window \in Nat /\ t % Window < Window
<1>1. Window \in Nat /\ Window > 0
  BY ConstantsAssumption
<1>2. QED
  BY <1>1 DEF WindowOf

(* Multiplication keeps the order. *)
LEMMA TimesMonotone ==
    ASSUME NEW a \in Nat, NEW b \in Nat, NEW w \in Nat, a <= b
    PROVE  a * w <= b * w
<1>1. PICK d \in Nat : b = a + d
  <2>1. b - a \in Nat /\ b = a + (b - a)
    OBVIOUS
  <2>2. QED
    BY <2>1
<1>2. b * w = a * w + d * w
  BY <1>1
<1>3. d * w \in Nat /\ a * w \in Nat
  OBVIOUS
<1>4. QED
  BY <1>2, <1>3

(* Later moments lie in later windows. *)
LEMMA WindowsGrow ==
    ASSUME NEW s \in Nat, NEW t \in Nat, s <= t
    PROVE  WindowOf(s) <= WindowOf(t)
<1>1. Window \in Nat /\ Window > 0
  BY ConstantsAssumption
<1>2. SUFFICES ASSUME WindowOf(t) + 1 <= WindowOf(s) PROVE FALSE
  BY InItsWindow
<1>3. (WindowOf(t) + 1) * Window <= WindowOf(s) * Window
  <2>1. WindowOf(t) + 1 \in Nat /\ WindowOf(s) \in Nat
    BY InItsWindow
  <2>2. QED
    BY <1>1, <1>2, <2>1, TimesMonotone
<1>4. (WindowOf(t) + 1) * Window = WindowOf(t) * Window + Window
  BY <1>1, InItsWindow
<1>5. QED
  BY <1>1, <1>3, <1>4, InItsWindow

(* The window of a clock reading up to now is one of Windows. *)
LEMMA WindowIsCounted ==
    ASSUME NEW t \in 0..LastTick
    PROVE  WindowOf(t) \in Windows
<1>1. LastTick \in Nat /\ t \in Nat /\ t <= LastTick
  BY ConstantsAssumption
<1>2. WindowOf(t) <= WindowOf(LastTick) /\ WindowOf(t) \in Nat /\ WindowOf(LastTick) \in Nat
  BY <1>1, WindowsGrow, InItsWindow
<1>3. QED
  BY <1>1, <1>2 DEF Windows, WindowOf

(* A request that has waited no longer than Patience counts in a window that is
   not old. *)
LEMMA PatientIsNotOld ==
    ASSUME NEW t \in Nat, now \in Nat, now <= t + Patience
    PROVE  ~Old(WindowOf(t))
<1>1. Window \in Nat /\ Retention \in Nat /\ Patience \in Nat /\ Retention >= Window + Patience
  BY ConstantsAssumption
<1>2. WindowOf(t) * Window \in Nat /\ t < WindowOf(t) * Window + Window
  BY <1>1, InItsWindow
<1>3. QED
  BY <1>1, <1>2 DEF Old

(* Whoever waits for RetryTime meets a later window. *)
LEMMA RetryTimeIsLater ==
    ASSUME now \in Nat
    PROVE  RetryTime \in Nat /\ now < RetryTime /\ RetryTime <= now + Window
           /\ WindowOf(RetryTime) > WindowOf(now)
<1>1. Window \in Nat /\ Window > 0
  BY ConstantsAssumption
<1>2. now % Window \in Nat /\ now % Window < Window /\ WindowOf(now) \in Nat
      /\ now = WindowOf(now) * Window + (now % Window)
  BY InItsWindow
<1>3. RetryTime = now + (Window - (now % Window))
  BY <1>1, <1>2 DEF RetryTime
<1>4. RetryTime \in Nat /\ now < RetryTime /\ RetryTime <= now + Window
  BY <1>1, <1>2, <1>3
<1>5. WindowOf(now) * Window \in Nat /\ RetryTime = WindowOf(now) * Window + Window
  <2> DEFINE past == WindowOf(now) * Window
             rest == now % Window
  <2>1. past \in Nat /\ rest \in Nat /\ now = past + rest /\ RetryTime = now + (Window - rest)
    BY <1>1, <1>2, <1>3
  <2> HIDE DEF past, rest
  <2>2. RetryTime = past + Window
    BY <1>1, <2>1
  <2>3. QED
    BY <2>1, <2>2 DEF past
<1>6. SUFFICES ASSUME WindowOf(RetryTime) <= WindowOf(now) PROVE FALSE
  BY <1>2, <1>4, InItsWindow
<1>7. WindowOf(RetryTime) * Window <= WindowOf(now) * Window
  <2>1. WindowOf(RetryTime) \in Nat
    BY <1>4, InItsWindow
  <2>2. QED
    BY <1>1, <1>2, <1>6, <2>1, TimesMonotone
<1>8. WindowOf(RetryTime) * Window \in Nat /\ RetryTime < WindowOf(RetryTime) * Window + Window
  BY <1>1, <1>4, InItsWindow
<1>9. QED
  BY <1>1, <1>5, <1>7, <1>8

-----------------------------------------------------------------------------
(* The inductive invariant. *)

RequestRow == [step: {"idle", "consuming"}, at: 0..LastTick, todo: Seq(Buckets),
               held: SUBSET Buckets, retry: 0..LastTick + Window]

Ascending(s) == \A i, j \in 1..Len(s) : i < j => s[i] < s[j]

(* A transaction under way is young, has locked only what lies before the rest of
   its buckets, and what it has locked still counts what it saw. *)
Sound(q) ==
    /\ q.step = "idle" => q.retry = 0
    /\ q.retry > 0 => WindowOf(q.retry) > WindowOf(q.at)
    /\ q.step = "consuming" =>
        /\ q.at <= now /\ now <= q.at + Patience
        /\ Ascending(q.todo)
        /\ \A b \in q.held, i \in 1..Len(q.todo) : b < q.todo[i]
        /\ \A b \in q.held : /\ count[b][WindowOf(q.at)] < MaxCount
                             /\ q.retry = 0 => count[b][WindowOf(q.at)] < Limit[b]

IInv == TypeOK /\ WithinLimit /\ \A r \in Requests : Sound(request[r])

(* The request of r becomes q, and nothing else changes. *)
LEMMA RequestStep ==
    ASSUME IInv, NEW r \in Requests, NEW q \in RequestRow, Sound(q),
           request' = [request EXCEPT ![r] = q], UNCHANGED <<now, count, granted>>,
           q.step = "consuming" =>
             \A p \in Requests \ {r}, b \in q.held : ~Holds(p, b, WindowOf(q.at))
    PROVE  IInv'
<1>1. request' \in [Requests -> RequestRow]
  BY DEF IInv, TypeOK, RequestRow
<1>2. request'[r] = q /\ \A p \in Requests \ {r} : request'[p] = request[p]
  BY DEF IInv, TypeOK
<1>3. \A p \in Requests : Sound(request[p])'
  BY <1>2 DEF Sound, IInv, WindowOf
<1>4. \A p, s \in Requests, b \in Buckets, w \in Windows :
        Holds(p, b, w)' /\ Holds(s, b, w)' => p = s
  BY <1>2 DEF Holds, Mine, WindowOf, IInv, TypeOK, Windows
<1>5. QED
  BY <1>1, <1>3, <1>4 DEF IInv, TypeOK, RequestRow, WithinLimit, Old, Windows

LEMMA InitStep == Init => IInv
<1>1. SUFFICES ASSUME Init PROVE IInv
  OBVIOUS
<1>2. LastTick \in Nat /\ MaxCount \in Nat /\ Window \in Nat
  BY ConstantsAssumption
<1>3. Idle \in RequestRow
  <2>1. <<>> \in Seq(Buckets)
    BY EmptySeq
  <2>2. QED
    BY <1>2, <2>1 DEF Idle, RequestRow
<1>4. TypeOK
  BY <1>1, <1>2, <1>3 DEF Init, TypeOK, RequestRow, Holds, Idle
<1>5. WithinLimit
  BY <1>1, ConstantsAssumption DEF Init, WithinLimit
<1>6. \A r \in Requests : Sound(request[r])
  BY <1>1 DEF Init, Sound, Idle
<1>7. QED
  BY <1>4, <1>5, <1>6 DEF IInv

(* The buckets of a plan, in ascending order. *)
LEMMA OrderedPlan ==
    ASSUME NEW plan \in Plans, NEW s \in InOrder(plan)
    PROVE  s \in Seq(Buckets) /\ Ascending(s)
<1>1. plan \subseteq Buckets /\ IsFiniteSet(plan)
  BY ConstantsAssumption, FS_Subset
<1>2. Cardinality(plan) \in Nat
  BY <1>1, FS_CardinalityType
<1>3. s \in [1..Cardinality(plan) -> plan]
  BY DEF InOrder, SetToSeqs
<1>4. s \in Seq(Buckets) /\ Len(s) = Cardinality(plan)
  BY <1>1, <1>2, <1>3
<1>5. DOMAIN s = 1..Len(s)
  BY <1>3, <1>4
<1>6. QED
  BY <1>4, <1>5 DEF InOrder, Ascending

LEMMA ArriveStep == ASSUME IInv, NEW r \in Requests, Arrive(r) PROVE IInv'
<1>0. PICK plan \in Plans : \E order \in InOrder(plan) :
        request' = [request EXCEPT ![r] = [step |-> "consuming", at |-> now, todo |-> order,
                                           held |-> {}, retry |-> 0]]
  BY DEF Arrive
<1>1. PICK order \in InOrder(plan) :
        request' = [request EXCEPT ![r] = [step |-> "consuming", at |-> now, todo |-> order,
                                           held |-> {}, retry |-> 0]]
  BY <1>0
<1> DEFINE q == [step |-> "consuming", at |-> now, todo |-> order, held |-> {}, retry |-> 0]
<1>2. order \in Seq(Buckets) /\ Ascending(order)
  BY OrderedPlan
<1>3. now \in Nat /\ now \in 0..LastTick /\ LastTick \in Nat /\ Window \in Nat /\ Patience \in Nat
  BY ConstantsAssumption DEF IInv, TypeOK
<1>5. q \in RequestRow
  BY <1>2, <1>3 DEF RequestRow
<1>6. Sound(q)
  BY <1>2, <1>3 DEF Sound
<1> HIDE DEF q
<1>7. QED
  <2>1. q.held = {}
    BY DEF q
  <2>2. QED
    BY <1>1, <1>5, <1>6, <2>1, RequestStep DEF Arrive, q

LEMMA ConsumeStep == ASSUME IInv, NEW r \in Requests, Consume(r) PROVE IInv'
<1> DEFINE o == request[r]
           b == Head(o.todo)
           w == WindowOf(o.at)
           retry == IF Over(b, count[b][w] + 1) THEN RetryTime ELSE o.retry
           q == [step |-> "consuming", at |-> o.at, todo |-> Tail(o.todo),
                 held |-> o.held \cup {b}, retry |-> retry]
<1>1. o \in RequestRow /\ Sound(o) /\ o.step = "consuming" /\ o.todo \in Seq(Buckets) /\ o.todo # <<>>
  BY DEF IInv, TypeOK, RequestRow, Consume
<1>2. /\ b \in Buckets /\ Tail(o.todo) \in Seq(Buckets)
      /\ Len(o.todo) \in Nat /\ Len(o.todo) > 0 /\ Len(Tail(o.todo)) = Len(o.todo) - 1
      /\ b = o.todo[1] /\ \A i \in 1..Len(Tail(o.todo)) : Tail(o.todo)[i] = o.todo[i + 1]
  BY <1>1, HeadTailProperties, EmptySeq
<1>3. /\ now \in Nat /\ now \in 0..LastTick /\ LastTick \in Nat /\ Window \in Nat
      /\ o.at \in Nat /\ o.at \in 0..LastTick
  BY <1>1, ConstantsAssumption DEF IInv, TypeOK, RequestRow
<1>4. w \in Windows /\ count[b][w] \in Nat /\ Limit[b] \in Nat /\ count[b][w] < MaxCount
  <2>1. count[b][w] < MaxCount
    BY DEF Consume, Mine
  <2>2. w \in Windows
    BY <1>3, WindowIsCounted
  <2>3. Limit[b] \in Nat
    BY <1>2, ConstantsAssumption
  <2> HIDE DEF b, w
  <2>4. MaxCount \in Nat /\ count[b][w] \in Nat
    BY <1>2, <2>2, ConstantsAssumption DEF IInv, TypeOK
  <2>5. QED
    BY <2>1, <2>2, <2>3, <2>4
<1>5. request' = [request EXCEPT ![r] = q] /\ UNCHANGED <<now, count, granted>>
  BY DEF Consume, Mine
<1>6. /\ retry \in 0..LastTick + Window
      /\ retry = 0 => o.retry = 0 /\ count[b][w] < Limit[b]
      /\ retry > 0 => WindowOf(retry) > w
  <2>1. RetryTime \in Nat /\ now < RetryTime /\ RetryTime <= now + Window
        /\ WindowOf(RetryTime) > WindowOf(now)
    BY <1>3, RetryTimeIsLater
  <2>2. WindowOf(now) >= w
    BY <1>1, <1>3, WindowsGrow DEF Sound
  <2>3. WindowOf(RetryTime) \in Nat /\ WindowOf(now) \in Nat /\ w \in Nat
    BY <1>3, <2>1, InItsWindow
  <2>4. CASE Over(b, count[b][w] + 1)
    <3>1. retry = RetryTime
      BY <2>4
    <3> HIDE DEF retry, w
    <3>2. QED
      BY <1>3, <2>1, <2>2, <2>3, <3>1
  <2>5. CASE ~Over(b, count[b][w] + 1)
    <3>1. retry = o.retry
      BY <2>5
    <3>2. o.retry \in 0..LastTick + Window /\ (o.retry > 0 => WindowOf(o.retry) > w)
      BY <1>1 DEF Sound, RequestRow
    <3>3. count[b][w] < Limit[b]
      BY <1>4, <2>5 DEF Over
    <3> HIDE DEF retry, w, o
    <3>4. QED
      BY <3>1, <3>2, <3>3
  <2>6. QED
    BY <2>4, <2>5
<1>7. q \in RequestRow
  <2> HIDE DEF retry, b
  <2>1. QED
    BY <1>1, <1>2, <1>6 DEF RequestRow
<1>8. Sound(q)
  <2> DEFINE rest == Tail(o.todo)
  <2>1. \A i \in 1..Len(rest) : rest[i] = o.todo[i + 1] /\ i + 1 \in 1..Len(o.todo)
                                /\ 1 \in 1..Len(o.todo)
    BY <1>2
  <2>a. Ascending(o.todo) /\ \A c \in o.held, i \in 1..Len(o.todo) : c < o.todo[i]
    BY <1>1 DEF Sound
  <2>b. Ascending(q.todo)
    <3>1. Len(rest) \in Nat
      BY <1>2
    <3> HIDE DEF rest
    <3>2. Ascending(rest)
      BY <2>1, <2>a, <3>1 DEF Ascending
    <3>3. QED
      BY <3>2 DEF rest
  <2>2. \A c \in q.held, i \in 1..Len(q.todo) : c < q.todo[i]
    <3>1. \A i \in 1..Len(rest) : b < rest[i]
      BY <1>2, <2>1, <2>a DEF Ascending
    <3>2. \A c \in o.held, i \in 1..Len(rest) : c < rest[i]
      BY <2>1, <2>a
    <3>3. QED
      BY <3>1, <3>2
  <2>3. \A c \in q.held : /\ count[c][w] < MaxCount
                          /\ q.retry = 0 => count[c][w] < Limit[c]
    <3> HIDE DEF retry, b, w
    <3>1. \A c \in o.held : /\ count[c][w] < MaxCount
                            /\ o.retry = 0 => count[c][w] < Limit[c]
      BY <1>1 DEF Sound, w
    <3>2. QED
      BY <1>4, <1>6, <3>1
  <2> HIDE DEF retry, b
  <2>4. QED
    BY <1>1, <1>6, <2>b, <2>2, <2>3 DEF Sound
<1>9. \A p \in Requests \ {r}, c \in q.held : ~Holds(p, c, WindowOf(q.at))
  <2>1. \A p \in Requests \ {r} : ~Holds(p, b, w)
    BY <1>1 DEF Consume, Blocked, Waits, Mine
  <2>2. \A p \in Requests \ {r}, c \in o.held : ~Holds(p, c, w)
    <3>1. \A c \in o.held : Holds(r, c, w) /\ c \in Buckets
      BY <1>1 DEF Holds, Mine, RequestRow
    <3>2. QED
      BY <1>4, <3>1 DEF IInv, TypeOK
  <2>3. QED
    BY <2>1, <2>2
<1> HIDE DEF q
<1>10. QED
  BY <1>5, <1>7, <1>8, <1>9, RequestStep

(* What a commit adds: one to each row it holds. *)
LEMMA CountedRows ==
    ASSUME NEW f \in [Buckets -> [Windows -> Nat]], NEW r \in Requests, Mine(r) \in Windows,
           NEW b \in Buckets, NEW w \in Windows
    PROVE  Counted(f, r)[b][w] =
             IF b \in request[r].held /\ w = Mine(r) THEN f[b][w] + 1 ELSE f[b][w]
  BY DEF Counted

LEMMA CommitStep == ASSUME IInv, NEW r \in Requests, Commit(r) PROVE IInv'
<1> DEFINE o == request[r]
           w == Mine(r)
<1>1. /\ o \in RequestRow /\ Sound(o) /\ o.step = "consuming"
      /\ count' = Counted(count, r) /\ now' = now
      /\ granted' = IF o.retry = 0 THEN Counted(granted, r) ELSE granted
      /\ request' = [request EXCEPT ![r] = Idle]
  BY DEF IInv, TypeOK, RequestRow, Commit, Rest
<1>2. /\ now \in Nat /\ o.at \in Nat /\ o.at \in 0..LastTick /\ MaxCount \in Nat /\ LastTick \in Nat
      /\ Window \in Nat
  BY <1>1, ConstantsAssumption DEF IInv, TypeOK, RequestRow
<1>3. w \in Windows /\ ~Old(w)
  BY <1>1, <1>2, WindowIsCounted, PatientIsNotOld DEF Mine, Sound
<1>4. /\ count \in [Buckets -> [Windows -> 0..MaxCount]] /\ granted \in [Buckets -> [Windows -> Nat]]
      /\ o.held \subseteq Buckets
  BY <1>1 DEF IInv, TypeOK, RequestRow
<1>a. count \in [Buckets -> [Windows -> Nat]]
  BY <1>2, <1>4
<1>5. \A b \in Buckets, v \in Windows :
        count'[b][v] = IF b \in o.held /\ v = w THEN count[b][v] + 1 ELSE count[b][v]
  BY <1>1, <1>3, <1>a, CountedRows
<1>6. \A b \in Buckets, v \in Windows :
        granted'[b][v] = IF o.retry = 0 /\ b \in o.held /\ v = w THEN granted[b][v] + 1
                                                             ELSE granted[b][v]
  <2>1. CASE o.retry = 0
    BY <1>1, <1>3, <1>4, <2>1, CountedRows
  <2>2. CASE o.retry # 0
    BY <1>1, <2>2
  <2>3. QED
    BY <2>1, <2>2
<1>7. \A b \in o.held : count[b][w] < MaxCount /\ (o.retry = 0 => count[b][w] < Limit[b])
  BY <1>1 DEF Sound, Mine
<1>8. /\ count' = [b \in Buckets |-> [v \in Windows |-> count'[b][v]]]
      /\ granted' = [b \in Buckets |-> [v \in Windows |-> granted'[b][v]]]
  BY <1>1, <1>4 DEF Counted
<1>9. /\ count' \in [Buckets -> [Windows -> 0..MaxCount]]
      /\ granted' \in [Buckets -> [Windows -> Nat]]
  <2> HIDE DEF w, o
  <2>1. \A b \in Buckets, v \in Windows : count'[b][v] \in 0..MaxCount /\ granted'[b][v] \in Nat
    <3>1. \A b \in Buckets, v \in Windows : count[b][v] \in 0..MaxCount /\ granted[b][v] \in Nat
      BY <1>4
    <3>2. QED
      BY <1>2, <1>5, <1>6, <1>7, <3>1
  <2>2. QED
    BY <1>8, <2>1
<1>10. request'[r] = Idle /\ \A p \in Requests \ {r} : request'[p] = request[p]
  BY <1>1 DEF IInv, TypeOK
<1>11. request' \in [Requests -> RequestRow]
  <2>1. Idle \in RequestRow
    BY <1>2, EmptySeq DEF Idle, RequestRow
  <2>2. QED
    BY <1>1, <2>1 DEF IInv, TypeOK, RequestRow
<1>12. \A p \in Requests \ {r} : Sound(request[p])'
  <2> SUFFICES ASSUME NEW p \in Requests \ {r} PROVE Sound(request[p])'
    OBVIOUS
  <2> DEFINE q == request[p]
             v == WindowOf(q.at)
  <2>1. q \in RequestRow /\ Sound(q) /\ request'[p] = q
    BY <1>10 DEF IInv, TypeOK, RequestRow
  <2>2. v \in Windows /\ q.held \subseteq Buckets
    BY <2>1, WindowIsCounted DEF RequestRow
  <2>3. q.step = "consuming" => \A b \in q.held : count'[b][v] = count[b][v]
    <3>1. SUFFICES ASSUME q.step = "consuming", NEW b \in q.held PROVE count'[b][v] = count[b][v]
      OBVIOUS
    <3>2. Holds(p, b, v)
      BY <3>1 DEF Holds, Mine
    <3>3. ~Holds(r, b, v)
      BY <2>2, <3>1, <3>2 DEF IInv, TypeOK
    <3>4. ~(b \in o.held /\ v = w)
      BY <1>1, <3>3 DEF Holds
    <3>5. QED
      BY <1>5, <2>2, <3>1, <3>4
  <2>4. QED
    BY <1>1, <2>1, <2>3 DEF Sound, WindowOf
<1>13. \A p, q \in Requests, b \in Buckets, v \in Windows :
         Holds(p, b, v)' /\ Holds(q, b, v)' => p = q
  <2>1. Idle.step # "consuming"
    BY DEF Idle
  <2>2. \A p \in Requests : \A b, v : Holds(p, b, v)' => p # r /\ Holds(p, b, v)
    BY <1>10, <2>1 DEF Holds, Mine, WindowOf
  <2>3. QED
    BY <2>2 DEF IInv, TypeOK, Windows
<1>14. \A b \in Buckets, v \in Windows : ~Old(v)' => granted'[b][v] <= count'[b][v]
  <2>1. \A b \in Buckets, v \in Windows : ~Old(v) => granted[b][v] <= count[b][v]
    BY DEF IInv, TypeOK
  <2>2. \A v \in Windows : Old(v)' <=> Old(v)
    BY <1>1 DEF Old
  <2>3. \A b \in Buckets, v \in Windows : count[b][v] \in Nat /\ granted[b][v] \in Nat
    BY <1>2, <1>4
  <2> HIDE DEF w, o
  <2>4. QED
    BY <1>5, <1>6, <2>1, <2>2, <2>3
<1>15. \A b \in Buckets, v \in Windows : granted'[b][v] <= Limit[b]
  <2> SUFFICES ASSUME NEW b \in Buckets, NEW v \in Windows PROVE granted'[b][v] <= Limit[b]
    OBVIOUS
  <2>1. Limit[b] \in Nat /\ count[b][v] \in Nat /\ granted[b][v] \in Nat /\ granted[b][v] <= Limit[b]
    BY <1>2, <1>4, ConstantsAssumption DEF IInv, WithinLimit
  <2>2. CASE o.retry = 0 /\ b \in o.held /\ v = w
    <3>1. granted[b][v] <= count[b][v] /\ count[b][v] < Limit[b]
      BY <1>3, <1>7, <2>2 DEF IInv, TypeOK
    <3>2. granted'[b][v] = granted[b][v] + 1
      BY <1>6, <2>2
    <3>3. QED
      BY <2>1, <3>1, <3>2
  <2>3. CASE ~(o.retry = 0 /\ b \in o.held /\ v = w)
    BY <1>6, <2>1, <2>3
  <2>4. QED
    BY <2>2, <2>3
<1>16. TypeOK'
  BY <1>1, <1>9, <1>11, <1>13, <1>14 DEF IInv, TypeOK, RequestRow, Windows
<1>17. WithinLimit'
  BY <1>15 DEF WithinLimit, Windows
<1>18. Sound(request[r])'
  BY <1>10 DEF Sound, Idle
<1>19. QED
  BY <1>10, <1>12, <1>16, <1>17, <1>18 DEF IInv

LEMMA DieStep == ASSUME IInv, NEW r \in Requests, Die(r) PROVE IInv'
<1>1. LastTick \in Nat /\ Window \in Nat
  BY ConstantsAssumption
<1>2. Idle \in RequestRow
  BY <1>1, EmptySeq DEF Idle, RequestRow
<1>3. Sound(Idle) /\ Idle.step # "consuming"
  BY DEF Sound, Idle
<1>4. QED
  BY <1>2, <1>3, RequestStep DEF Die, Rest

LEMMA PurgeStep == ASSUME IInv, NEW b \in Buckets, NEW w \in Windows, Purge(b, w) PROVE IInv'
<1>1. MaxCount \in Nat /\ count \in [Buckets -> [Windows -> 0..MaxCount]]
  BY ConstantsAssumption DEF IInv, TypeOK
<1>2. \A c \in Buckets, v \in Windows :
        count'[c][v] = IF c = b /\ v = w THEN 0 ELSE count[c][v]
  BY <1>1 DEF Purge
<1>3. count' \in [Buckets -> [Windows -> 0..MaxCount]]
  BY <1>1 DEF Purge
<1>4. \A c \in Buckets, v \in Windows : ~Old(v)' => granted'[c][v] <= count'[c][v]
  BY <1>2 DEF Purge, Old, IInv, TypeOK
<1>5. \A p \in Requests : Sound(request[p])'
  <2> SUFFICES ASSUME NEW p \in Requests PROVE Sound(request[p])'
    OBVIOUS
  <2> DEFINE q == request[p]
             v == WindowOf(q.at)
  <2>1. q \in RequestRow /\ Sound(q) /\ request'[p] = q /\ now' = now
    BY DEF IInv, TypeOK, RequestRow, Purge
  <2>2. v \in Windows /\ q.held \subseteq Buckets
    BY <2>1, WindowIsCounted DEF RequestRow
  <2>3. q.step = "consuming" => \A c \in q.held : count'[c][v] = count[c][v]
    BY <1>2, <2>2 DEF Purge, Holds, Mine
  <2>4. QED
    BY <2>1, <2>3 DEF Sound, WindowOf
<1>6. \A p, q \in Requests, c \in Buckets, v \in Windows :
        Holds(p, c, v)' /\ Holds(q, c, v)' => p = q
  BY DEF Holds, Mine, WindowOf, Purge, IInv, TypeOK, Windows
<1>7. QED
  BY <1>3, <1>4, <1>5, <1>6 DEF Purge, IInv, TypeOK, WithinLimit, Windows

LEMMA TickStep == ASSUME IInv, Tick PROVE IInv'
<1>1. /\ now \in Nat /\ now + 1 \in 0..LastTick /\ now' = now + 1
      /\ UNCHANGED <<count, request, granted>>
  BY ConstantsAssumption DEF IInv, TypeOK, Tick
<1>2. Window \in Nat /\ Retention \in Nat /\ Patience \in Nat
  BY ConstantsAssumption
<1>3. \A v \in Windows : v \in Nat /\ v * Window \in Nat
  BY <1>2 DEF Windows
<1>4. \A v \in Windows : ~Old(v)' => ~Old(v)
  <2> SUFFICES ASSUME NEW v \in Windows, Old(v) PROVE Old(v)'
    OBVIOUS
  <2> DEFINE start == v * Window
  <2>1. start \in Nat /\ start < now - Retention
    BY <1>3 DEF Old
  <2> HIDE DEF start
  <2>2. start < now' - Retention
    BY <1>1, <1>2, <2>1
  <2>3. QED
    BY <2>2 DEF Old, start
<1>5. \A p \in Requests : Sound(request[p])'
  <2> SUFFICES ASSUME NEW p \in Requests PROVE Sound(request[p])'
    OBVIOUS
  <2>1. Sound(request[p]) /\ (request[p].step = "consuming" => now < request[p].at + Patience)
        /\ request[p].at \in Nat
    BY DEF IInv, Tick, TypeOK
  <2>2. QED
    BY <1>1, <1>2, <2>1 DEF Sound, WindowOf
<1>6. \A p, q \in Requests, c \in Buckets, v \in Windows :
        Holds(p, c, v)' /\ Holds(q, c, v)' => p = q
  BY <1>1 DEF Holds, Mine, WindowOf, IInv, TypeOK, Windows
<1>7. QED
  BY <1>1, <1>4, <1>5, <1>6 DEF IInv, TypeOK, WithinLimit, Windows

LEMMA NextStep == IInv /\ [Next]_vars => IInv'
<1>1. SUFFICES ASSUME IInv, [Next]_vars PROVE IInv'
  OBVIOUS
<1>2. CASE UNCHANGED vars
  BY <1>1, <1>2 DEF vars, IInv, TypeOK, WithinLimit, Sound, Holds, Mine, WindowOf, Windows, Old
<1>3. QED
  BY <1>1, <1>2, ArriveStep, ConsumeStep, CommitStep, DieStep, PurgeStep, TickStep DEF Next

-----------------------------------------------------------------------------
(* The theorems. *)

LEMMA Inductive == Spec => []IInv
  BY InitStep, NextStep, PTL DEF Spec

(* Rows and requests stay in range, a row is locked by one transaction at a time,
   and a row that is not old has counted all it let through. *)
THEOREM TypeCorrect == Spec => []TypeOK
<1>1. IInv => TypeOK
  BY DEF IInv
<1>2. QED
  BY <1>1, Inductive, PTL

(* No bucket lets more through in a window than its limit, however consume_rate_limits
   interleaves with itself, with rollbacks and with maintenance. *)
THEOREM NeverOverTheLimit == Spec => []WithinLimit
<1>1. IInv => WithinLimit
  BY DEF IInv
<1>2. QED
  BY <1>1, Inductive, PTL

(* Buckets are locked in ascending order, so two requests never wait for each other. *)
THEOREM NobodyWaitsInACircle == Spec => []NoWaitCycle
<1>1. IInv => NoWaitCycle
  <2>1. SUFFICES ASSUME IInv, NEW p \in Requests, NEW q \in Requests, Waits(p, q), Waits(q, p)
                 PROVE  FALSE
    BY DEF NoWaitCycle
  <2>2. /\ request[p].todo \in Seq(Buckets) /\ request[q].todo \in Seq(Buckets)
        /\ request[p].todo # <<>> /\ request[q].todo # <<>>
        /\ request[p].step = "consuming" /\ request[q].step = "consuming"
    BY <2>1 DEF IInv, TypeOK, Waits
  <2>3. /\ Head(request[p].todo) = request[p].todo[1] /\ 1 \in 1..Len(request[p].todo)
        /\ Head(request[q].todo) = request[q].todo[1] /\ 1 \in 1..Len(request[q].todo)
    BY <2>2, EmptySeq
  <2>4. Head(request[p].todo) \in request[q].held /\ Head(request[q].todo) \in request[p].held
    BY <2>1 DEF Waits, Holds
  <2>5. Head(request[p].todo) < Head(request[q].todo) /\ Head(request[q].todo) < Head(request[p].todo)
    BY <2>1, <2>2, <2>3, <2>4 DEF IInv, Sound
  <2>6. Head(request[p].todo) \in Nat /\ Head(request[q].todo) \in Nat
    BY <2>2, HeadTailProperties, ConstantsAssumption
  <2>7. QED
    BY <2>5, <2>6
<1>2. QED
  BY <1>1, Inductive, PTL

(* A chain of waits climbs the order of the buckets, so a circle of any number of
   requests is impossible: consume_rate_limits sorts before it locks. *)
THEOREM EveryWaitClimbs == Spec => []WaitsClimb
<1>1. IInv => WaitsClimb
  <2>1. SUFFICES ASSUME IInv, NEW p \in Requests, NEW q \in Requests, Waits(p, q), request[q].todo # <<>>
                 PROVE  Head(request[p].todo) < Head(request[q].todo)
    BY DEF WaitsClimb
  <2>2. request[q].todo \in Seq(Buckets) /\ request[q].step = "consuming"
    BY <2>1 DEF IInv, TypeOK, Waits, Holds
  <2>3. Head(request[q].todo) = request[q].todo[1] /\ 1 \in 1..Len(request[q].todo)
    BY <2>1, <2>2, EmptySeq
  <2>4. Head(request[p].todo) \in request[q].held
    BY <2>1 DEF Waits, Holds
  <2>5. QED
    BY <2>1, <2>2, <2>3, <2>4 DEF IInv, Sound
<1>2. QED
  BY <1>1, Inductive, PTL

(* A client that comes back at Retry-After meets a later window than the one that
   refused it, although the wait is computed from a second clock reading. *)
THEOREM RetryIsLater == Spec => []RetryMeetsNewWindow
<1>1. IInv => RetryMeetsNewWindow
  BY DEF IInv, Sound, RetryMeetsNewWindow, Mine
<1>2. QED
  BY <1>1, Inductive, PTL
=============================================================================
