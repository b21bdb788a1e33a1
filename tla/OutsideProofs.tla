--------------------------- MODULE OutsideProofs ---------------------------
(***************************************************************************)
(* Proofs about the two programs outside the backend: the browser's tabs   *)
(* (Tabs), for any number of tabs and any length of their inboxes, and the *)
(* race lab (RaceLab), for any number of its runs.                         *)
(*                                                                         *)
(* The tabs' promises hold as long as nothing was lost and no two          *)
(* refreshes crossed.  What carries them is that refreshes take turns      *)
(* under the Web Lock, and without it until they cross (InTurn), so that   *)
(* the one cookie that is exchanged is the one in the jar (CookieFresh)    *)
(* and no refusal is under way to anybody (SessionWhole).  The race lab's  *)
(* rest on what each stage leaves to the next one (Owned, Shown), on the   *)
(* constraint (Alone) and on the barrier (Looked, Told).                   *)
(***************************************************************************)
EXTENDS Tabs, RaceLab, FiniteSetTheorems, TLAPS

-----------------------------------------------------------------------------
(* The tabs. *)

NetRow == [leg: {"none", "request", "answer"}, cookie: Cookies]

TabsTypeOK ==
    /\ browser \in Browser
    /\ tab \in [Tabs -> Tab]
    /\ lock \in Tabs \cup {Nobody}
    /\ jar \in Cookies
    /\ net \in [Tabs -> NetRow] /\ orphan \in NetRow
    /\ inbox \in [Tabs -> Seq(Messages)]
    /\ session \in {"live", "ended", "alarm"} /\ crossed \in BOOLEAN
    /\ losses \in Nat /\ signOuts \in Nat

(* The lock is held exactly while a refresh is in flight, in a browser that has
   locks; in one that has none refreshes are one at a time until two cross. *)
OneAtATime == \A t, u \in Tabs : net[t] # Quiet /\ net[u] # Quiet => t = u
InTurn ==
    /\ \A t \in Tabs : tab[t].refresh = "flying" <=> net[t] # Quiet
    /\ browser.webLocks => ~crossed /\ \A t \in Tabs : lock = t <=> net[t] # Quiet
    /\ ~browser.webLocks => lock = Nobody
    /\ ~crossed => OneAtATime

(* As long as every answer comes back and no refreshes crossed, the cookie is a used
   one only while the answer with its successor is under way. *)
CookieFresh ==
    losses = 0 /\ ~crossed =>
        /\ orphan = Quiet
        /\ \A t \in Tabs : net[t].cookie # "used"
        /\ jar = "used" => \E t \in Tabs : net[t] = Response("current")
        /\ session # "alarm"

(* Until somebody signs out, the session ends by itself, an answer is lost or two
   refreshes cross, the session is whole, and nothing that would make a tab show a
   signed-out page is under way. *)
Undisturbed == losses = 0 /\ signOuts = 0 /\ session # "ended" /\ ~crossed
OnlyRefreshed(box) == \A i \in 1..Len(box) : box[i] = "TOKEN_REFRESHED"
SessionWhole ==
    /\ session = "live" /\ jar # "absent"
    /\ \A t \in Tabs :
        /\ net[t] \in {Quiet, Request("current"), Response("current")}
        /\ ~tab[t].leaving
        /\ OnlyRefreshed(inbox[t])
        /\ tab[t].checked => tab[t].user
SessionKept == Undisturbed => SessionWhole

TabsInv == TabsTypeOK /\ InTurn /\ CookieFresh /\ SessionKept

(* What the rows of a tab become. *)
LEMMA TabRows ==
    ASSUME NEW row \in Tab
    PROVE  /\ SignedIn(row) \in Tab /\ SignedIn(row).user /\ SignedIn(row).refresh = row.refresh
           /\ SignedIn(row).leaving = row.leaving /\ SignedIn(row).checked = row.checked
           /\ SignedOut(row) \in Tab /\ SignedOut(row).refresh = row.refresh
           /\ Succeeded(row) \in Tab /\ Succeeded(row).refresh = "none"
           /\ Succeeded(row).user = row.user /\ Succeeded(row).leaving = row.leaving
           /\ Succeeded(row).checked = row.checked
           /\ Failed(row) \in Tab /\ Failed(row).refresh = "none"
  BY DEF SignedIn, SignedOut, Succeeded, Failed, Tab

LEMMA NetRows ==
    /\ Quiet \in NetRow /\ Quiet.leg = "none" /\ Quiet.cookie = "absent"
    /\ \A c \in Cookies : /\ Request(c) \in NetRow /\ Request(c).leg = "request" /\ Request(c).cookie = c
                          /\ Response(c) \in NetRow /\ Response(c).leg = "answer" /\ Response(c).cookie = c
                          /\ Request(c) # Quiet /\ Response(c) # Quiet
    /\ AgedMessage(Quiet) = Quiet
    /\ \A m \in NetRow : AgedMessage(m) \in NetRow /\ AgedMessage(m).leg = m.leg
    /\ \A c \in Cookies : Aged(c) \in Cookies
  BY DEF Quiet, Request, Response, AgedMessage, Aged, NetRow, Cookies

LEMMA AgedQuiet == \A m \in NetRow : AgedMessage(m) = Quiet <=> m = Quiet
  BY DEF AgedMessage, Aged, Quiet, NetRow

(* A step of one tab that leaves the lock, the network and the server alone. *)
LEMMA QuietStep ==
    ASSUME TabsInv, NEW t \in Tabs, NEW row \in Tab, Became(t, row),
           row.refresh = "flying" <=> tab[t].refresh = "flying",
           UNCHANGED <<browser, lock, net, orphan, crossed>>
    PROVE  /\ tab' \in [Tabs -> Tab] /\ tab'[t] = row /\ \A u \in Tabs \ {t} : tab'[u] = tab[u]
           /\ InTurn'
  BY DEF TabsInv, TabsTypeOK, Became, InTurn, OneAtATime

(* What a broadcast leaves in the inboxes. *)
LEMMA Broadcasts ==
    ASSUME inbox \in [Tabs -> Seq(Messages)], NEW t \in Tabs, NEW m \in Messages, Broadcast(t, m)
    PROVE  /\ inbox' \in [Tabs -> Seq(Messages)]
           /\ \A u \in Tabs : \/ inbox'[u] = inbox[u]
                              \/ inbox'[u] = Append(inbox[u], m)
  BY DEF Broadcast

(* A step of one tab by itself: it may drop the cookie and lose an answer, and as
   long as nothing has happened it leaves the session as it is. *)
LEMMA OwnStep ==
    ASSUME TabsInv, NEW t \in Tabs, NEW row \in Tab, Became(t, row),
           row.refresh = "flying" <=> tab[t].refresh = "flying",
           UNCHANGED <<browser, lock, net, orphan, crossed>>,
           jar' \in {jar, "absent"}, session' \in {session, "ended"},
           inbox' \in [Tabs -> Seq(Messages)],
           losses' \in {losses, losses + 1}, signOuts' \in {signOuts, signOuts + 1},
           Undisturbed /\ Undisturbed' /\ SessionWhole =>
               /\ jar' = jar
               /\ ~row.leaving /\ (row.checked => row.user)
               /\ \A u \in Tabs : OnlyRefreshed(inbox'[u])
    PROVE  TabsInv'
  <1>1. tab' \in [Tabs -> Tab] /\ tab'[t] = row /\ (\A u \in Tabs \ {t} : tab'[u] = tab[u]) /\ InTurn'
    BY QuietStep
  <1>2. losses \in Nat /\ signOuts \in Nat
    BY DEF TabsInv, TabsTypeOK
  <1>3. TabsTypeOK'
    BY <1>1 DEF TabsInv, TabsTypeOK, Cookies
  <1>4. (losses' = 0 => losses = 0) /\ (Undisturbed' => Undisturbed /\ session' = session)
    BY <1>2 DEF Undisturbed
  <1>5. CookieFresh'
    BY <1>4 DEF TabsInv, CookieFresh
  <1>6. SessionKept'
    <2> SUFFICES ASSUME Undisturbed' PROVE SessionWhole'
      BY DEF SessionKept
    <2>1. Undisturbed /\ SessionWhole /\ session' = session
      BY <1>4 DEF TabsInv, SessionKept
    <2> QED  BY <1>1, <2>1 DEF SessionWhole
  <1> QED  BY <1>1, <1>3, <1>5, <1>6 DEF TabsInv

LEMMA TabAlone ==
    ASSUME TabsInv, NEW t \in Tabs,
           CheckSession(t) \/ MeetUnauthorized(t) \/ BeginAttempt(t) \/ FiveSecondsPass(t)
    PROVE  TabsInv'
  <1>1. tab[t] \in Tab
    BY DEF TabsInv, TabsTypeOK
  <1>2. PICK row : /\ Became(t, row)
                   /\ \/ row = [tab[t] EXCEPT !.refresh = "queued", !.checking = TRUE] /\ tab[t].refresh = "none"
                      \/ row = [tab[t] EXCEPT !.refresh = "queued"] /\ tab[t].refresh = "none"
                      \/ row = [tab[t] EXCEPT !.attempt = TRUE]
                      \/ row = [tab[t] EXCEPT !.token = "old"]
    BY DEF CheckSession, MeetUnauthorized, BeginAttempt, FiveSecondsPass
  <1>3. /\ row \in Tab /\ (row.refresh = "flying" <=> tab[t].refresh = "flying")
        /\ row.leaving = tab[t].leaving /\ row.checked = tab[t].checked /\ row.user = tab[t].user
    BY <1>1, <1>2 DEF Tab
  <1>4. UNCHANGED <<browser, lock, jar, net, orphan, inbox, session, crossed, losses, signOuts>>
    BY DEF CheckSession, MeetUnauthorized, BeginAttempt, FiveSecondsPass
  <1>5. inbox' \in [Tabs -> Seq(Messages)]
    BY <1>4 DEF TabsInv, TabsTypeOK
  <1>6. SessionWhole => /\ ~row.leaving /\ (row.checked => row.user)
                        /\ \A u \in Tabs : OnlyRefreshed(inbox'[u])
    BY <1>3, <1>4 DEF SessionWhole
  <1> QED  BY <1>2, <1>3, <1>4, <1>5, <1>6, OwnStep

LEMMA MeKeeps ==
    ASSUME TabsInv, NEW t \in Tabs, MeAnswered(t) \/ MeRefused(t)
    PROVE  TabsInv'
  <1>1. tab[t] \in Tab /\ losses \in Nat
    BY DEF TabsInv, TabsTypeOK
  <1>2. UNCHANGED <<browser, lock, jar, net, orphan, inbox, session, crossed, signOuts>>
        /\ losses' \in {losses, losses + 1}
    BY DEF MeAnswered, MeRefused, Lose
  <1>3. inbox' \in [Tabs -> Seq(Messages)]
    BY <1>2 DEF TabsInv, TabsTypeOK
  <1>4. SessionWhole => ~tab[t].leaving /\ \A u \in Tabs : OnlyRefreshed(inbox'[u])
    BY <1>2 DEF SessionWhole
  <1>5. PICK row : /\ Became(t, row)
                   /\ \/ row = [tab[t] EXCEPT !.user = TRUE, !.me = FALSE, !.checking = FALSE, !.checked = TRUE]
                      \/ row = [SignedOut(tab[t]) EXCEPT !.me = FALSE, !.checking = FALSE, !.checked = TRUE]
                         /\ (losses' = losses + 1 \/ session # "live")
                      \/ row = [tab[t] EXCEPT !.me = FALSE, !.refresh = IF tab[t].refresh = "none"
                                                                      THEN "queued" ELSE tab[t].refresh]
                         /\ session # "live"
    BY DEF MeAnswered, MeRefused, Lose
  <1>6. row \in Tab /\ (row.refresh = "flying" <=> tab[t].refresh = "flying")
    BY <1>1, <1>5 DEF Tab, SignedOut
  <1>7. SessionWhole /\ losses' = 0 => ~row.leaving /\ row.user
    <2>1. SessionWhole /\ losses' = 0 =>
            row = [tab[t] EXCEPT !.user = TRUE, !.me = FALSE, !.checking = FALSE, !.checked = TRUE]
      BY <1>1, <1>5 DEF SessionWhole
    <2> QED  BY <1>1, <1>4, <2>1 DEF Tab
  <1> QED  BY <1>2, <1>3, <1>4, <1>5, <1>6, <1>7, OwnStep DEF Undisturbed

LEMMA ReceiveKeeps ==
    ASSUME TabsInv, NEW t \in Tabs, Receive(t)
    PROVE  TabsInv'
  <1>1. tab[t] \in Tab /\ inbox \in [Tabs -> Seq(Messages)]
    BY DEF TabsInv, TabsTypeOK
  <1>2. /\ inbox[t] # <<>> /\ inbox' = [inbox EXCEPT ![t] = Tail(inbox[t])]
        /\ UNCHANGED <<browser, lock, jar, net, orphan, session, crossed, losses, signOuts>>
    BY DEF Receive
  <1>3. /\ Len(inbox[t]) \in Nat \ {0}
        /\ Tail(inbox[t]) \in Seq(Messages) /\ Len(Tail(inbox[t])) = Len(inbox[t]) - 1
        /\ \A i \in 1..Len(Tail(inbox[t])) : Tail(inbox[t])[i] = inbox[t][i + 1]
    BY <1>1, <1>2
  <1>4. inbox' \in [Tabs -> Seq(Messages)]
    BY <1>1, <1>2, <1>3 DEF TabsInv, TabsTypeOK
  <1>5. SessionWhole => \A u \in Tabs : OnlyRefreshed(inbox'[u])
    <2> SUFFICES ASSUME SessionWhole, NEW u \in Tabs PROVE OnlyRefreshed(inbox'[u])
      OBVIOUS
    <2>1. OnlyRefreshed(inbox[u])
      BY DEF SessionWhole
    <2>2. CASE u = t
      <3>1. \A i \in 1..Len(Tail(inbox[t])) : Tail(inbox[t])[i] = "TOKEN_REFRESHED"
        <4>1. \A i \in 1..Len(Tail(inbox[t])) : i + 1 \in 1..Len(inbox[t])
          BY <1>3
        <4> QED  BY <1>3, <2>1, <2>2, <4>1 DEF OnlyRefreshed
      <3> QED  BY <1>1, <1>2, <2>2, <3>1 DEF OnlyRefreshed
    <2>3. CASE u # t
      BY <1>1, <1>2, <2>1, <2>3
    <2> QED  BY <2>2, <2>3
  <1>6. SessionWhole => Head(inbox[t]) # "LOGOUT"
    <2>1. 1 \in 1..Len(inbox[t]) /\ Head(inbox[t]) = inbox[t][1]
      BY <1>3
    <2> QED  BY <2>1 DEF SessionWhole, OnlyRefreshed
  <1>7. CASE Head(inbox[t]) = "LOGOUT"
    <2>1. Became(t, SignedOut(tab[t]))
      BY <1>7 DEF Receive
    <2> QED  BY <1>1, <1>2, <1>4, <1>6, <1>7, <2>1, TabRows, OwnStep
  <1>8. CASE Head(inbox[t]) # "LOGOUT"
    <2>1. Became(t, SignedIn(tab[t]))
      BY <1>8 DEF Receive
    <2>2. SessionWhole => ~SignedIn(tab[t]).leaving
      BY <1>1, TabRows DEF SessionWhole
    <2> QED  BY <1>1, <1>2, <1>4, <1>5, <2>1, <2>2, TabRows, OwnStep
  <1> QED  BY <1>7, <1>8

LEMMA SignOutKeeps ==
    ASSUME TabsInv, NEW t \in Tabs, SignOut(t) \/ SignOutEnds(t)
    PROVE  TabsInv'
  <1>1. tab[t] \in Tab /\ signOuts \in Nat /\ inbox \in [Tabs -> Seq(Messages)]
    BY DEF TabsInv, TabsTypeOK
  <1>2. CASE SignOut(t)
    <2> DEFINE row == [tab[t] EXCEPT !.leaving = TRUE]
    <2>1. row \in Tab /\ row.refresh = tab[t].refresh
      BY <1>1 DEF Tab
    <2>2. Became(t, row) /\ signOuts' = signOuts + 1 /\ session' \in {session, "ended"}
          /\ UNCHANGED <<browser, lock, jar, net, orphan, inbox, crossed, losses>>
      BY <1>1, <1>2 DEF SignOut
    <2> HIDE DEF row
    <2>3. ~Undisturbed'
      BY <1>1, <2>2 DEF Undisturbed
    <2> QED  BY <1>1, <2>1, <2>2, <2>3, OwnStep
  <1>3. CASE SignOutEnds(t)
    <2> DEFINE row == [SignedOut(tab[t]) EXCEPT !.leaving = FALSE]
    <2>1. row \in Tab /\ row.refresh = tab[t].refresh
      BY <1>1 DEF Tab, SignedOut
    <2>2. /\ Became(t, row) /\ jar' \in {jar, "absent"} /\ Broadcast(t, "LOGOUT") /\ tab[t].leaving
          /\ UNCHANGED <<browser, lock, net, orphan, session, crossed, losses, signOuts>>
      BY <1>3 DEF SignOutEnds
    <2> HIDE DEF row
    <2>3. inbox' \in [Tabs -> Seq(Messages)]
      BY <1>1, <2>2, Broadcasts DEF Messages
    <2>4. ~SessionWhole
      BY <2>2 DEF SessionWhole
    <2> QED  BY <1>1, <2>1, <2>2, <2>3, <2>4, OwnStep
  <1> QED  BY <1>2, <1>3

(* The request carries the cookie of this moment, which nobody is exchanging: the lock
   was free, or the refreshes do not cross, or they do and no more is promised. *)
LEMMA EnterKeeps ==
    ASSUME TabsInv, NEW t \in Tabs, Enter(t)
    PROVE  TabsInv'
  <1>1. tab[t] \in Tab /\ tab \in [Tabs -> Tab] /\ net \in [Tabs -> NetRow] /\ jar \in Cookies
        /\ crossed \in BOOLEAN
    BY DEF TabsInv, TabsTypeOK
  <1>2. tab[t].refresh = "queued" /\ UNCHANGED <<browser, jar, orphan, inbox, session, losses, signOuts>>
    BY DEF Enter
  <1>3. inbox' \in [Tabs -> Seq(Messages)]
    BY <1>2 DEF TabsInv, TabsTypeOK
  <1>4. CASE Became(t, Succeeded(tab[t])) /\ UNCHANGED <<lock, net, crossed>>
    <2>1. SessionWhole => /\ ~tab[t].leaving /\ (tab[t].checked => tab[t].user)
                          /\ \A u \in Tabs : OnlyRefreshed(inbox'[u])
      BY <1>2 DEF SessionWhole
    <2> QED  BY <1>1, <1>2, <1>3, <1>4, <2>1, TabRows, OwnStep
  <1>5. CASE /\ Send(t)
             /\ \/ browser.webLocks /\ lock = Nobody /\ lock' = t
                \/ ~browser.webLocks /\ lock' = lock
    <2> DEFINE row == [tab[t] EXCEPT !.refresh = "flying"]
    <2>1. row \in Tab /\ row.refresh = "flying" /\ row.leaving = tab[t].leaving
          /\ row.checked = tab[t].checked /\ row.user = tab[t].user
      BY <1>1 DEF Tab
    <2>2. net' = [net EXCEPT ![t] = Request(jar)] /\ tab' = [tab EXCEPT ![t] = row]
          /\ crossed' = (crossed \/ Crosses(t))
      BY <1>5 DEF Send, Became
    <2> HIDE DEF row
    <2>3. net' \in [Tabs -> NetRow] /\ net'[t] = Request(jar) /\ (\A u \in Tabs \ {t} : net'[u] = net[u])
          /\ net'[t] # Quiet
      BY <1>1, <2>2, NetRows
    <2>4. tab' \in [Tabs -> Tab] /\ tab'[t] = row /\ (\A u \in Tabs \ {t} : tab'[u] = tab[u])
      BY <1>1, <2>1, <2>2
    <2>5. net[t] = Quiet
      BY <1>2 DEF TabsInv, InTurn
    <2>6. browser.webLocks => \A u \in Tabs : net[u] = Quiet
      BY <1>5, ConstantsAssumption DEF TabsInv, InTurn
    <2>7. ~crossed' => ~crossed /\ \A u \in Tabs : net[u] = Quiet
      BY <2>2, <2>5 DEF Crosses
    <2>8. TabsTypeOK'
      <3>1. crossed' \in BOOLEAN
        BY <1>1, <2>2 DEF Crosses
      <3> QED  BY <1>2, <1>3, <1>5, <2>3, <2>4, <3>1 DEF TabsInv, TabsTypeOK
    <2>9. InTurn'
      <3>1. \A u \in Tabs : tab'[u].refresh = "flying" <=> net'[u] # Quiet
        BY <2>1, <2>3, <2>4 DEF TabsInv, InTurn
      <3>2. browser.webLocks => ~crossed' /\ \A u \in Tabs : lock' = u <=> net'[u] # Quiet
        BY <1>5, <2>2, <2>3, <2>6 DEF TabsInv, InTurn, Crosses
      <3>3. ~browser.webLocks => lock' = Nobody
        BY <1>5 DEF TabsInv, InTurn
      <3>4. ~crossed' => OneAtATime'
        BY <2>3, <2>7 DEF OneAtATime
      <3> QED  BY <1>2, <3>1, <3>2, <3>3, <3>4 DEF InTurn
    <2>10. CookieFresh'
      <3>1. losses = 0 /\ ~crossed' => jar # "used"
        BY <1>1, <2>7, NetRows DEF TabsInv, CookieFresh, Cookies
      <3> QED  BY <1>1, <1>2, <2>3, <2>7, <3>1, NetRows DEF TabsInv, CookieFresh
    <2>11. SessionKept'
      <3> SUFFICES ASSUME Undisturbed' PROVE SessionWhole'
        BY DEF SessionKept
      <3>1. Undisturbed /\ SessionWhole /\ losses = 0 /\ ~crossed
        BY <1>2, <2>7 DEF TabsInv, SessionKept, Undisturbed
      <3>2. jar = "current"
        BY <1>1, <2>7, <3>1, NetRows DEF TabsInv, CookieFresh, SessionWhole, Cookies, Undisturbed
      <3> QED  BY <1>2, <2>1, <2>3, <2>4, <3>1, <3>2 DEF SessionWhole
    <2> QED  BY <2>8, <2>9, <2>10, <2>11 DEF TabsInv
  <1> QED  BY <1>4, <1>5 DEF Enter

(* Whose turn it is does not change while the same tabs have something under way. *)
LEMMA SameTurns ==
    ASSUME TabsInv, UNCHANGED <<browser, tab, lock, crossed>>,
           \A u \in Tabs : net'[u] = Quiet <=> net[u] = Quiet
    PROVE  InTurn'
  BY DEF TabsInv, InTurn, OneAtATime

(* The server answers, or fails to: as long as refreshes are one at a time, nothing
   but the jar's copy of the cookie becomes a used one. *)
LEMMA ServeKeeps ==
    ASSUME TabsInv, NEW t \in Tabs, Serve(t)
    PROVE  TabsInv'
  <1> DEFINE c == net[t].cookie
  <1>1. /\ net \in [Tabs -> NetRow] /\ jar \in Cookies /\ orphan \in NetRow /\ c \in Cookies
        /\ session \in {"live", "ended", "alarm"} /\ net[t] \in NetRow
    BY DEF TabsInv, TabsTypeOK, NetRow
  <1>2. /\ net[t].leg = "request"
        /\ session' = IF Rings(c) THEN "alarm" ELSE session
        /\ UNCHANGED <<browser, tab, lock, inbox, crossed, losses, signOuts>>
    BY DEF Serve
  <1>3. net[t] # Quiet /\ (~crossed => \A u \in Tabs \ {t} : net[u] = Quiet)
    BY <1>2, NetRows DEF TabsInv, InTurn, OneAtATime
  <1>4. /\ net' \in [Tabs -> NetRow]
        /\ net'[t] = IF Rotates(c) THEN Response("current") ELSE Response("absent")
        /\ \A u \in Tabs \ {t} : net'[u] = Quiet <=> net[u] = Quiet
    <2>1. CASE Rotates(c)
      <3>1. net' = [u \in Tabs |-> IF u = t THEN Response("current") ELSE AgedMessage(net[u])]
        BY <2>1 DEF Serve
      <3>2. \A u \in Tabs \ {t} : net'[u] = Quiet <=> net[u] = Quiet
        BY <1>1, <3>1, AgedQuiet
      <3> QED  BY <1>1, <2>1, <3>1, <3>2, NetRows DEF Cookies
    <2>2. CASE ~Rotates(c)
      <3>1. net' = [net EXCEPT ![t] = Response("absent")]
        BY <2>2 DEF Serve
      <3> QED  BY <1>1, <2>2, <3>1, NetRows DEF Cookies
    <2> QED  BY <2>1, <2>2
  <1>5. /\ jar' = IF Rotates(c) THEN Aged(jar) ELSE jar
        /\ orphan' = IF Rotates(c) THEN AgedMessage(orphan) ELSE orphan
    BY DEF Serve
  <1> HIDE DEF c
  <1>6. TabsTypeOK'
    <2>1. jar' \in Cookies /\ orphan' \in NetRow
      BY <1>1, <1>5, NetRows
    <2>2. session' \in {"live", "ended", "alarm"}
      BY <1>1, <1>2
    <2> QED  BY <1>2, <1>4, <2>1, <2>2 DEF TabsInv, TabsTypeOK
  <1>7. InTurn'
    BY <1>2, <1>3, <1>4, NetRows, SameTurns DEF Cookies
  <1>8. ASSUME losses = 0, ~crossed PROVE c # "used" /\ session # "alarm" /\ orphan = Quiet /\ jar # "used"
    <2>1. net[t] # Response("current") /\ Response("current") # Quiet
      BY <1>2, NetRows DEF Cookies
    <2>2. \A u \in Tabs : net[u] # Response("current")
      <3>1. \A u \in Tabs \ {t} : net[u] = Quiet
        BY <1>3, <1>8
      <3> QED  BY <2>1, <3>1
    <2> QED  BY <1>8, <2>2 DEF TabsInv, CookieFresh, c
  <1>9. CookieFresh'
    <2> SUFFICES ASSUME losses = 0, ~crossed
                 PROVE  /\ orphan' = Quiet /\ session' # "alarm"
                        /\ \A u \in Tabs : net'[u].cookie # "used"
                        /\ jar' = "used" => \E u \in Tabs : net'[u] = Response("current")
      BY <1>2 DEF CookieFresh
    <2>1. orphan' = Quiet /\ session' # "alarm"
      BY <1>2, <1>5, <1>8, NetRows DEF Rings
    <2>2. \A u \in Tabs : net'[u].cookie # "used"
      BY <1>3, <1>4, NetRows DEF Cookies
    <2>3. jar' = "used" => net'[t] = Response("current")
      BY <1>4, <1>5, <1>8
    <2> QED  BY <2>1, <2>2, <2>3
  <1>10. SessionKept'
    <2> SUFFICES ASSUME Undisturbed' PROVE SessionWhole'
      BY DEF SessionKept
    <2>1. SessionWhole /\ losses = 0 /\ ~crossed
      BY <1>1, <1>2 DEF TabsInv, SessionKept, Undisturbed, Rings
    <2>2. c = "current"
      BY <1>1, <1>2, <1>3, <2>1, NetRows DEF SessionWhole, c, Cookies
    <2>3. Rotates(c) /\ ~Rings(c)
      BY <2>1, <2>2 DEF SessionWhole, Rotates, Rings
    <2>4. session' = "live" /\ jar' # "absent"
      BY <1>2, <1>5, <2>1, <2>3 DEF SessionWhole, Aged
    <2> QED  BY <1>2, <1>3, <1>4, <2>1, <2>3, <2>4 DEF SessionWhole
  <1> QED  BY <1>6, <1>7, <1>9, <1>10 DEF TabsInv

LEMMA AnswerKeeps ==
    ASSUME TabsInv, NEW t \in Tabs, Answer(t)
    PROVE  TabsInv'
  <1>1. /\ tab \in [Tabs -> Tab] /\ tab[t] \in Tab /\ net \in [Tabs -> NetRow] /\ jar \in Cookies
        /\ inbox \in [Tabs -> Seq(Messages)]
    BY DEF TabsInv, TabsTypeOK
  <1>2. /\ lock' = Nobody /\ net' = [net EXCEPT ![t] = Quiet]
        /\ UNCHANGED <<browser, orphan, session, crossed, losses, signOuts>>
    BY DEF Answer
  <1>3. net[t] # Quiet
    BY NetRows DEF Answer, Accept, Refuse, Cookies
  <1>4. /\ net' \in [Tabs -> NetRow] /\ net'[t] = Quiet /\ \A u \in Tabs \ {t} : net'[u] = net[u]
        /\ ~crossed => \A u \in Tabs : net'[u] = Quiet
    <2>1. ~crossed => \A u \in Tabs \ {t} : net[u] = Quiet
      BY <1>3 DEF TabsInv, InTurn, OneAtATime
    <2> QED  BY <1>1, <1>2, <2>1, NetRows
  <1>5. PICK row \in Tab, m \in Messages :
            /\ tab' = [tab EXCEPT ![t] = row] /\ row.refresh = "none" /\ Broadcast(t, m)
            /\ Accept(t) => /\ m = "TOKEN_REFRESHED" /\ row.user /\ row.leaving = tab[t].leaving
            /\ ~Accept(t) => Refuse(t)
    <2>1. CASE Accept(t)
      <3>1. SignedIn(tab[t]) \in Tab
        BY <1>1, TabRows
      <3> Succeeded(SignedIn(tab[t])) \in Tab /\ "TOKEN_REFRESHED" \in Messages
        BY <3>1, TabRows DEF Messages
      <3> WITNESS Succeeded(SignedIn(tab[t])) \in Tab, "TOKEN_REFRESHED" \in Messages
      <3> QED  BY <1>1, <2>1, <3>1, TabRows DEF Accept, Became, Messages
    <2>2. CASE ~Accept(t)
      <3>1. SignedOut(tab[t]) \in Tab /\ Refuse(t)
        BY <1>1, <2>2, TabRows DEF Answer
      <3> Failed(SignedOut(tab[t])) \in Tab /\ "LOGOUT" \in Messages
        BY <3>1, TabRows DEF Messages
      <3> WITNESS Failed(SignedOut(tab[t])) \in Tab, "LOGOUT" \in Messages
      <3> QED  BY <2>2, <3>1, TabRows DEF Refuse, Became, Messages
    <2> QED  BY <2>1, <2>2
  <1>6. tab' \in [Tabs -> Tab] /\ tab'[t] = row /\ \A u \in Tabs \ {t} : tab'[u] = tab[u]
    BY <1>1, <1>5
  <1>7. /\ inbox' \in [Tabs -> Seq(Messages)]
        /\ \A u \in Tabs : inbox'[u] = inbox[u] \/ inbox'[u] = Append(inbox[u], m)
    BY <1>1, <1>5, Broadcasts
  <1>8. jar' = IF Accept(t) THEN net[t].cookie ELSE jar
    BY <1>5 DEF Accept, Refuse
  <1>9. TabsTypeOK'
    <2>1. jar' \in Cookies
      BY <1>1, <1>8 DEF NetRow
    <2> QED  BY <1>2, <1>4, <1>6, <1>7, <2>1 DEF TabsInv, TabsTypeOK
  <1>10. InTurn'
    <2>1. \A u \in Tabs : tab'[u].refresh = "flying" <=> net'[u] # Quiet
      BY <1>4, <1>5, <1>6 DEF TabsInv, InTurn
    <2>2. browser.webLocks => ~crossed' /\ \A u \in Tabs : lock' = u <=> net'[u] # Quiet
      BY <1>2, <1>4, ConstantsAssumption DEF TabsInv, InTurn
    <2>3. ~crossed' => OneAtATime'
      BY <1>2, <1>4 DEF OneAtATime
    <2> QED  BY <1>2, <2>1, <2>2, <2>3 DEF InTurn
  <1>11. ASSUME losses = 0, ~crossed PROVE jar' # "used"
    <2>1. CASE Accept(t)
      BY <1>8, <1>11, <2>1 DEF TabsInv, CookieFresh
    <2>2. CASE ~Accept(t)
      <3>1. net[t] = Response("absent")
        BY <1>5, <2>2 DEF Refuse
      <3>2. \A u \in Tabs : net[u] # Response("current")
        BY <1>3, <1>11, <3>1, NetRows DEF TabsInv, InTurn, OneAtATime, Cookies
      <3> QED  BY <1>8, <1>11, <2>2, <3>2 DEF TabsInv, CookieFresh
    <2> QED  BY <2>1, <2>2
  <1>12. CookieFresh'
    BY <1>2, <1>4, <1>11, NetRows DEF TabsInv, CookieFresh
  <1>13. SessionKept'
    <2> SUFFICES ASSUME Undisturbed PROVE SessionWhole'
      BY <1>2 DEF SessionKept, Undisturbed
    <2>1. SessionWhole
      BY DEF TabsInv, SessionKept
    <2>2. Accept(t) /\ net[t].cookie = "current"
      <3>1. net[t] # Response("absent") /\ net[t] # Response("used")
        BY <2>1, NetRows DEF SessionWhole, Cookies
      <3>2. Accept(t)
        BY <1>5, <3>1 DEF Refuse
      <3> QED  BY <3>1, <3>2, NetRows DEF Accept, Cookies
    <2>3. \A u \in Tabs : OnlyRefreshed(inbox'[u])
      <3> SUFFICES ASSUME NEW u \in Tabs PROVE OnlyRefreshed(inbox'[u])
        OBVIOUS
      <3>1. OnlyRefreshed(inbox[u]) /\ inbox[u] \in Seq(Messages) /\ m = "TOKEN_REFRESHED"
        BY <1>1, <1>5, <2>1, <2>2 DEF SessionWhole
      <3>2. OnlyRefreshed(Append(inbox[u], m))
        BY <3>1 DEF OnlyRefreshed
      <3> QED  BY <1>7, <3>1, <3>2
    <2>4. ~row.leaving /\ row.user
      BY <1>5, <2>1, <2>2 DEF SessionWhole
    <2> QED  BY <1>2, <1>4, <1>6, <1>8, <2>1, <2>2, <2>3, <2>4 DEF SessionWhole
  <1> QED  BY <1>9, <1>10, <1>12, <1>13 DEF TabsInv

(* What is lost is counted, so that no more is promised; the turns stay in order. *)
LEMMA LossKeeps ==
    ASSUME TabsInv, NEW t \in Tabs, Busy(t) \/ FetchFails(t) \/ Reload(t)
    PROVE  TabsInv'
  <1>1. /\ tab \in [Tabs -> Tab] /\ tab[t] \in Tab /\ net \in [Tabs -> NetRow] /\ orphan \in NetRow
        /\ inbox \in [Tabs -> Seq(Messages)] /\ losses \in Nat /\ lock \in Tabs \cup {Nobody}
    BY DEF TabsInv, TabsTypeOK
  <1>2. losses' = losses + 1 /\ UNCHANGED <<browser, jar, session, crossed, signOuts>>
    BY DEF Busy, FetchFails, Reload, Abandon, Lose
  <1>3. CookieFresh' /\ SessionKept'
    BY <1>1, <1>2 DEF CookieFresh, SessionKept, Undisturbed
  <1>4. CASE Busy(t)
    <2>1. /\ net[t].leg = "request" /\ net' = [net EXCEPT ![t] = Response("absent")]
          /\ UNCHANGED <<tab, lock, orphan, inbox>>
      BY <1>4 DEF Busy
    <2>2. net[t] # Quiet
      BY <2>1, NetRows
    <2>3. net' \in [Tabs -> NetRow] /\ net'[t] # Quiet /\ \A u \in Tabs \ {t} : net'[u] = net[u]
      BY <1>1, <2>1, NetRows DEF Cookies
    <2>4. InTurn'
      BY <1>2, <2>1, <2>2, <2>3, SameTurns
    <2> QED  BY <1>2, <1>3, <2>1, <2>3, <2>4 DEF TabsInv, TabsTypeOK
  <1>5. CASE FetchFails(t) \/ Reload(t)
    <2>1. PICK row \in Tab : Became(t, row) /\ row.refresh = "none"
      <3>1. CASE FetchFails(t)
        BY <1>1, <3>1, TabRows DEF FetchFails
      <3>2. CASE Reload(t)
        <4>1. [Opened EXCEPT !.attempt = tab[t].attempt] \in Tab
              /\ [Opened EXCEPT !.attempt = tab[t].attempt].refresh = "none"
          BY <1>1 DEF Opened, Tab
        <4> QED  BY <3>2, <4>1 DEF Reload
      <3> QED  BY <1>5, <3>1, <3>2
    <2>2. tab' \in [Tabs -> Tab] /\ tab'[t] = row /\ \A u \in Tabs \ {t} : tab'[u] = tab[u]
      BY <1>1, <2>1 DEF Became
    <2>3. /\ net' = [net EXCEPT ![t] = Quiet] /\ lock' = (IF lock = t THEN Nobody ELSE lock)
          /\ orphan' = (IF net[t].leg = "request" THEN net[t] ELSE orphan)
      BY <1>5 DEF FetchFails, Reload, Abandon
    <2>4. net' \in [Tabs -> NetRow] /\ net'[t] = Quiet /\ \A u \in Tabs \ {t} : net'[u] = net[u]
      BY <1>1, <2>3, NetRows
    <2>5. inbox' \in [Tabs -> Seq(Messages)]
      <3>1. inbox' = inbox \/ inbox' = [inbox EXCEPT ![t] = <<>>]
        BY <1>5 DEF FetchFails, Reload
      <3>2. <<>> \in Seq(Messages)
        OBVIOUS
      <3> QED  BY <1>1, <3>1, <3>2
    <2>6. TabsTypeOK'
      BY <1>1, <1>2, <2>2, <2>3, <2>4, <2>5 DEF TabsInv, TabsTypeOK
    <2>7. InTurn'
      <3>1. \A u \in Tabs : tab'[u].refresh = "flying" <=> net'[u] # Quiet
        BY <2>1, <2>2, <2>4 DEF TabsInv, InTurn
      <3>2. browser.webLocks => ~crossed' /\ \A u \in Tabs : lock' = u <=> net'[u] # Quiet
        BY <1>2, <2>3, <2>4, ConstantsAssumption DEF TabsInv, InTurn
      <3>3. ~browser.webLocks => lock' = Nobody
        BY <2>3 DEF TabsInv, InTurn
      <3>4. ~crossed' => OneAtATime'
        BY <1>2, <2>4 DEF TabsInv, InTurn, OneAtATime
      <3> QED  BY <1>2, <3>1, <3>2, <3>3, <3>4 DEF InTurn
    <2> QED  BY <1>3, <2>6, <2>7 DEF TabsInv
  <1> QED  BY <1>4, <1>5

(* An abandoned request reaches the server: there is none unless something was lost
   or refreshes crossed. *)
LEMMA OrphanKeeps ==
    ASSUME TabsInv, ServeOrphan
    PROVE  TabsInv'
  <1>1. net \in [Tabs -> NetRow] /\ jar \in Cookies /\ session \in {"live", "ended", "alarm"}
    BY DEF TabsInv, TabsTypeOK
  <1>2. /\ orphan.leg = "request" /\ orphan' = Quiet
        /\ session' \in {"live", "ended", "alarm"}
        /\ UNCHANGED <<browser, tab, lock, inbox, crossed, losses, signOuts>>
    BY <1>1 DEF ServeOrphan
  <1>3. losses # 0 \/ crossed
    BY <1>2, NetRows DEF TabsInv, CookieFresh
  <1>4. CookieFresh' /\ SessionKept'
    BY <1>2, <1>3 DEF CookieFresh, SessionKept, Undisturbed
  <1>5. \/ net' = [u \in Tabs |-> AgedMessage(net[u])] /\ jar' = Aged(jar)
        \/ UNCHANGED <<net, jar>>
    BY DEF ServeOrphan
  <1>6. net' \in [Tabs -> NetRow] /\ jar' \in Cookies
    BY <1>1, <1>5, NetRows
  <1>7. \A u \in Tabs : net'[u] = Quiet <=> net[u] = Quiet
    BY <1>1, <1>5, AgedQuiet
  <1>8. InTurn'
    BY <1>2, <1>7, SameTurns
  <1> QED  BY <1>2, <1>4, <1>6, <1>8, NetRows DEF TabsInv, TabsTypeOK

(* The session ends by itself: no more is promised. *)
LEMMA EndKeeps ==
    ASSUME TabsInv, SessionEnds
    PROVE  TabsInv'
  <1>1. CookieFresh' /\ SessionKept'
    BY DEF SessionEnds, TabsInv, CookieFresh, SessionKept, Undisturbed
  <1> QED  BY <1>1, SameTurns DEF SessionEnds, TabsInv, TabsTypeOK

LEMMA TabsKeep ==
    ASSUME TabsInv, [Next]_vars
    PROVE  TabsInv'
  <1>1. CASE UNCHANGED vars
    BY <1>1 DEF vars, TabsInv, TabsTypeOK, InTurn, OneAtATime, CookieFresh, SessionKept, Undisturbed, SessionWhole
  <1>2. ASSUME NEW t \in Tabs, RefreshGoesOn(t)
        PROVE  TabsInv'
    BY <1>2, EnterKeeps, ServeKeeps, AnswerKeeps DEF RefreshGoesOn
  <1> QED  BY <1>1, <1>2, TabAlone, LossKeeps, MeKeeps, ReceiveKeeps, SignOutKeeps, OrphanKeeps,
         EndKeeps DEF Next

LEMMA TabsStart == Init => TabsInv
  <1> SUFFICES ASSUME Init PROVE TabsInv
    OBVIOUS
  <1>1. /\ tab = [t \in Tabs |-> Opened] /\ lock = Nobody /\ jar = "current"
        /\ net = [t \in Tabs |-> Quiet] /\ orphan = Quiet /\ inbox = [t \in Tabs |-> <<>>]
        /\ browser \in Browser /\ session = "live" /\ crossed = FALSE /\ losses = 0 /\ signOuts = 0
    BY DEF Init
  <1>2. Opened \in Tab /\ Opened.refresh = "none" /\ ~Opened.leaving /\ ~Opened.checked
    BY DEF Opened, Tab
  <1>3. TabsTypeOK
    <2>1. <<>> \in Seq(Messages)
      OBVIOUS
    <2>2. inbox \in [Tabs -> Seq(Messages)]
      BY <1>1, <2>1
    <2> QED  BY <1>1, <1>2, <2>2, NetRows DEF TabsTypeOK, Cookies
  <1>4. InTurn /\ CookieFresh
    BY <1>1, <1>2, NetRows, ConstantsAssumption DEF InTurn, OneAtATime, CookieFresh
  <1>5. SessionWhole
    BY <1>1, <1>2 DEF SessionWhole, OnlyRefreshed
  <1> QED  BY <1>3, <1>4, <1>5 DEF TabsInv, SessionKept

(* The tabs' inductive invariant (api/client.ts, refreshSession). *)
THEOREM TabsInductive == Spec => []TabsInv
  <1> QED  BY TabsStart, TabsKeep, PTL DEF Spec

(* For any number of tabs: as long as no answer is lost and, in a browser without Web
   Locks, no two refreshes cross, no tab ever presents a used refresh cookie
   (api/client.ts, refreshSession on either of its branches). *)
THEOREM NobodyCriesThief == Spec => []NoFalseAlarm
  <1>1. TabsInv => NoFalseAlarm
    BY DEF TabsInv, TabsTypeOK, InTurn, CookieFresh, NoFalseAlarm, Crossing, Browser
  <1> QED  BY <1>1, TabsInductive, PTL

(* For any number of tabs: a tab that has checked its session shows a signed-out
   page only after a sign-out, the session's own end, a lost answer, or crossed
   refreshes in a browser without Web Locks (features/auth/AuthContext.tsx, checkSession). *)
THEOREM SignedOutForAReason == Spec => []NotSignedOutForNothing
  <1>1. TabsInv => NotSignedOutForNothing
    BY DEF TabsInv, TabsTypeOK, InTurn, SessionKept, SessionWhole, Undisturbed,
           NotSignedOutForNothing, Crossing, Browser
  <1> QED  BY <1>1, TabsInductive, PTL

-----------------------------------------------------------------------------
(* The race lab. *)

Places == {"idle", "barrier", "ready", "inserted"} \cup Over

Database == [maker: Nat, rows: [Tables -> SUBSET Writers]]
Script == [stage: Stages \cup Ends, run: Nat, approval: SUBSET {"create", "reset", "cleanup"},
           cleanup: BOOLEAN]

LabTypeOK ==
    /\ database \in Database
    /\ script \in Script
    /\ writer \in [Writers -> Places]

(* From its setup to its cleanup a run has the database it made. *)
Owned == script.stage \in {"setup", "cleanup"} \cup Tables => database.maker = script.run

(* What the races before this stage have left: they are over, and what they
   committed stays until the database is dropped. *)
Kept == script.stage = "cleanup" \/ (script.stage = "evidence" /\ ~script.cleanup)
Shown ==
    /\ script.stage = "protected" \/ Kept => database.rows["unprotected"] = Writers
    /\ Kept => Cardinality(database.rows["protected"]) = 1
    /\ script.stage = "evidence" /\ script.cleanup => database = NoDatabase
    /\ script.stage = "cleanup" => script.cleanup

(* In the race with the constraint nobody inserts beside a row, committed or not. *)
Alone ==
    /\ \A v, w \in database.rows["protected"] : v = w
    /\ script.stage = "protected" =>
          \A w \in Writers : writer[w] = "inserted" =>
              database.rows["protected"] = {} /\ \A v \in Writers : writer[v] = "inserted" => v = w

LabCore == LabTypeOK /\ Owned /\ Shown /\ Alone

Results == [seen: [Writers -> Int], ended: [Writers -> Places], early: BOOLEAN]
ReportTypeOK ==
    /\ seen \in [Writers -> Int] /\ early \in BOOLEAN
    /\ report \in [Tables -> Results]

(* Once a writer is past the barrier both have looked, and both have found nothing:
   a race starts in an empty table, and only writers past the barrier fill it. *)
Past == {"ready", "inserted", "committed", "rejected", "failed"}
Looked == \A v, w \in Writers : writer[v] \in Past => writer[w] \notin {"idle", "absent"}
FoundNothing ==
    IF Racing
      THEN /\ \A w \in Writers : writer[w] \notin {"idle", "absent"} => seen[w] = 0
           /\ \A w \in Rows : writer[w] = "committed"
      ELSE \A w \in Writers : writer[w] = "idle"
Bare ==
    /\ script.stage = "setup" => database.rows["unprotected"] = {}
    /\ script.stage \in {"setup", "unprotected"} => database.rows["protected"] = {}

(* What the races before this stage have reported. *)
Told ==
    /\ script.stage \in {"protected", "cleanup", "evidence"} => TwoOverlap(report["unprotected"])
    /\ script.stage \in {"cleanup", "evidence"} => OneRejected(report["protected"])

LabRaces == ReportTypeOK /\ early = FALSE /\ Looked /\ FoundNothing /\ Bare /\ Told

LabInv == LabCore /\ LabRaces

(* There are two writers: either is the other's other. *)
LEMMA TwoWriters ==
    ASSUME NEW v \in Writers, NEW w \in Writers, v # w
    PROVE  Other(w) = v
  <1>1. IsFiniteSet(Writers) /\ Cardinality(Writers) = 2
    BY LabAssumption
  <1>2. IsFiniteSet(Writers \ {w}) /\ Cardinality(Writers \ {w}) = 1
    BY <1>1, FS_RemoveElement
  <1>3. PICK x : Writers \ {w} = {x}
    BY <1>2, FS_Singleton
  <1>4. \A y \in Writers : y # w => y = v
    BY <1>3
  <1> QED  BY <1>4 DEF Other

(* Two rows in one table are one of each writer. *)
LEMMA TwoRows ==
    ASSUME NEW S \in SUBSET Writers, Cardinality(S) = 2
    PROVE  S = Writers
  BY LabAssumption, FS_Subset

(* A step of the run that moves only its stage, where the races are not concerned. *)
LEMMA StageRows ==
    ASSUME script \in Script, NEW s \in Stages \cup Ends, GoesTo(s)
    PROVE  /\ script' \in Script /\ script'.stage = s
           /\ script'.run = script.run /\ script'.cleanup = script.cleanup
  BY DEF GoesTo, Script

LEMMA EmptyDatabase ==
    /\ NoDatabase \in Database /\ NoDatabase.rows["protected"] = {}
    /\ script \in Script => Made \in Database /\ Made.rows["protected"] = {} /\ Made.maker = script.run
  BY DEF NoDatabase, Made, Database, Tables, Script

LEMMA NoResultTyped == NoResult \in Results /\ [t \in Tables |-> NoResult] \in [Tables -> Results]
  <1>1. NoResult \in Results
    BY DEF Results, NoResult, NoCount, Places
  <1> QED  BY <1>1

LEMMA LabStarts == LabInit => LabInv
  <1> SUFFICES ASSUME LabInit PROVE LabInv
    OBVIOUS
  <1>1. database = NoDatabase /\ script.stage = "success" /\ writer = [w \in Writers |-> "idle"]
    BY DEF LabInit
  <1>2. script \in Script
    BY DEF LabInit, Script, Stages, Ends
  <1>3. LabTypeOK
    BY <1>1, <1>2, EmptyDatabase DEF LabTypeOK, Database, Script, Places
  <1>4. LabCore
    BY <1>1, <1>3, EmptyDatabase DEF LabCore, Owned, Shown, Kept, Alone, Tables
  <1>5. LabRaces
    <2>1. seen \in [Writers -> Int] /\ early = FALSE
      BY DEF LabInit, NoCount
    <2>2. ReportTypeOK
      BY <2>1, NoResultTyped DEF LabInit, ReportTypeOK
    <2>3. Looked /\ FoundNothing
      BY <1>1 DEF Looked, Past, FoundNothing, Racing, Tables
    <2> QED  BY <1>1, <2>1, <2>2, <2>3 DEF LabRaces, Bare, Told
  <1> QED  BY <1>4, <1>5 DEF LabInv

(* The steps of the run itself. *)
LEMMA RunKeeps ==
    ASSUME LabCore, Start \/ Create \/ CreateFails \/ Setup \/ Judge \/ Cleanup \/ Finish \/ Break
    PROVE  LabCore'
  <1> DEFINE Idle == [w \in Writers |-> "idle"]
  <1>1. script \in Script /\ database \in Database /\ writer \in [Writers -> Places]
    BY DEF LabCore, LabTypeOK, Script, Database
  <1>2. Idle \in [Writers -> Places] /\ \A w \in Writers : Idle[w] = "idle"
    BY DEF Places
  <1> HIDE DEF Idle
  <1>3. \A s \in Stages \cup Ends : GoesTo(s) =>
            /\ script' \in Script /\ script'.stage = s
            /\ script'.run = script.run /\ script'.cleanup = script.cleanup
    BY <1>1, StageRows
  <1>4. \A v, w \in database.rows["protected"] : v = w
    BY DEF LabCore, Alone
  <1>5. ASSUME script' \in Script, database' \in Database, writer' \in {writer, Idle}
        PROVE  LabTypeOK'
    BY <1>1, <1>2, <1>5 DEF LabTypeOK, Script, Database
  <1>6. CASE Start
    <2>1. script' \in Script /\ script'.stage = "create" /\ writer' = Idle /\ database' = database
      BY <1>1, <1>6 DEF Start, NoRace, Script, Stages, Idle
    <2> QED  BY <1>1, <1>4, <1>5, <2>1 DEF LabCore, Owned, Shown, Kept, Alone, Tables
  <1>7. CASE Create
    <2>1. script.stage = "create" /\ writer' = writer
      BY <1>7 DEF Create, race
    <2>2. CASE database' = Made /\ GoesTo("setup")
      <3>1. script' \in Script /\ script'.stage = "setup" /\ script'.run = script.run
        BY <1>3, <2>2 DEF Stages
      <3>2. Made \in Database /\ Made.rows["protected"] = {} /\ Made.maker = script.run
        BY <1>1, EmptyDatabase
      <3> QED  BY <1>5, <2>1, <2>2, <3>1, <3>2 DEF LabCore, Owned, Shown, Kept, Alone, Tables
    <2>3. CASE UNCHANGED database /\ GoesTo("failure")
      <3>1. script' \in Script /\ script'.stage = "failure"
        BY <1>3, <2>3 DEF Ends
      <3> QED  BY <1>1, <1>4, <1>5, <2>1, <2>3, <3>1 DEF LabCore, Owned, Shown, Kept, Alone, Tables
    <2> QED  BY <1>7, <2>2, <2>3 DEF Create
  <1>8. CASE CreateFails
    <2>1. script' \in Script /\ script'.stage = "failure" /\ writer' = writer /\ database' = NoDatabase
      BY <1>3, <1>8 DEF CreateFails, race, Ends
    <2> QED  BY <1>5, <2>1, EmptyDatabase DEF LabCore, Owned, Shown, Kept, Alone, Tables
  <1>9. CASE Setup
    <2>1. /\ script.stage = "setup"
          /\ script' \in Script /\ script'.stage = "unprotected" /\ script'.run = script.run
          /\ writer' = writer /\ database' = database
      BY <1>3, <1>9 DEF Setup, race, Stages
    <2>2. Owned'
      BY <2>1 DEF LabCore, Owned
    <2> QED  BY <1>1, <1>4, <1>5, <2>1, <2>2 DEF LabCore, Shown, Kept, Alone
  <1>10. CASE Judge
    <2>1. script.stage \in Tables /\ writer' = Idle /\ database' = database
      BY <1>10 DEF Judge, NoRace, Racing, Idle
    <2>2. CASE ~Expected
      <3>1. script' \in Script /\ script'.stage = "failure"
        BY <1>3, <1>10, <2>2 DEF Judge, Ends
      <3> QED  BY <1>1, <1>4, <1>5, <2>1, <3>1 DEF LabCore, Owned, Shown, Kept, Alone, Tables
    <2>3. CASE Expected /\ script.stage = "unprotected"
      <3>1. script' \in Script /\ script'.stage = "protected" /\ script'.run = script.run
        BY <1>3, <1>10, <2>3 DEF Judge, NextStage, Stages
      <3>2. database.rows["unprotected"] = Writers
        <4>1. database.rows["unprotected"] \in SUBSET Writers /\ Cardinality(database.rows["unprotected"]) = 2
          BY <1>1, <2>3 DEF Expected, Rows, Database, Tables
        <4> QED  BY <4>1, TwoRows
      <3>3. Owned'
        BY <2>1, <2>3, <3>1 DEF LabCore, Owned
      <3>4. Alone'
        BY <1>2, <1>4, <2>1 DEF Alone
      <3> QED  BY <1>1, <1>5, <2>1, <3>1, <3>2, <3>3, <3>4 DEF LabCore, Shown, Kept
    <2>4. CASE Expected /\ script.stage = "protected"
      <3>1. /\ script' \in Script /\ script'.run = script.run /\ script'.cleanup = script.cleanup
            /\ script'.stage = IF script.cleanup THEN "cleanup" ELSE "evidence"
        BY <1>3, <1>10, <2>4 DEF Judge, NextStage, Stages
      <3>2. Cardinality(database.rows["protected"]) = 1 /\ database.rows["unprotected"] = Writers
        BY <2>4 DEF Expected, Rows, LabCore, Shown
      <3>3. Owned'
        BY <2>1, <2>4, <3>1 DEF LabCore, Owned
      <3>4. Alone'
        BY <1>4, <2>1, <3>1 DEF Alone
      <3>5. Shown'
        BY <2>1, <3>1, <3>2 DEF Shown, Kept
      <3> QED  BY <1>1, <1>5, <2>1, <3>1, <3>3, <3>4, <3>5 DEF LabCore
    <2> QED  BY <2>1, <2>2, <2>3, <2>4 DEF Tables
  <1>11. CASE Cleanup
    <2>1. script.stage = "cleanup" /\ writer' = writer /\ script.cleanup
      BY <1>11 DEF Cleanup, race, LabCore, Shown
    <2>2. CASE database' = NoDatabase /\ GoesTo("evidence")
      <3>1. script' \in Script /\ script'.stage = "evidence" /\ script'.cleanup = script.cleanup
        BY <1>3, <2>2 DEF Stages
      <3> QED  BY <1>5, <2>1, <2>2, <3>1, EmptyDatabase DEF LabCore, Owned, Shown, Kept, Alone, Tables
    <2>3. CASE UNCHANGED database /\ GoesTo("failure")
      <3>1. script' \in Script /\ script'.stage = "failure"
        BY <1>3, <2>3 DEF Ends
      <3> QED  BY <1>1, <1>4, <1>5, <2>1, <2>3, <3>1 DEF LabCore, Owned, Shown, Kept, Alone, Tables
    <2> QED  BY <1>11, <2>2, <2>3 DEF Cleanup
  <1>12. CASE Finish \/ Break
    <2>1. /\ script' \in Script /\ script'.stage \in {"success", "failure"}
          /\ writer' \in {writer, Idle} /\ database' = database
      BY <1>3, <1>12 DEF Finish, Break, NoRace, race, Ends, Idle
    <2> QED  BY <1>1, <1>4, <1>5, <2>1 DEF LabCore, Owned, Shown, Kept, Alone, Tables
  <1> QED  BY <1>6, <1>7, <1>8, <1>9, <1>10, <1>11, <1>12

(* The steps of a writer. *)
LEMMA WriterKeeps ==
    ASSUME LabCore, NEW w \in Writers,
           Check(w) \/ Barrier(w) \/ Insert(w) \/ Commit(w) \/ WriterFails(w)
    PROVE  LabCore'
  <1>1. script \in Script /\ database \in Database /\ writer \in [Writers -> Places]
    BY DEF LabCore, LabTypeOK, Script, Database
  <1>2. script.stage \in Tables /\ script' = script /\ \E place \in Places : Moves(w, place)
    BY DEF Check, Barrier, Insert, Commit, WriterFails, Places, Over, Racing
  <1>3. writer' \in [Writers -> Places] /\ \A v \in Writers \ {w} : writer'[v] = writer[v]
    BY <1>1, <1>2 DEF Moves
  <1>4. CASE Commit(w)
    <2>1. writer[w] = "inserted" /\ writer'[w] = "committed"
          /\ database' = [database EXCEPT !.rows[script.stage] = @ \cup {w}]
      BY <1>1, <1>4 DEF Commit, Moves
    <2>2. /\ database' \in Database /\ database'.maker = database.maker
          /\ database'.rows[script.stage] = database.rows[script.stage] \cup {w}
          /\ \A t \in Tables : t # script.stage => database'.rows[t] = database.rows[t]
      BY <1>1, <1>2, <2>1 DEF Database
    <2>3. Owned' /\ LabTypeOK'
      BY <1>1, <1>2, <1>3, <2>2 DEF LabCore, LabTypeOK, Owned, Script, Database
    <2>4. Shown'
      BY <1>2, <2>2 DEF LabCore, Shown, Kept, Tables
    <2>5. CASE script.stage = "unprotected"
      BY <1>2, <2>2, <2>3, <2>4, <2>5 DEF LabCore, Alone, Tables
    <2>6. CASE script.stage = "protected"
      <3>1. database'.rows["protected"] = {w}
        BY <2>1, <2>2, <2>6 DEF LabCore, Alone
      <3>2. \A v \in Writers : writer'[v] # "inserted"
        BY <1>3, <2>1, <2>6 DEF LabCore, Alone
      <3> QED  BY <2>3, <2>4, <3>1, <3>2 DEF LabCore, Alone
    <2> QED  BY <1>2, <2>5, <2>6 DEF Tables
  <1>5. CASE ~Commit(w)
    <2>1. database' = database
      BY <1>5 DEF Check, Barrier, Insert, WriterFails
    <2>2. Owned' /\ LabTypeOK' /\ Shown'
      BY <1>1, <1>2, <1>3, <2>1 DEF LabCore, LabTypeOK, Owned, Shown, Kept, Script, Database
    <2>3. CASE Insert(w) /\ script.stage = "protected"
      <3>1. /\ writer[Other(w)] # "inserted"
            /\ writer'[w] = IF database.rows["protected"] # {} THEN "rejected" ELSE "inserted"
        BY <1>1, <2>3 DEF Insert, Moves, Clear, Rows
      <3>2. \A v \in Writers \ {w} : writer'[v] # "inserted"
        BY <1>3, <3>1, TwoWriters
      <3> QED  BY <1>2, <2>1, <2>2, <3>1, <3>2 DEF LabCore, Alone
    <2>4. CASE ~Insert(w)
      <3>1. writer'[w] # "inserted"
        BY <1>1, <1>5, <2>4 DEF Check, Barrier, WriterFails, Moves
      <3> QED  BY <1>2, <1>3, <2>1, <2>2, <3>1 DEF LabCore, Alone
    <2>5. CASE script.stage # "protected"
      BY <1>2, <2>1, <2>2, <2>5 DEF LabCore, Alone
    <2> QED  BY <2>3, <2>4, <2>5
  <1> QED  BY <1>4, <1>5

(* No race is on: the next one begins with nobody having looked. *)
LEMMA BeginsFresh ==
    ASSUME \A w \in Writers : writer'[w] = "idle", Racing' => Rows' = {}
    PROVE  Looked' /\ FoundNothing'
  BY DEF Looked, Past, FoundNothing

(* A run's steps between the races, and the end of a race. *)
LEMMA RunTells ==
    ASSUME LabInv, Start \/ Create \/ CreateFails \/ Setup \/ Judge \/ Cleanup \/ Finish \/ Break
    PROVE  LabRaces'
  <1>1. script \in Script /\ database \in Database /\ writer \in [Writers -> Places]
    BY DEF LabInv, LabCore, LabTypeOK, Script, Database
  <1>2. /\ seen \in [Writers -> Int] /\ early = FALSE
        /\ report \in [Tables -> Results]
    BY DEF LabInv, LabRaces, ReportTypeOK
  <1>3. \A s \in Stages \cup Ends : GoesTo(s) => script'.stage = s
    BY <1>1, StageRows
  <1>4. NoRace => /\ \A w \in Writers : writer'[w] = "idle"
                  /\ seen' \in [Writers -> Int] /\ early' = FALSE
    BY DEF NoRace, NoCount
  <1>5. CASE Create \/ CreateFails \/ Setup \/ Cleanup \/ Finish
    <2>1. writer' = writer /\ seen' = seen /\ early' = early /\ report' = report
      BY <1>5 DEF Create, CreateFails, Setup, Cleanup, Finish, race
    <2>2. \/ script.stage = "create" /\ script'.stage = "setup" /\ database' = Made
          \/ script.stage = "setup" /\ script'.stage = "unprotected" /\ database' = database
          \/ script.stage = "cleanup" /\ script'.stage = "evidence"
          \/ script.stage \in {"create", "cleanup", "evidence"} /\ script'.stage \in {"failure", "success"}
      BY <1>3, <1>5 DEF Create, CreateFails, Setup, Cleanup, Finish, Stages, Ends
    <2>3. \A w \in Writers : writer'[w] = "idle"
      BY <2>1, <2>2 DEF LabInv, LabRaces, FoundNothing, Racing, Tables
    <2>4. Made.rows["unprotected"] = {} /\ Made.rows["protected"] = {}
      BY DEF Made, NoDatabase, Tables
    <2>5. Bare' /\ (Racing' => Rows' = {})
      BY <2>2, <2>4 DEF LabInv, LabRaces, Bare, Racing, Rows, Tables
    <2>6. Told'
      <3>1. script'.stage \in {"protected", "cleanup", "evidence"} =>
                TwoOverlap(report["unprotected"]) /\ OneRejected(report["protected"])
        BY <2>2 DEF LabInv, LabRaces, Told
      <3>2. script'.stage \in {"protected", "cleanup", "evidence"} =>
                TwoOverlap(report'["unprotected"]) /\ OneRejected(report'["protected"])
        BY <2>1, <3>1
      <3> QED  BY <3>2 DEF Told
    <2>7. ReportTypeOK' /\ early' = FALSE
      BY <1>2, <2>1 DEF ReportTypeOK
    <2> QED  BY <2>3, <2>5, <2>6, <2>7, BeginsFresh DEF LabRaces
  <1>6. CASE Start \/ Break
    <2>1. /\ script'.stage \in {"create", "failure"} /\ NoRace
          /\ report' = report \/ report' = [t \in Tables |-> NoResult]
      BY <1>3, <1>6 DEF Start, Break, Ends
    <2>2. ReportTypeOK'
      <3>1. report' \in [Tables -> Results]
        BY <1>2, <2>1, NoResultTyped
      <3> QED  BY <1>4, <2>1, <3>1 DEF ReportTypeOK
    <2>3. Bare' /\ Told' /\ ~Racing'
      BY <2>1 DEF Bare, Told, Racing, Tables
    <2> QED  BY <1>4, <2>1, <2>2, <2>3, BeginsFresh DEF LabRaces
  <1>7. CASE Judge
    <2>1. /\ script.stage \in Tables /\ NoRace /\ database' = database
          /\ \A w \in Writers : writer[w] \in Over
      BY <1>7 DEF Judge, Racing
    <2>2. (\E w \in Writers : writer[w] = "committed") => BothLookedFirst(Result)
      <3>1. (\E w \in Writers : writer[w] = "committed") => \A w \in Writers : seen[w] = 0
        BY <2>1 DEF LabInv, LabRaces, Looked, Past, FoundNothing, Racing
      <3> QED  BY <1>2, <3>1 DEF BothLookedFirst, Result
    <2>3. Result \in Results
      BY <1>1, <1>2 DEF Result, Results
    <2>4. report' = (IF Expected THEN [report EXCEPT ![script.stage] = Result] ELSE report)
      BY <1>7 DEF Judge
    <2>5. ReportTypeOK'
      <3>1. report' \in [Tables -> Results]
        BY <1>2, <2>1, <2>3, <2>4
      <3> QED  BY <1>4, <2>1, <3>1 DEF ReportTypeOK
    <2>6. CASE ~Expected
      <3>1. script'.stage = "failure"
        BY <1>3, <1>7, <2>6 DEF Judge, Ends
      <3>2. Bare' /\ Told' /\ ~Racing'
        BY <3>1 DEF Bare, Told, Racing, Tables
      <3> QED  BY <1>4, <2>1, <2>5, <3>2, BeginsFresh DEF LabRaces
    <2>7. CASE Expected /\ script.stage = "unprotected"
      <3>1. script'.stage = "protected" /\ report'["unprotected"] = Result
        BY <1>2, <1>3, <1>7, <2>4, <2>7 DEF Judge, NextStage, Stages, Tables
      <3>2. Rows = Writers
        <4>1. Rows \in SUBSET Writers /\ Cardinality(Rows) = 2
          BY <1>1, <2>7 DEF Expected, Rows, Database, Tables
        <4> QED  BY <4>1, TwoRows
      <3>3. \A w \in Writers : writer[w] = "committed"
        BY <2>1, <3>2 DEF LabInv, LabRaces, FoundNothing, Racing
      <3>4. TwoOverlap(Result)
        <4>1. \E w \in Writers : TRUE
          BY LabAssumption, FS_EmptySet
        <4> QED  BY <2>2, <3>3, <4>1 DEF TwoOverlap, Result
      <3>5. Told'
        BY <3>1, <3>4 DEF Told
      <3>6. Bare' /\ Rows' = {}
        BY <2>1, <2>7, <3>1 DEF LabInv, LabRaces, Bare, Rows
      <3> QED  BY <1>4, <2>1, <2>5, <3>5, <3>6, BeginsFresh DEF LabRaces
    <2>8. CASE Expected /\ script.stage = "protected"
      <3>1. /\ script'.stage \in {"cleanup", "evidence"}
            /\ report'["protected"] = Result /\ report'["unprotected"] = report["unprotected"]
        BY <1>2, <1>3, <1>7, <2>4, <2>8 DEF Judge, NextStage, Stages, Tables
      <3>2. PICK v, w \in Writers : writer[v] = "committed" /\ writer[w] = "rejected"
        <4>1. \A place \in Places : IsFiniteSet(At(place)) /\ At(place) \subseteq Writers
          BY LabAssumption, FS_Subset DEF At
        <4>2. \E v \in Writers : At("committed") = {v}
          BY <2>8, <4>1, FS_Singleton DEF Expected, Places, Over
        <4>3. \E w \in Writers : At("rejected") = {w}
          BY <2>8, <4>1, FS_Singleton DEF Expected, Places, Over
        <4> QED  BY <4>2, <4>3 DEF At
      <3>3. OneRejected(Result)
        BY <2>2, <3>2 DEF OneRejected, Result
      <3>4. TwoOverlap(report["unprotected"])
        BY <2>8 DEF LabInv, LabRaces, Told
      <3>5. Told'
        BY <3>1, <3>3, <3>4 DEF Told
      <3>6. Bare' /\ ~Racing'
        BY <3>1 DEF Bare, Racing, Tables
      <3> QED  BY <1>4, <2>1, <2>5, <3>5, <3>6, BeginsFresh DEF LabRaces
    <2> QED  BY <2>1, <2>6, <2>7, <2>8 DEF Tables
  <1> QED  BY <1>5, <1>6, <1>7

(* The steps of a writer. *)
LEMMA WriterTells ==
    ASSUME LabInv, NEW w \in Writers,
           Check(w) \/ Barrier(w) \/ Insert(w) \/ Commit(w) \/ WriterFails(w)
    PROVE  LabRaces'
  <1>1. /\ script.stage \in Tables /\ script' = script /\ report' = report
        /\ writer \in [Writers -> Places] /\ seen \in [Writers -> Int] /\ early = FALSE
        /\ database \in Database /\ Rows \subseteq Writers
    BY DEF Check, Barrier, Insert, Commit, WriterFails, Racing, LabInv, LabCore, LabTypeOK, LabRaces,
           ReportTypeOK, Database, Rows
  <1>2. Looked /\ (\A v \in Writers : writer[v] \notin {"idle", "absent"} => seen[v] = 0)
        /\ \A v \in Rows : writer[v] = "committed"
    BY <1>1 DEF LabInv, LabRaces, FoundNothing, Racing
  <1>3. PICK place \in Places : writer' = [writer EXCEPT ![w] = place]
    BY DEF Check, Barrier, Insert, Commit, WriterFails, Moves, Places, Over
  <1>4. writer' \in [Writers -> Places] /\ writer'[w] = place /\ \A v \in Writers \ {w} : writer'[v] = writer[v]
    BY <1>1, <1>3
  <1>5. /\ writer[w] = "idle" => \A v \in Writers : writer[v] \notin Past
        /\ writer[w] \in Past => \A v \in Writers : writer[v] \notin {"idle", "absent"}
    BY <1>2 DEF Looked, Past
  <1>6. Told'
    BY <1>1 DEF LabInv, LabRaces, Told
  <1>7. Racing' /\ (database' = database => Bare' /\ Rows' = Rows)
    BY <1>1 DEF LabInv, LabRaces, Bare, Racing, Rows, Tables
  <1>8. ASSUME seen' \in [Writers -> Int], early' = FALSE PROVE ReportTypeOK'
    BY <1>1, <1>8 DEF LabInv, LabRaces, ReportTypeOK
  <1>9. CASE Check(w)
    <2>1. writer[w] = "idle" /\ place = "barrier" /\ early' = early /\ database' = database
          /\ seen' = [seen EXCEPT ![w] = Cardinality(Rows)]
      BY <1>1, <1>4, <1>9 DEF Check, Moves
    <2>2. Rows = {}
      BY <1>1, <1>2, <1>5, <2>1 DEF Past
    <2>3. seen' \in [Writers -> Int] /\ seen'[w] = 0 /\ \A v \in Writers \ {w} : seen'[v] = seen[v]
      BY <1>1, <2>1, <2>2, FS_EmptySet
    <2>4. Looked' /\ FoundNothing'
      BY <1>2, <1>4, <1>5, <1>7, <2>1, <2>2, <2>3 DEF Looked, Past, FoundNothing
    <2> QED  BY <1>1, <1>6, <1>7, <1>8, <2>1, <2>3, <2>4 DEF LabRaces
  <1>10. CASE Barrier(w) \/ Insert(w) \/ WriterFails(w)
    <2>1. seen' = seen /\ database' = database /\ writer[w] \in {"idle", "barrier", "ready", "inserted"}
      BY <1>10 DEF Barrier, Passes, Insert, WriterFails
    <2>2. /\ place \in Past => \A v \in Writers : writer[v] \notin {"idle", "absent"}
          /\ place \in Past \/ (place = "absent" /\ writer[w] = "idle")
      BY <1>1, <1>4, <1>5, <1>10 DEF Barrier, Passes, Insert, WriterFails, Moves, Past
    <2>3. early' = FALSE
      BY <1>1, <1>5, <1>10 DEF Barrier, Insert, WriterFails, Past
    <2>4. Looked'
      BY <1>4, <1>5, <2>2 DEF Looked, Past
    <2>5. FoundNothing'
      BY <1>1, <1>2, <1>4, <1>7, <2>1, <2>2 DEF FoundNothing, Past
    <2> QED  BY <1>1, <1>6, <1>7, <1>8, <2>1, <2>3, <2>4, <2>5 DEF LabRaces
  <1>11. CASE Commit(w)
    <2>1. /\ writer[w] = "inserted" /\ place = "committed" /\ seen' = seen /\ early' = early
          /\ database' = [database EXCEPT !.rows[script.stage] = @ \cup {w}]
      BY <1>1, <1>4, <1>11 DEF Commit, Moves
    <2>2. Rows' = Rows \cup {w} /\ Bare'
      BY <1>1, <2>1 DEF LabInv, LabRaces, Bare, Rows, Database, Tables
    <2>3. Looked' /\ FoundNothing'
      BY <1>1, <1>2, <1>4, <1>5, <1>7, <2>1, <2>2 DEF Looked, Past, FoundNothing
    <2> QED  BY <1>1, <1>6, <1>8, <2>1, <2>2, <2>3 DEF LabRaces
  <1> QED  BY <1>9, <1>10, <1>11

LEMMA LabKeeps ==
    ASSUME LabInv, [LabNext]_labVars
    PROVE  LabInv'
  <1>1. CASE UNCHANGED labVars
    <2>1. LabCore'
      BY <1>1 DEF labVars, race, LabInv, LabCore, LabTypeOK, Owned, Shown, Kept, Alone
    <2>2. LabRaces'
      BY <1>1 DEF labVars, race, LabInv, LabRaces, ReportTypeOK, Looked, FoundNothing, Racing, Rows, Bare, Told
    <2> QED  BY <2>1, <2>2 DEF LabInv
  <1>2. CASE Start \/ Create \/ CreateFails \/ Setup \/ Judge \/ Cleanup \/ Finish \/ Break
    BY <1>2, RunKeeps, RunTells DEF LabInv
  <1>3. ASSUME NEW w \in Writers,
               Check(w) \/ Barrier(w) \/ Insert(w) \/ Commit(w) \/ WriterFails(w)
        PROVE  LabInv'
    BY <1>3, WriterKeeps, WriterTells DEF LabInv
  <1> QED  BY <1>1, <1>2, <1>3 DEF LabNext

(* The race lab's inductive invariant (scripts/race_demo.py, run). *)
THEOREM LabInductive == LabSpec => []LabInv
  <1> QED  BY LabStarts, LabKeeps, PTL DEF LabSpec

(* Whatever run made a database, only that run writes into it or drops it, unless
   reset was approved (scripts/race_demo.py, create_disposable_database and
   cleanup_disposable_database). *)
THEOREM OnlyItsOwnIsTouched == LabSpec => OnlyItsOwn
  <1>1. ASSUME LabInv, [LabNext]_labVars, database' # database
        PROVE  database.maker \in {0, script.run} \/ Approves("reset")
    <2>1. CASE Create \/ CreateFails
      BY <1>1, <2>1 DEF Create, CreateFails
    <2>2. CASE Cleanup \/ \E w \in Writers : Commit(w)
      BY <1>1, <2>2 DEF Cleanup, Commit, Racing, LabInv, LabCore, Owned
    <2> QED  BY <1>1, <2>1, <2>2 DEF LabNext, labVars, Start, Setup, Judge, Finish, Break,
                                     Check, Barrier, Insert, WriterFails
  <1> QED  BY <1>1, LabInductive, PTL DEF LabSpec, OnlyItsOwn

(* A run that says success, with or without cleanup, has shown both outcomes: in both
   races both writers found the slot free before either inserted, and then both
   committed without the constraint and one of them with it (scripts/race_demo.py). *)
THEOREM SuccessTellsTrue == LabSpec => SuccessIsTrue
  <1>1. ASSUME LabInv, [LabNext]_labVars, script'.stage = "success", script.stage # "success"
        PROVE  /\ TwoOverlap(report["unprotected"]) /\ OneRejected(report["protected"])
               /\ IF script.cleanup THEN database' = NoDatabase
                  ELSE /\ database.rows["unprotected"] = Writers
                       /\ Cardinality(database.rows["protected"]) = 1
    <2>1. script \in Script
      BY <1>1 DEF LabInv, LabCore, LabTypeOK, Script
    <2>2. \A s \in Stages \cup Ends : GoesTo(s) => script'.stage = s
      BY <2>1, StageRows
    <2>3. Finish
      <3>1. ~GoesTo("setup") /\ ~GoesTo("failure") /\ ~GoesTo("unprotected") /\ ~GoesTo("protected")
            /\ ~GoesTo("cleanup") /\ ~GoesTo("evidence")
        BY <1>1, <2>2 DEF Stages, Ends
      <3>2. ~Start
        BY <1>1 DEF Start
      <3>3. script' # script
        BY <1>1
      <3> QED  BY <1>1, <3>1, <3>2, <3>3 DEF LabNext, labVars, Create, CreateFails, Setup, Judge, NextStage,
                    Cleanup, Break, Check, Barrier, Insert, Commit, WriterFails
    <2>4. TwoOverlap(report["unprotected"]) /\ OneRejected(report["protected"])
      BY <1>1, <2>3 DEF Finish, LabInv, LabRaces, Told
    <2> QED  BY <1>1, <2>3, <2>4 DEF Finish, LabInv, LabCore, Shown, Kept
  <1> QED  BY <1>1, LabInductive, PTL DEF LabSpec, SuccessIsTrue

(* The table with the constraint never holds two rows. *)
ProtectedHoldsOne == \A v, w \in database.rows["protected"] : v = w

(* In whatever order the writers check, insert, fail and commit, no two rows are
   ever committed under the constraint (scripts/race_demo.py, the protected race). *)
THEOREM NeverTwoInProtected == LabSpec => []ProtectedHoldsOne
  <1>1. LabInv => ProtectedHoldsOne
    BY DEF LabInv, LabCore, Alone, ProtectedHoldsOne
  <1> QED  BY <1>1, LabInductive, PTL
=============================================================================
