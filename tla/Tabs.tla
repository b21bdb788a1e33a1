-------------------------------- MODULE Tabs --------------------------------
(***************************************************************************)
(* One signed-in person with several tabs: api/client.ts and AuthContext.  *)
(* A tab keeps its access token in memory; the refresh cookie is in the    *)
(* browser's jar, shared by the tabs, and is exchanged for a new one by    *)
(* every refresh.  Tabs take turns by a Web Lock and tell each other what  *)
(* happened by messages that arrive later, if the browser has locks and    *)
(* channels: client.ts does without either.  Of the server only this much  *)
(* matters: presenting the current cookie rotates it, presenting a used    *)
(* one revokes the family, which may also end by itself (module Sessions). *)
(***************************************************************************)
EXTENDS Integers, Sequences

CONSTANTS
    Tabs,
    Nobody,         \* no tab holds the lock
    Room,           \* BOUND: messages under way to a tab
    Drafting,       \* BOUND: the tabs that fill in a booking
    MaxLosses,      \* BOUND: reloads, fetches without an answer, answers 429 and 503
    MaxSignOuts,    \* BOUND: clicks on "sign out"
    MaxBare         \* BOUND: both together in a browser without Web Locks

ASSUME ConstantsAssumption ==
    /\ Nobody \notin Tabs
    /\ Drafting \subseteq Tabs
    /\ Room \in Nat \ {0} /\ MaxLosses \in Nat /\ MaxSignOuts \in Nat /\ MaxBare \in Nat

VARIABLES
    browser,        \* which of its interfaces the code finds
    tab,            \* the memory of each tab and its sessionStorage
    lock,           \* the holder of "commonsbook-refresh"
    jar,            \* the refresh cookie of the browser
    net,            \* the refresh call of each tab, with the cookie in its message
    orphan,         \* a refresh call that nobody waits for any more
    inbox,          \* messages of BroadcastChannel to each tab
    session,        \* the family: live, ended, or revoked because a used cookie came back
    crossed,        \* history: two tabs had a refresh under way at once
    losses,
    signOuts

vars == <<browser, tab, lock, jar, net, orphan, inbox, session, crossed, losses, signOuts>>

Browser == [webLocks: BOOLEAN,      \* navigator.locks
            channel: BOOLEAN]       \* BroadcastChannel

Cookies == {"current", "used", "absent"}
Messages == {"TOKEN_REFRESHED", "LOGOUT"}
Tab == [token: {"none", "fresh", "old"},    \* inMemoryAccessToken, fresh for 5 s after
                                            \* lastTokenRefreshTime, which only the lock's
                                            \* callback looks at
        user: BOOLEAN, checked: BOOLEAN,
        attempt: BOOLEAN,   \* a stored CreateAttempt
        refresh: {"none", "queued", "flying"}, checking: BOOLEAN,
        me: BOOLEAN,        \* GET /me of checkSession is under way
        leaving: BOOLEAN]   \* POST /auth/logout is under way
Opened == [token |-> "none", user |-> FALSE, checked |-> FALSE, attempt |-> FALSE,
           refresh |-> "none", checking |-> FALSE, me |-> FALSE, leaving |-> FALSE]

(* A message of the refresh call: a request with the cookie it carries, or an
   answer with the cookie it sets; a refusal sets none. *)
Quiet == [leg |-> "none", cookie |-> "absent"]
Request(c) == [leg |-> "request", cookie |-> c]
Response(c) == [leg |-> "answer", cookie |-> c]

Became(t, row) == tab' = [tab EXCEPT ![t] = row]
Broadcast(t, m) ==
    inbox' = [u \in Tabs |-> IF browser.channel /\ u # t THEN Append(inbox[u], m) ELSE inbox[u]]
HasRoom(t) == \A u \in Tabs \ {t} : Len(inbox[u]) < Room

Bounded == browser.webLocks \/ losses + signOuts < MaxBare
Lose == losses < MaxLosses /\ Bounded /\ losses' = losses + 1

(* setAccessToken and setUser; handleLogoutCleanup. *)
SignedIn(row) == [row EXCEPT !.token = IF browser.webLocks THEN "fresh" ELSE "old", !.user = TRUE]
SignedOut(row) == [row EXCEPT !.token = "none", !.user = FALSE, !.attempt = FALSE]

(* How a caller of refreshSession goes on; checkSession asks for /me, or gives up. *)
Succeeded(row) == [row EXCEPT !.refresh = "none", !.me = row.checking]
Failed(row) ==
    IF row.checking THEN [SignedOut(row) EXCEPT !.refresh = "none", !.checking = FALSE, !.checked = TRUE]
                    ELSE [row EXCEPT !.refresh = "none"]

-----------------------------------------------------------------------------
(* refreshSession is called: by checkSession, once, when there is no user ... *)
CheckSession(t) ==
    /\ ~tab[t].user /\ ~tab[t].checked /\ ~tab[t].checking /\ tab[t].refresh = "none"
    /\ Became(t, [tab[t] EXCEPT !.refresh = "queued", !.checking = TRUE])
    /\ UNCHANGED <<browser, lock, jar, net, orphan, inbox, session, crossed, losses, signOuts>>

(* ... and by a request of the signed-in pages that was answered 401. *)
MeetUnauthorized(t) ==
    /\ tab[t].user /\ tab[t].refresh = "none"
    /\ Became(t, [tab[t] EXCEPT !.refresh = "queued"])
    /\ UNCHANGED <<browser, lock, jar, net, orphan, inbox, session, crossed, losses, signOuts>>

(* A token that came while the tab waited for the lock is used; otherwise the refresh
   is sent with the cookie of this moment and the lock is kept until it is answered.
   A browser without locks sends every refresh at once. *)
Reuse(row) == row.token = "fresh"

Crosses(t) == \E u \in Tabs \ {t} : net[u] # Quiet
Send(t) ==
    /\ net' = [net EXCEPT ![t] = Request(jar)] /\ crossed' = (crossed \/ Crosses(t))
    /\ Became(t, [tab[t] EXCEPT !.refresh = "flying"])

(* Fault: the callback does not await doRefresh, and the lock is given back at once. *)
EnterUnheld(t) ==
    /\ tab[t].refresh = "queued" /\ lock = Nobody
    /\ IF browser.webLocks /\ Reuse(tab[t])
         THEN Became(t, Succeeded(tab[t])) /\ UNCHANGED <<net, crossed>>
         ELSE Send(t)
    /\ UNCHANGED <<browser, lock, jar, orphan, inbox, session, losses, signOuts>>
Enter(t) ==
    /\ tab[t].refresh = "queued"
    /\ \/ /\ browser.webLocks /\ lock = Nobody /\ Reuse(tab[t])
          /\ Became(t, Succeeded(tab[t])) /\ UNCHANGED <<lock, net, crossed>>
       \/ browser.webLocks /\ lock = Nobody /\ ~Reuse(tab[t]) /\ Send(t) /\ lock' = t
       \/ ~browser.webLocks /\ Send(t) /\ UNCHANGED lock
    /\ UNCHANGED <<browser, jar, orphan, inbox, session, losses, signOuts>>

-----------------------------------------------------------------------------
(* The server.  Rotation makes every copy of the current cookie a used one. *)
Aged(c) == IF c = "current" THEN "used" ELSE c
AgedMessage(m) == [m EXCEPT !.cookie = Aged(m.cookie)]

Rotates(c) == session = "live" /\ c = "current"
Rings(c) == session = "live" /\ c = "used"

Serve(t) ==
    LET c == net[t].cookie IN
    /\ net[t].leg = "request"
    /\ IF Rotates(c)
         THEN /\ net' = [u \in Tabs |-> IF u = t THEN Response("current") ELSE AgedMessage(net[u])]
              /\ jar' = Aged(jar) /\ orphan' = AgedMessage(orphan)
         ELSE net' = [net EXCEPT ![t] = Response("absent")] /\ UNCHANGED <<jar, orphan>>
    /\ session' = IF Rings(c) THEN "alarm" ELSE session
    /\ UNCHANGED <<browser, tab, lock, inbox, crossed, losses, signOuts>>

(* 429 or 503: the rate limit of the address, or the database. *)
Busy(t) ==
    /\ net[t].leg = "request"
    /\ Lose
    /\ net' = [net EXCEPT ![t] = Response("absent")]
    /\ UNCHANGED <<browser, tab, lock, jar, orphan, inbox, session, crossed, signOuts>>

ServeOrphan ==
    /\ orphan.leg = "request"
    /\ IF Rotates(orphan.cookie)
         THEN /\ net' = [u \in Tabs |-> AgedMessage(net[u])]
              /\ jar' = Aged(jar)
         ELSE UNCHANGED <<net, jar>>
    /\ session' = IF Rings(orphan.cookie) THEN "alarm" ELSE session
    /\ orphan' = Quiet
    /\ UNCHANGED <<browser, tab, lock, inbox, crossed, losses, signOuts>>

(* The family ends by itself: its time is over, the account is disabled or its
   password is reset. *)
SessionEnds ==
    /\ session = "live" /\ session' = "ended"
    /\ UNCHANGED <<browser, tab, lock, jar, net, orphan, inbox, crossed, losses, signOuts>>

-----------------------------------------------------------------------------
(* The answer arrives.  Whatever is not ok signs out every tab. *)
Accept(t) ==
    /\ net[t] \in {Response("current"), Response("used")} /\ HasRoom(t)
    /\ jar' = net[t].cookie
    /\ Became(t, Succeeded(SignedIn(tab[t])))
    /\ Broadcast(t, "TOKEN_REFRESHED")

Refuse(t) ==
    /\ net[t] = Response("absent") /\ HasRoom(t)
    /\ Became(t, Failed(SignedOut(tab[t])))
    /\ Broadcast(t, "LOGOUT")
    /\ UNCHANGED jar

Answer(t) ==
    /\ Accept(t) \/ Refuse(t)
    /\ lock' = Nobody /\ net' = [net EXCEPT ![t] = Quiet]
    /\ UNCHANGED <<browser, orphan, session, crossed, losses, signOuts>>

(* GET /me is answered, or not. *)
MeAnswered(t) ==
    /\ tab[t].me
    /\ \/ /\ UNCHANGED losses
          /\ Became(t, [tab[t] EXCEPT !.user = TRUE, !.me = FALSE, !.checking = FALSE, !.checked = TRUE])
       \/ /\ Lose
          /\ Became(t, [SignedOut(tab[t]) EXCEPT !.me = FALSE, !.checking = FALSE, !.checked = TRUE])
    /\ UNCHANGED <<browser, lock, jar, net, orphan, inbox, session, crossed, signOuts>>

(* ... or it is refused, as to a disabled account: request() refreshes the session and
   asks once more, and then gives up. *)
MeRefused(t) ==
    /\ tab[t].me /\ session # "live"
    /\ \/ Became(t, [tab[t] EXCEPT !.me = FALSE,
                                    !.refresh = IF tab[t].refresh = "none" THEN "queued" ELSE tab[t].refresh])
       \/ Became(t, [SignedOut(tab[t]) EXCEPT !.me = FALSE, !.checking = FALSE, !.checked = TRUE])
    /\ UNCHANGED <<browser, lock, jar, net, orphan, inbox, session, crossed, losses, signOuts>>

(* The tab's fetch fails, or the page is reloaded in the middle; the request may
   still reach the server. *)
Abandon(t) ==
    /\ Lose
    /\ net' = [net EXCEPT ![t] = Quiet]
    /\ lock' = IF lock = t THEN Nobody ELSE lock
    /\ orphan' = IF net[t].leg = "request" THEN net[t] ELSE orphan
    /\ UNCHANGED <<browser, jar, session, crossed, signOuts>>

FetchFails(t) ==
    /\ tab[t].refresh = "flying" /\ Abandon(t)
    /\ Became(t, Failed(tab[t]))
    /\ UNCHANGED inbox

(* Memory is gone, sessionStorage is not. *)
Reload(t) ==
    /\ Abandon(t)
    /\ Became(t, [Opened EXCEPT !.attempt = tab[t].attempt])
    /\ inbox' = [inbox EXCEPT ![t] = <<>>]

(* A message from another tab. *)
(* Fault: the stored attempt is the business of the tab that signs out. *)
ReceiveKeepingAttempt(t) ==
    /\ inbox[t] # <<>>
    /\ inbox' = [inbox EXCEPT ![t] = Tail(@)]
    /\ Became(t, IF Head(inbox[t]) = "LOGOUT" THEN [tab[t] EXCEPT !.token = "none", !.user = FALSE]
                                              ELSE SignedIn(tab[t]))
    /\ UNCHANGED <<browser, lock, jar, net, orphan, session, crossed, losses, signOuts>>
Receive(t) ==
    /\ inbox[t] # <<>>
    /\ inbox' = [inbox EXCEPT ![t] = Tail(@)]
    /\ Became(t, IF Head(inbox[t]) = "LOGOUT" THEN SignedOut(tab[t]) ELSE SignedIn(tab[t]))
    /\ UNCHANGED <<browser, lock, jar, net, orphan, session, crossed, losses, signOuts>>

-----------------------------------------------------------------------------
(* logout: the server revokes the family of the cookie, whichever of its cookies it
   is, or is not reached; the tab signs out in any case. *)
SignOut(t) ==
    /\ tab[t].user /\ ~tab[t].leaving
    /\ signOuts < MaxSignOuts /\ Bounded /\ signOuts' = signOuts + 1
    /\ Became(t, [tab[t] EXCEPT !.leaving = TRUE])
    /\ session' \in {session, IF session = "live" /\ jar # "absent" THEN "ended" ELSE session}
    /\ UNCHANGED <<browser, lock, jar, net, orphan, inbox, crossed, losses>>

SignOutEnds(t) ==
    /\ tab[t].leaving /\ HasRoom(t)
    /\ jar' \in {jar, "absent"}
    /\ Became(t, [SignedOut(tab[t]) EXCEPT !.leaving = FALSE])
    /\ Broadcast(t, "LOGOUT")
    /\ UNCHANGED <<browser, lock, net, orphan, session, crossed, losses, signOuts>>

BeginAttempt(t) ==
    /\ t \in Drafting /\ tab[t].user /\ ~tab[t].attempt
    /\ Became(t, [tab[t] EXCEPT !.attempt = TRUE])
    /\ UNCHANGED <<browser, lock, jar, net, orphan, inbox, session, crossed, losses, signOuts>>

FiveSecondsPass(t) ==
    /\ tab[t].token = "fresh"
    /\ Became(t, [tab[t] EXCEPT !.token = "old"])
    /\ UNCHANGED <<browser, lock, jar, net, orphan, inbox, session, crossed, losses, signOuts>>

(* A browser of any kind with a live cookie opens the tabs. *)
Init ==
    /\ browser \in Browser
    /\ tab = [t \in Tabs |-> Opened]
    /\ lock = Nobody
    /\ jar = "current"
    /\ net = [t \in Tabs |-> Quiet] /\ orphan = Quiet
    /\ inbox = [t \in Tabs |-> <<>>]
    /\ session = "live" /\ crossed = FALSE
    /\ losses = 0 /\ signOuts = 0

RefreshGoesOn(t) == Enter(t) \/ Serve(t) \/ Answer(t)

Next ==
    \/ \E t \in Tabs :
        \/ CheckSession(t) \/ MeetUnauthorized(t) \/ RefreshGoesOn(t) \/ Busy(t)
        \/ MeAnswered(t) \/ MeRefused(t) \/ FetchFails(t) \/ Reload(t) \/ Receive(t)
        \/ SignOut(t) \/ SignOutEnds(t) \/ BeginAttempt(t) \/ FiveSecondsPass(t)
    \/ ServeOrphan \/ SessionEnds

(* What a tab does next by itself. *)
GoesOn(t) ==
    CheckSession(t) \/ MeetUnauthorized(t) \/ RefreshGoesOn(t) \/ MeAnswered(t) \/ SignOutEnds(t)

(* The browser grants the lock, delivers messages and answers; a page that is shown
   checks its session and goes on asking, and its access token expires. *)
Fairness ==
    \A t \in Tabs : WF_vars(GoesOn(t)) /\ WF_vars(Receive(t)) /\ WF_vars(FiveSecondsPass(t))

Spec == Init /\ [][Next]_vars
FairSpec == Spec /\ Fairness

-----------------------------------------------------------------------------
(* However the tabs' refreshes, messages and answers interleave, the tabs of one
   person never present a used cookie, which the server takes for theft, unless an
   answer was lost or, in a browser without Web Locks, two refreshes crossed. *)
Crossing == ~browser.webLocks /\ crossed
NoFalseAlarm == session = "alarm" => losses > 0 \/ Crossing

(* A tab that has checked its session shows a signed-out page only when somebody
   signed out, the family had ended by itself, an answer was lost, the server
   refused for want of capacity, or two refreshes crossed without Web Locks. *)
NotSignedOutForNothing ==
    \A t \in Tabs :
        tab[t].checked /\ ~tab[t].user => losses + signOuts > 0 \/ session = "ended" \/ Crossing

(* A session that is over, for whatever reason, ends in every tab for good: late
   answers and late messages may bring a token or a user back, but not for ever, and
   no draft of a booking is left for the next person.  (No session comes back, so this
   says what `session # "live" ~> []...' says.) *)
SignOutSticks ==
    <>[](session # "live" =>
            \A t \in Tabs : tab[t].token = "none" /\ ~tab[t].user /\ ~tab[t].attempt)
=============================================================================
