------------------------------ MODULE Sessions ------------------------------
(***************************************************************************)
(* Refresh tokens: login, rotation, reuse, logout and revocation.          *)
(* Every transaction that changes tokens holds the user's row, FOR SHARE   *)
(* or FOR UPDATE, then its family's advisory lock and the token rows, so   *)
(* it is one action from its first lock to its commit.  What a request     *)
(* does BEFORE its first lock is an action of its own: the user a login    *)
(* reads and verifies, and the moment a refresh samples; so is the second  *)
(* transaction of a refresh that found a reused token.                     *)
(***************************************************************************)
EXTENDS Integers, FiniteSets

CONSTANTS
    Users,
    Requests,       \* concurrent requests to the auth endpoints
    Tokens,         \* BOUND: ids of refresh_tokens rows
    NoToken,        \* parent_id NULL, and the request that holds no token
    TokenTtl,       \* 7 days
    FamilyTtl,      \* 30 days
    MaxEpoch,       \* BOUND: disables and password resets of a user
    LastTick        \* BOUND: the clock stops here

ASSUME ConstantsAssumption ==
    /\ Users # {} /\ NoToken \notin Tokens
    /\ {TokenTtl, FamilyTtl} \subseteq Nat \ {0} /\ TokenTtl <= FamilyTtl
    /\ {MaxEpoch, LastTick} \subseteq Nat

VARIABLES
    now,
    user,           \* users rows: enabled, password; epoch counts what ends sessions
    token,          \* refresh_tokens rows; a family is named after its first token
    request,
    caught          \* families whose reuse was answered and audited

vars == <<now, user, token, request, caught>>

Moments == 0 .. LastTick + FamilyTtl
User == [enabled: BOOLEAN, password: 0..MaxEpoch, epoch: 0..MaxEpoch]
Token == [exists: BOOLEAN, user: Users, family: Tokens \cup {NoToken}, parent: Tokens \cup {NoToken},
          expires: Moments, familyExpires: Moments, used: BOOLEAN, revoked: BOOLEAN, epoch: 0..MaxEpoch]
Steps == {"idle", "verified", "resolved", "reused"}
Request == [step: Steps, user: Users, token: Tokens \cup {NoToken}, at: 0..LastTick,
            enabled: BOOLEAN, password: 0..MaxEpoch]

AbsentToken == [exists |-> FALSE, user |-> CHOOSE u \in Users : TRUE, family |-> NoToken, parent |-> NoToken,
                expires |-> 0, familyExpires |-> 0, used |-> FALSE, revoked |-> FALSE, epoch |-> 0]
IdleRequest == [step |-> "idle", user |-> CHOOSE u \in Users : TRUE, token |-> NoToken, at |-> 0,
                enabled |-> FALSE, password |-> 0]

Exists(t) == token[t].exists
Live(t) == Exists(t) /\ ~token[t].used /\ ~token[t].revoked
Fresh(t) == ~Exists(t) /\ \A s \in Tokens : s < t => Exists(s)
Family(t) == {s \in Tokens : Exists(s) /\ token[s].family = token[t].family}
Earlier(a, b) == IF a < b THEN a ELSE b

Revoke(S) == [t \in Tokens |-> IF t \in S THEN [token[t] EXCEPT !.revoked = TRUE] ELSE token[t]]
TokensOf(u) == {t \in Tokens : Exists(t) /\ token[t].user = u}
Rest(r) == request' = [request EXCEPT ![r] = IdleRequest]

-----------------------------------------------------------------------------
(* login reads the user without a lock and verifies the password against it. *)
LoginRead(r, u) ==
    /\ request[r].step = "idle"
    /\ request' = [request EXCEPT ![r] = [step |-> "verified", user |-> u, token |-> NoToken, at |-> now,
                                          enabled |-> user[u].enabled, password |-> user[u].password]]
    /\ UNCHANGED <<now, user, token, caught>>

(* Then it locks the row FOR SHARE.  The second SELECT returns the object the
   session already holds, and without populate_existing its attributes stay as
   they were first read, so that is what the recheck looks at. *)
Rechecked(r) == request[r].enabled

NewFamily(t, r) ==
    [exists |-> TRUE, user |-> request[r].user, family |-> t, parent |-> NoToken,
     expires |-> request[r].at + TokenTtl, familyExpires |-> request[r].at + FamilyTtl,
     used |-> FALSE, revoked |-> FALSE, epoch |-> user[request[r].user].epoch]

Login(r) ==
    /\ request[r].step = "verified"
    /\ \/ /\ Rechecked(r)
          /\ \E t \in Tokens : Fresh(t) /\ token' = [token EXCEPT ![t] = NewFamily(t, r)]
       \/ /\ ~Rechecked(r)
          /\ UNCHANGED token
    /\ Rest(r)
    /\ UNCHANGED <<now, user, caught>>

(* rotate_refresh resolves the immutable user and family of the presented token. *)
Present(r, t) ==
    /\ request[r].step = "idle" /\ Exists(t)
    /\ request' = [request EXCEPT ![r] = [step |-> "resolved", user |-> token[t].user, token |-> t, at |-> now,
                                          enabled |-> FALSE, password |-> 0]]
    /\ UNCHANGED <<now, user, token, caught>>

Refused(r) ==
    LET t == token[request[r].token] IN
    \/ ~user[t.user].enabled
    \/ t.revoked
    \/ t.expires <= request[r].at
    \/ t.familyExpires <= request[r].at

Child(r) ==
    LET t == token[request[r].token] IN
    [exists |-> TRUE, user |-> t.user, family |-> t.family, parent |-> request[r].token,
     expires |-> Earlier(request[r].at + TokenTtl, t.familyExpires), familyExpires |-> t.familyExpires,
     used |-> FALSE, revoked |-> FALSE, epoch |-> user[t.user].epoch]

(* Fault: the presented token can be used again. *)
RotateWithoutUse(r) ==
    /\ request[r].step = "resolved" /\ ~Refused(r) /\ ~token[request[r].token].used
    /\ \E c \in Tokens : Fresh(c) /\ token' = [token EXCEPT ![c] = Child(r)]
    /\ Rest(r)
    /\ UNCHANGED <<now, user, caught>>
Rotate(r) ==
    /\ request[r].step = "resolved" /\ ~Refused(r) /\ ~token[request[r].token].used
    /\ \E c \in Tokens :
        /\ Fresh(c)
        /\ token' = [token EXCEPT ![c] = Child(r), ![request[r].token].used = TRUE]
    /\ Rest(r)
    /\ UNCHANGED <<now, user, caught>>

Refuse(r) ==
    /\ request[r].step = "resolved" /\ Refused(r)
    /\ Rest(r)
    /\ UNCHANGED <<now, user, token, caught>>

(* A used token: the transaction rolls back and gives up its locks. *)
DetectReuse(r) ==
    /\ request[r].step = "resolved" /\ ~Refused(r) /\ token[request[r].token].used
    /\ request' = [request EXCEPT ![r].step = "reused"]
    /\ UNCHANGED <<now, user, token, caught>>

(* revoke_family, under the locks of a transaction of its own. *)
(* Fault: only the presented token is revoked. *)
RevokedToken(t) == Revoke({t})
RevokedFamily(t) == Revoke(Family(t))

(* Fault: the audit entry is written and the revocation lost with the rollback. *)
AuditReuse(r) ==
    /\ request[r].step = "reused"
    /\ caught' = caught \cup {token[request[r].token].family}
    /\ Rest(r)
    /\ UNCHANGED <<now, user, token>>
RevokeReused(r) ==
    /\ request[r].step = "reused"
    /\ token' = RevokedFamily(request[r].token)
    /\ caught' = caught \cup {token[request[r].token].family}
    /\ Rest(r)
    /\ UNCHANGED <<now, user>>

Logout(t) ==
    /\ Exists(t)
    /\ token' = RevokedFamily(t)
    /\ UNCHANGED <<now, user, request, caught>>

(* An administrator disables the user, or the operator resets the password: the
   user's row FOR UPDATE, and every token revoked. *)
(* Fault: a password reset leaves the sessions alone. *)
EndSessionsOfDisabled(u, row) ==
    /\ user' = [user EXCEPT ![u] = row]
    /\ token' = IF row.enabled THEN token ELSE Revoke(TokensOf(u))
EndSessions(u, row) ==
    /\ user' = [user EXCEPT ![u] = row]
    /\ token' = Revoke(TokensOf(u))

Disable(u) ==
    /\ user[u].enabled /\ user[u].epoch < MaxEpoch
    /\ EndSessions(u, [enabled |-> FALSE, password |-> user[u].password, epoch |-> user[u].epoch + 1])
    /\ UNCHANGED <<now, request, caught>>

ResetPassword(u) ==
    /\ user[u].epoch < MaxEpoch
    /\ EndSessions(u, [enabled |-> user[u].enabled, password |-> user[u].password + 1,
                       epoch |-> user[u].epoch + 1])
    /\ UNCHANGED <<now, request, caught>>

Enable(u) ==
    /\ ~user[u].enabled
    /\ user' = [user EXCEPT ![u].enabled = TRUE]
    /\ UNCHANGED <<now, token, request, caught>>

(* The request's process or connection dies; between the two transactions of a
   reuse nothing remembers it. *)
Die(r) ==
    /\ request[r].step # "idle"
    /\ Rest(r)
    /\ UNCHANGED <<now, user, token, caught>>

Tick == now < LastTick /\ now' = now + 1 /\ UNCHANGED <<user, token, request, caught>>

Init ==
    /\ now = 0
    /\ user = [u \in Users |-> [enabled |-> TRUE, password |-> 0, epoch |-> 0]]
    /\ token = [t \in Tokens |-> AbsentToken]
    /\ request = [r \in Requests |-> IdleRequest]
    /\ caught = {}

Next ==
    \/ \E r \in Requests :
        \/ \E u \in Users : LoginRead(r, u)
        \/ \E t \in Tokens : Present(r, t)
        \/ Login(r) \/ Rotate(r) \/ Refuse(r) \/ DetectReuse(r) \/ RevokeReused(r) \/ Die(r)
    \/ \E t \in Tokens : Logout(t)
    \/ \E u \in Users : Disable(u) \/ ResetPassword(u) \/ Enable(u)
    \/ Tick

Spec == Init /\ [][Next]_vars

-----------------------------------------------------------------------------
(* Rows stay within their columns, and a child has the family and the user of
   its parent, which was used. *)
TypeOK ==
    /\ now \in 0..LastTick
    /\ user \in [Users -> User]
    /\ token \in [Tokens -> Token]
    /\ request \in [Requests -> Request]
    /\ caught \subseteq Tokens
    /\ \A t \in Tokens : token[t].parent # NoToken =>
        LET p == token[token[t].parent]
        IN  p.used /\ p.family = token[t].family /\ p.user = token[t].user

(* Two tabs that refresh at once, or a thief and the owner, never both get a
   live token: of each family at most one can still be exchanged. *)
OneLiveToken ==
    \A s, t \in Tokens : s # t /\ Live(s) /\ Live(t) => token[s].family # token[t].family

(* A family dies as a whole, whatever rotates while it is revoked: no child is
   born from it and none is left behind. *)
FamilyDiesWhole ==
    \A s, t \in Tokens :
        Exists(s) /\ Exists(t) /\ token[s].family = token[t].family => token[s].revoked = token[t].revoked

(* When the reuse of a token has been answered, its family is dead, although the
   refresh itself rolled back and others ran before the revocation. *)
ReuseKillsFamily ==
    \A t \in Tokens : Exists(t) /\ token[t].family \in caught => token[t].revoked

(* Every session ends.  Disabling a user or resetting a password ends all there
   were: a live token was issued after it.  And however often it is rotated, no
   token outlives the login it comes from by more than FamilyTtl. *)
SessionsEnd ==
    \A t \in Tokens :
        /\ Live(t) => token[t].epoch = user[token[t].user].epoch
        /\ Exists(t) => LET login == token[token[t].family]
                        IN  token[t].expires <= login.expires - TokenTtl + FamilyTtl

(* Seen from outside, where there are no rows, clocks or requests, these are the
   families of RefreshPromise: a token is exchanged once and for one other, a
   family ends as a whole and for ever, and the reuse of a spent token ends it. *)
issued == [f \in Tokens |-> {t \in Tokens : Exists(t) /\ token[t].family = f}]
live == {t \in Tokens : Live(t)}
spent == {t \in Tokens : Exists(t) /\ token[t].used}
over == {token[t].family : t \in {s \in Tokens : Exists(s) /\ token[s].revoked}}
Promise == INSTANCE RefreshPromise

(* The implementation keeps that promise, although a refresh that finds a reused
   token rolls back and lets others in before it revokes. *)
KeepsPromise == Promise!Spec

(* What the comment in login says: the user is locked and its enabled state and
   password rechecked, so a login that succeeds does so against the row as it is. *)
LoginRechecks ==
    [][\A r \in Requests :
        Login(r) /\ token' # token =>
            LET u == user[request[r].user] IN u.enabled /\ u.password = request[r].password]_vars
=============================================================================
