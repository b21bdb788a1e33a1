------------------------------ MODULE Accounts ------------------------------
(***************************************************************************)
(* User accounts: the administrator's PATCH and invitations, registration, *)
(* and the two operator scripts that write users rows, retention.py and    *)
(* reset_password.py.                                                      *)
(*                                                                         *)
(* An administrator looks at an account, sends a PATCH with the version he *)
(* saw, is admitted by the authorization dependency, and only then opens   *)
(* the transaction that takes advisory lock 714001 and both users rows.    *)
(* The scripts take no advisory lock.  What they read before their first   *)
(* lock is kept in `sweep' and `reset'.                                    *)
(***************************************************************************)
EXTENDS Integers, FiniteSets

CONSTANTS
    Users,          \* account slots; an e-mail address is named after a slot
    Admins,         \* slots that start as administrators
    Members,        \* slots that start as members; the others are unused
    Requests,       \* concurrent requests of administrators
    Invitations,    \* BOUND: rows of invitations
    Nobody,         \* no e-mail address, no invitation, no request
    Spellings,      \* how a body may spell "disabled": "false", and "0" for a value
                    \* that UserPatch converts to False
    Scripts,        \* the operator scripts there are
    MaxVersion      \* BOUND: version of a users row, one less when a script is in use

ASSUME ConstantsAssumption ==
    /\ IsFiniteSet(Users) /\ Admins \cup Members \subseteq Users /\ Admins \cap Members = {} /\ Admins # {}
    /\ Nobody \notin Users \cup Requests \cup Invitations
    /\ Spellings \subseteq {"false", "0"} /\ Scripts \subseteq {"retention", "reset"}
    /\ MaxVersion \in Nat \ {0}

VARIABLES
    user,           \* users rows, committed
    invitation,
    request,
    guard,          \* who holds advisory lock 714001
    sweep,          \* retention.py: accounts still to lock, accounts locked and changed
    reset,          \* reset_password.py: the row it loaded
    script          \* BOUND: the one script that operators use in this behaviour, if any

vars == <<user, invitation, request, guard, sweep, reset, script>>

Roles == {"member", "admin"}
VersionLimit == IF script = "none" THEN MaxVersion ELSE MaxVersion - 1
User == [exists: BOOLEAN, email: Users \cup {Nobody}, role: Roles, enabled: BOOLEAN,
         version: 0..MaxVersion, via: Invitations \cup {Nobody}]
Invitation == [exists: BOOLEAN, email: Users, role: Roles, consumed: BOOLEAN, expired: BOOLEAN]
(* The body of a PATCH as it was sent; validation refuses an empty one. *)
Patch == {p \in [role: Roles \cup {"same"}, enabled: {"same", "true"} \cup Spellings] :
            p.role # "same" \/ p.enabled # "same"}
Steps == {"idle", "viewed", "admitted", "checked", "inviting"}
Request == [step: Steps, actor: Users, target: Users, seen: User, patch: Patch]

Absent == [exists |-> FALSE, email |-> Nobody, role |-> "member", enabled |-> FALSE,
           version |-> 0, via |-> Nobody]
NoInvitation == [exists |-> FALSE, email |-> CHOOSE u \in Users : TRUE, role |-> "member",
                 consumed |-> FALSE, expired |-> FALSE]
Idle == [step |-> "idle", actor |-> CHOOSE u \in Users : TRUE, target |-> CHOOSE u \in Users : TRUE,
         seen |-> Absent, patch |-> [role |-> "same", enabled |-> "true"]]

Rest(r) == request' = [request EXCEPT ![r] = Idle]
ActiveAdmin(u) == user[u].exists /\ user[u].enabled /\ user[u].role = "admin"
ActiveAdmins == {u \in Users : ActiveAdmin(u)}
Anonymous(u) == user[u].exists /\ user[u].email = Nobody
Taken(e) == \E u \in Users : user[u].exists /\ user[u].email = e

(* Rows locked by a PATCH between its checks and its commit, and by the sweep. *)
LockedByPatch(u) == \E r \in Requests : request[r].step = "checked" /\ u \in {request[r].actor, request[r].target}
Unlocked(u) == u \notin sweep.done

-----------------------------------------------------------------------------
(* The administrator reads an account, and later sends a PATCH with If-Match. *)
View(r, a, u) ==
    /\ request[r].step = "idle" /\ ActiveAdmin(a) /\ user[u].exists
    /\ request' = [request EXCEPT ![r] = [Idle EXCEPT !.step = "viewed", !.actor = a, !.target = u,
                                                      !.seen = user[u]]]
    /\ UNCHANGED <<user, invitation, guard, sweep, reset, script>>

(* Fault: any version will do. *)
AnyVersion(r) == TRUE
Current(r) == user[request[r].target].version = request[r].seen.version

Admit(r) ==
    /\ request[r].step = "viewed"
    /\ \/ /\ ActiveAdmin(request[r].actor) /\ Current(r)
          /\ \E p \in Patch : request' = [request EXCEPT ![r] = [request[r] EXCEPT !.step = "admitted", !.patch = p]]
       \/ ~(ActiveAdmin(request[r].actor) /\ Current(r)) /\ Rest(r)
    /\ UNCHANGED <<user, invitation, guard, sweep, reset, script>>

(* What _assert_current_user_e28 takes from the body: `enabled' counts only when
   it is the literal false. *)
StaysAdmin(p) == p.role \in {"same", "admin"} /\ p.enabled # "false"

(* A PATCH by which an administrator disables himself in a spelling that UserPatch
   converts to False and the guard takes for no change. *)
Overlooked(r) ==
    /\ request[r].actor = request[r].target
    /\ StaysAdmin(request[r].patch) /\ request[r].patch.enabled \notin {"same", "true"}

LastAdmin(r) ==
    /\ ActiveAdmin(request[r].target) /\ ~StaysAdmin(request[r].patch)
    /\ Cardinality(ActiveAdmins) <= 1

(* Fault: the actor is trusted to be what the dependency admitted. *)
AllowedOnce(r) == Current(r) /\ ~LastAdmin(r)
Allowed(r) == ActiveAdmin(request[r].actor) /\ Current(r) /\ ~LastAdmin(r)

(* Fault: no advisory lock. *)
NotGuarded == \A r \in Requests : request[r].step = "checked" => guard = r
NoGuard == guard = Nobody

(* The transaction of a PATCH: the advisory lock, both rows, the checks ... *)
Check(r) ==
    /\ request[r].step = "admitted" /\ NoGuard
    /\ Unlocked(request[r].actor) /\ Unlocked(request[r].target)
    /\ \/ Allowed(r) /\ guard' = r /\ request' = [request EXCEPT ![r].step = "checked"]
       \/ ~Allowed(r) /\ Rest(r) /\ UNCHANGED guard
    /\ UNCHANGED <<user, invitation, sweep, reset, script>>

(* ... and update_user, with the body as UserPatch understood it. *)
Patched(row, p) ==
    [row EXCEPT !.role = IF p.role = "same" THEN row.role ELSE p.role,
                !.enabled = IF p.enabled = "same" THEN row.enabled ELSE p.enabled = "true",
                !.version = row.version + 1]

Update(r) ==
    LET t == request[r].target IN
    /\ request[r].step = "checked" /\ user[t].version < VersionLimit
    /\ user' = [user EXCEPT ![t] = Patched(user[t], request[r].patch)]
    /\ guard' = Nobody /\ Rest(r)
    /\ UNCHANGED <<invitation, sweep, reset, script>>

-----------------------------------------------------------------------------
(* E29: admitted by the dependency, then the actor's row FOR SHARE. *)
AskToInvite(r, a) ==
    /\ request[r].step = "idle" /\ ActiveAdmin(a)
    /\ request' = [request EXCEPT ![r] = [Idle EXCEPT !.step = "inviting", !.actor = a]]
    /\ UNCHANGED <<user, invitation, guard, sweep, reset, script>>

Invite(r, i, e, role) ==
    LET a == request[r].actor IN
    /\ request[r].step = "inviting" /\ ~invitation[i].exists
    /\ Unlocked(a) /\ \A q \in Requests : request[q].step = "checked" => request[q].target # a
    /\ IF ActiveAdmin(a) /\ ~Taken(e)
         THEN invitation' = [invitation EXCEPT ![i] = [exists |-> TRUE, email |-> e, role |-> role,
                                                       consumed |-> FALSE, expired |-> FALSE]]
         ELSE UNCHANGED invitation
    /\ Rest(r)
    /\ UNCHANGED <<user, guard, sweep, reset, script>>

(* register holds the invitation FOR UPDATE; the unique index on e-mail decides
   between two invitations for one address. *)
Account(i) == [exists |-> TRUE, email |-> invitation[i].email, role |-> invitation[i].role,
               enabled |-> TRUE, version |-> 1, via |-> i]

Register(i, u) ==
    /\ invitation[i].exists /\ ~invitation[i].consumed /\ ~invitation[i].expired
    /\ ~Taken(invitation[i].email) /\ ~user[u].exists
    /\ user' = [user EXCEPT ![u] = Account(i)]
    /\ invitation' = [invitation EXCEPT ![i].consumed = TRUE]
    /\ UNCHANGED <<request, guard, sweep, reset, script>>

Lapse(i) ==
    /\ invitation[i].exists /\ ~invitation[i].expired
    /\ invitation' = [invitation EXCEPT ![i].expired = TRUE]
    /\ UNCHANGED <<user, request, guard, sweep, reset, script>>

-----------------------------------------------------------------------------
(* retention.py lists old accounts that are no administrators (which of them are
   older than the cutoff is left open) ... *)
Scan ==
    /\ script = "retention" /\ sweep = [todo |-> {}, done |-> {}]
    /\ \E S \in SUBSET {u \in Users : user[u].exists /\ user[u].role # "admin" /\ ~Anonymous(u)} :
        S # {} /\ sweep' = [sweep EXCEPT !.todo = S]
    /\ UNCHANGED <<user, invitation, request, guard, reset, script>>

(* ... and, in one transaction that locks them one by one, looks again only at
   whether an account is anonymous already. *)
SweepLock(u) ==
    /\ u \in sweep.todo /\ ~LockedByPatch(u)
    /\ sweep' = [todo |-> sweep.todo \ {u}, done |-> IF Anonymous(u) THEN sweep.done ELSE sweep.done \cup {u}]
    /\ UNCHANGED <<user, invitation, request, guard, reset, script>>

Anonymised(row) == [row EXCEPT !.email = Nobody, !.enabled = FALSE, !.version = row.version + 1]

SweepCommit ==
    /\ sweep.todo = {} /\ sweep.done # {}
    /\ \A u \in sweep.done : user[u].version < VersionLimit
    /\ user' = [u \in Users |-> IF u \in sweep.done THEN Anonymised(user[u]) ELSE user[u]]
    /\ sweep' = [todo |-> {}, done |-> {}]
    /\ UNCHANGED <<invitation, request, guard, reset, script>>

(* reset_password.py loads the user, then locks the row; the locked row is the
   object it already has, and its version is written from there. *)
Load(u) ==
    /\ script = "reset" /\ reset.user = Nobody /\ user[u].exists
    /\ reset' = [user |-> u, version |-> user[u].version]
    /\ UNCHANGED <<user, invitation, request, guard, sweep, script>>

ResetPassword ==
    /\ reset.user # Nobody /\ reset.version < VersionLimit
    /\ ~LockedByPatch(reset.user) /\ Unlocked(reset.user)
    /\ user' = [user EXCEPT ![reset.user].version = reset.version + 1]
    /\ reset' = [user |-> Nobody, version |-> 0]
    /\ UNCHANGED <<invitation, request, guard, sweep, script>>

(* A request, or a script, dies or loses its connection: locks go, nothing is written. *)
Die(r) ==
    /\ request[r].step # "idle"
    /\ Rest(r)
    /\ guard' = IF guard = r THEN Nobody ELSE guard
    /\ UNCHANGED <<user, invitation, sweep, reset, script>>

AbandonScript ==
    /\ sweep # [todo |-> {}, done |-> {}] \/ reset.user # Nobody
    /\ sweep' = [todo |-> {}, done |-> {}]
    /\ reset' = [user |-> Nobody, version |-> 0]
    /\ UNCHANGED <<user, invitation, request, guard, script>>

Init ==
    /\ user = [u \in Users |->
                IF u \in Admins \cup Members
                  THEN [exists |-> TRUE, email |-> u, role |-> IF u \in Admins THEN "admin" ELSE "member",
                        enabled |-> TRUE, version |-> 1, via |-> Nobody]
                  ELSE Absent]
    /\ invitation = [i \in Invitations |-> NoInvitation]
    /\ request = [r \in Requests |-> Idle]
    /\ guard = Nobody
    /\ sweep = [todo |-> {}, done |-> {}]
    /\ reset = [user |-> Nobody, version |-> 0]
    /\ script \in Scripts \cup {"none"}

Next ==
    \/ \E r \in Requests :
        \/ \E a, u \in Users : View(r, a, u)
        \/ Admit(r) \/ Check(r) \/ Update(r) \/ Die(r)
        \/ \E a \in Users : AskToInvite(r, a)
        \/ \E i \in Invitations, e \in Users, role \in Roles : Invite(r, i, e, role)
    \/ \E i \in Invitations : Lapse(i) \/ \E u \in Users : Register(i, u)
    \/ \E u \in Users : SweepLock(u) \/ Load(u)
    \/ Scan \/ SweepCommit \/ ResetPassword \/ AbandonScript

Spec == Init /\ [][Next]_vars

-----------------------------------------------------------------------------
(* Rows stay within their columns, no two accounts share an address, and the
   advisory lock belongs to the one PATCH between its checks and its commit. *)
TypeOK ==
    /\ user \in [Users -> User]
    /\ invitation \in [Invitations -> Invitation]
    /\ request \in [Requests -> Request]
    /\ guard \in Requests \cup {Nobody}
    /\ sweep \in [todo: SUBSET Users, done: SUBSET Users]
    /\ reset \in [user: Users \cup {Nobody}, version: 0..MaxVersion]
    /\ script \in Scripts \cup {"none"}
    /\ \A r \in Requests : request[r].step = "checked" <=> guard = r
    /\ \A u, v \in Users : u # v /\ user[u].exists /\ user[v].exists /\ user[u].email = user[v].email
                            => user[u].email = Nobody

(* However many administrators demote and disable each other, or themselves, at
   once, one active administrator is left (docs/admin.md, "Last Active
   Administrator Protection"), but for one step: the last one disables himself in
   a spelling that the guard overlooks.  Nothing is said of behaviours with a
   retention sweep, which takes no advisory lock and looks at roles only before
   its first row lock. *)
AdminRemains ==
    [][script # "retention" /\ ActiveAdmins # {} =>
         \/ ActiveAdmins' # {}
         \/ \E r \in Requests : Update(r) /\ Overlooked(r)]_vars

(* A PATCH changes the account its administrator looked at: role and enabled are
   what they were then, whatever was written in between, unless reset_password.py
   put an old version back. *)
NoLostUpdate ==
    [][script # "reset" => \A r \in Requests :
        Update(r) => LET t == user[request[r].target]
                     IN  t.role = request[r].seen.role /\ t.enabled = request[r].seen.enabled]_vars

(* Whoever changes an account or invites is an active administrator when the
   change commits, not only when the request was admitted. *)
PrivilegeIsCurrent ==
    [][\A r \in Requests :
        Update(r) \/ (invitation' # invitation /\ request[r].step = "inviting" /\ request'[r].step = "idle")
            => ActiveAdmin(request[r].actor)]_vars

(* An invitation makes one account, even when retention frees its address later. *)
InvitationOnce ==
    \A u, v \in Users : u # v /\ user[u].via = user[v].via => user[u].via = Nobody
=============================================================================
