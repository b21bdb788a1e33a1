--------------------------- MODULE AccountsProofs ---------------------------
(***************************************************************************)
(* Proofs about Accounts, for any accounts, requests and invitations.      *)
(***************************************************************************)
EXTENDS Accounts, FiniteSetTheorems, TLAPS

-----------------------------------------------------------------------------
(* A PATCH past its checks holds the advisory lock and two rows nobody sweeps; its
   actor is an active administrator, and if he changes himself he stays one or is
   not the last. *)
CheckedOK(r) ==
    request[r].step = "checked" =>
        /\ request[r].actor \notin sweep.done /\ request[r].target \notin sweep.done
        /\ ActiveAdmin(request[r].actor)
        /\ Current(r)
        /\ script # "retention" /\ request[r].actor = request[r].target =>
              \/ StaysAdmin(request[r].patch)
              \/ \E u \in Users : u # request[r].target /\ ActiveAdmin(u)

(* Versions tell the states of an account apart: an administrator who saw the
   current version saw the current role.  Nothing makes an account vanish. *)
SeenOK(r) ==
    request[r].step \in {"viewed", "admitted", "checked"} =>
        LET t == user[request[r].target] IN
        /\ t.exists
        /\ script # "reset" =>
              /\ request[r].seen.version <= t.version
              /\ request[r].seen.version = t.version =>
                    t.role = request[r].seen.role /\ t.enabled = request[r].seen.enabled

(* An account remembers an invitation that was consumed. *)
ViaOK(u) ==
    user[u].via # Nobody => invitation[user[u].via].exists /\ invitation[user[u].via].consumed

IInv ==
    /\ TypeOK /\ InvitationOnce
    /\ \A r \in Requests : CheckedOK(r)
    /\ \A r \in Requests : SeenOK(r)
    /\ \A u \in Users : ViaOK(u)
    /\ script # "retention" => sweep = [todo |-> {}, done |-> {}]
    /\ script # "reset" => reset.user = Nobody

(* A step leaves an active administrator, or is the PATCH the guard overlooks. *)
AdminStays ==
    script # "retention" /\ ActiveAdmins # {} =>
        \/ ActiveAdmins' # {}
        \/ \E r \in Requests : Update(r) /\ Overlooked(r)

-----------------------------------------------------------------------------
LEMMA Constants ==
    /\ Nobody \notin Users /\ Nobody \notin Requests /\ Nobody \notin Invitations
    /\ IsFiniteSet(Users) /\ Admins \subseteq Users /\ Members \subseteq Users /\ Admins # {}
    /\ Scripts \subseteq {"retention", "reset"}
    /\ MaxVersion \in Nat /\ MaxVersion > 0
    /\ (CHOOSE u \in Users : TRUE) \in Users
  BY ConstantsAssumption

LEMMA EmptyRows ==
    /\ Absent \in User /\ NoInvitation \in Invitation
    /\ [role |-> "same", enabled |-> "true"] \in Patch
    /\ Idle \in Request /\ Idle.step = "idle"
<1>1. Absent \in User
  BY Constants DEF Absent, User, Roles
<1>2. NoInvitation \in Invitation
  BY Constants DEF NoInvitation, Invitation, Roles
<1>3. [role |-> "same", enabled |-> "true"] \in Patch
  BY DEF Patch
<1>4. QED
  BY <1>1, <1>2, <1>3, Constants DEF Idle, Request, Steps

LEMMA InitStep == Init => IInv
<1>1. SUFFICES ASSUME Init PROVE IInv
  OBVIOUS
<1> DEFINE row(u) == [exists |-> TRUE, email |-> u, role |-> IF u \in Admins THEN "admin" ELSE "member",
                      enabled |-> TRUE, version |-> 1, via |-> Nobody]
<1>2. \A u \in Users : row(u) \in User
  BY Constants DEF User, Roles
<1>3. \A u \in Users : user[u] = IF u \in Admins \cup Members THEN row(u) ELSE Absent
  BY <1>1 DEF Init
<1>4. user \in [Users -> User]
  BY <1>1, <1>2, EmptyRows DEF Init
<1>5. ASSUME NEW u \in Users PROVE user[u].via = Nobody /\ (user[u].exists => user[u].email = u)
  <2>1. row(u).via = Nobody /\ row(u).email = u /\ Absent.via = Nobody /\ ~Absent.exists
    BY DEF Absent
  <2>2. user[u] = row(u) \/ user[u] = Absent
    BY <1>3
  <2> HIDE DEF row
  <2>3. QED
    BY <2>1, <2>2
<1>6. invitation \in [Invitations -> Invitation] /\ request \in [Requests -> Request]
  BY <1>1, EmptyRows DEF Init
<1>7. \A r \in Requests : request[r].step = "idle" /\ guard # r
  BY <1>1, EmptyRows, Constants DEF Init
<1>8. reset \in [user: Users \cup {Nobody}, version: 0..MaxVersion]
  BY <1>1, Constants DEF Init
<1>9. TypeOK
  BY <1>1, <1>4, <1>5, <1>6, <1>7, <1>8 DEF Init, TypeOK
<1>10. QED
  BY <1>1, <1>5, <1>7, <1>9 DEF IInv, InvitationOnce, CheckedOK, SeenOK, ViaOK, Init

-----------------------------------------------------------------------------
(* Requests that move on while every account stays as it is. *)
LEMMA RequestStep ==
    ASSUME IInv, NEW r \in Requests, NEW row \in Request, request' = [request EXCEPT ![r] = row],
           UNCHANGED <<user, sweep, reset, script>>,
           invitation' \in [Invitations -> Invitation],
           \A i \in Invitations : invitation[i].exists /\ invitation[i].consumed =>
                invitation'[i].exists /\ invitation'[i].consumed,
           \/ guard' = guard /\ (row.step = "checked" <=> request[r].step = "checked")
           \/ guard = Nobody /\ guard' = r /\ row.step = "checked"
           \/ guard = r /\ guard' = Nobody /\ row.step # "checked",
           CheckedOK(r)', SeenOK(r)'
    PROVE  IInv'
<1>1. request' \in [Requests -> Request] /\ request'[r] = row /\ Nobody \notin Requests
      /\ \A q \in Requests : q # r => request'[q] = request[q]
  BY Constants DEF IInv, TypeOK
<1>2. guard' \in Requests \cup {Nobody}
  BY DEF IInv, TypeOK
<1>3. \A q \in Requests : request'[q].step = "checked" <=> guard' = q
  BY <1>1 DEF IInv, TypeOK
<1>4. TypeOK'
  BY <1>1, <1>2, <1>3 DEF IInv, TypeOK
<1>5. InvitationOnce'
  BY DEF IInv, InvitationOnce
<1>6. ASSUME NEW q \in Requests PROVE CheckedOK(q)'
  <2>1. CASE q # r
    BY <1>1, <2>1 DEF IInv, CheckedOK, ActiveAdmin, Current
  <2>2. QED
    BY <2>1
<1>7. ASSUME NEW q \in Requests PROVE SeenOK(q)'
  <2>1. CASE q # r
    BY <1>1, <2>1 DEF IInv, SeenOK
  <2>2. QED
    BY <2>1
<1>8. ASSUME NEW u \in Users PROVE ViaOK(u)'
  <2>1. user[u].via \in Invitations \cup {Nobody}
    BY DEF IInv, TypeOK, User
  <2>2. QED
    BY <2>1 DEF IInv, ViaOK
<1>9. QED
  BY <1>4, <1>5, <1>6, <1>7, <1>8 DEF IInv

(* A request comes to its end, or starts without being past its checks. *)
LEMMA RestStep ==
    ASSUME IInv, NEW r \in Requests, Rest(r), UNCHANGED <<user, sweep, reset, script>>,
           invitation' \in [Invitations -> Invitation],
           \A i \in Invitations : invitation[i].exists /\ invitation[i].consumed =>
                invitation'[i].exists /\ invitation'[i].consumed,
           guard' = IF guard = r THEN Nobody ELSE guard
    PROVE  IInv'
<1>1. request' = [request EXCEPT ![r] = Idle] /\ Idle \in Request /\ Idle.step = "idle"
  BY EmptyRows DEF Rest
<1>2. request'[r].step = "idle"
  BY <1>1 DEF IInv, TypeOK
<1>3. CheckedOK(r)' /\ SeenOK(r)'
  BY <1>2 DEF CheckedOK, SeenOK
<1>4. request[r].step = "checked" <=> guard = r
  BY DEF IInv, TypeOK
<1>5. QED
  BY <1>1, <1>3, <1>4, RequestStep

LEMMA ViewStep ==
    ASSUME IInv, NEW r \in Requests, NEW a \in Users, NEW u \in Users, View(r, a, u)
    PROVE  IInv'
<1> DEFINE row == [Idle EXCEPT !.step = "viewed", !.actor = a, !.target = u, !.seen = user[u]]
<1>1. row \in Request
  <2>1. [Idle EXCEPT !.step = "viewed"] \in Request
    BY EmptyRows DEF Request, Steps
  <2>2. [[Idle EXCEPT !.step = "viewed"] EXCEPT !.actor = a] \in Request
    BY <2>1 DEF Request
  <2>3. [[[Idle EXCEPT !.step = "viewed"] EXCEPT !.actor = a] EXCEPT !.target = u] \in Request
    BY <2>2 DEF Request
  <2>4. user[u] \in User
    BY DEF IInv, TypeOK
  <2>5. QED
    BY <2>3, <2>4 DEF Request
<1>2. row.step = "viewed" /\ row.target = u /\ row.seen = user[u]
  BY EmptyRows DEF Request
<1>3. /\ request[r].step = "idle" /\ request' = [request EXCEPT ![r] = row]
      /\ UNCHANGED <<user, invitation, guard, sweep, reset, script>>
  BY DEF View
<1> HIDE DEF row
<1>4. request'[r] = row
  BY <1>3 DEF IInv, TypeOK
<1>5. CheckedOK(r)'
  BY <1>2, <1>4 DEF CheckedOK
<1>6. user[u].version \in Nat
  BY Constants DEF IInv, TypeOK, User
<1>7. SeenOK(r)'
  BY <1>2, <1>3, <1>4, <1>6 DEF SeenOK, View
<1>8. invitation \in [Invitations -> Invitation]
  BY DEF IInv, TypeOK
<1>9. QED
  BY <1>1, <1>2, <1>3, <1>5, <1>7, <1>8, RequestStep

LEMMA AdmitStep ==
    ASSUME IInv, NEW r \in Requests, Admit(r)
    PROVE  IInv'
<1>1. /\ request[r].step = "viewed" /\ UNCHANGED <<user, invitation, guard, sweep, reset, script>>
      /\ invitation \in [Invitations -> Invitation] /\ request[r] \in Request
      /\ guard # r
  BY DEF Admit, IInv, TypeOK
<1>2. CASE Rest(r)
  BY <1>1, <1>2, RestStep
<1>3. ASSUME NEW p \in Patch, request' = [request EXCEPT ![r] = [request[r] EXCEPT !.step = "admitted", !.patch = p]]
      PROVE  IInv'
  <2> DEFINE row == [request[r] EXCEPT !.step = "admitted", !.patch = p]
  <2>1. [request[r] EXCEPT !.step = "admitted"] \in Request
    BY <1>1 DEF Request, Steps
  <2>2. row \in Request
    BY <2>1 DEF Request
  <2>3. row.step = "admitted" /\ row.target = request[r].target /\ row.seen = request[r].seen
    BY <1>1 DEF Request
  <2>4. request' = [request EXCEPT ![r] = row]
    BY <1>3
  <2> HIDE DEF row
  <2>5. request'[r] = row
    BY <2>4 DEF IInv, TypeOK
  <2>6. CheckedOK(r)'
    BY <2>3, <2>5 DEF CheckedOK
  <2>7. SeenOK(r)'
    BY <1>1, <2>3, <2>5 DEF IInv, SeenOK
  <2>8. QED
    BY <1>1, <2>2, <2>3, <2>4, <2>6, <2>7, RequestStep
<1>4. QED
  BY <1>2, <1>3 DEF Admit

(* A PATCH that passes _assert_current_user_e28: if it takes the last administrator's
   rights away, it has counted another. *)
LEMMA CheckStep ==
    ASSUME IInv, NEW r \in Requests, Check(r)
    PROVE  IInv'
<1>1. /\ request[r].step = "admitted" /\ guard = Nobody
      /\ UNCHANGED <<user, invitation, sweep, reset, script>>
      /\ request[r].actor \notin sweep.done /\ request[r].target \notin sweep.done
      /\ invitation \in [Invitations -> Invitation] /\ request[r] \in Request
  BY DEF Check, NoGuard, Unlocked, IInv, TypeOK
<1>2. CASE Rest(r) /\ UNCHANGED guard
  BY <1>1, <1>2, RestStep, Constants
<1>3. CASE Allowed(r) /\ guard' = r /\ request' = [request EXCEPT ![r].step = "checked"]
  <2> DEFINE row == [request[r] EXCEPT !.step = "checked"]
  <2>1. /\ row \in Request /\ row.step = "checked" /\ row.target = request[r].target
        /\ row.seen = request[r].seen /\ row.actor = request[r].actor /\ row.patch = request[r].patch
    BY <1>1 DEF Request, Steps
  <2>2. request' = [request EXCEPT ![r] = row]
    BY <1>3
  <2> HIDE DEF row
  <2>3. request'[r] = row
    BY <2>2 DEF IInv, TypeOK
  <2>4. ActiveAdmin(request[r].actor) /\ Current(r) /\ ~LastAdmin(r)
    BY <1>3 DEF Allowed
  <2>5. PICK t \in Users : t = request[r].target
    BY <1>1 DEF Request
  <2>6. ASSUME request[r].actor = t, ~StaysAdmin(request[r].patch)
        PROVE  \E u \in Users : u # t /\ ActiveAdmin(u)
    <3>1. ~(Cardinality(ActiveAdmins) <= 1)
      BY <2>4, <2>5, <2>6 DEF LastAdmin
    <3>2. SUFFICES ASSUME \A u \in Users : u # t => ~ActiveAdmin(u) PROVE FALSE
      OBVIOUS
    <3>3. ActiveAdmins \subseteq {t}
      BY <3>2 DEF ActiveAdmins
    <3>4. IsFiniteSet({t}) /\ Cardinality({t}) = 1
      BY FS_Singleton
    <3>5. Cardinality(ActiveAdmins) <= Cardinality({t})
      BY <3>3, <3>4, FS_Subset
    <3>6. QED
      BY <3>1, <3>4, <3>5
  <2>7. CheckedOK(r)'
    BY <1>1, <2>1, <2>3, <2>4, <2>5, <2>6 DEF CheckedOK, ActiveAdmin, Current
  <2>8. SeenOK(r)'
    BY <1>1, <2>1, <2>3 DEF IInv, SeenOK
  <2>9. QED
    BY <1>1, <1>3, <2>1, <2>2, <2>7, <2>8, RequestStep
<1>4. QED
  BY <1>2, <1>3 DEF Check

-----------------------------------------------------------------------------
(* Accounts that change. *)

(* A PATCH commits: nobody else is past his checks, so the two rows are the ones that
   were checked. *)
LEMMA PatchedRow ==
    ASSUME NEW row \in User, NEW p \in Patch, row.version < MaxVersion
    PROVE  LET n == Patched(row, p) IN
           /\ n \in User
           /\ n.exists = row.exists /\ n.email = row.email /\ n.via = row.via
           /\ n.version = row.version + 1
           /\ n.role = IF p.role = "same" THEN row.role ELSE p.role
           /\ n.enabled = IF p.enabled = "same" THEN row.enabled ELSE p.enabled = "true"
<1> DEFINE role == IF p.role = "same" THEN row.role ELSE p.role
           enabled == IF p.enabled = "same" THEN row.enabled ELSE p.enabled = "true"
<1>1. role \in Roles /\ enabled \in BOOLEAN /\ row.version + 1 \in 0..MaxVersion
  <2>1. p.role \in Roles \cup {"same"} /\ row.role \in Roles /\ row.enabled \in BOOLEAN
    BY DEF Patch, User
  <2>2. row.version \in 0..MaxVersion
    BY DEF User
  <2>3. row.version + 1 \in 0..MaxVersion
    BY <2>2, Constants
  <2>4. enabled \in BOOLEAN
    BY <2>1
  <2>5. role \in Roles
    BY <2>1
  <2>6. QED
    BY <2>3, <2>4, <2>5
<1> HIDE DEF role, enabled
<1>2. [row EXCEPT !.role = role] \in User
  BY <1>1 DEF User
<1>3. [[row EXCEPT !.role = role] EXCEPT !.enabled = enabled] \in User
  BY <1>1, <1>2 DEF User
<1>4. [row EXCEPT !.role = role, !.enabled = enabled, !.version = row.version + 1] \in User
  BY <1>1, <1>3 DEF User
<1>5. Patched(row, p) = [row EXCEPT !.role = role, !.enabled = enabled, !.version = row.version + 1]
  BY DEF Patched, role, enabled
<1> DEFINE n == [row EXCEPT !.role = role, !.enabled = enabled, !.version = row.version + 1]
<1>6. /\ n.exists = row.exists /\ n.email = row.email /\ n.via = row.via
      /\ n.version = row.version + 1 /\ n.role = role /\ n.enabled = enabled
  BY DEF User
<1>7. QED
  BY <1>4, <1>5, <1>6 DEF role, enabled

(* Accounts keep their address and their invitation, or lose the address. *)
LEMMA AccountStep ==
    ASSUME IInv, user' \in [Users -> User],
           \A u \in Users : /\ user'[u].exists = user[u].exists /\ user'[u].via = user[u].via
                            /\ user'[u].email = user[u].email \/ user'[u].email = Nobody
    PROVE  /\ InvitationOnce'
           /\ \A u, v \in Users : u # v /\ user'[u].exists /\ user'[v].exists /\ user'[u].email = user'[v].email
                                    => user'[u].email = Nobody
<1>1. InvitationOnce'
  BY DEF IInv, InvitationOnce
<1>2. \A u, v \in Users : u # v /\ user[u].exists /\ user[v].exists /\ user[u].email = user[v].email
                            => user[u].email = Nobody
  BY DEF IInv, TypeOK
<1>3. QED
  BY <1>1, <1>2

LEMMA UpdateStep ==
    ASSUME IInv, NEW r \in Requests, Update(r)
    PROVE  IInv' /\ AdminStays
<1>1. PICK t \in Users : t = request[r].target
  BY DEF IInv, TypeOK, Request
<1>2. /\ request[r].step = "checked" /\ user[t].version < MaxVersion
      /\ user' = [user EXCEPT ![t] = Patched(user[t], request[r].patch)]
      /\ guard' = Nobody /\ Rest(r) /\ UNCHANGED <<invitation, sweep, reset, script>>
  <2>1. user[t].version < VersionLimit /\ user[t].version \in Int /\ MaxVersion \in Int
    BY <1>1, Constants DEF Update, IInv, TypeOK, User
  <2>2. user[t].version < MaxVersion
    BY <2>1 DEF VersionLimit
  <2>3. QED
    BY <1>1, <2>2 DEF Update
<1>3. request[r].patch \in Patch /\ user[t] \in User
  BY DEF IInv, TypeOK, Request
<1> DEFINE n == Patched(user[t], request[r].patch)
<1>4. /\ n \in User /\ n.exists = user[t].exists /\ n.email = user[t].email /\ n.via = user[t].via
      /\ n.version = user[t].version + 1
      /\ n.role = IF request[r].patch.role = "same" THEN user[t].role ELSE request[r].patch.role
      /\ n.enabled = IF request[r].patch.enabled = "same" THEN user[t].enabled
                     ELSE request[r].patch.enabled = "true"
  BY <1>2, <1>3, PatchedRow
<1> HIDE DEF n
<1>5. /\ user' \in [Users -> User] /\ user'[t] = n /\ \A u \in Users : u # t => user'[u] = user[u]
  BY <1>2, <1>4 DEF IInv, TypeOK, n
<1>6. /\ request' = [request EXCEPT ![r] = Idle] /\ Idle \in Request /\ Idle.step = "idle"
  BY <1>2, EmptyRows DEF Rest
<1>7. /\ request' \in [Requests -> Request] /\ request'[r].step = "idle"
      /\ \A q \in Requests : q # r => request'[q] = request[q]
  BY <1>6 DEF IInv, TypeOK
<1>8. \A q \in Requests : request[q].step = "checked" => q = r
  BY <1>2 DEF IInv, TypeOK
<1>9. \A q \in Requests : request'[q].step # "checked"
  BY <1>7, <1>8
<1>10. TypeOK' /\ InvitationOnce'
  <2>1. \A u \in Users : /\ user'[u].exists = user[u].exists /\ user'[u].via = user[u].via
                         /\ user'[u].email = user[u].email
    BY <1>4, <1>5
  <2>2. \A q \in Requests : request'[q].step = "checked" <=> guard' = q
    BY <1>2, <1>9, Constants
  <2>3. /\ InvitationOnce'
        /\ \A u, v \in Users : u # v /\ user'[u].exists /\ user'[v].exists /\ user'[u].email = user'[v].email
                                 => user'[u].email = Nobody
    BY <1>5, <2>1, AccountStep
  <2>4. QED
    BY <1>2, <1>5, <1>7, <2>2, <2>3 DEF IInv, TypeOK
<1>11. \A q \in Requests : CheckedOK(q)'
  BY <1>9 DEF CheckedOK
<1>12. ASSUME NEW q \in Requests PROVE SeenOK(q)'
  <2>1. CASE q = r
    BY <1>7, <2>1 DEF SeenOK
  <2>2. CASE q # r /\ request[q].target = t
    <3>1. /\ request[q] \in Request /\ request[q].seen.version \in Int /\ user[t].version \in Int
      BY DEF IInv, TypeOK, Request, User
    <3>2. SeenOK(q)
      BY DEF IInv
    <3>3. request'[q] = request[q] /\ user'[t].version = user[t].version + 1
      BY <1>4, <1>5, <1>7, <2>2
    <3>4. QED
      BY <1>2, <1>4, <1>5, <2>2, <3>1, <3>2, <3>3 DEF SeenOK
  <2>3. CASE q # r /\ request[q].target # t
    <3>1. request[q].target \in Users /\ SeenOK(q)
      BY DEF IInv, TypeOK, Request
    <3>2. request'[q] = request[q] /\ user'[request[q].target] = user[request[q].target]
      BY <1>5, <1>7, <2>3, <3>1
    <3>3. QED
      BY <1>2, <3>1, <3>2 DEF SeenOK
  <2>4. QED
    BY <2>1, <2>2, <2>3
<1>13. \A u \in Users : ViaOK(u)'
  BY <1>2, <1>4, <1>5 DEF IInv, ViaOK
<1>14. IInv'
  BY <1>2, <1>10, <1>11, <1>12, <1>13 DEF IInv
<1>15. AdminStays
  <2>1. SUFFICES ASSUME script # "retention", ~Overlooked(r) PROVE \E u \in Users : ActiveAdmin(u)'
    BY DEF AdminStays, ActiveAdmins
  <2>2. /\ ActiveAdmin(request[r].actor) /\ request[r].actor \in Users
        /\ request[r].actor = t => \/ StaysAdmin(request[r].patch)
                                   \/ \E u \in Users : u # t /\ ActiveAdmin(u)
    BY <1>1, <1>2, <2>1 DEF IInv, CheckedOK, TypeOK, Request
  <2>3. \A u \in Users : u # t /\ ActiveAdmin(u) => ActiveAdmin(u)'
    BY <1>5 DEF ActiveAdmin
  <2>4. CASE request[r].actor # t \/ \E u \in Users : u # t /\ ActiveAdmin(u)
    BY <2>2, <2>3, <2>4
  <2>5. CASE request[r].actor = t /\ StaysAdmin(request[r].patch)
    <3>1. request[r].patch.enabled \in {"same", "true"}
      BY <1>1, <2>1, <2>5 DEF Overlooked
    <3>2. ActiveAdmin(t)'
      BY <1>4, <1>5, <2>2, <2>5, <3>1 DEF ActiveAdmin, StaysAdmin
    <3>3. QED
      BY <3>2
  <2>6. QED
    BY <2>2, <2>4, <2>5
<1>16. QED
  BY <1>14, <1>15

(* Registration: a new account, from an invitation nobody has used. *)
LEMMA RegisterStep ==
    ASSUME IInv, NEW i \in Invitations, NEW u \in Users, Register(i, u)
    PROVE  IInv' /\ AdminStays
<1>1. /\ invitation[i].exists /\ ~invitation[i].consumed /\ ~Taken(invitation[i].email) /\ ~user[u].exists
      /\ user' = [user EXCEPT ![u] = Account(i)]
      /\ invitation' = [invitation EXCEPT ![i].consumed = TRUE]
      /\ UNCHANGED <<request, guard, sweep, reset, script>>
  BY DEF Register
<1>2. invitation[i] \in Invitation /\ user \in [Users -> User] /\ invitation \in [Invitations -> Invitation]
  BY DEF IInv, TypeOK
<1>3. /\ Account(i) \in User /\ Account(i).exists /\ Account(i).email = invitation[i].email
      /\ Account(i).via = i /\ Account(i).version = 1
  <2>1. invitation[i].email \in Users /\ invitation[i].role \in Roles /\ 1 \in 0..MaxVersion
    BY <1>2, Constants DEF Invitation
  <2>2. QED
    BY <2>1 DEF Account, User
<1>4. /\ user' \in [Users -> User] /\ user'[u] = Account(i)
      /\ \A v \in Users : v # u => user'[v] = user[v]
  BY <1>1, <1>2, <1>3
<1>5. /\ invitation' \in [Invitations -> Invitation] /\ invitation'[i].exists /\ invitation'[i].consumed
      /\ \A j \in Invitations : j # i => invitation'[j] = invitation[j]
  <2>1. [invitation[i] EXCEPT !.consumed = TRUE] \in Invitation
    BY <1>2 DEF Invitation
  <2>2. QED
    BY <1>1, <1>2, <2>1 DEF Invitation
<1>6. \A v \in Users : user[v].via # i /\ user[v].via \in Invitations \cup {Nobody}
  BY <1>1, <1>2, Constants DEF IInv, ViaOK, User
<1>7. InvitationOnce'
  BY <1>3, <1>4, <1>6, Constants DEF IInv, InvitationOnce
<1>8. \A v, w \in Users : v # w /\ user'[v].exists /\ user'[w].exists /\ user'[v].email = user'[w].email
                            => user'[v].email = Nobody
  <2>1. \A v \in Users : v # u /\ user'[v].exists => user'[v].email # Account(i).email
    BY <1>1, <1>3, <1>4 DEF Taken
  <2>2. QED
    BY <1>3, <1>4, <2>1 DEF IInv, TypeOK
<1>9. TypeOK'
  BY <1>1, <1>4, <1>5, <1>8 DEF IInv, TypeOK
<1>10. \A v \in Users : ViaOK(v)'
  BY <1>3, <1>4, <1>5, <1>6 DEF IInv, ViaOK
<1>11. \A v \in Users : ActiveAdmin(v) => ActiveAdmin(v)'
  BY <1>1, <1>4 DEF ActiveAdmin
<1>12. ASSUME NEW r \in Requests PROVE SeenOK(r)' /\ CheckedOK(r)'
  <2>1. CASE request[r].step \notin {"viewed", "admitted", "checked"}
    BY <1>1, <2>1 DEF SeenOK, CheckedOK
  <2>2. CASE request[r].step \in {"viewed", "admitted", "checked"}
    <3>1. request[r].target \in Users \ {u}
      BY <1>1, <2>2 DEF IInv, SeenOK, TypeOK, Request
    <3>2. user'[request[r].target] = user[request[r].target]
      BY <1>4, <3>1
    <3>3. SeenOK(r)'
      BY <1>1, <3>2 DEF IInv, SeenOK
    <3>4. CheckedOK(r)'
      <4>1. request[r].actor \in Users /\ CheckedOK(r)
        BY DEF IInv, TypeOK, Request
      <4>2. request' = request /\ sweep' = sweep /\ script' = script
        BY <1>1
      <4>3. Current(r)' <=> Current(r)
        BY <3>2, <4>2 DEF Current
      <4>4. QED
        BY <1>11, <4>1, <4>2, <4>3 DEF CheckedOK
    <3>5. QED
      BY <3>3, <3>4
  <2>3. QED
    BY <2>1, <2>2
<1>13. AdminStays
  BY <1>1, <1>11 DEF AdminStays, ActiveAdmins
<1>14. QED
  BY <1>1, <1>7, <1>9, <1>10, <1>12, <1>13 DEF IInv

(* What the accounts of requests past their checks need from a script: that it does
   not touch their rows. *)
LEMMA ScriptStep ==
    ASSUME IInv, user' \in [Users -> User], UNCHANGED <<invitation, request, guard, script>>,
           sweep' \in [todo: SUBSET Users, done: SUBSET Users],
           reset' \in [user: Users \cup {Nobody}, version: 0..MaxVersion],
           \A u \in Users : /\ user'[u].exists = user[u].exists /\ user'[u].via = user[u].via
                            /\ user'[u].email = user[u].email \/ user'[u].email = Nobody
                            /\ script = "reset" \/ user'[u] = user[u] \/ user[u].version < user'[u].version,
           \A r \in Requests : request[r].step = "checked" =>
                /\ user'[request[r].actor] = user[request[r].actor]
                /\ user'[request[r].target] = user[request[r].target]
                /\ request[r].actor \notin sweep'.done /\ request[r].target \notin sweep'.done,
           script # "retention" => /\ sweep' = [todo |-> {}, done |-> {}]
                                   /\ \A u \in Users : ActiveAdmin(u) => ActiveAdmin(u)',
           script # "reset" => reset'.user = Nobody
    PROVE  IInv'
<1>1. /\ InvitationOnce'
      /\ \A u, v \in Users : u # v /\ user'[u].exists /\ user'[v].exists /\ user'[u].email = user'[v].email
                               => user'[u].email = Nobody
  BY AccountStep
<1>2. TypeOK'
  BY <1>1 DEF IInv, TypeOK
<1>3. ASSUME NEW r \in Requests PROVE CheckedOK(r)'
  <2>1. request[r].actor \in Users /\ CheckedOK(r)
    BY DEF IInv, TypeOK, Request
  <2>2. request[r].step = "checked" => (Current(r)' <=> Current(r)) /\ (ActiveAdmin(request[r].actor)' <=> ActiveAdmin(request[r].actor))
    BY DEF Current, ActiveAdmin
  <2>3. QED
    BY <2>1, <2>2 DEF CheckedOK
<1>4. ASSUME NEW r \in Requests PROVE SeenOK(r)'
  <2>1. SeenOK(r) /\ request[r].target \in Users /\ request[r].seen \in User
    BY DEF IInv, TypeOK, Request
  <2>2. PICK t \in Users : t = request[r].target
    BY <2>1
  <2>3. user[t].version \in Int /\ user'[t].version \in Int /\ request[r].seen.version \in Int
    BY <2>1 DEF IInv, TypeOK, User
  <2>4. QED
    BY <2>1, <2>2, <2>3 DEF SeenOK
<1>5. \A u \in Users : ViaOK(u)'
  BY DEF IInv, ViaOK
<1>6. QED
  BY <1>1, <1>2, <1>3, <1>4, <1>5 DEF IInv

LEMMA ScriptSteps ==
    ASSUME IInv,
           \/ Scan \/ SweepCommit \/ ResetPassword \/ AbandonScript
           \/ \E u \in Users : SweepLock(u) \/ Load(u)
    PROVE  IInv' /\ AdminStays
<1>1. /\ user \in [Users -> User]
      /\ sweep \in [todo: SUBSET Users, done: SUBSET Users]
      /\ reset \in [user: Users \cup {Nobody}, version: 0..MaxVersion]
      /\ \A r \in Requests : request[r].actor \in Users /\ request[r].target \in Users
      /\ \A r \in Requests : request[r].step = "checked" =>
            request[r].actor \notin sweep.done /\ request[r].target \notin sweep.done
      /\ script # "retention" => sweep = [todo |-> {}, done |-> {}]
      /\ script # "reset" => reset.user = Nobody
  BY DEF IInv, TypeOK, Request, CheckedOK
<1>2. CASE Scan
  <2>1. PICK S \in SUBSET Users : sweep' = [sweep EXCEPT !.todo = S]
    BY <1>2 DEF Scan
  <2>2. sweep' \in [todo: SUBSET Users, done: SUBSET Users] /\ sweep'.done = sweep.done
    BY <1>1, <2>1
  <2>3. script = "retention" /\ UNCHANGED <<user, invitation, request, guard, reset, script>>
    BY <1>2 DEF Scan
  <2>4. IInv'
    BY <1>1, <2>2, <2>3, ScriptStep
  <2>5. QED
    BY <2>3, <2>4 DEF AdminStays
<1>3. ASSUME NEW u \in Users, SweepLock(u) PROVE IInv' /\ AdminStays
  <2>1. /\ u \in sweep.todo /\ ~LockedByPatch(u) /\ UNCHANGED <<user, invitation, request, guard, reset, script>>
        /\ sweep' = [todo |-> sweep.todo \ {u}, done |-> IF Anonymous(u) THEN sweep.done ELSE sweep.done \cup {u}]
    BY <1>3 DEF SweepLock
  <2>2. script = "retention"
    BY <1>1, <2>1
  <2>3. sweep' \in [todo: SUBSET Users, done: SUBSET Users] /\ sweep'.done \subseteq sweep.done \cup {u}
    BY <1>1, <2>1
  <2>4. \A r \in Requests : request[r].step = "checked" =>
          request[r].actor \notin sweep'.done /\ request[r].target \notin sweep'.done
    BY <1>1, <2>1, <2>3 DEF LockedByPatch
  <2>5. IInv'
    BY <1>1, <2>1, <2>2, <2>3, <2>4, ScriptStep
  <2>6. QED
    BY <2>1, <2>2, <2>5 DEF AdminStays
<1>4. CASE SweepCommit
  <2>1. /\ sweep.done # {} /\ \A u \in sweep.done : user[u].version < VersionLimit
        /\ user' = [u \in Users |-> IF u \in sweep.done THEN Anonymised(user[u]) ELSE user[u]]
        /\ sweep' = [todo |-> {}, done |-> {}] /\ UNCHANGED <<invitation, request, guard, reset, script>>
    BY <1>4 DEF SweepCommit
  <2>2. script = "retention"
    BY <1>1, <2>1
  <2>3. ASSUME NEW row \in User, row.version < VersionLimit
        PROVE  LET n == Anonymised(row) IN
               /\ n \in User /\ n.exists = row.exists /\ n.via = row.via /\ n.email = Nobody
               /\ row.version < n.version
    <3>1. row.version + 1 \in 0..MaxVersion /\ row.version < row.version + 1
      <4>1. row.version \in 0..MaxVersion /\ VersionLimit \in Int /\ VersionLimit <= MaxVersion
        BY Constants DEF User, VersionLimit
      <4>2. QED
        BY <2>3, <4>1, Constants
    <3>2. [row EXCEPT !.email = Nobody] \in User
      BY DEF User
    <3>3. [[row EXCEPT !.email = Nobody] EXCEPT !.enabled = FALSE] \in User
      BY <3>2 DEF User
    <3>4. Anonymised(row) \in User
      BY <3>1, <3>3 DEF User, Anonymised
    <3>5. QED
      BY <3>1, <3>4 DEF User, Anonymised
  <2>4. user' \in [Users -> User]
    BY <1>1, <2>1, <2>3
  <2>5. \A u \in Users : /\ user'[u].exists = user[u].exists /\ user'[u].via = user[u].via
                         /\ user'[u].email = user[u].email \/ user'[u].email = Nobody
                         /\ script = "reset" \/ user'[u] = user[u] \/ user[u].version < user'[u].version
    BY <1>1, <2>1, <2>3
  <2>6. \A u \in Users \ sweep.done : user'[u] = user[u]
    BY <2>1
  <2>7. sweep' \in [todo: SUBSET Users, done: SUBSET Users] /\ sweep'.done = {}
    BY <2>1
  <2>8. \A r \in Requests : request[r].step = "checked" =>
                /\ user'[request[r].actor] = user[request[r].actor]
                /\ user'[request[r].target] = user[request[r].target]
    BY <1>1, <2>6
  <2>9. IInv'
    BY <1>1, <2>1, <2>2, <2>4, <2>5, <2>7, <2>8, ScriptStep
  <2>10. QED
    BY <2>1, <2>2, <2>9 DEF AdminStays
<1>5. ASSUME NEW u \in Users, Load(u) PROVE IInv' /\ AdminStays
  <2>1. /\ script = "reset" /\ reset' = [user |-> u, version |-> user[u].version]
        /\ UNCHANGED <<user, invitation, request, guard, sweep, script>>
    BY <1>5 DEF Load
  <2>2. reset' \in [user: Users \cup {Nobody}, version: 0..MaxVersion]
    BY <1>1, <2>1 DEF User
  <2>3. IInv'
    BY <1>1, <2>1, <2>2, ScriptStep DEF ActiveAdmin
  <2>4. QED
    BY <2>1, <2>3 DEF AdminStays, ActiveAdmins, ActiveAdmin
<1>6. CASE ResetPassword
  <2>1. PICK u \in Users : u = reset.user
    BY <1>1, <1>6 DEF ResetPassword
  <2>2. /\ reset.version < VersionLimit /\ ~LockedByPatch(u)
        /\ user' = [user EXCEPT ![u].version = reset.version + 1]
        /\ reset' = [user |-> Nobody, version |-> 0]
        /\ UNCHANGED <<invitation, request, guard, sweep, script>>
    BY <1>6, <2>1 DEF ResetPassword
  <2>3. script = "reset"
    BY <1>1, <2>1, Constants
  <2>4. reset.version + 1 \in 0..MaxVersion
    <3>1. reset.version \in 0..MaxVersion /\ VersionLimit \in Int /\ VersionLimit <= MaxVersion
      BY <1>1, Constants DEF VersionLimit
    <3>2. QED
      BY <2>2, <3>1, Constants
  <2>5. [user[u] EXCEPT !.version = reset.version + 1] \in User
    BY <1>1, <2>4 DEF User
  <2>6. user' \in [Users -> User]
    BY <1>1, <2>2, <2>5
  <2>7. \A v \in Users :
          /\ user'[v].exists = user[v].exists /\ user'[v].via = user[v].via /\ user'[v].email = user[v].email
          /\ user'[v].role = user[v].role /\ user'[v].enabled = user[v].enabled
          /\ v # u => user'[v] = user[v]
    BY <1>1, <2>2 DEF User
  <2>8. reset' \in [user: Users \cup {Nobody}, version: 0..MaxVersion]
    BY <2>2, Constants
  <2>9. \A r \in Requests : request[r].step = "checked" =>
                /\ user'[request[r].actor] = user[request[r].actor]
                /\ user'[request[r].target] = user[request[r].target]
    BY <1>1, <2>2, <2>7 DEF LockedByPatch
  <2>10. \A v \in Users : ActiveAdmin(v) => ActiveAdmin(v)'
    BY <2>7 DEF ActiveAdmin
  <2>11. IInv'
    BY <1>1, <2>2, <2>3, <2>6, <2>7, <2>8, <2>9, <2>10, ScriptStep
  <2>12. QED
    BY <2>2, <2>10, <2>11 DEF AdminStays, ActiveAdmins
<1>7. CASE AbandonScript
  <2>1. /\ sweep' = [todo |-> {}, done |-> {}] /\ reset' = [user |-> Nobody, version |-> 0]
        /\ UNCHANGED <<user, invitation, request, guard, script>>
    BY <1>7 DEF AbandonScript
  <2>2. /\ sweep' \in [todo: SUBSET Users, done: SUBSET Users] /\ sweep'.done = {}
        /\ reset' \in [user: Users \cup {Nobody}, version: 0..MaxVersion] /\ reset'.user = Nobody
    BY <2>1, Constants
  <2>3. IInv'
    BY <1>1, <2>1, <2>2, ScriptStep DEF ActiveAdmin
  <2>4. QED
    BY <2>1, <2>3 DEF AdminStays, ActiveAdmins, ActiveAdmin
<1>8. QED
  BY <1>2, <1>3, <1>4, <1>5, <1>6, <1>7

LEMMA AskToInviteStep ==
    ASSUME IInv, NEW r \in Requests, NEW a \in Users, AskToInvite(r, a)
    PROVE  IInv'
<1> DEFINE row == [Idle EXCEPT !.step = "inviting", !.actor = a]
<1>1. row \in Request /\ row.step = "inviting"
  <2>1. [Idle EXCEPT !.step = "inviting"] \in Request
    BY EmptyRows DEF Request, Steps
  <2>2. QED
    BY <2>1 DEF Request
<1>2. /\ request[r].step = "idle" /\ request' = [request EXCEPT ![r] = row]
      /\ UNCHANGED <<user, invitation, guard, sweep, reset, script>>
  BY DEF AskToInvite
<1> HIDE DEF row
<1>3. request'[r] = row /\ invitation \in [Invitations -> Invitation]
  BY <1>2 DEF IInv, TypeOK
<1>4. CheckedOK(r)' /\ SeenOK(r)'
  BY <1>1, <1>3 DEF CheckedOK, SeenOK
<1>5. QED
  BY <1>1, <1>2, <1>3, <1>4, RequestStep

LEMMA InviteStep ==
    ASSUME IInv, NEW r \in Requests, NEW i \in Invitations, NEW e \in Users, NEW role \in Roles,
           Invite(r, i, e, role)
    PROVE  IInv'
<1>1. /\ request[r].step = "inviting" /\ ~invitation[i].exists /\ Rest(r)
      /\ UNCHANGED <<user, guard, sweep, reset, script>>
      /\ guard # r /\ invitation \in [Invitations -> Invitation]
  BY DEF Invite, IInv, TypeOK
<1> DEFINE row == [exists |-> TRUE, email |-> e, role |-> role, consumed |-> FALSE, expired |-> FALSE]
<1>2. row \in Invitation
  BY DEF Invitation
<1>3. invitation' = invitation \/ invitation' = [invitation EXCEPT ![i] = row]
  BY DEF Invite
<1> HIDE DEF row
<1>4. /\ invitation' \in [Invitations -> Invitation]
      /\ \A j \in Invitations : j # i => invitation'[j] = invitation[j]
  BY <1>1, <1>2, <1>3
<1>5. QED
  BY <1>1, <1>4, RestStep

LEMMA LapseStep ==
    ASSUME IInv, NEW i \in Invitations, Lapse(i)
    PROVE  IInv'
<1>1. /\ invitation' = [invitation EXCEPT ![i].expired = TRUE] /\ invitation \in [Invitations -> Invitation]
      /\ UNCHANGED <<user, request, guard, sweep, reset, script>>
  BY DEF Lapse, IInv, TypeOK
<1>2. [invitation[i] EXCEPT !.expired = TRUE] \in Invitation
  BY <1>1 DEF Invitation
<1>3. invitation' \in [Invitations -> Invitation]
  BY <1>1, <1>2
<1>4. \A j \in Invitations : /\ invitation'[j].exists = invitation[j].exists
                             /\ invitation'[j].consumed = invitation[j].consumed
  BY <1>1 DEF Invitation
<1>5. TypeOK' /\ InvitationOnce'
  BY <1>1, <1>3 DEF IInv, TypeOK, InvitationOnce
<1>6. \A u \in Users : ViaOK(u)'
  <2>1. \A u \in Users : user[u].via \in Invitations \cup {Nobody}
    BY DEF IInv, TypeOK, User
  <2>2. QED
    BY <1>1, <1>4, <2>1 DEF IInv, ViaOK
<1>7. QED
  BY <1>1, <1>5, <1>6 DEF IInv, CheckedOK, SeenOK, ActiveAdmin, Current

LEMMA NextStep ==
    ASSUME IInv, [Next]_vars
    PROVE  IInv' /\ AdminStays
<1>1. /\ (user' = user => AdminStays)
      /\ invitation \in [Invitations -> Invitation]
      /\ \A r \in Requests : request[r].step = "checked" <=> guard = r
  BY DEF AdminStays, ActiveAdmins, ActiveAdmin, IInv, TypeOK
<1>2. ASSUME NEW r \in Requests, Die(r) PROVE IInv'
  BY <1>1, <1>2, RestStep DEF Die
<1>3. CASE \E r \in Requests :
             \/ \E a, u \in Users : View(r, a, u)
             \/ Admit(r) \/ Check(r) \/ Die(r)
             \/ \E a \in Users : AskToInvite(r, a)
             \/ \E i \in Invitations, e \in Users, role \in Roles : Invite(r, i, e, role)
  <2>1. user' = user
    BY <1>3 DEF View, Admit, Check, Die, AskToInvite, Invite
  <2>2. IInv'
    BY <1>2, <1>3, ViewStep, AdmitStep, CheckStep, AskToInviteStep, InviteStep
  <2>3. QED
    BY <1>1, <2>1, <2>2
<1>4. CASE \E i \in Invitations : Lapse(i)
  BY <1>1, <1>4, LapseStep DEF Lapse
<1>5. CASE UNCHANGED vars
  <2>1. TypeOK' /\ InvitationOnce'
    BY <1>5 DEF IInv, TypeOK, InvitationOnce, vars
  <2>2. IInv'
    BY <1>5, <2>1 DEF IInv, vars, CheckedOK, SeenOK, ViaOK, ActiveAdmin, Current
  <2>3. QED
    BY <1>1, <1>5, <2>2 DEF vars
<1>6. QED
  BY <1>3, <1>4, <1>5, UpdateStep, RegisterStep, ScriptSteps DEF Next

LEMMA Inductive == Spec => []IInv
<1>1. IInv /\ [Next]_vars => IInv'
  BY NextStep
<1>2. QED
  BY <1>1, InitStep, PTL DEF Spec

-----------------------------------------------------------------------------
(* Rows stay within their columns, an address has one account, and the advisory lock
   belongs to the PATCH between its checks and its commit. *)
THEOREM TypeCorrect == Spec => []TypeOK
<1>1. IInv => TypeOK
  BY DEF IInv
<1>2. QED
  BY <1>1, Inductive, PTL

(* An invitation makes one account, whatever registrations race for it and although
   retention frees addresses. *)
THEOREM InvitedOnce == Spec => []InvitationOnce
<1>1. IInv => InvitationOnce
  BY DEF IInv
<1>2. QED
  BY <1>1, Inductive, PTL

(* There is an active administrator at first, and whatever PATCHes race the last one
   is taken away only by himself, disabling himself in a spelling the guard
   overlooks; nothing is claimed of behaviours with a retention sweep. *)
THEOREM LastAdminStays == Spec => ActiveAdmins # {} /\ AdminRemains
<1>1. Init => ActiveAdmins # {}
  <2>1. SUFFICES ASSUME Init PROVE \E u \in Users : ActiveAdmin(u)
    BY DEF ActiveAdmins
  <2>2. PICK a \in Users : a \in Admins
    BY Constants
  <2>3. user[a].exists /\ user[a].enabled /\ user[a].role = "admin"
    BY <2>1, <2>2 DEF Init
  <2>4. QED
    BY <2>3 DEF ActiveAdmin
<1>2. IInv /\ [Next]_vars => [AdminStays]_vars
  BY NextStep
<1>3. QED
  BY <1>1, <1>2, Inductive, PTL DEF Spec, AdminRemains, AdminStays

(* A PATCH changes the account as its administrator saw it, unless reset_password.py
   puts an old version back. *)
THEOREM NoLostUpdates == Spec => NoLostUpdate
<1>1. ASSUME IInv, script # "reset", NEW r \in Requests, Update(r)
      PROVE  LET t == user[request[r].target]
             IN  t.role = request[r].seen.role /\ t.enabled = request[r].seen.enabled
  BY <1>1 DEF IInv, CheckedOK, SeenOK, Current, Update
<1>2. IInv => [script # "reset" => \A r \in Requests :
                 Update(r) => LET t == user[request[r].target]
                              IN  t.role = request[r].seen.role /\ t.enabled = request[r].seen.enabled]_vars
  BY <1>1
<1>3. QED
  BY <1>2, Inductive, PTL DEF NoLostUpdate

(* Whoever changes an account or invites is an active administrator at the commit. *)
THEOREM PrivilegeAtCommit == Spec => PrivilegeIsCurrent
<1>1. ASSUME IInv, NEW r \in Requests, Update(r) PROVE ActiveAdmin(request[r].actor)
  BY <1>1 DEF IInv, CheckedOK, Update
<1>2. ASSUME IInv, Next, NEW r \in Requests, invitation' # invitation,
             request[r].step = "inviting", request'[r].step = "idle"
      PROVE  ActiveAdmin(request[r].actor)
  <2>1. request' # request
    BY <1>2
  <2>2. PICK q \in Requests, i \in Invitations, e \in Users, role \in Roles : Invite(q, i, e, role)
    BY <1>2, <2>1 DEF Next, View, Admit, Check, Update, Die, AskToInvite, Lapse, Register, SweepLock, Load,
                     Scan, SweepCommit, ResetPassword, AbandonScript
  <2>3. q = r
    BY <1>2, <2>2 DEF Invite, Rest, IInv, TypeOK
  <2>4. QED
    BY <1>2, <2>2, <2>3 DEF Invite
<1>3. IInv /\ [Next]_vars =>
        [\A r \in Requests :
           Update(r) \/ (invitation' # invitation /\ request[r].step = "inviting" /\ request'[r].step = "idle")
               => ActiveAdmin(request[r].actor)]_vars
  BY <1>1, <1>2
<1>4. QED
  BY <1>3, Inductive, PTL DEF Spec, PrivilegeIsCurrent
=============================================================================
