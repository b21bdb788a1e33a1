--------------------------- MODULE SessionsProofs ---------------------------
(***************************************************************************)
(* Proofs about Sessions, for any users, tokens, requests and bounds.      *)
(*                                                                         *)
(* All transactions but a login and a rotation only revoke: Revocation     *)
(* covers them (most revoke nothing), LoginStep and RotateStep the others. *)
(***************************************************************************)
EXTENDS Sessions, TLAPS

-----------------------------------------------------------------------------
(* A token belongs to the family of a login, dies with it at the latest, and has
   its user; an id that is not in use has left no trace. *)
FamilyOK(t) ==
    IF Exists(t)
    THEN /\ token[t].family \in Tokens /\ Exists(token[t].family)
         /\ token[token[t].family].family = token[t].family
         /\ token[t].user = token[token[t].family].user
         /\ token[t].familyExpires = token[token[t].family].expires - TokenTtl + FamilyTtl
         /\ token[t].expires <= token[t].familyExpires
         /\ token[t].parent # NoToken => Exists(token[t].parent)
    ELSE token[t].parent = NoToken

RequestOK(r) ==
    request[r].step \in {"resolved", "reused"} => request[r].token \in Tokens /\ Exists(request[r].token)

LiveIsCurrent == \A t \in Tokens : Live(t) => token[t].epoch = user[token[t].user].epoch

IInv ==
    /\ TypeOK
    /\ OneLiveToken /\ FamilyDiesWhole /\ ReuseKillsFamily /\ LiveIsCurrent
    /\ \A t \in Tokens : FamilyOK(t)
    /\ \A r \in Requests : RequestOK(r)
    /\ \A t \in caught : Exists(t)
    /\ \A u \in Users : user[u].password <= user[u].epoch

(* The constants, one by one. *)
LEMMA Constants ==
    /\ TokenTtl \in Nat /\ FamilyTtl \in Nat /\ TokenTtl <= FamilyTtl /\ MaxEpoch \in Nat /\ LastTick \in Nat
    /\ TokenTtl > 0 /\ NoToken \notin Tokens
    /\ (CHOOSE u \in Users : TRUE) \in Users
  BY ConstantsAssumption

LEMMA EmptyRows == AbsentToken \in Token /\ IdleRequest \in Request
  BY Constants DEF AbsentToken, Token, IdleRequest, Request, Steps, Moments

LEMMA InitStep == Init => IInv
<1>1. SUFFICES ASSUME Init PROVE IInv
  OBVIOUS
<1>2. TypeOK
  <2>1. user \in [Users -> User]
    BY <1>1, Constants DEF Init, User
  <2>2. token \in [Tokens -> Token] /\ request \in [Requests -> Request]
    BY <1>1, EmptyRows DEF Init
  <2>3. \A t \in Tokens : token[t].parent = NoToken
    BY <1>1 DEF Init, AbsentToken
  <2>4. QED
    BY <1>1, <2>1, <2>2, <2>3, Constants DEF Init, TypeOK
<1>3. \A t \in Tokens : ~Exists(t) /\ token[t].parent = NoToken
  BY <1>1 DEF Init, Exists, AbsentToken
<1>4. \A r \in Requests : request[r].step = "idle"
  BY <1>1 DEF Init, IdleRequest
<1>5. \A u \in Users : user[u].password <= user[u].epoch
  BY <1>1 DEF Init
<1>6. caught = {}
  BY <1>1 DEF Init
<1>7. QED
  BY <1>2, <1>3, <1>4, <1>5, <1>6
     DEF IInv, OneLiveToken, FamilyDiesWhole, ReuseKillsFamily, LiveIsCurrent, FamilyOK, RequestOK, Live

-----------------------------------------------------------------------------
(* What a revocation does to a token. *)
LEMMA RevokedRows ==
    ASSUME token \in [Tokens -> Token], NEW S \in SUBSET Tokens
    PROVE  /\ Revoke(S) \in [Tokens -> Token]
           /\ \A t \in Tokens :
                LET n == Revoke(S)[t] IN
                /\ n.exists = token[t].exists /\ n.user = token[t].user /\ n.family = token[t].family
                /\ n.parent = token[t].parent /\ n.expires = token[t].expires
                /\ n.familyExpires = token[t].familyExpires /\ n.used = token[t].used
                /\ n.epoch = token[t].epoch
                /\ n.revoked = (t \in S \/ token[t].revoked)
<1>1. ASSUME NEW t \in Tokens PROVE [token[t] EXCEPT !.revoked = TRUE] \in Token
  BY DEF Token
<1>2. ASSUME NEW t \in Tokens
      PROVE  LET n == Revoke(S)[t] IN
             /\ n.exists = token[t].exists /\ n.user = token[t].user /\ n.family = token[t].family
             /\ n.parent = token[t].parent /\ n.expires = token[t].expires
             /\ n.familyExpires = token[t].familyExpires /\ n.used = token[t].used
             /\ n.epoch = token[t].epoch
             /\ n.revoked = (t \in S \/ token[t].revoked)
  <2>1. CASE t \in S
    BY <2>1 DEF Revoke, Token
  <2>2. CASE t \notin S
    BY <2>2 DEF Revoke, Token
  <2>3. QED
    BY <2>1, <2>2
<1>3. Revoke(S) \in [Tokens -> Token]
  BY <1>1 DEF Revoke
<1>4. QED
  BY <1>2, <1>3

(* Whole families are revoked, or none; the user may change where all of his tokens are. *)
LEMMA Revocation ==
    ASSUME IInv, NEW S \in SUBSET Tokens,
           \A s \in S : Exists(s),
           \A s \in S, t \in Tokens : Exists(t) /\ token[t].family = token[s].family => t \in S,
           token' = Revoke(S), now' \in 0..LastTick,
           user' \in [Users -> User],
           \A u \in Users : user'[u].password <= user'[u].epoch,
           \A t \in Tokens \ S : Live(t) => user'[token[t].user].epoch = user[token[t].user].epoch,
           request' \in [Requests -> Request],
           \A r \in Requests : request'[r].step \in {"resolved", "reused"} =>
                request'[r].token \in Tokens /\ Exists(request'[r].token),
           caught' \in SUBSET (caught \cup {token[s].family : s \in S})
    PROVE  IInv'
<1>1. /\ token' \in [Tokens -> Token]
      /\ \A t \in Tokens :
           /\ token'[t].exists = token[t].exists /\ token'[t].user = token[t].user
           /\ token'[t].family = token[t].family
           /\ token'[t].parent = token[t].parent /\ token'[t].expires = token[t].expires
           /\ token'[t].familyExpires = token[t].familyExpires /\ token'[t].used = token[t].used
           /\ token'[t].epoch = token[t].epoch
           /\ token'[t].revoked = (t \in S \/ token[t].revoked)
  BY RevokedRows DEF IInv, TypeOK
<1>2. \A t \in Tokens : Exists(t)' <=> Exists(t)
  BY <1>1 DEF Exists
<1>3. \A t \in Tokens : Live(t)' => Live(t) /\ t \notin S
  BY <1>1, <1>2 DEF Live
<1>4. \A s \in S : token[s].family \in Tokens /\ Exists(token[s].family)
  BY DEF IInv, FamilyOK
<1>5. TypeOK'
  <2>1. caught' \subseteq Tokens
    BY <1>4 DEF IInv, TypeOK
  <2>2. \A t \in Tokens : token'[t].parent # NoToken =>
          LET p == token'[token'[t].parent]
          IN  p.used /\ p.family = token'[t].family /\ p.user = token'[t].user
    <3>1. \A t \in Tokens : token[t].parent # NoToken => token[t].parent \in Tokens
      BY DEF IInv, TypeOK, Token
    <3>2. QED
      BY <1>1, <3>1 DEF IInv, TypeOK
  <2>3. QED
    BY <1>1, <2>1, <2>2 DEF TypeOK
<1>6. OneLiveToken'
  BY <1>1, <1>3 DEF IInv, OneLiveToken
<1>7. FamilyDiesWhole'
  BY <1>1, <1>2 DEF IInv, FamilyDiesWhole
<1>8. ReuseKillsFamily'
  <2>1. \A t \in Tokens : Exists(t) /\ token[t].family \in caught => token[t].revoked
    BY DEF IInv, ReuseKillsFamily
  <2>2. ASSUME NEW t \in Tokens, Exists(t), token[t].family \in caught'
        PROVE  t \in S \/ token[t].revoked
    <3>1. CASE token[t].family \in caught
      BY <2>1, <2>2, <3>1
    <3>2. CASE \E s \in S : token[t].family = token[s].family
      BY <2>2, <3>2
    <3>3. QED
      BY <2>2, <3>1, <3>2
  <2>3. QED
    BY <1>1, <1>2, <2>2 DEF ReuseKillsFamily
<1>9. LiveIsCurrent'
  BY <1>1, <1>3 DEF IInv, LiveIsCurrent
<1>10. \A t \in Tokens : FamilyOK(t)'
  <2>1. \A t \in Tokens : token[t].parent \in Tokens \cup {NoToken}
    BY DEF IInv, TypeOK, Token
  <2>2. QED
    BY <1>1, <1>2, <2>1 DEF IInv, FamilyOK
<1>11. \A r \in Requests : RequestOK(r)'
  BY <1>2 DEF RequestOK
<1>12. \A t \in caught' : Exists(t)'
  BY <1>2, <1>4 DEF IInv, TypeOK
<1>13. QED
  BY <1>5, <1>6, <1>7, <1>8, <1>9, <1>10, <1>11, <1>12 DEF IInv

(* A transaction that ends, and one that leaves all tokens alone. *)
LEMMA RestStep ==
    ASSUME IInv, NEW r \in Requests, Rest(r)
    PROVE  /\ request' \in [Requests -> Request]
           /\ \A q \in Requests : request'[q].step \in {"resolved", "reused"} =>
                request'[q].token \in Tokens /\ Exists(request'[q].token)
<1>1. request' \in [Requests -> Request]
  BY EmptyRows DEF IInv, TypeOK, Rest
<1>2. \A q \in Requests : request'[q] = IF q = r THEN IdleRequest ELSE request[q]
  BY DEF IInv, TypeOK, Rest
<1>3. IdleRequest.step = "idle"
  BY DEF IdleRequest
<1>4. QED
  BY <1>1, <1>2, <1>3 DEF IInv, RequestOK

LEMMA NoneRevoked == token \in [Tokens -> Token] => Revoke({}) = token
  BY DEF Revoke

LEMMA QuietStep ==
    ASSUME IInv, token' = token, now' \in 0..LastTick, caught' = caught,
           user' \in [Users -> User],
           \A u \in Users : user'[u].password <= user'[u].epoch /\ user'[u].epoch = user[u].epoch,
           request' \in [Requests -> Request],
           \A r \in Requests : request'[r].step \in {"resolved", "reused"} =>
                request'[r].token \in Tokens /\ Exists(request'[r].token)
    PROVE  IInv'
<1>1. token' = Revoke({})
  BY NoneRevoked DEF IInv, TypeOK
<1>2. \A t \in Tokens : token[t].user \in Users
  BY DEF IInv, TypeOK, Token
<1>3. caught' \in SUBSET (caught \cup {token[s].family : s \in {}})
  OBVIOUS
<1>4. QED
  BY <1>1, <1>2, <1>3, Revocation

(* What the families and the tokens of a user have to be for Revocation. *)
LEMMA WholeFamily ==
    ASSUME IInv, NEW f \in Tokens, Exists(f)
    PROVE  /\ Family(f) \in SUBSET Tokens /\ f \in Family(f)
           /\ \A s \in Family(f) : Exists(s) /\ token[s].family = token[f].family
           /\ \A s \in Family(f), t \in Tokens :
                Exists(t) /\ token[t].family = token[s].family => t \in Family(f)
  BY DEF Family

LEMMA WholeUser ==
    ASSUME IInv, NEW u \in Users
    PROVE  /\ TokensOf(u) \in SUBSET Tokens
           /\ \A s \in TokensOf(u) : Exists(s)
           /\ \A s \in TokensOf(u), t \in Tokens :
                Exists(t) /\ token[t].family = token[s].family => t \in TokensOf(u)
<1>1. \A s, t \in Tokens : Exists(s) /\ Exists(t) /\ token[t].family = token[s].family
                             => token[t].user = token[s].user
  BY DEF IInv, FamilyOK
<1>2. QED
  BY <1>1 DEF TokensOf

-----------------------------------------------------------------------------
(* An id that is not in use is nobody's parent or family. *)
LEMMA FreshIsAlone ==
    ASSUME IInv, NEW c \in Tokens, ~Exists(c), NEW t \in Tokens, t # c
    PROVE  /\ token[t].parent \in Tokens \cup {NoToken} /\ token[t].parent # c
           /\ Exists(t) => token[t].family \in Tokens \ {c}
<1>1. token[t].parent \in Tokens \cup {NoToken}
  BY DEF IInv, TypeOK, Token
<1>2. FamilyOK(t) /\ NoToken \notin Tokens
  BY Constants DEF IInv
<1>3. QED
  BY <1>1, <1>2 DEF FamilyOK

(* A login founds a family. *)
LEMMA NewFamilyRow ==
    ASSUME IInv, NEW r \in Requests, NEW c \in Tokens
    PROVE  NewFamily(c, r) \in Token
<1>1. /\ request[r].user \in Users /\ request[r].at \in 0..LastTick
      /\ user[request[r].user].epoch \in 0..MaxEpoch
  BY DEF IInv, TypeOK, Request, User
<1>2. request[r].at + TokenTtl \in Moments /\ request[r].at + FamilyTtl \in Moments
  BY <1>1, Constants DEF Moments
<1>3. QED
  BY <1>1, <1>2 DEF NewFamily, Token

LEMMA LoginStep ==
    ASSUME IInv, NEW r \in Requests, NEW c \in Tokens, ~Exists(c),
           token' = [token EXCEPT ![c] = NewFamily(c, r)], Rest(r), UNCHANGED <<now, user, caught>>
    PROVE  IInv'
<1>1. /\ token' \in [Tokens -> Token] /\ token'[c] = NewFamily(c, r)
      /\ \A t \in Tokens : t # c => token'[t] = token[t]
  BY NewFamilyRow DEF IInv, TypeOK
<1>2. /\ token'[c].exists /\ ~token'[c].used /\ ~token'[c].revoked
      /\ token'[c].user = request[r].user /\ token'[c].family = c /\ token'[c].parent = NoToken
      /\ token'[c].epoch = user[request[r].user].epoch
      /\ token'[c].expires = request[r].at + TokenTtl /\ token'[c].familyExpires = request[r].at + FamilyTtl
  BY <1>1 DEF NewFamily
<1>3. /\ Exists(c)' /\ \A t \in Tokens : t # c => (Exists(t)' <=> Exists(t)) /\ (Live(t)' <=> Live(t))
  BY <1>1, <1>2 DEF Exists, Live
<1>4. \A t \in Tokens : t # c => token[t].parent \in Tokens \cup {NoToken} /\ token[t].parent # c
                                 /\ (Exists(t) => token[t].family \in Tokens \ {c})
  BY FreshIsAlone
<1>5. TypeOK'
  <2>1. \A t \in Tokens : token'[t].parent # NoToken =>
          LET p == token'[token'[t].parent]
          IN  p.used /\ p.family = token'[t].family /\ p.user = token'[t].user
    BY <1>1, <1>2, <1>4 DEF IInv, TypeOK
  <2>2. QED
    BY <1>1, <2>1, RestStep DEF IInv, TypeOK
<1>6. OneLiveToken'
  <2>1. \A t \in Tokens : t # c /\ Live(t)' => token'[t].family # c
    BY <1>1, <1>3, <1>4 DEF Live
  <2>2. QED
    BY <1>1, <1>2, <1>3, <2>1 DEF IInv, OneLiveToken
<1>7. FamilyDiesWhole'
  <2>1. \A t \in Tokens : t # c /\ Exists(t)' => token'[t].family # c
    BY <1>1, <1>3, <1>4
  <2>2. QED
    BY <1>1, <1>2, <1>3, <2>1 DEF IInv, FamilyDiesWhole
<1>8. ReuseKillsFamily'
  <2>1. c \notin caught
    BY DEF IInv
  <2>2. QED
    BY <1>1, <1>2, <1>3, <2>1 DEF IInv, ReuseKillsFamily
<1>9. LiveIsCurrent'
  BY <1>1, <1>2, <1>3 DEF IInv, LiveIsCurrent
<1>10. \A t \in Tokens : FamilyOK(t)'
  <2>1. FamilyOK(c)'
    <3>1. request[r].at \in Int
      BY DEF IInv, TypeOK, Request
    <3>2. QED
      BY <1>2, <1>3, <3>1, Constants DEF FamilyOK
  <2>2. ASSUME NEW t \in Tokens, t # c PROVE FamilyOK(t)'
    BY <1>1, <1>3, <1>4, <2>2 DEF IInv, FamilyOK
  <2>3. QED
    BY <2>1, <2>2
<1>11. \A q \in Requests : RequestOK(q)'
  BY <1>3, RestStep DEF RequestOK
<1>12. \A t \in caught' : Exists(t)'
  BY <1>3 DEF IInv, TypeOK
<1>13. QED
  BY <1>5, <1>6, <1>7, <1>8, <1>9, <1>10, <1>11, <1>12 DEF IInv

-----------------------------------------------------------------------------
(* A rotation uses up a live token and adds its child. *)
LEMMA ChildRow ==
    ASSUME IInv, NEW r \in Requests, request[r].step = "resolved"
    PROVE  Child(r) \in Token /\ Child(r).expires <= token[request[r].token].familyExpires
<1> DEFINE p == request[r].token
<1>1. p \in Tokens /\ token[p] \in Token /\ request[r].at \in 0..LastTick
  BY DEF IInv, TypeOK, RequestOK, Request
<1>2. user[token[p].user].epoch \in 0..MaxEpoch
  BY <1>1 DEF IInv, TypeOK, User, Token
<1>3. token[p].familyExpires \in Moments
  BY <1>1 DEF Token
<1>4. /\ Earlier(request[r].at + TokenTtl, token[p].familyExpires) \in Moments
      /\ Earlier(request[r].at + TokenTtl, token[p].familyExpires) <= token[p].familyExpires
  BY <1>1, <1>3, Constants DEF Earlier, Moments
<1>5. /\ token[p].user \in Users /\ token[p].family \in Tokens \cup {NoToken}
  BY <1>1 DEF Token
<1>6. QED
  BY <1>1, <1>2, <1>3, <1>4, <1>5 DEF Child, Token

(* What a rotation does to the rows: the used token p and its child c. *)
Rotated(p, c) ==
    /\ Live(p) /\ Exists(p) /\ ~Exists(c) /\ c # p
    /\ token' \in [Tokens -> Token]
    /\ token'[c].exists /\ ~token'[c].used /\ ~token'[c].revoked
    /\ token'[c].user = token[p].user /\ token'[c].family = token[p].family /\ token'[c].parent = p
    /\ token'[c].epoch = user[token[p].user].epoch
    /\ token'[c].familyExpires = token[p].familyExpires /\ token'[c].expires <= token[p].familyExpires
    /\ \A t \in Tokens : t # c =>
        /\ token'[t].exists = token[t].exists /\ token'[t].user = token[t].user
        /\ token'[t].family = token[t].family
        /\ token'[t].parent = token[t].parent /\ token'[t].expires = token[t].expires
        /\ token'[t].familyExpires = token[t].familyExpires /\ token'[t].revoked = token[t].revoked
        /\ token'[t].epoch = token[t].epoch
        /\ token'[t].used = (t = p \/ token[t].used)

LEMMA RotatedRows ==
    ASSUME IInv, NEW r \in Requests, Rotate(r)
    PROVE  \E p, c \in Tokens : p = request[r].token /\ Rotated(p, c)
<1>0. PICK p \in Tokens : p = request[r].token /\ Live(p)
  BY DEF Rotate, Refused, IInv, RequestOK, Live
<1>1. PICK c \in Tokens : Fresh(c) /\ token' = [token EXCEPT ![c] = Child(r), ![p].used = TRUE]
  BY <1>0 DEF Rotate
<1>2. p \in Tokens /\ Exists(p) /\ ~Exists(c) /\ Live(p) /\ c # p
  BY <1>0, <1>1 DEF Fresh, Live
<1>3. /\ token'[c] = Child(r) /\ token'[p] = [token[p] EXCEPT !.used = TRUE]
      /\ \A t \in Tokens : t # c /\ t # p => token'[t] = token[t]
  BY <1>1, <1>2 DEF IInv, TypeOK
<1>4. token' \in [Tokens -> Token]
  <2>1. token[p] \in Token
    BY <1>2 DEF IInv, TypeOK
  <2>2. [token[p] EXCEPT !.used = TRUE] \in Token
    BY <2>1 DEF Token
  <2>3. Child(r) \in Token
    BY ChildRow DEF Rotate
  <2>4. QED
    BY <1>1, <1>3, <2>2, <2>3 DEF IInv, TypeOK
<1>5. /\ token'[c].exists /\ ~token'[c].used /\ ~token'[c].revoked
      /\ token'[c].user = token[p].user /\ token'[c].family = token[p].family /\ token'[c].parent = p
      /\ token'[c].epoch = user[token[p].user].epoch
      /\ token'[c].familyExpires = token[p].familyExpires /\ token'[c].expires <= token[p].familyExpires
  <2>1. Child(r).expires <= token[p].familyExpires
    BY <1>0, ChildRow DEF Rotate
  <2>2. QED
    BY <1>0, <1>3, <2>1 DEF Child
<1>6. \A t \in Tokens : t # c =>
        /\ token'[t].exists = token[t].exists /\ token'[t].user = token[t].user
        /\ token'[t].family = token[t].family
        /\ token'[t].parent = token[t].parent /\ token'[t].expires = token[t].expires
        /\ token'[t].familyExpires = token[t].familyExpires /\ token'[t].revoked = token[t].revoked
        /\ token'[t].epoch = token[t].epoch
        /\ token'[t].used = (t = p \/ token[t].used)
  <2> SUFFICES ASSUME NEW t \in Tokens, t # c
               PROVE  /\ token'[t].exists = token[t].exists /\ token'[t].user = token[t].user
                      /\ token'[t].family = token[t].family
                      /\ token'[t].parent = token[t].parent /\ token'[t].expires = token[t].expires
                      /\ token'[t].familyExpires = token[t].familyExpires /\ token'[t].revoked = token[t].revoked
                      /\ token'[t].epoch = token[t].epoch
                      /\ token'[t].used = (t = p \/ token[t].used)
    OBVIOUS
  <2>1. token[t] \in Token
    BY DEF IInv, TypeOK
  <2>2. CASE t = p
    BY <1>3, <2>1, <2>2 DEF Token
  <2>3. CASE t # p
    <3>1. token'[t] = token[t]
      BY <1>3, <2>3
    <3>2. token[t].used \in BOOLEAN
      BY <2>1 DEF Token
    <3>3. QED
      BY <2>3, <3>1, <3>2
  <2>4. QED
    BY <2>2, <2>3
<1>7. Rotated(p, c)
  BY <1>2, <1>4, <1>5, <1>6 DEF Rotated
<1>8. QED
  BY <1>0, <1>7

LEMMA RotateStep ==
    ASSUME IInv, NEW r \in Requests, Rotate(r)
    PROVE  IInv'
<1>1. PICK p, c \in Tokens : Rotated(p, c)
  BY RotatedRows
<1>2. p \in Tokens /\ Exists(p) /\ ~Exists(c) /\ Live(p) /\ c # p
  BY <1>1 DEF Rotated
<1>4. token' \in [Tokens -> Token]
  BY <1>1 DEF Rotated
<1>5. /\ token'[c].exists /\ ~token'[c].used /\ ~token'[c].revoked
      /\ token'[c].user = token[p].user /\ token'[c].family = token[p].family /\ token'[c].parent = p
      /\ token'[c].epoch = user[token[p].user].epoch
      /\ token'[c].familyExpires = token[p].familyExpires /\ token'[c].expires <= token[p].familyExpires
  BY <1>1 DEF Rotated
<1>6. \A t \in Tokens : t # c =>
        /\ token'[t].exists = token[t].exists /\ token'[t].user = token[t].user
        /\ token'[t].family = token[t].family
        /\ token'[t].parent = token[t].parent /\ token'[t].expires = token[t].expires
        /\ token'[t].familyExpires = token[t].familyExpires /\ token'[t].revoked = token[t].revoked
        /\ token'[t].epoch = token[t].epoch
        /\ token'[t].used = (t = p \/ token[t].used)
  BY <1>1 DEF Rotated
<1>7. now' = now /\ user' = user /\ caught' = caught /\ Rest(r)
  BY DEF Rotate
<1>8. /\ Exists(c)' /\ Live(c)' /\ ~Live(p)'
      /\ \A t \in Tokens : t # c => (Exists(t)' <=> Exists(t)) /\ (Live(t)' => Live(t))
  <2>1. Exists(c)' /\ Live(c)'
    BY <1>5 DEF Exists, Live
  <2>2. ~Live(p)'
    BY <1>2, <1>6 DEF Live
  <2>3. \A t \in Tokens : t # c => (Exists(t)' <=> Exists(t)) /\ (Live(t)' => Live(t))
    BY <1>6 DEF Exists, Live
  <2>4. QED
    BY <2>1, <2>2, <2>3
<1>9. /\ token[p].family \in Tokens \ {c} /\ Exists(token[p].family)
      /\ \A t \in Tokens : t # c => token[t].parent \in Tokens \cup {NoToken} /\ token[t].parent # c
                                    /\ (Exists(t) => token[t].family \in Tokens \ {c})
  <2>1. FamilyOK(p)
    BY <1>2 DEF IInv
  <2>2. QED
    BY <1>2, <2>1, FreshIsAlone DEF FamilyOK
<1>10. TypeOK'
  <2>1. \A t \in Tokens : token'[t].parent # NoToken =>
          LET q == token'[token'[t].parent]
          IN  q.used /\ q.family = token'[t].family /\ q.user = token'[t].user
    <3>1. ASSUME NEW t \in Tokens, t # c, token[t].parent # NoToken
          PROVE  LET q == token'[token[t].parent]
                 IN  q.used /\ q.family = token[t].family /\ q.user = token[t].user
      <4>1. token[t].parent \in Tokens /\ token[t].parent # c
        BY <1>9, <3>1
      <4>2. LET q == token[token[t].parent]
            IN  q.used /\ q.family = token[t].family /\ q.user = token[t].user
        BY <3>1 DEF IInv, TypeOK
      <4>3. QED
        BY <1>6, <4>1, <4>2
    <3>2. token'[p].used /\ token'[p].family = token[p].family /\ token'[p].user = token[p].user
      BY <1>2, <1>6
    <3>3. QED
      BY <1>5, <1>6, <3>1, <3>2
  <2>2. QED
    BY <1>4, <1>7, <2>1, RestStep DEF IInv, TypeOK
<1>11. OneLiveToken'
  <2>1. \A t \in Tokens : t # c /\ Live(t)' => token[t].family # token[p].family
    BY <1>2, <1>8 DEF IInv, OneLiveToken
  <2>2. \A s, t \in Tokens : s # c /\ t # c /\ s # t /\ Live(s)' /\ Live(t)'
                                => token[s].family # token[t].family
    BY <1>8 DEF IInv, OneLiveToken
  <2>3. QED
    BY <1>5, <1>6, <2>1, <2>2 DEF OneLiveToken
<1>12. FamilyDiesWhole'
  <2>1. \A t \in Tokens : Exists(t) /\ token[t].family = token[p].family => ~token[t].revoked
    BY <1>2 DEF IInv, FamilyDiesWhole, Live
  <2>2. \A s, t \in Tokens : Exists(s) /\ Exists(t) /\ token[s].family = token[t].family
                                => token[s].revoked = token[t].revoked
    BY DEF IInv, FamilyDiesWhole
  <2>3. ASSUME NEW t \in Tokens, Exists(t)', token'[t].family = token[p].family
        PROVE  token'[t].revoked = FALSE
    <3>1. \A x \in Tokens : token'[x].revoked \in BOOLEAN
      BY <1>4 DEF Token
    <3>2. QED
      BY <1>5, <1>6, <1>8, <2>1, <2>3, <3>1
  <2>4. ASSUME NEW s \in Tokens, NEW t \in Tokens, Exists(s)', Exists(t)', token'[s].family = token'[t].family
        PROVE  token'[s].revoked = token'[t].revoked
    <3>1. CASE token'[s].family = token[p].family
      BY <2>3, <2>4, <3>1
    <3>2. CASE token'[s].family # token[p].family
      BY <1>5, <1>6, <1>8, <2>2, <2>4, <3>2
    <3>3. QED
      BY <3>1, <3>2
  <2>5. QED
    BY <2>4 DEF FamilyDiesWhole
<1>13. ReuseKillsFamily'
  <2>1. token[p].family \notin caught
    BY <1>2 DEF IInv, ReuseKillsFamily, Live
  <2>2. QED
    BY <1>5, <1>6, <1>7, <1>8, <2>1 DEF IInv, ReuseKillsFamily
<1>14. LiveIsCurrent'
  BY <1>5, <1>6, <1>7, <1>8 DEF IInv, LiveIsCurrent
<1>15. \A t \in Tokens : FamilyOK(t)'
  <2>1. FamilyOK(p)
    BY <1>2 DEF IInv
  <2>2. FamilyOK(c)'
    BY <1>2, <1>5, <1>6, <1>8, <1>9, <2>1 DEF FamilyOK
  <2>3. ASSUME NEW t \in Tokens, t # c PROVE FamilyOK(t)'
    BY <1>6, <1>8, <1>9, <2>3 DEF IInv, FamilyOK
  <2>4. QED
    BY <2>2, <2>3
<1>16. \A q \in Requests : RequestOK(q)'
  BY <1>7, <1>8, RestStep DEF RequestOK
<1>17. \A t \in caught' : Exists(t)'
  BY <1>7, <1>8 DEF IInv, TypeOK
<1>18. QED
  BY <1>7, <1>10, <1>11, <1>12, <1>13, <1>14, <1>15, <1>16, <1>17 DEF IInv

-----------------------------------------------------------------------------
(* The steps that change no token. *)
LEMMA QuietSteps ==
    ASSUME IInv,
           \/ \E r \in Requests :
                \/ \E u \in Users : LoginRead(r, u)
                \/ \E t \in Tokens : Present(r, t)
                \/ Login(r) /\ UNCHANGED token
                \/ Refuse(r) \/ DetectReuse(r) \/ Die(r)
           \/ \E u \in Users : Enable(u)
           \/ Tick
           \/ UNCHANGED vars
    PROVE  IInv'
<1>1. /\ now \in 0..LastTick /\ user \in [Users -> User] /\ request \in [Requests -> Request]
      /\ \A u \in Users : user[u] \in User /\ user[u].password <= user[u].epoch
      /\ \A r \in Requests : request[r] \in Request
      /\ \A r \in Requests : request[r].step \in {"resolved", "reused"} =>
            request[r].token \in Tokens /\ Exists(request[r].token)
  BY DEF IInv, TypeOK, RequestOK
<1>2. ASSUME NEW r \in Requests, NEW u \in Users, LoginRead(r, u) PROVE IInv'
  <2> DEFINE row == [step |-> "verified", user |-> u, token |-> NoToken, at |-> now,
                     enabled |-> user[u].enabled, password |-> user[u].password]
  <2>1. row \in Request /\ row.step = "verified"
    BY <1>1 DEF Request, User, Steps
  <2>2. request' = [request EXCEPT ![r] = row] /\ UNCHANGED <<now, user, token, caught>>
    BY <1>2 DEF LoginRead
  <2> HIDE DEF row
  <2>3. request' \in [Requests -> Request]
    BY <1>1, <2>1, <2>2
  <2>4. \A q \in Requests : request'[q].step \in {"resolved", "reused"} =>
            request'[q].token \in Tokens /\ Exists(request'[q].token)
    BY <1>1, <2>1, <2>2
  <2>5. QED
    BY <1>1, <2>2, <2>3, <2>4, QuietStep
<1>3. ASSUME NEW r \in Requests, NEW t \in Tokens, Present(r, t) PROVE IInv'
  <2> DEFINE row == [step |-> "resolved", user |-> token[t].user, token |-> t, at |-> now,
                     enabled |-> FALSE, password |-> 0]
  <2>1. token[t].user \in Users /\ Exists(t)
    BY <1>3 DEF IInv, TypeOK, Token, Present
  <2>2. row \in Request /\ row.token = t
    BY <1>1, <2>1, Constants DEF Request, Steps
  <2>3. request' = [request EXCEPT ![r] = row] /\ UNCHANGED <<now, user, token, caught>>
    BY <1>3 DEF Present
  <2> HIDE DEF row
  <2>4. request' \in [Requests -> Request]
    BY <1>1, <2>2, <2>3
  <2>5. \A q \in Requests : request'[q].step \in {"resolved", "reused"} =>
            request'[q].token \in Tokens /\ Exists(request'[q].token)
    BY <1>1, <2>1, <2>2, <2>3
  <2>6. QED
    BY <1>1, <2>3, <2>4, <2>5, QuietStep
<1>4. ASSUME NEW r \in Requests, Rest(r), UNCHANGED <<now, user, token, caught>> PROVE IInv'
  BY <1>1, <1>4, RestStep, QuietStep
<1>5. ASSUME NEW r \in Requests, DetectReuse(r) PROVE IInv'
  <2>1. request[r].step = "resolved" /\ UNCHANGED <<now, user, token, caught>>
    BY <1>5 DEF DetectReuse
  <2>2. request' = [request EXCEPT ![r].step = "reused"]
    BY <1>5 DEF DetectReuse
  <2>3. [request[r] EXCEPT !.step = "reused"] \in Request
    BY <1>1 DEF Request, Steps
  <2>4. request' \in [Requests -> Request]
    BY <1>1, <2>2, <2>3
  <2>5. \A q \in Requests : request'[q].token = request[q].token
                            /\ (q # r => request'[q].step = request[q].step)
    BY <1>1, <2>2 DEF Request
  <2>6. \A q \in Requests : request'[q].step \in {"resolved", "reused"} =>
            request'[q].token \in Tokens /\ Exists(request'[q].token)
    BY <1>1, <2>1, <2>5
  <2>7. QED
    BY <1>1, <2>1, <2>4, <2>6, QuietStep
<1>6. ASSUME NEW u \in Users, Enable(u) PROVE IInv'
  <2>1. user' = [user EXCEPT ![u].enabled = TRUE] /\ UNCHANGED <<now, token, request, caught>>
    BY <1>6 DEF Enable
  <2>2. [user[u] EXCEPT !.enabled = TRUE] \in User
    BY <1>1 DEF User
  <2>3. user' \in [Users -> User]
    BY <1>1, <2>1, <2>2
  <2>4. \A v \in Users : user'[v].password = user[v].password /\ user'[v].epoch = user[v].epoch
    BY <1>1, <2>1 DEF User
  <2>5. QED
    BY <1>1, <2>1, <2>3, <2>4, QuietStep
<1>7. ASSUME Tick PROVE IInv'
  BY <1>1, <1>7, Constants, QuietStep DEF Tick
<1>8. ASSUME UNCHANGED vars PROVE IInv'
  BY <1>1, <1>8, QuietStep DEF vars
<1>9. QED
  BY <1>2, <1>3, <1>4, <1>5, <1>6, <1>7, <1>8 DEF Login, Refuse, Die

(* The steps that revoke. *)
LEMMA RevokingSteps ==
    ASSUME IInv,
           \/ \E r \in Requests : RevokeReused(r)
           \/ \E t \in Tokens : Logout(t)
           \/ \E u \in Users : Disable(u) \/ ResetPassword(u)
    PROVE  IInv'
<1>1. /\ now \in 0..LastTick /\ user \in [Users -> User] /\ request \in [Requests -> Request]
      /\ \A u \in Users : user[u] \in User /\ user[u].password <= user[u].epoch
      /\ \A r \in Requests : request[r].step \in {"resolved", "reused"} =>
            request[r].token \in Tokens /\ Exists(request[r].token)
  BY DEF IInv, TypeOK, RequestOK
<1>2. ASSUME NEW r \in Requests, RevokeReused(r) PROVE IInv'
  <2>1. PICK f \in Tokens : f = request[r].token /\ Exists(f)
    BY <1>1, <1>2 DEF RevokeReused
  <2>2. /\ token' = Revoke(Family(f)) /\ caught' = caught \cup {token[f].family}
        /\ Rest(r) /\ now' = now /\ user' = user
    BY <1>2, <2>1 DEF RevokeReused, RevokedFamily
  <2>3. caught' \in SUBSET (caught \cup {token[s].family : s \in Family(f)})
    BY <2>1, <2>2, WholeFamily
  <2>4. QED
    BY <1>1, <2>1, <2>2, <2>3, WholeFamily, RestStep, Revocation
<1>3. ASSUME NEW f \in Tokens, Logout(f) PROVE IInv'
  <2>1. Exists(f) /\ token' = Revoke(Family(f)) /\ UNCHANGED <<now, user, request, caught>>
    BY <1>3 DEF Logout, RevokedFamily
  <2>2. QED
    BY <1>1, <2>1, WholeFamily, Revocation
<1>4. ASSUME NEW u \in Users, NEW row \in User, row.password <= row.epoch,
             EndSessions(u, row), UNCHANGED <<now, request, caught>>
      PROVE  IInv'
  <2>1. user' = [user EXCEPT ![u] = row] /\ token' = Revoke(TokensOf(u))
    BY <1>4 DEF EndSessions
  <2>2. user' \in [Users -> User] /\ \A v \in Users : user'[v].password <= user'[v].epoch
    BY <1>1, <1>4, <2>1
  <2>3. \A t \in Tokens \ TokensOf(u) : Live(t) => token[t].user \in Users \ {u}
    BY DEF TokensOf, Live, IInv, TypeOK, Token
  <2>4. \A t \in Tokens \ TokensOf(u) : Live(t) => user'[token[t].user].epoch = user[token[t].user].epoch
    BY <1>1, <2>1, <2>3
  <2>5. caught' \in SUBSET (caught \cup {token[s].family : s \in TokensOf(u)})
    BY <1>4
  <2>6. QED
    BY <1>1, <1>4, <2>1, <2>2, <2>4, <2>5, WholeUser, Revocation
<1>5. ASSUME NEW u \in Users, Disable(u) PROVE IInv'
  <2> DEFINE row == [enabled |-> FALSE, password |-> user[u].password, epoch |-> user[u].epoch + 1]
  <2>1. row \in User /\ row.password <= row.epoch
    BY <1>1, <1>5, Constants DEF User, Disable
  <2>2. EndSessions(u, row) /\ UNCHANGED <<now, request, caught>>
    BY <1>5 DEF Disable
  <2> HIDE DEF row
  <2>3. QED
    BY <1>4, <2>1, <2>2
<1>6. ASSUME NEW u \in Users, ResetPassword(u) PROVE IInv'
  <2> DEFINE row == [enabled |-> user[u].enabled, password |-> user[u].password + 1,
                     epoch |-> user[u].epoch + 1]
  <2>1. row \in User /\ row.password <= row.epoch
    BY <1>1, <1>6, Constants DEF User, ResetPassword
  <2>2. EndSessions(u, row) /\ UNCHANGED <<now, request, caught>>
    BY <1>6 DEF ResetPassword
  <2> HIDE DEF row
  <2>3. QED
    BY <1>4, <2>1, <2>2
<1>7. QED
  BY <1>2, <1>3, <1>5, <1>6

LEMMA NextStep == IInv /\ [Next]_vars => IInv'
<1>1. ASSUME IInv, NEW r \in Requests, Login(r) PROVE IInv'
  BY <1>1, LoginStep, QuietSteps DEF Login, Fresh
<1>2. QED
  BY <1>1, RotateStep, QuietSteps, RevokingSteps DEF Next

LEMMA Inductive == Spec => []IInv
  BY InitStep, NextStep, PTL DEF Spec

-----------------------------------------------------------------------------
(* Rows stay within their columns, and a child has the family and the user of
   its used parent. *)
THEOREM TypeCorrect == Spec => []TypeOK
<1>1. IInv => TypeOK
  BY DEF IInv
<1>2. QED
  BY <1>1, Inductive, PTL

(* Of each family at most one token can be exchanged, however refreshes,
   revocations and deaths of requests interleave. *)
THEOREM OneOfEachFamily == Spec => []OneLiveToken
<1>1. IInv => OneLiveToken
  BY DEF IInv
<1>2. QED
  BY <1>1, Inductive, PTL

(* A revocation that races rotations leaves no member of the family behind. *)
THEOREM FamiliesDieWhole == Spec => []FamilyDiesWhole
<1>1. IInv => FamilyDiesWhole
  BY DEF IInv
<1>2. QED
  BY <1>1, Inductive, PTL

(* A reuse that was answered has killed its family for good. *)
THEOREM ReuseIsFatal == Spec => []ReuseKillsFamily
<1>1. IInv => ReuseKillsFamily
  BY DEF IInv
<1>2. QED
  BY <1>1, Inductive, PTL

(* Disabling a user or resetting a password ends every session there was, and
   no rotation stretches one beyond FamilyTtl after its login. *)
THEOREM NoEndlessSession == Spec => []SessionsEnd
<1>1. ASSUME IInv PROVE SessionsEnd
  <2>1. ASSUME NEW t \in Tokens, Exists(t)
        PROVE  token[t].expires <= token[token[t].family].expires - TokenTtl + FamilyTtl
    BY <1>1, <2>1 DEF IInv, FamilyOK
  <2>2. QED
    BY <1>1, <2>1 DEF IInv, LiveIsCurrent, SessionsEnd
<1>2. QED
  BY <1>1, Inductive, PTL
-----------------------------------------------------------------------------
(* The implementation keeps the promise.  Members says who is in a family. *)
LEMMA Members ==
    ASSUME NEW f \in Tokens, NEW t
    PROVE  t \in issued[f] <=> t \in Tokens /\ Exists(t) /\ token[t].family = f
  BY DEF issued

(* Families end as a whole, so the live tokens are those of families that have not ended. *)
LEMMA LiveIsNotOver ==
    ASSUME IInv, NEW t \in Tokens, Exists(t)
    PROVE  token[t].family \in over <=> token[t].revoked
  BY DEF IInv, FamilyDiesWhole, over

LEMMA OpenedFamily ==
    ASSUME IInv, NEW t \in Tokens, Exists(t)
    PROVE  token[t].family \in Promise!Opened
<1>1. token[t].family \in Tokens
  BY DEF IInv, FamilyOK
<1>2. t \in issued[token[t].family]
  BY <1>1, Members
<1>3. QED
  BY <1>1, <1>2 DEF Promise!Opened

LEMMA InitPromise == Init => Promise!Init
<1>1. SUFFICES ASSUME Init PROVE Promise!Init
  OBVIOUS
<1>2. \A t \in Tokens : ~Exists(t)
  BY <1>1 DEF Init, Exists, AbsentToken
<1>3. live = {} /\ spent = {} /\ over = {} /\ issued = [f \in Tokens |-> {}]
  BY <1>2 DEF live, spent, over, issued, Live
<1>4. QED
  BY <1>1, <1>3 DEF Promise!Init, Init

(* A used token stays used, so a request that found one can answer for it later. *)
SpentOK == \A r \in Requests : request[r].step = "reused" => token[request[r].token].used

LEMMA UsedStays ==
    ASSUME IInv, [Next]_vars, NEW t \in Tokens, token[t].used, Exists(t)
    PROVE  token'[t].used
<1>1. ASSUME NEW S \in SUBSET Tokens, token' = Revoke(S) PROVE token'[t].used
  BY <1>1, RevokedRows DEF IInv, TypeOK
<1>2. ASSUME NEW r \in Requests, Rotate(r) PROVE token'[t].used
  <2>1. PICK p, c \in Tokens : Rotated(p, c)
    BY <1>2, RotatedRows
  <2>2. t # c
    BY <2>1 DEF Rotated
  <2>3. token'[t].used = (t = p \/ token[t].used)
    BY <2>1, <2>2 DEF Rotated
  <2>4. QED
    BY <2>3
<1>3. ASSUME NEW r \in Requests, Login(r) PROVE token'[t].used
  <2>1. ASSUME NEW c \in Tokens, Fresh(c), token' = [token EXCEPT ![c] = NewFamily(c, r)]
        PROVE  token'[t].used
    <3>1. c # t
      BY <2>1 DEF Fresh
    <3>2. QED
      BY <2>1, <3>1
  <2>2. QED
    BY <1>3, <2>1 DEF Login
<1>4. ASSUME NEW r \in Requests, RevokeReused(r) PROVE token'[t].used
  BY <1>1, <1>4 DEF RevokeReused, RevokedFamily, Family
<1>5. ASSUME NEW f \in Tokens, Logout(f) PROVE token'[t].used
  BY <1>1, <1>5 DEF Logout, RevokedFamily, Family
<1>6. ASSUME NEW u \in Users, Disable(u) \/ ResetPassword(u) PROVE token'[t].used
  BY <1>1, <1>6 DEF Disable, ResetPassword, EndSessions, TokensOf
<1>7. ASSUME UNCHANGED token PROVE token'[t].used
  BY <1>7
<1>8. QED
  BY <1>2, <1>3, <1>4, <1>5, <1>6, <1>7
     DEF Next, vars, LoginRead, Present, Refuse, DetectReuse, Die, Enable, Tick

LEMMA SpentStep == IInv /\ SpentOK /\ [Next]_vars => SpentOK'
<1>1. SUFFICES ASSUME IInv, SpentOK, [Next]_vars, NEW r \in Requests, request'[r].step = "reused"
               PROVE  token'[request'[r].token].used
  BY DEF SpentOK
<1>2. ASSUME request[r].step = "reused", request'[r].token = request[r].token PROVE token'[request'[r].token].used
  BY <1>1, <1>2, UsedStays DEF SpentOK, IInv, RequestOK
<1>3. request \in [Requests -> Request]
  BY <1>1 DEF IInv, TypeOK
<1>4. ASSUME NEW q \in Requests, request' = [request EXCEPT ![q] = IdleRequest]
      PROVE  token'[request'[r].token].used
  BY <1>1, <1>2, <1>3, <1>4 DEF IdleRequest
<1>5. ASSUME NEW q \in Requests, NEW u \in Users, LoginRead(q, u) PROVE token'[request'[r].token].used
  BY <1>1, <1>2, <1>3, <1>5 DEF LoginRead
<1>6. ASSUME NEW q \in Requests, NEW t \in Tokens, Present(q, t) PROVE token'[request'[r].token].used
  BY <1>1, <1>2, <1>3, <1>6 DEF Present
<1>7. ASSUME NEW q \in Requests, DetectReuse(q) PROVE token'[request'[r].token].used
  <2>1. request'[r].token = request[r].token /\ (r # q => request[r].step = "reused")
    BY <1>1, <1>3, <1>7 DEF DetectReuse, Request
  <2>2. CASE r = q
    BY <1>7, <2>1, <2>2 DEF DetectReuse
  <2>3. QED
    BY <1>2, <2>1, <2>2
<1>8. ASSUME request' = request PROVE token'[request'[r].token].used
  BY <1>1, <1>2, <1>8
<1>9. QED
  BY <1>1, <1>4, <1>5, <1>6, <1>7, <1>8
     DEF Next, vars, Login, Rotate, Refuse, RevokeReused, Die, Rest, Logout, Disable, ResetPassword, Enable, Tick

(* The outside view of a revocation of whole families. *)
LEMMA RevocationSeen ==
    ASSUME IInv, IInv', NEW S \in SUBSET Tokens,
           \A s \in S : Exists(s),
           \A s \in S, t \in Tokens : Exists(t) /\ token[t].family = token[s].family => t \in S,
           token' = Revoke(S)
    PROVE  /\ issued' = issued /\ spent' = spent
           /\ over' = over \cup {token[s].family : s \in S}
           /\ live' = live \ S
<1>1. \A t \in Tokens :
        /\ token'[t].exists = token[t].exists /\ token'[t].family = token[t].family
        /\ token'[t].used = token[t].used
        /\ token'[t].revoked = (t \in S \/ token[t].revoked)
  BY RevokedRows DEF IInv, TypeOK
<1>2. \A t \in Tokens : Exists(t)' <=> Exists(t)
  BY <1>1 DEF Exists
<1>3. issued' = issued /\ spent' = spent
  BY <1>1, <1>2 DEF issued, spent
<1>4. over' = over \cup {token[s].family : s \in S}
  <2>1. \A t \in Tokens :
          Exists(t)' /\ token'[t].revoked <=> t \in S \/ (Exists(t) /\ token[t].revoked)
    BY <1>1, <1>2
  <2>2. over' = {token'[t].family : t \in {s \in Tokens : Exists(s)' /\ token'[s].revoked}}
    BY DEF over
  <2>3. \A f : f \in over' <=> \E t \in Tokens : Exists(t)' /\ token'[t].revoked /\ f = token'[t].family
    BY <2>2
  <2>4. \A f : f \in over <=> \E t \in Tokens : Exists(t) /\ token[t].revoked /\ f = token[t].family
    BY DEF over
  <2>5. \A f : f \in over' <=> f \in over \/ \E s \in S : f = token[s].family
    BY <1>1, <2>1, <2>3, <2>4
  <2>6. QED
    BY <2>5
<1>5. live' = live \ S
  BY <1>1, <1>2 DEF live, Live
<1>6. QED
  BY <1>3, <1>4, <1>5

LEMMA RevocationEnds ==
    ASSUME IInv, IInv', NEW S \in SUBSET Tokens,
           \A s \in S : Exists(s),
           \A s \in S, t \in Tokens : Exists(t) /\ token[t].family = token[s].family => t \in S,
           token' = Revoke(S), caught' = caught
    PROVE  Promise!End
<1>1. /\ issued' = issued /\ spent' = spent
      /\ over' = over \cup {token[s].family : s \in S}
      /\ live' = live \ S
  BY RevocationSeen
<1>2. Promise!Opened' = Promise!Opened
  BY <1>1 DEF Promise!Opened
<1>3. over' \in SUBSET Promise!Opened'
  BY <1>1, <1>2, OpenedFamily DEF over
<1>4. over' \subseteq Tokens
  BY DEF over, IInv, FamilyOK
<1>5. ASSUME NEW t \in live
      PROVE  t \in S <=> t \in UNION {issued[f] : f \in over' \ over}
  <2>1. t \in Tokens /\ Exists(t) /\ token[t].family \notin over /\ token[t].family \in Tokens
    BY <1>5, LiveIsNotOver DEF live, Live, IInv, FamilyOK
  <2>2. \A f \in Tokens : t \in issued[f] <=> token[t].family = f
    BY <2>1, Members
  <2>3. t \in UNION {issued[f] : f \in over' \ over} <=> token[t].family \in over'
    BY <1>4, <2>1, <2>2
  <2>4. t \in S <=> token[t].family \in {token[s].family : s \in S}
    BY <2>1
  <2>5. QED
    BY <1>1, <2>1, <2>3, <2>4
<1>6. live' = live \ UNION {issued[f] : f \in over' \ over}
  BY <1>1, <1>5
<1>7. QED
  BY <1>1, <1>2, <1>3, <1>6 DEF Promise!End

LEMMA ReuseAnswers ==
    ASSUME IInv, IInv', SpentOK, NEW r \in Requests, RevokeReused(r)
    PROVE  Promise!Next
<1>1. PICK p \in Tokens : p = request[r].token /\ Exists(p) /\ token[p].used
  BY DEF RevokeReused, IInv, RequestOK, SpentOK
<1>2. token' = Revoke(Family(p)) /\ caught' = caught \cup {token[p].family}
  BY <1>1 DEF RevokeReused, RevokedFamily
<1>3. /\ issued' = issued /\ spent' = spent
      /\ over' = over \cup {token[s].family : s \in Family(p)}
      /\ live' = live \ Family(p)
  BY <1>1, <1>2, WholeFamily, RevocationSeen
<1>4. token[p].family \in Tokens /\ Family(p) = issued[token[p].family]
  BY <1>1 DEF Family, issued, IInv, FamilyOK
<1>5. {token[s].family : s \in Family(p)} = {token[p].family}
  BY <1>1, WholeFamily
<1>6. p \in issued[token[p].family] \cap spent
  BY <1>1, <1>4, WholeFamily DEF spent
<1>7. Promise!Answer(token[p].family)
  BY <1>2, <1>3, <1>4, <1>5, <1>6 DEF Promise!Answer
<1>8. QED
  BY <1>4, <1>7 DEF Promise!Next

(* An id that is not in use is new to everybody. *)
LEMMA FreshIsNew == ASSUME NEW c \in Tokens, ~Exists(c) PROVE Promise!New(c)
  BY Members DEF Promise!New

LEMMA RotationExchanges ==
    ASSUME IInv, NEW r \in Requests, Rotate(r)
    PROVE  Promise!Next
<1>1. PICK p, c \in Tokens : Rotated(p, c)
  BY RotatedRows
<1> DEFINE f == token[p].family
<1>2. f \in Tokens /\ p \in live /\ p \in issued[f] /\ f \notin over /\ Promise!New(c)
  BY <1>1, Members, LiveIsNotOver, FreshIsNew DEF Rotated, live, Live, IInv, FamilyOK
<1>3. /\ Exists(c)' /\ Live(c)' /\ token'[c].family = f /\ ~token'[c].used
      /\ \A t \in Tokens : t # c =>
            /\ Exists(t)' <=> Exists(t)
            /\ token'[t].family = token[t].family
            /\ token'[t].revoked = token[t].revoked
            /\ token'[t].used = (t = p \/ token[t].used)
  BY <1>1 DEF Rotated, Exists, Live
<1>4. p # c /\ Exists(p) /\ ~Exists(c)
  BY <1>1 DEF Rotated
<1>5. issued' = [issued EXCEPT ![f] = @ \cup {c}]
  <2>1. ASSUME NEW g \in Tokens, g # f PROVE issued'[g] = issued[g]
    BY <1>3, <1>4, <2>1 DEF issued
  <2>2. issued'[f] = issued[f] \cup {c}
    BY <1>2, <1>3, <1>4 DEF issued
  <2>3. issued' = [g \in Tokens |-> issued'[g]] /\ issued = [g \in Tokens |-> issued[g]]
    BY DEF issued
  <2>4. QED
    BY <1>2, <2>1, <2>2, <2>3
<1>6. live' = (live \ {p}) \cup {c}
  <2>1. ASSUME NEW t \in Tokens, t # c PROVE Live(t)' <=> Live(t) /\ t # p
    BY <1>3, <2>1 DEF Live
  <2>2. QED
    BY <1>3, <1>4, <2>1 DEF live, Live
<1>7. spent' = spent \cup {p}
  BY <1>3, <1>4 DEF spent
<1>8. over' = over
  <2>1. ASSUME NEW t \in Tokens, Exists(t)', token'[t].revoked
        PROVE  t # c /\ Exists(t) /\ token[t].revoked
    BY <1>3, <2>1 DEF Live
  <2>2. ASSUME NEW t \in Tokens, Exists(t), token[t].revoked
        PROVE  Exists(t)' /\ token'[t].revoked /\ token'[t].family = token[t].family
    BY <1>3, <1>4, <2>2
  <2>3. QED
    BY <2>1, <2>2 DEF over
<1>9. caught' = caught
  BY DEF Rotate
<1> HIDE DEF f
<1>10. Promise!Exchange(f, p, c)
  BY <1>2, <1>5, <1>6, <1>7, <1>8, <1>9 DEF Promise!Exchange
<1>11. QED
  BY <1>2, <1>10 DEF Promise!Next

LEMMA LoginOpens ==
    ASSUME IInv, NEW r \in Requests, NEW c \in Tokens, ~Exists(c),
           token' = [token EXCEPT ![c] = NewFamily(c, r)], caught' = caught
    PROVE  Promise!Next
<1>1. /\ token'[c].exists /\ token'[c].family = c /\ ~token'[c].used /\ ~token'[c].revoked
      /\ \A t \in Tokens : t # c => token'[t] = token[t]
  BY DEF NewFamily, IInv, TypeOK
<1>2. /\ Exists(c)' /\ Live(c)'
      /\ \A t \in Tokens : t # c => (Exists(t)' <=> Exists(t)) /\ (Live(t)' <=> Live(t))
  BY <1>1 DEF Exists, Live
<1>3. \A t \in Tokens : Exists(t) => token[t].family # c
  BY DEF IInv, FamilyOK
<1>4. Promise!New(c) /\ issued[c] = {} /\ c \notin over
  BY <1>3, FreshIsNew DEF issued, over
<1>5. issued' = [issued EXCEPT ![c] = {c}]
  <2>1. ASSUME NEW g \in Tokens, g # c PROVE issued'[g] = issued[g]
    BY <1>1, <1>2, <2>1 DEF issued
  <2>2. issued'[c] = {c}
    BY <1>1, <1>2, <1>3 DEF issued
  <2>3. issued' = [g \in Tokens |-> issued'[g]] /\ issued = [g \in Tokens |-> issued[g]]
    BY DEF issued
  <2>4. QED
    BY <2>1, <2>2, <2>3
<1>6. live' = live \cup {c}
  BY <1>2 DEF live
<1>7. spent' = spent
  BY <1>1, <1>2 DEF spent
<1>8. over' = over
  BY <1>1, <1>2 DEF over
<1>9. Promise!Open(c)
  BY <1>4, <1>5, <1>6, <1>7, <1>8 DEF Promise!Open
<1>10. QED
  BY <1>9 DEF Promise!Next

(* Every step of Sessions is one step of the promise, or none. *)
LEMMA NextPromise ==
    ASSUME IInv, IInv', SpentOK, [Next]_vars
    PROVE  [Promise!Next]_(Promise!State)
<1>1. ASSUME token' = token, caught' = caught PROVE UNCHANGED Promise!State
  BY <1>1 DEF Promise!State, issued, live, spent, over, Exists, Live
<1>2. ASSUME NEW r \in Requests, Login(r) PROVE [Promise!Next]_(Promise!State)
  <2>1. CASE \E c \in Tokens : Fresh(c) /\ token' = [token EXCEPT ![c] = NewFamily(c, r)]
    BY <1>2, <2>1, LoginOpens DEF Login, Fresh
  <2>2. QED
    BY <1>1, <1>2, <2>1 DEF Login
<1>3. ASSUME NEW f \in Tokens, Logout(f) PROVE Promise!Next
  <2>1. Promise!End
    BY <1>3, WholeFamily, RevocationEnds DEF Logout, RevokedFamily
  <2>2. QED
    BY <2>1 DEF Promise!Next
<1>4. ASSUME NEW u \in Users, Disable(u) \/ ResetPassword(u) PROVE Promise!Next
  <2>1. Promise!End
    BY <1>4, WholeUser, RevocationEnds DEF Disable, ResetPassword, EndSessions
  <2>2. QED
    BY <2>1 DEF Promise!Next
<1>5. QED
  BY <1>1, <1>2, <1>3, <1>4, RotationExchanges, ReuseAnswers
     DEF Next, vars, LoginRead, Present, Refuse, DetectReuse, Die, Enable, Tick

(* The refresh endpoint, with its rollback between finding a reused token and
   revoking, and every other transaction that changes tokens implement
   RefreshPromise: exchanged once and for one other, ended as a whole and for ever. *)
THEOREM SessionsKeepPromise == Spec => KeepsPromise
<1>1. Init => SpentOK
  BY DEF Init, SpentOK, IdleRequest
<1>2. IInv /\ IInv' /\ SpentOK /\ [Next]_vars => [Promise!Next]_(Promise!State)
  BY NextPromise
<1>3. QED
  BY <1>1, <1>2, InitPromise, Inductive, SpentStep, PTL DEF Spec, KeepsPromise, Promise!Spec
=============================================================================
