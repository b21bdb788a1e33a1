--------------------------- MODULE RefreshPromise ---------------------------
(***************************************************************************)
(* What refresh tokens promise to who holds one and to who has lost one.   *)
(* A login opens a family with one live token.  A live token is exchanged  *)
(* for ONE other, at once and once only.  A family ends as a whole and for *)
(* ever, whoever is just exchanging; and when a spent token shows up and   *)
(* is answered, its family has ended.  There are no rows, clocks,          *)
(* accounts, transactions or requests that die half way.                   *)
(***************************************************************************)
CONSTANT Tokens

VARIABLES
    issued,         \* the tokens of each family; a family is named after its first
    live,           \* those that can be exchanged
    spent,          \* those that were
    over,           \* the families that have ended
    caught          \* the families of which a spent token was answered

State == <<issued, live, spent, over, caught>>

New(t) == \A f \in Tokens : t \notin issued[f]
Opened == {f \in Tokens : issued[f] # {}}

Open(f) ==
    /\ New(f) /\ issued[f] = {} /\ f \notin over
    /\ issued' = [issued EXCEPT ![f] = {f}]
    /\ live' = live \cup {f}
    /\ UNCHANGED <<spent, over, caught>>

Exchange(f, t, c) ==
    /\ t \in issued[f] \cap live /\ f \notin over
    /\ New(c)
    /\ issued' = [issued EXCEPT ![f] = @ \cup {c}]
    /\ live' = (live \ {t}) \cup {c}
    /\ spent' = spent \cup {t}
    /\ UNCHANGED <<over, caught>>

(* A logout ends one family, the end of an account's sessions all of its own. *)
End ==
    /\ over' \in SUBSET Opened /\ over \subseteq over'
    /\ live' = live \ UNION {issued[f] : f \in over' \ over}
    /\ UNCHANGED <<issued, spent, caught>>

Answer(f) ==
    /\ issued[f] \cap spent # {}
    /\ caught' = caught \cup {f}
    /\ over' = over \cup {f}
    /\ live' = live \ issued[f]
    /\ UNCHANGED <<issued, spent>>

Init ==
    /\ issued = [f \in Tokens |-> {}]
    /\ live = {} /\ spent = {} /\ over = {} /\ caught = {}

Next ==
    \/ \E f \in Tokens : Open(f) \/ Answer(f)
    \/ \E t \in live, f, c \in Tokens : Exchange(f, t, c)
    \/ End

Spec == Init /\ [][Next]_State
=============================================================================
