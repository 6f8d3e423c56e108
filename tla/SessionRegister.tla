--------------------------- MODULE SessionRegister ---------------------------
(***************************************************************************)
(* What User.hashedRt promises (docs/security-baseline.md, "Tokens And     *)
(* Sessions"): an account accepts at most one refresh token at a time, a   *)
(* token becomes acceptable at most once, and one that was replaced or     *)
(* cleared is never accepted again.                                        *)
(***************************************************************************)
EXTENDS TLAPS

CONSTANTS Users, Tokens, None

VARIABLES
    current,    \* the token each account accepts, or None
    spent       \* tokens that were accepted once and are no longer

registerVars == <<current, spent>>

RegisterInit ==
    /\ current = [u \in Users |-> None]
    /\ spent = {}

(* The account u accepts the token t from now on, and only that one. *)
Install(u, t) ==
    /\ t \notin spent
    /\ \A v \in Users : current[v] # t
    /\ current' = [current EXCEPT ![u] = t]
    /\ spent' = spent \cup ({current[u]} \ {None})

(* The account u accepts no token. *)
Drop(u) ==
    /\ current' = [current EXCEPT ![u] = None]
    /\ spent' = spent \cup ({current[u]} \ {None})

RegisterNext ==
    \E u \in Users :
        \/ \E t \in Tokens : Install(u, t)
        \/ Drop(u)

RegisterSpec == RegisterInit /\ [][RegisterNext]_registerVars

(* A token that was replaced or cleared is accepted for no account, and no *)
(* two accounts accept the same token (security-baseline.md: a refresh     *)
(* token that no longer matches the stored hash is reuse).                 *)
SpentIsFinal == \A u \in Users :
    /\ current[u] \notin spent
    /\ \A v \in Users \ {u} : current[u] = current[v] => current[u] = None

THEOREM RegisterKeepsSpent == RegisterSpec => []SpentIsFinal
<1> DEFINE IInv == SpentIsFinal /\ DOMAIN current = Users /\ None \notin spent
<1>1. RegisterInit => IInv
  BY DEF RegisterInit, SpentIsFinal
<1>2. IInv /\ [RegisterNext]_registerVars => IInv'
  <2> SUFFICES ASSUME IInv, [RegisterNext]_registerVars PROVE IInv'
    OBVIOUS
  <2>1. ASSUME NEW u \in Users, NEW t \in Tokens, Install(u, t) PROVE IInv'
    BY <2>1 DEF Install, SpentIsFinal
  <2>2. ASSUME NEW u \in Users, Drop(u) PROVE IInv'
    BY <2>2 DEF Drop, SpentIsFinal
  <2>3. CASE UNCHANGED registerVars
    BY <2>3 DEF registerVars, SpentIsFinal
  <2> QED
    BY <2>1, <2>2, <2>3 DEF RegisterNext
<1> QED
  BY <1>1, <1>2, PTL DEF RegisterSpec

=============================================================================
