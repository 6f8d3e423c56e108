-------------------------- MODULE AuthSessionProofs --------------------------
(***************************************************************************)
(* Proofs about AuthSession, for every set of users, calls and passwords.  *)
(***************************************************************************)
EXTENDS AuthSession, TLAPS

(* A call that issues a token, or gives one back, knows its session.       *)
NamedSteps == {"store", "record", "log", "clear", "returned"}
SessionsNamed == \A c \in Calls : pc[c] \in NamedSteps => call[c].session \in Calls

TypeInv == TypeOK /\ SessionsNamed

----------------------------------------------------------------------------
(* What the two ways a call moves do to its bookkeeping.                   *)

LEMMA BeginCall ==
    ASSUME TypeInv, NEW c \in Calls, NEW kind \in Kinds, NEW u \in Users,
           NEW pw \in Passwords \cup {None}, NEW session \in Calls \cup {None},
           NEW step \in Steps \ {"idle"}, Begin(c, kind, u, pw, session, step),
           step \in NamedSteps => session \in Calls
    PROVE  /\ pc[c] = "idle" /\ pc' = [pc EXCEPT ![c] = step] /\ pc'[c] = step
           /\ call'[c].kind = kind /\ call'[c].user = u /\ call'[c].session = session
           /\ \A d \in Calls \ {c} : call'[d] = call[d] /\ pc'[d] = pc[d]
           /\ call[c] = NoCall
           /\ pc' \in [Calls -> Steps]
           /\ call' \in [Calls -> CallState]
           /\ \A d \in Calls : IF pc'[d] = "idle" THEN call'[d] = NoCall
                               ELSE call'[d].user \in Users
           /\ SessionsNamed'
  BY DEF TypeInv, TypeOK, Begin, CallState, SessionsNamed, NamedSteps

LEMMA ContinueCall ==
    ASSUME TypeInv, NEW c \in Calls, NEW step \in Steps \ {"idle"},
           pc[c] \in Running, Continue(c, step), step \in NamedSteps => pc[c] \in NamedSteps
    PROVE  /\ pc' = [pc EXCEPT ![c] = step] /\ call' = call
           /\ pc' \in [Calls -> Steps]
           /\ \A d \in Calls : IF pc'[d] = "idle" THEN call[d] = NoCall
                               ELSE call[d].user \in Users
           /\ SessionsNamed'
  BY DEF TypeInv, TypeOK, Continue, Running, SessionsNamed, NamedSteps

LEMMA RevokeTypes ==
    ASSUME TypeInv, NEW u \in Users, NEW sessions \in SUBSET Calls, Revoke(u, sessions)
    PROVE  /\ hashedRt' \in [Users -> Calls \cup {None}]
           /\ spent' \subseteq Calls /\ revoked' \subseteq Calls /\ overtaken' \subseteq Calls
  BY DEF TypeInv, TypeOK, Revoke, SetHashedRt, StoringCalls

----------------------------------------------------------------------------
(* The initial states have the types, and every step keeps them.           *)

LEMMA InitTypes == Init => TypeInv
  BY SessionConstants DEF Init, TypeInv, TypeOK, CallState, NoCall, Steps, SessionsNamed, NamedSteps

LEMMA BeginTypes ==
    ASSUME TypeInv, NEW c \in Calls, NEW kind \in Kinds, NEW u \in Users,
           NEW pw \in Passwords \cup {None}, NEW session \in Calls \cup {None},
           NEW step \in Steps \ {"idle"}, Begin(c, kind, u, pw, session, step),
           step \in NamedSteps => session \in Calls,
           UNCHANGED <<hashedRt, lastLogin, adminActs, historyVars>>,
           account' \in [Users -> {"absent", "active", "disabled", "removed"}],
           password' \in [Users -> Passwords \cup {None}],
           loginLog' \subseteq Calls
    PROVE  TypeInv'
  BY BeginCall DEF TypeInv, TypeOK, historyVars

LEMMA IssueTypes ==
    ASSUME TypeInv, NEW c \in Calls, IssueStep(c)
    PROVE  TypeInv'
  <1> USE DEF Steps, Kinds, NamedSteps
  <1>1. ASSUME NEW u \in Users, NEW pw \in Passwords, LoginRead(c, u, pw) PROVE TypeInv'
    BY <1>1, BeginTypes DEF LoginRead, rowVars, TypeInv, TypeOK
  <1>2. ASSUME NEW u \in Users, NEW pw \in Passwords, LoginRefused(c, u, pw) PROVE TypeInv'
    BY <1>2, BeginTypes DEF LoginRefused, TypeInv, TypeOK
  <1>3. ASSUME NEW u \in Users, NEW pw \in Passwords, Register(c, u, pw) PROVE TypeInv'
    BY <1>3, BeginTypes DEF Register, TypeInv, TypeOK
  <1>4. ASSUME NEW u \in Users, MiniprogramLogin(c, u) PROVE TypeInv'
    BY <1>4, BeginTypes DEF MiniprogramLogin, TypeInv, TypeOK
  <1>5. ASSUME NEW t \in Returned, RefreshRead(c, t) PROVE TypeInv'
    <2>1. t \in Calls /\ call[t].user \in Users /\ call[t].session \in Calls
      BY DEF TypeInv, TypeOK, Returned, SessionsNamed, NamedSteps
    <2> QED
      BY <1>5, <2>1, BeginTypes DEF RefreshRead, rowVars, TypeInv, TypeOK
  <1>6. CASE StoreToken(c)
    BY <1>6, ContinueCall DEF StoreToken, SetHashedRt, TypeInv, TypeOK, Running
  <1>7. CASE RecordSuccessfulLogin(c)
    BY <1>7, ContinueCall DEF RecordSuccessfulLogin, TypeInv, TypeOK, Running, historyVars
  <1>8. CASE RecordLoginLog(c)
    BY <1>8, ContinueCall DEF RecordLoginLog, TypeInv, TypeOK, Running, historyVars
  <1> QED
    BY <1>1, <1>2, <1>3, <1>4, <1>5, <1>6, <1>7, <1>8 DEF IssueStep

LEMMA EndTypes ==
    ASSUME TypeInv, NEW c \in Calls, EndStep(c) \/ Fail(c)
    PROVE  TypeInv'
  <1> USE DEF Steps, Kinds, NamedSteps
  <1>0. ASSUME NEW t \in Returned
        PROVE  t \in Calls /\ call[t].user \in Users /\ call[t].session \in Calls
    BY DEF TypeInv, TypeOK, Returned, SessionsNamed, NamedSteps
  <1>1. ASSUME NEW t \in Returned, LogoutRead(c, t) PROVE TypeInv'
    BY <1>0, <1>1, BeginTypes DEF LogoutRead, rowVars, TypeInv, TypeOK
  <1>2. ASSUME NEW t \in Returned, NEW old \in Passwords, NEW new \in Passwords,
               ChangePasswordRead(c, t, old, new)
        PROVE  TypeInv'
    BY <1>0, <1>2, BeginTypes DEF ChangePasswordRead, rowVars, TypeInv, TypeOK
  <1>3. CASE ClearUserToken(c)
    <2>1. call[c].user \in Users
      BY <1>3 DEF TypeInv, TypeOK, ClearUserToken
    <2>2. (IF call[c].kind = "logout" THEN {call[c].session} ELSE StoredSession(call[c].user))
             \subseteq Calls
      BY <1>3 DEF TypeInv, SessionsNamed, ClearUserToken, StoredSession
    <2> QED
      BY <1>3, <2>1, <2>2, ContinueCall, RevokeTypes DEF ClearUserToken, TypeInv, TypeOK, Running
  <1>4. CASE ChangePasswordWrite(c)
    <2>1. call[c].user \in Users /\ call[c].password \in Passwords \cup {None}
      BY <1>4 DEF TypeInv, TypeOK, CallState, ChangePasswordWrite
    <2> QED
      BY <1>4, <2>1, ContinueCall, RevokeTypes
         DEF ChangePasswordWrite, EndAllSessions, SessionsOf, TypeInv, TypeOK, Running
  <1>5. CASE Fail(c)
    BY <1>5, ContinueCall DEF Fail, TypeInv, TypeOK, rowVars, historyVars
  <1> QED
    BY <1>1, <1>2, <1>3, <1>4, <1>5 DEF EndStep

LEMMA AdminTypes ==
    ASSUME TypeInv, AdminStep
    PROVE  TypeInv'
  <1>0. ASSUME AdminAct
        PROVE  adminActs' \in 0..MaxAdminActs /\ pc' = pc /\ call' = call /\ SessionsNamed'
    BY <1>0, SessionConstants DEF AdminAct, TypeInv, TypeOK, SessionsNamed
  <1>1. PICK u \in Users, admin \in Admins, status \in {"active", "disabled"} :
        \/ \E pw \in Passwords : CreateUser(u, pw, status) \/ ResetPassword(u, pw)
        \/ UpdateUserStatus(admin, u, status)
        \/ \E pw \in Passwords \cup {None} :
            UpdateUser(u, pw, status) \/ UpdateUser(u, pw, None)
        \/ RemoveUser(admin, u)
    BY DEF AdminStep
  <1>2. ASSUME EndAllSessions(u)
        PROVE  /\ hashedRt' \in [Users -> Calls \cup {None}]
               /\ spent' \subseteq Calls /\ revoked' \subseteq Calls /\ overtaken' \subseteq Calls
    BY <1>2, RevokeTypes DEF EndAllSessions, SessionsOf
  <1>3. ASSUME NEW pw \in Passwords, CreateUser(u, pw, status) \/ ResetPassword(u, pw)
        PROVE  TypeInv'
    BY <1>0, <1>2, <1>3 DEF CreateUser, ResetPassword, TypeInv, TypeOK, historyVars
  <1>4. CASE UpdateUserStatus(admin, u, status)
    BY <1>0, <1>2, <1>4 DEF UpdateUserStatus, TypeInv, TypeOK, historyVars
  <1>5. ASSUME NEW pw \in Passwords \cup {None}, NEW st \in {"active", "disabled", None},
               UpdateUser(u, pw, st)
        PROVE  TypeInv'
    BY <1>0, <1>2, <1>5 DEF UpdateUser, TypeInv, TypeOK, StoringCalls
  <1>6. CASE RemoveUser(admin, u)
    BY <1>0, <1>2, <1>6 DEF RemoveUser, TypeInv, TypeOK
  <1> QED
    BY <1>1, <1>3, <1>4, <1>5, <1>6

LEMMA NextTypes == TypeInv /\ [Next]_vars => TypeInv'
  <1>1. TypeInv /\ UNCHANGED vars => TypeInv'
    BY DEF vars, rowVars, historyVars, TypeInv, TypeOK, SessionsNamed
  <1> QED
    BY <1>1, IssueTypes, EndTypes, AdminTypes DEF Next

(* Every state of a run is well typed.                                     *)
THEOREM TypeCorrect == Spec => []TypeOK
  <1>1. TypeInv => TypeOK
  BY DEF TypeInv
<1> QED
  BY <1>1, InitTypes, NextTypes, PTL DEF Spec

----------------------------------------------------------------------------
(* What any step does to the stored hashes.  A step starts a call, stores  *)
(* a call's token, ends sessions, or leaves the hashes alone.              *)

CallsAdvance ==
    /\ call' = call
    /\ \A c \in Calls :
        /\ pc[c] = "idle" <=> pc'[c] = "idle"
        /\ pc'[c] = "store" => pc[c] = "store"

Starts(c) ==
    /\ pc[c] = "idle" /\ pc'[c] # "idle"
    /\ \A d \in Calls \ {c} : call'[d] = call[d] /\ pc'[d] = pc[d]
    /\ UNCHANGED <<hashedRt, historyVars>>
    /\ \/ call'[c].session \notin Calls
       \/ call'[c].session = c
       \/ \E t \in Calls :
            /\ pc[t] # "idle"
            /\ call'[c].user = call[t].user /\ call'[c].session = call[t].session
            /\ pc'[c] = "store" => hashedRt[call[t].user] = t

Stores(c) ==
    /\ pc[c] = "store" /\ pc'[c] # "store"
    /\ SetHashedRt(call[c].user, c)
    /\ CallsAdvance
    /\ UNCHANGED <<revoked, overtaken>>

Ends(u, sessions) ==
    /\ Revoke(u, sessions)
    /\ sessions = SessionsOf(u) \/ sessions = StoredSession(u)
       \/ \E c \in Calls : call[c].user = u /\ sessions = {call[c].session} /\ pc[c] = "clear"
    /\ CallsAdvance

LeavesHashes ==
    /\ CallsAdvance
    /\ UNCHANGED <<hashedRt, spent, revoked>>
    /\ \E more \in SUBSET Calls :
        overtaken' = overtaken \cup {c \in more : pc[c] = "store"}

StepShape ==
    \/ \E c \in Calls : Starts(c) \/ Stores(c)
    \/ \E u \in Users, sessions \in SUBSET Calls : Ends(u, sessions)
    \/ LeavesHashes

LEMMA BeginStarts ==
    ASSUME TypeInv, NEW c \in Calls, NEW kind \in Kinds, NEW u \in Users,
           NEW pw \in Passwords \cup {None}, NEW session \in Calls \cup {None},
           NEW step \in Steps \ {"idle"}, Begin(c, kind, u, pw, session, step),
           step \in NamedSteps => session \in Calls,
           UNCHANGED <<hashedRt, historyVars>>,
           \/ session = None
           \/ session = c
           \/ \E t \in Calls :
                /\ pc[t] # "idle"
                /\ u = call[t].user /\ session = call[t].session
                /\ step = "store" => hashedRt[u] = t
    PROVE  Starts(c)
  <1>1. /\ pc[c] = "idle" /\ pc'[c] = step
        /\ \A d \in Calls \ {c} : call'[d] = call[d] /\ pc'[d] = pc[d]
        /\ call'[c].user = u /\ call'[c].session = session
    BY BeginCall DEF TypeInv, TypeOK
  <1>2. None \notin Calls
    BY SessionConstants
  <1>3. pc'[c] # "idle" /\ UNCHANGED <<hashedRt, historyVars>>
    BY <1>1
  <1> QED
    BY <1>1, <1>2, <1>3 DEF Starts

LEMMA CallStepShape ==
    ASSUME TypeInv, NEW c \in Calls, IssueStep(c) \/ EndStep(c) \/ Fail(c)
    PROVE  StepShape
  <1> USE DEF Steps, Kinds, NamedSteps
  <1>0. /\ \A t \in Returned : t \in Calls /\ pc[t] # "idle" /\ call[t].user \in Users
                             /\ call[t].session \in Calls
        /\ pc[c] # "idle" => call[c].user \in Users
        /\ None \notin Calls
    BY SessionConstants DEF TypeInv, TypeOK, SessionsNamed, Returned
  <1>1. ASSUME NEW u \in Users, NEW pw \in Passwords,
               LoginRead(c, u, pw) \/ LoginRefused(c, u, pw) \/ Register(c, u, pw)
        PROVE  Starts(c)
    BY <1>1, BeginStarts DEF LoginRead, LoginRefused, Register, rowVars
  <1>2. ASSUME NEW u \in Users, MiniprogramLogin(c, u) PROVE Starts(c)
    BY <1>2, BeginStarts DEF MiniprogramLogin
  <1>3. ASSUME NEW t \in Returned, RefreshRead(c, t) PROVE Starts(c)
    <2> DEFINE u == call[t].user
               step == IF ~Exists(u) \/ hashedRt[u] = None THEN "refused"
                       ELSE IF account[u] = "active" /\ hashedRt[u] = t THEN "store"
                       ELSE "clear"
    <2>1. /\ Begin(c, "refresh", u, None, call[t].session, step)
          /\ UNCHANGED <<hashedRt, historyVars>>
      BY <1>3 DEF RefreshRead, rowVars
    <2>2. step \in {"refused", "store", "clear"} /\ (step = "store" => hashedRt[u] = t)
      OBVIOUS
    <2> HIDE DEF step
    <2> QED
      BY <1>0, <2>1, <2>2, BeginStarts
  <1>4. ASSUME NEW t \in Returned, LogoutRead(c, t) PROVE Starts(c)
    <2> DEFINE u == call[t].user
               step == IF Exists(u) /\ hashedRt[u] = t THEN "clear" ELSE "done"
    <2>1. /\ Begin(c, "logout", u, None, call[t].session, step)
          /\ UNCHANGED <<hashedRt, historyVars>>
      BY <1>4 DEF LogoutRead, rowVars
    <2>2. step \in {"clear", "done"}
      OBVIOUS
    <2> HIDE DEF step
    <2> QED
      BY <1>0, <2>1, <2>2, BeginStarts
  <1>5. ASSUME NEW t \in Returned, NEW old \in Passwords, NEW new \in Passwords,
               ChangePasswordRead(c, t, old, new)
        PROVE  Starts(c)
    BY <1>0, <1>5, BeginStarts DEF ChangePasswordRead, rowVars
  <1>6. CASE StoreToken(c)
    <2>1. CallsAdvance /\ pc'[c] # "store"
      BY <1>6 DEF StoreToken, Continue, CallsAdvance, TypeInv, TypeOK
    <2> QED
      BY <1>6, <2>1 DEF StoreToken, Stores, StepShape
  <1>7. CASE RecordSuccessfulLogin(c) \/ RecordLoginLog(c) \/ Fail(c)
    <2>1. CallsAdvance
      BY <1>7 DEF RecordSuccessfulLogin, RecordLoginLog, Fail, Running, Continue,
                  CallsAdvance, TypeInv, TypeOK
    <2>2. UNCHANGED <<hashedRt, historyVars>>
      BY <1>7 DEF RecordSuccessfulLogin, RecordLoginLog, Fail, rowVars
    <2>3. overtaken' = overtaken \cup {d \in {} : pc[d] = "store"}
      BY <2>2 DEF historyVars
    <2> QED
      BY <2>1, <2>2, <2>3 DEF LeavesHashes, StepShape, historyVars
  <1>8. CASE ClearUserToken(c)
    <2>1. CallsAdvance
      BY <1>8 DEF ClearUserToken, Continue, CallsAdvance, TypeInv, TypeOK
    <2>2. call[c].session \in Calls /\ pc[c] = "clear" /\ call[c].user \in Users
      BY <1>0, <1>8 DEF ClearUserToken, TypeInv, SessionsNamed
    <2>3. CASE call[c].kind = "logout"
      BY <1>8, <2>1, <2>2, <2>3 DEF ClearUserToken, Ends, StepShape
    <2>4. CASE call[c].kind # "logout"
      <3>1. Ends(call[c].user, StoredSession(call[c].user))
        BY <1>8, <2>1, <2>2, <2>4 DEF ClearUserToken, Ends
      <3> QED
        BY <3>1, <2>2 DEF StoredSession, StepShape
    <2> QED
      BY <2>3, <2>4
  <1>9. CASE ChangePasswordWrite(c)
    <2>1. CallsAdvance /\ call[c].user \in Users
      BY <1>0, <1>9 DEF ChangePasswordWrite, Continue, CallsAdvance, TypeInv, TypeOK
    <2>2. Ends(call[c].user, SessionsOf(call[c].user))
      BY <1>9, <2>1 DEF ChangePasswordWrite, EndAllSessions, Ends
    <2> QED
      BY <2>1, <2>2 DEF SessionsOf, StepShape
  <1> QED
    BY <1>1, <1>2, <1>3, <1>4, <1>5, <1>6, <1>7, <1>8, <1>9 DEF IssueStep, EndStep, StepShape

LEMMA AdminStepShape ==
    ASSUME TypeInv, AdminStep
    PROVE  StepShape
  <1>1. PICK u \in Users, admin \in Admins, status \in {"active", "disabled"} :
        \/ \E pw \in Passwords : CreateUser(u, pw, status) \/ ResetPassword(u, pw)
        \/ UpdateUserStatus(admin, u, status)
        \/ \E pw \in Passwords \cup {None} :
            UpdateUser(u, pw, status) \/ UpdateUser(u, pw, None)
        \/ RemoveUser(admin, u)
    BY DEF AdminStep
  <1>2. CallsAdvance
    BY <1>1 DEF CreateUser, ResetPassword, UpdateUserStatus, UpdateUser, RemoveUser,
                AdminAct, CallsAdvance
  <1>3. ASSUME EndAllSessions(u) PROVE StepShape
    <2>1. Ends(u, SessionsOf(u)) /\ SessionsOf(u) \in SUBSET Calls
      BY <1>2, <1>3 DEF EndAllSessions, Ends, SessionsOf
    <2> QED
      BY <2>1 DEF StepShape
  <1>4. ASSUME UNCHANGED <<hashedRt, spent, revoked>>,
               overtaken' = overtaken \/ overtaken' = overtaken \cup StoringCalls(u)
        PROVE  StepShape
    <2>1. overtaken' = overtaken \cup {c \in {} : pc[c] = "store"}
          \/ overtaken' = overtaken \cup {c \in StoringCalls(u) : pc[c] = "store"}
      BY <1>4 DEF StoringCalls
    <2>2. StoringCalls(u) \in SUBSET Calls
      BY DEF StoringCalls
    <2> QED
      BY <1>2, <1>4, <2>1, <2>2 DEF LeavesHashes, StepShape
  <1>5. ASSUME NEW pw \in Passwords \cup {None}, NEW st \in {"active", "disabled", None},
               UpdateUser(u, pw, st)
        PROVE  StepShape
    BY <1>3, <1>4, <1>5 DEF UpdateUser
  <1> QED
    BY <1>1, <1>3, <1>4, <1>5
       DEF CreateUser, ResetPassword, UpdateUserStatus, RemoveUser, historyVars

LEMMA NextStepShape ==
    ASSUME TypeInv, [Next]_vars
    PROVE  StepShape
  <1>1. CASE UNCHANGED vars
    <2>1. overtaken' = overtaken \cup {c \in {} : pc[c] = "store"}
      BY <1>1 DEF vars, historyVars
    <2> QED
      BY <1>1, <2>1 DEF vars, rowVars, historyVars, CallsAdvance, LeavesHashes, StepShape
  <1> QED
    BY <1>1, CallStepShape, AdminStepShape DEF Next

----------------------------------------------------------------------------
(* The stored hash is a register of single-use tokens.                     *)

(* A call that has not stored its token yet: the token matches nowhere.    *)
FreshTokens == \A c \in Calls :
    pc[c] \in {"idle", "store"} => c \notin spent /\ \A u \in Users : hashedRt[u] # c

LEMMA FreshTokensStep ==
    ASSUME TypeInv, FreshTokens, [Next]_vars
    PROVE  FreshTokens'
  <1> USE DEF FreshTokens, SetHashedRt, CallsAdvance, TypeInv, TypeOK, Steps
  <1>1. ASSUME NEW c \in Calls, Starts(c) PROVE FreshTokens'
    BY <1>1 DEF Starts, historyVars
  <1>2. ASSUME NEW c \in Calls, Stores(c) PROVE FreshTokens'
    BY <1>2 DEF Stores
  <1>3. ASSUME NEW u \in Users, NEW sessions \in SUBSET Calls, Ends(u, sessions)
        PROVE  FreshTokens'
    BY <1>3, SessionConstants DEF Ends, Revoke
  <1>4. CASE LeavesHashes
    BY <1>4 DEF LeavesHashes
  <1> QED
    BY <1>1, <1>2, <1>3, <1>4, NextStepShape DEF StepShape

LEMMA StepImplementsRegister ==
    ASSUME TypeInv, FreshTokens, [Next]_vars
    PROVE  [Hash!RegisterNext]_(Hash!registerVars)
  <1>1. ASSUME NEW c \in Calls, Starts(c) PROVE UNCHANGED Hash!registerVars
    BY <1>1 DEF Starts, historyVars, Hash!registerVars
  <1>2. ASSUME NEW c \in Calls, Stores(c) PROVE Hash!RegisterNext
    <2>1. call[c].user \in Users
      BY <1>2 DEF Stores, TypeInv, TypeOK
    <2>2. Hash!Install(call[c].user, c)
      BY <1>2, <2>1 DEF Stores, SetHashedRt, FreshTokens, Hash!Install
    <2> QED
      BY <2>1, <2>2 DEF Hash!RegisterNext
  <1>3. ASSUME NEW u \in Users, NEW sessions \in SUBSET Calls, Ends(u, sessions)
        PROVE  Hash!RegisterNext
    <2>1. Hash!Drop(u)
      BY <1>3 DEF Ends, Revoke, SetHashedRt, Hash!Drop
    <2> QED
      BY <2>1 DEF Hash!RegisterNext
  <1>4. CASE LeavesHashes
    BY <1>4 DEF LeavesHashes, Hash!registerVars
  <1> QED
    BY <1>1, <1>2, <1>3, <1>4, NextStepShape DEF StepShape

(* Every behaviour of the service is a behaviour of the register.          *)
THEOREM ImplementsRegister == Spec => SessionImplemented
<1>1. Init => FreshTokens /\ Hash!RegisterInit
  BY SessionConstants DEF Init, FreshTokens, Hash!RegisterInit
<1>2. TypeInv /\ FreshTokens /\ [Next]_vars
        => FreshTokens' /\ [Hash!RegisterNext]_(Hash!registerVars)
  BY FreshTokensStep, StepImplementsRegister
<1> QED
  BY <1>1, <1>2, InitTypes, NextTypes, PTL DEF Spec, SessionImplemented, Hash!RegisterSpec

----------------------------------------------------------------------------
(* An ended session comes back only through a call it overtook.            *)

(* The stored token is that of a call which worked for the same user.      *)
TokenOwner == \A u \in Users :
    hashedRt[u] \in Calls => pc[hashedRt[u]] # "idle" /\ call[hashedRt[u]].user = u

(* A session is named by a call of its user.                               *)
SessionOwner == \A c \in Calls :
    LET s == call[c].session IN
    s \in Calls => pc[s] # "idle" /\ call[s].user = call[c].user

Overtook(s) == \E c \in overtaken : call[c].session = s

(* A session that was ended and overtook nothing has no token stored and   *)
(* none on its way.                                                        *)
EndedIsOver == \A s \in revoked : ~Overtook(s) =>
    /\ \A u \in Users : s \notin StoredSession(u)
    /\ \A c \in Calls : pc[c] = "store" => call[c].session # s

Started == \A s \in revoked \cup overtaken : pc[s] # "idle"

SessionInv == TokenOwner /\ SessionOwner /\ EndedIsOver /\ Started

LEMMA StartsKeeps ==
    ASSUME TypeInv, FreshTokens, SessionInv, NEW c \in Calls, Starts(c)
    PROVE  SessionInv'
  <1>1. /\ hashedRt' = hashedRt /\ revoked' = revoked /\ overtaken' = overtaken
        /\ pc[c] = "idle" /\ pc'[c] # "idle"
        /\ \A d \in Calls \ {c} : call'[d] = call[d] /\ pc'[d] = pc[d]
    BY DEF Starts, historyVars
  <1>2. \A u \in Users : hashedRt[u] \in Calls => hashedRt[u] # c
    BY <1>1 DEF FreshTokens
  <1>3. \A d \in Calls \ {c} : call[d].session # c
    BY <1>1 DEF SessionInv, SessionOwner
  <1>4. TokenOwner'
    BY <1>1, <1>2 DEF SessionInv, TokenOwner
  <1>5. SessionOwner'
    <2>1. ASSUME NEW d \in Calls \ {c}, call'[d].session \in Calls
          PROVE  pc'[call'[d].session] # "idle"
                 /\ call'[call'[d].session].user = call'[d].user
      BY <1>1, <1>3, <2>1 DEF SessionInv, SessionOwner
    <2>2. ASSUME call'[c].session \in Calls
          PROVE  pc'[call'[c].session] # "idle"
                 /\ call'[call'[c].session].user = call'[c].user
      <3>1. CASE call'[c].session = c
        BY <1>1, <3>1
      <3>2. ASSUME NEW t \in Calls, pc[t] # "idle",
                   call'[c].user = call[t].user, call'[c].session = call[t].session
            PROVE  pc'[call'[c].session] # "idle"
                   /\ call'[call'[c].session].user = call'[c].user
        <4>1. t # c /\ call[t].session # c
          BY <1>1, <1>3, <3>2
        <4> QED
          BY <1>1, <2>2, <3>2, <4>1 DEF SessionInv, SessionOwner
      <3> QED
        BY <2>2, <3>1, <3>2 DEF Starts
    <2> QED
      BY <2>1, <2>2 DEF SessionOwner
  <1>6. Started' /\ c \notin revoked \cup overtaken
    BY <1>1 DEF SessionInv, Started, TypeInv, TypeOK
  <1>7. \A u \in Users : StoredSession(u)' = StoredSession(u)
    BY <1>1, <1>2, SessionConstants DEF StoredSession, TypeInv, TypeOK
  <1>8. \A s : Overtook(s)' <=> Overtook(s)
    BY <1>1, <1>6 DEF Overtook, TypeInv, TypeOK
  <1>9. EndedIsOver'
    <2> SUFFICES ASSUME NEW s \in revoked, ~Overtook(s)
                 PROVE  /\ \A u \in Users : s \notin StoredSession(u)
                        /\ \A d \in Calls : pc'[d] = "store" => call'[d].session # s
      BY <1>1, <1>7, <1>8 DEF EndedIsOver
    <2>1. s # c /\ s \in Calls
      BY <1>6 DEF TypeInv, TypeOK
    <2>2. \A u \in Users : s \notin StoredSession(u)
      BY DEF SessionInv, EndedIsOver
    <2>3. ASSUME pc'[c] = "store", call'[c].session = s PROVE FALSE
      <3>1. PICK t \in Calls : /\ pc[t] # "idle" /\ call[t].session = s
                              /\ hashedRt[call[t].user] = t
        BY <2>1, <2>3 DEF Starts
      <3>2. call[t].user \in Users
        BY <3>1 DEF TypeInv, TypeOK
      <3> QED
        BY <2>1, <2>2, <3>1, <3>2, SessionConstants DEF StoredSession
    <2> QED
      BY <1>1, <2>2, <2>3 DEF SessionInv, EndedIsOver
  <1> QED
    BY <1>4, <1>5, <1>6, <1>9 DEF SessionInv

LEMMA AdvanceKeepsOwners ==
    ASSUME TypeInv, SessionInv, CallsAdvance, revoked' \subseteq Calls, overtaken' \subseteq Calls,
           \A s \in (revoked' \cup overtaken') \ (revoked \cup overtaken) : pc[s] # "idle"
    PROVE  SessionOwner' /\ Started'
  <1>1. SessionOwner'
    BY DEF SessionInv, SessionOwner, CallsAdvance
  <1>2. Started'
    BY DEF SessionInv, Started, CallsAdvance
  <1> QED
    BY <1>1, <1>2

LEMMA StoresKeeps ==
    ASSUME TypeInv, FreshTokens, SessionInv, NEW c \in Calls, Stores(c)
    PROVE  SessionInv'
  <1>1. /\ call' = call /\ revoked' = revoked /\ overtaken' = overtaken
        /\ \A d \in Calls : (pc[d] = "idle" <=> pc'[d] = "idle")
                          /\ (pc'[d] = "store" => pc[d] = "store")
        /\ pc[c] = "store" /\ call[c].user \in Users
        /\ hashedRt' = [hashedRt EXCEPT ![call[c].user] = c]
    BY DEF Stores, CallsAdvance, SetHashedRt, TypeInv, TypeOK
  <1>2. SessionOwner' /\ Started'
    BY <1>1, AdvanceKeepsOwners DEF Stores, TypeInv, TypeOK
  <1>3. TokenOwner'
    BY <1>1 DEF SessionInv, TokenOwner, TypeInv, TypeOK
  <1>4. EndedIsOver'
    <2> SUFFICES ASSUME NEW s \in revoked, ~Overtook(s)
                 PROVE  /\ \A u \in Users : s \notin StoredSession(u)'
                        /\ \A d \in Calls : pc'[d] = "store" => call[d].session # s
      BY <1>1 DEF EndedIsOver, Overtook
    <2>1. call[c].session # s
      BY <1>1 DEF SessionInv, EndedIsOver
    <2>2. \A u \in Users : s \notin StoredSession(u)'
      BY <1>1, <2>1 DEF SessionInv, EndedIsOver, StoredSession, TypeInv, TypeOK
    <2> QED
      BY <1>1, <2>2 DEF SessionInv, EndedIsOver
  <1> QED
    BY <1>2, <1>3, <1>4 DEF SessionInv

LEMMA EndedSessionsOfUser ==
    ASSUME TypeInv, SessionInv, NEW u \in Users, NEW sessions \in SUBSET Calls,
           Ends(u, sessions), NEW s \in sessions
    PROVE  pc[s] # "idle" /\ call[s].user = u
  <1>1. CASE sessions = SessionsOf(u)
    BY <1>1 DEF SessionsOf, SessionInv, SessionOwner
  <1>2. CASE sessions = StoredSession(u)
    BY <1>2 DEF StoredSession, SessionInv, SessionOwner, TokenOwner, TypeInv, TypeOK
  <1>3. ASSUME NEW c \in Calls, call[c].user = u, sessions = {call[c].session}
        PROVE  pc[s] # "idle" /\ call[s].user = u
    BY <1>3 DEF SessionInv, SessionOwner
  <1> QED
    BY <1>1, <1>2, <1>3 DEF Ends

LEMMA EndsKeeps ==
    ASSUME TypeInv, FreshTokens, SessionInv, NEW u \in Users, NEW sessions \in SUBSET Calls,
           Ends(u, sessions)
    PROVE  SessionInv'
  <1>1. /\ call' = call /\ revoked' = revoked \cup sessions
        /\ \A d \in Calls : (pc[d] = "idle" <=> pc'[d] = "idle")
                          /\ (pc'[d] = "store" => pc[d] = "store")
        /\ hashedRt' = [hashedRt EXCEPT ![u] = None]
        /\ overtaken' = overtaken \cup {c \in StoringCalls(u) : call[c].session \in sessions}
        /\ None \notin Calls
    BY SessionConstants DEF Ends, Revoke, CallsAdvance, SetHashedRt
  <1>2. \A s \in sessions : pc[s] # "idle" /\ call[s].user = u
    BY EndedSessionsOfUser
  <1>3. SessionOwner' /\ Started'
    BY <1>1, <1>2, AdvanceKeepsOwners DEF Ends, StoringCalls, TypeInv, TypeOK
  <1>4. TokenOwner'
    BY <1>1 DEF SessionInv, TokenOwner, TypeInv, TypeOK
  <1>5. \A v \in Users : StoredSession(v)' \subseteq StoredSession(v)
    BY <1>1 DEF StoredSession, TypeInv, TypeOK
  <1>6. StoredSession(u)' = {}
    BY <1>1 DEF StoredSession, TypeInv, TypeOK
  <1>7. EndedIsOver'
    <2> SUFFICES ASSUME NEW s \in revoked \cup sessions, ~Overtook(s)'
                 PROVE  /\ \A v \in Users : s \notin StoredSession(v)'
                        /\ \A d \in Calls : pc'[d] = "store" => call[d].session # s
      BY <1>1 DEF EndedIsOver
    <2>1. ~Overtook(s)
      BY <1>1 DEF Overtook
    <2>2. CASE s \in revoked
      BY <1>1, <1>5, <2>1, <2>2 DEF SessionInv, EndedIsOver
    <2>3. CASE s \in sessions
      <3>1. ASSUME NEW v \in Users, s \in StoredSession(v)' PROVE FALSE
        BY <1>2, <1>5, <1>6, <2>3, <3>1
           DEF StoredSession, SessionInv, TokenOwner, SessionOwner, TypeInv, TypeOK
      <3>2. ASSUME NEW d \in Calls, pc'[d] = "store", call[d].session = s PROVE FALSE
        <4>1. call[d].user = u
          BY <1>2, <2>3, <3>2 DEF SessionInv, SessionOwner
        <4> QED
          BY <1>1, <2>3, <3>2, <4>1 DEF Overtook, StoringCalls
      <3> QED
        BY <3>1, <3>2
    <2> QED
      BY <2>2, <2>3
  <1> QED
    BY <1>3, <1>4, <1>7 DEF SessionInv

LEMMA LeavesHashesKeeps ==
    ASSUME TypeInv, SessionInv, LeavesHashes
    PROVE  SessionInv'
  <1>1. PICK more \in SUBSET Calls :
          overtaken' = overtaken \cup {c \in more : pc[c] = "store"}
    BY DEF LeavesHashes
  <1>2. call' = call /\ hashedRt' = hashedRt /\ revoked' = revoked /\ overtaken \subseteq overtaken'
    BY <1>1 DEF LeavesHashes, CallsAdvance
  <1>3. SessionOwner' /\ Started'
    BY <1>1, AdvanceKeepsOwners DEF LeavesHashes, TypeInv, TypeOK
  <1>4. TokenOwner'
    BY <1>2 DEF SessionInv, TokenOwner, LeavesHashes, CallsAdvance
  <1>5. EndedIsOver'
    <2> SUFFICES ASSUME NEW s \in revoked, ~Overtook(s)'
                 PROVE  /\ \A u \in Users : s \notin StoredSession(u)
                        /\ \A d \in Calls : pc'[d] = "store" => call[d].session # s
      BY <1>2 DEF EndedIsOver, StoredSession
    <2>1. ~Overtook(s)
      BY <1>2 DEF Overtook
    <2> QED
      BY <2>1 DEF SessionInv, EndedIsOver, LeavesHashes, CallsAdvance
  <1> QED
    BY <1>3, <1>4, <1>5 DEF SessionInv

LEMMA NextSessionInv ==
    ASSUME TypeInv, FreshTokens, SessionInv, [Next]_vars
    PROVE  SessionInv'
  BY StartsKeeps, StoresKeeps, EndsKeeps, LeavesHashesKeeps, NextStepShape DEF StepShape

(* A session ended by a logout, a reused token, a new password or a        *)
(* disabling lives on only through a call that was about to store a token. *)
THEOREM EndedSessionsStayEnded == Spec => []RevokedStaysEnded
<1>1. Init => FreshTokens /\ SessionInv
  <2> SUFFICES ASSUME Init PROVE FreshTokens /\ SessionInv
    OBVIOUS
  <2>1. \A c \in Calls : call[c].session = None /\ None \notin Calls
    BY SessionConstants DEF Init, NoCall
  <2>2. \A u \in Users : hashedRt[u] = None
    BY DEF Init
  <2> QED
    BY <2>1, <2>2
       DEF Init, FreshTokens, SessionInv, TokenOwner, SessionOwner, EndedIsOver, Started
<1>2. SessionInv => RevokedStaysEnded
  BY DEF SessionInv, EndedIsOver, Overtook, RevokedStaysEnded
<1> QED
  BY <1>1, <1>2, FreshTokensStep, NextSessionInv, InitTypes, NextTypes, PTL DEF Spec

----------------------------------------------------------------------------
(* No session is opened or continued for a disabled user.                  *)

(* A call that is about to store a token passed its checks while the row   *)
(* was active, or was overtaken by the disabling, or made no such check.   *)
CheckedOrOvertaken == \A c \in Calls :
    pc[c] = "store" =>
        /\ account[call[c].user] # "absent"
        /\ account[call[c].user] = "disabled" => c \in overtaken \/ call[c].kind = "wechat"

LEMMA BeginsChecked ==
    ASSUME TypeInv, CheckedOrOvertaken, NEW c \in Calls, NEW kind \in Kinds, NEW u \in Users,
           NEW pw \in Passwords \cup {None}, NEW session \in Calls \cup {None},
           NEW step \in Steps \ {"idle"}, Begin(c, kind, u, pw, session, step),
           step \in NamedSteps => session \in Calls,
           UNCHANGED historyVars,
           account' = account \/ account' = [account EXCEPT ![u] = "active"],
           step = "store" => account'[u] = "active" \/ kind = "wechat",
           step = "store" => account'[u] # "absent"
    PROVE  CheckedOrOvertaken'
  <1>1. /\ pc'[c] = step /\ call'[c].user = u /\ call'[c].kind = kind
        /\ \A d \in Calls \ {c} : call'[d] = call[d] /\ pc'[d] = pc[d]
    BY BeginCall
  <1>2. \A d \in Calls : pc[d] # "idle" => call[d].user \in Users
    BY DEF TypeInv, TypeOK
  <1>3. \A v \in Users : account'[v] = account[v] \/ account'[v] = "active"
    BY DEF TypeInv, TypeOK
  <1>4. overtaken' = overtaken
    BY DEF historyVars
  <1> QED
    BY <1>1, <1>2, <1>3, <1>4 DEF CheckedOrOvertaken

LEMMA IssueChecked ==
    ASSUME TypeInv, CheckedOrOvertaken, NEW c \in Calls, IssueStep(c)
    PROVE  CheckedOrOvertaken'
  <1> USE DEF Steps, Kinds, NamedSteps
  <1>1. ASSUME NEW u \in Users, NEW pw \in Passwords,
               LoginRead(c, u, pw) \/ LoginRefused(c, u, pw)
        PROVE  CheckedOrOvertaken'
    BY <1>1, BeginsChecked DEF LoginRead, LoginRefused, rowVars
  <1>2. ASSUME NEW u \in Users, NEW pw \in Passwords, Register(c, u, pw)
        PROVE  CheckedOrOvertaken'
    BY <1>2, BeginsChecked DEF Register, TypeInv, TypeOK
  <1>3. ASSUME NEW u \in Users, MiniprogramLogin(c, u) PROVE CheckedOrOvertaken'
    <2>1. /\ account' = account \/ account' = [account EXCEPT ![u] = "active"]
          /\ account'[u] # "absent"
      BY <1>3 DEF MiniprogramLogin, TypeInv, TypeOK
    <2> QED
      BY <1>3, <2>1, BeginsChecked DEF MiniprogramLogin
  <1>4. ASSUME NEW t \in Returned, RefreshRead(c, t) PROVE CheckedOrOvertaken'
    <2> DEFINE u == call[t].user
               step == IF ~Exists(u) \/ hashedRt[u] = None THEN "refused"
                       ELSE IF account[u] = "active" /\ hashedRt[u] = t THEN "store"
                       ELSE "clear"
    <2>1. /\ Begin(c, "refresh", u, None, call[t].session, step)
          /\ UNCHANGED <<account, historyVars>>
      BY <1>4 DEF RefreshRead, rowVars
    <2>2. step \in {"refused", "store", "clear"} /\ (step = "store" => account[u] = "active")
      OBVIOUS
    <2>3. call[t].user \in Users /\ call[t].session \in Calls
      BY DEF TypeInv, TypeOK, SessionsNamed, Returned
    <2> HIDE DEF step
    <2> QED
      BY <2>1, <2>2, <2>3, BeginsChecked
  <1>5. CASE StoreToken(c) \/ RecordSuccessfulLogin(c) \/ RecordLoginLog(c)
    <2>1. /\ call' = call /\ account' = account /\ overtaken' = overtaken
          /\ \A d \in Calls : pc'[d] = "store" => pc[d] = "store"
      BY <1>5 DEF StoreToken, RecordSuccessfulLogin, RecordLoginLog, Continue,
                  historyVars, TypeInv, TypeOK
    <2> QED
      BY <2>1 DEF CheckedOrOvertaken
  <1> QED
    BY <1>1, <1>2, <1>3, <1>4, <1>5 DEF IssueStep

LEMMA EndChecked ==
    ASSUME TypeInv, CheckedOrOvertaken, NEW c \in Calls, EndStep(c) \/ Fail(c)
    PROVE  CheckedOrOvertaken'
  <1> USE DEF Steps, Kinds, NamedSteps
  <1>0. \A t \in Returned : call[t].user \in Users /\ call[t].session \in Calls
    BY DEF TypeInv, TypeOK, SessionsNamed, Returned
  <1>1. ASSUME NEW t \in Returned, LogoutRead(c, t) PROVE CheckedOrOvertaken'
    <2> DEFINE u == call[t].user
               step == IF Exists(u) /\ hashedRt[u] = t THEN "clear" ELSE "done"
    <2>1. /\ Begin(c, "logout", u, None, call[t].session, step)
          /\ UNCHANGED <<account, historyVars>>
      BY <1>1 DEF LogoutRead, rowVars
    <2>2. step \in {"clear", "done"}
      OBVIOUS
    <2> HIDE DEF step
    <2> QED
      BY <1>0, <2>1, <2>2, BeginsChecked
  <1>2. ASSUME NEW t \in Returned, NEW old \in Passwords, NEW new \in Passwords,
               ChangePasswordRead(c, t, old, new)
        PROVE  CheckedOrOvertaken'
    BY <1>0, <1>2, BeginsChecked DEF ChangePasswordRead, rowVars
  <1>3. CASE ClearUserToken(c) \/ ChangePasswordWrite(c) \/ Fail(c)
    <2>1. /\ call' = call /\ account' = account /\ overtaken \subseteq overtaken'
          /\ \A d \in Calls : pc'[d] = "store" => pc[d] = "store"
      <3>1. CASE ClearUserToken(c)
        BY <3>1 DEF ClearUserToken, Continue, Revoke, TypeInv, TypeOK
      <3>2. CASE ChangePasswordWrite(c)
        BY <3>2 DEF ChangePasswordWrite, Continue, EndAllSessions, Revoke, TypeInv, TypeOK
      <3>3. CASE Fail(c)
        BY <3>3 DEF Fail, Continue, rowVars, historyVars, TypeInv, TypeOK
      <3> QED
        BY <1>3, <3>1, <3>2, <3>3
    <2> QED
      BY <2>1 DEF CheckedOrOvertaken
  <1> QED
    BY <1>1, <1>2, <1>3 DEF EndStep

LEMMA AdminChecked ==
    ASSUME TypeInv, CheckedOrOvertaken, AdminStep
    PROVE  CheckedOrOvertaken'
  <1>1. PICK u \in Users, admin \in Admins, status \in {"active", "disabled"} :
        \/ \E pw \in Passwords : CreateUser(u, pw, status) \/ ResetPassword(u, pw)
        \/ UpdateUserStatus(admin, u, status)
        \/ \E pw \in Passwords \cup {None} :
            UpdateUser(u, pw, status) \/ UpdateUser(u, pw, None)
        \/ RemoveUser(admin, u)
    BY DEF AdminStep
  <1>2. call' = call /\ pc' = pc
    BY <1>1 DEF CreateUser, ResetPassword, UpdateUserStatus, UpdateUser, RemoveUser, AdminAct
  <1>3. ASSUME EndAllSessions(u)
        PROVE  overtaken \cup StoringCalls(u) \subseteq overtaken'
    <2>1. \A c \in StoringCalls(u) : call[c].session \in SessionsOf(u)
      BY DEF StoringCalls, SessionsOf, TypeInv, SessionsNamed, NamedSteps
    <2> QED
      BY <1>3, <2>1 DEF EndAllSessions, Revoke
  <1>4. \/ account' = account /\ overtaken \subseteq overtaken'
        \/ /\ account[u] = "absent" /\ overtaken' = overtaken
           /\ \E st : account' = [account EXCEPT ![u] = st]
        \/ /\ \E st \in {"active", "removed"} : account' = [account EXCEPT ![u] = st]
           /\ overtaken \subseteq overtaken'
        \/ /\ account' = [account EXCEPT ![u] = "disabled"]
           /\ overtaken \cup StoringCalls(u) \subseteq overtaken'
    <2>1. ASSUME NEW pw \in Passwords, CreateUser(u, pw, status)
          PROVE  /\ account[u] = "absent" /\ overtaken' = overtaken
                 /\ \E st : account' = [account EXCEPT ![u] = st]
      BY <2>1 DEF CreateUser, historyVars
    <2>2. ASSUME NEW pw \in Passwords, ResetPassword(u, pw)
          PROVE  account' = account /\ overtaken \subseteq overtaken'
      BY <1>3, <2>2 DEF ResetPassword
    <2>3. CASE UpdateUserStatus(admin, u, status)
      BY <1>3, <2>3 DEF UpdateUserStatus, historyVars
    <2>4. CASE RemoveUser(admin, u)
      BY <1>3, <2>4 DEF RemoveUser
    <2>5. ASSUME NEW pw \in Passwords \cup {None}, UpdateUser(u, pw, None)
          PROVE  account' = account /\ overtaken \subseteq overtaken'
      BY <1>3, <2>5 DEF UpdateUser, TypeInv, TypeOK
    <2>6. ASSUME NEW pw \in Passwords \cup {None}, UpdateUser(u, pw, status), status # None
          PROVE  \/ /\ account' = [account EXCEPT ![u] = "active"]
                    /\ overtaken \subseteq overtaken'
                 \/ /\ account' = [account EXCEPT ![u] = "disabled"]
                    /\ overtaken \cup StoringCalls(u) \subseteq overtaken'
      BY <1>3, <2>6 DEF UpdateUser
    <2> QED
      BY <1>1, <2>1, <2>2, <2>3, <2>4, <2>5, <2>6
  <1> SUFFICES ASSUME NEW c \in Calls, pc[c] = "store"
               PROVE  /\ account'[call[c].user] # "absent"
                      /\ account'[call[c].user] = "disabled"
                            => c \in overtaken' \/ call[c].kind = "wechat"
    BY <1>2 DEF CheckedOrOvertaken
  <1>5. /\ call[c].user \in Users /\ account[call[c].user] # "absent"
        /\ account[call[c].user] = "disabled" => c \in overtaken \/ call[c].kind = "wechat"
        /\ call[c].user = u => c \in StoringCalls(u)
    BY DEF CheckedOrOvertaken, StoringCalls, TypeInv, TypeOK
  <1>6. account \in [Users -> {"absent", "active", "disabled", "removed"}]
    BY DEF TypeInv, TypeOK
  <1> QED
    BY <1>4, <1>5, <1>6

LEMMA NextChecked ==
    ASSUME TypeInv, CheckedOrOvertaken, [Next]_vars
    PROVE  CheckedOrOvertaken'
  <1>1. CASE UNCHANGED vars
    BY <1>1 DEF vars, rowVars, historyVars, CheckedOrOvertaken
  <1> QED
    BY <1>1, IssueChecked, EndChecked, AdminChecked DEF Next

(* While a user is disabled, only miniprogramLogin and calls which the     *)
(* disabling overtook store a token for him.                               *)
THEOREM DisabledGetsNoSession == Spec => NoSessionWhileDisabled
<1>1. Init => CheckedOrOvertaken
  BY DEF Init, CheckedOrOvertaken
<1>2. TypeInv /\ CheckedOrOvertaken /\ [Next]_vars =>
        \A u \in Users, c \in Calls :
            account[u] = "disabled" /\ hashedRt[u] # c /\ hashedRt'[u] = c
                => c \in overtaken \/ call[c].kind = "wechat"
  <2> SUFFICES ASSUME TypeInv, CheckedOrOvertaken, [Next]_vars,
                      NEW u \in Users, NEW c \in Calls,
                      account[u] = "disabled", hashedRt[u] # c, hashedRt'[u] = c
               PROVE  c \in overtaken \/ call[c].kind = "wechat"
    OBVIOUS
  <2>1. pc[c] = "store" /\ call[c].user = u
    <3>1. ASSUME NEW d \in Calls, Starts(d) PROVE FALSE
      BY <3>1 DEF Starts
    <3>2. ASSUME NEW d \in Calls, Stores(d) PROVE d = c /\ call[c].user = u /\ pc[c] = "store"
      BY <3>2 DEF Stores, SetHashedRt, TypeInv, TypeOK
    <3>3. ASSUME NEW v \in Users, NEW sessions \in SUBSET Calls, Ends(v, sessions) PROVE FALSE
      BY <3>3, SessionConstants DEF Ends, Revoke, SetHashedRt, TypeInv, TypeOK
    <3>4. CASE LeavesHashes
      BY <3>4 DEF LeavesHashes
    <3> QED
      BY <3>1, <3>2, <3>3, <3>4, NextStepShape DEF StepShape
  <2> QED
    BY <2>1 DEF CheckedOrOvertaken
<1> QED
  BY <1>1, <1>2, NextChecked, InitTypes, NextTypes, PTL DEF Spec, NoSessionWhileDisabled

=============================================================================
