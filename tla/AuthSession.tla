----------------------------- MODULE AuthSession -----------------------------
(***************************************************************************)
(* Accounts and their refresh-token sessions (src/src/auth/auth.service.ts *)
(* and the account writes of src/src/users/users.service.ts).  A handler   *)
(* reads the user row, compares hashes outside the database, and writes    *)
(* the row later; every other call may run in between, and any call may    *)
(* stop where it is when a statement fails or the process dies.            *)
(*                                                                         *)
(* A refresh token is named by the call that generated it: its jti is a    *)
(* fresh random UUID, so no two calls share one.                           *)
(***************************************************************************)
EXTENDS Naturals

CONSTANTS
    Users,
    WechatUsers,    \* those known by a WeChat union id
    Calls,          \* HTTP calls; each runs once
    Admins,         \* who may call the user administration endpoints
    Passwords,
    MaxAdminActs,   \* bound on the user administration calls
    None

ASSUME SessionConstants ==
    /\ WechatUsers \subseteq Users
    /\ None \notin Users \cup Calls \cup Passwords
    /\ MaxAdminActs \in Nat

VARIABLES
    account,    \* the user's row: absent, User.status (disabled stands for resigned too), removed
    password,   \* the password User.password is the hash of
    hashedRt,   \* the refresh token User.hashedRt is the hash of
    pc, call,   \* where each call is and what it read
    lastLogin,  \* the login that wrote lastLoginAt and lastLoginIp
    loginLog,   \* logins with a LoginLog row; success is told by pc
    adminActs,  \* how many administration calls there were
    spent,      \* history variable: tokens that were the stored one and are not
    revoked,    \* history variable: sessions that were ended
    overtaken   \* history variable: calls whose session ended, or whose user
                \* was disabled, between their read and their write

rowVars == <<account, password, hashedRt, lastLogin, loginLog>>
historyVars == <<spent, revoked, overtaken>>
vars == <<rowVars, pc, call, adminActs, historyVars>>

Kinds == {"login", "wechat", "register", "refresh", "logout", "password"}
Steps == {"idle", "store", "record", "log", "clear", "write",
          "returned", "done", "refused", "failed"}
Running == {"store", "record", "log", "clear", "write"}

CallState == [kind : Kinds \cup {"none"}, user : Users \cup {None},
              password : Passwords \cup {None}, session : Calls \cup {None}]
NoCall == [kind |-> "none", user |-> None, password |-> None, session |-> None]

TypeOK ==
    /\ account \in [Users -> {"absent", "active", "disabled", "removed"}]
    /\ password \in [Users -> Passwords \cup {None}]
    /\ hashedRt \in [Users -> Calls \cup {None}]
    /\ pc \in [Calls -> Steps]
    /\ call \in [Calls -> CallState]
    /\ \A c \in Calls : IF pc[c] = "idle" THEN call[c] = NoCall ELSE call[c].user \in Users
    /\ lastLogin \in [Users -> Calls \cup {None}]
    /\ loginLog \subseteq Calls
    /\ adminActs \in 0..MaxAdminActs
    /\ spent \subseteq Calls
    /\ revoked \subseteq Calls
    /\ overtaken \subseteq Calls

Init ==
    /\ account \in [Users -> {"absent", "active"}]
    /\ \E pw \in Passwords :
        password = [u \in Users |->
            IF u \in WechatUsers \/ account[u] = "absent" THEN None ELSE pw]
    /\ hashedRt = [u \in Users |-> None]
    /\ pc = [c \in Calls |-> "idle"]
    /\ call = [c \in Calls |-> NoCall]
    /\ lastLogin = [u \in Users |-> None]
    /\ loginLog = {}
    /\ adminActs = 0
    /\ spent = {}
    /\ revoked = {}
    /\ overtaken = {}

----------------------------------------------------------------------------
(* Helpers *)

Exists(u) == account[u] \in {"active", "disabled"}

(* The tokens clients hold: of the calls that answered with one. *)
Returned == {c \in Calls : pc[c] = "returned"}

(* A session is named by the login that opened it; a refresh continues the *)
(* session of the token it was given.                                      *)
Begin(c, kind, u, pw, session, step) ==
    /\ pc[c] = "idle"
    /\ pc' = [pc EXCEPT ![c] = step]
    /\ call' = [call EXCEPT ![c] =
          [kind |-> kind, user |-> u, password |-> pw, session |-> session]]

Continue(c, step) ==
    /\ pc' = [pc EXCEPT ![c] = step]
    /\ UNCHANGED call

SetHashedRt(u, token) ==
    /\ hashedRt' = [hashedRt EXCEPT ![u] = token]
    /\ spent' = spent \cup ({hashedRt[u]} \ {None, token})

StoringCalls(u) == {c \in Calls : pc[c] = "store" /\ call[c].user = u}

SessionsOf(u) == {c \in Calls : \E d \in Calls : call[d].user = u /\ call[d].session = c}

StoredSession(u) == {c \in Calls : hashedRt[u] # None /\ call[hashedRt[u]].session = c}

(* hashedRt: null, which ends the given sessions of u. *)
Revoke(u, sessions) ==
    /\ SetHashedRt(u, None)
    /\ revoked' = revoked \cup sessions
    /\ overtaken' = overtaken \cup {c \in StoringCalls(u) : call[c].session \in sessions}

EndAllSessions(u) == Revoke(u, SessionsOf(u))

----------------------------------------------------------------------------
(* Calls that issue a token *)

(* Mutant: the user's status is not tested. *)
LoginReadAnyStatus(c, u, pw) ==
    /\ Exists(u) /\ password[u] = pw
    /\ Begin(c, "login", u, None, c, "store")
    /\ UNCHANGED <<rowVars, adminActs, historyVars>>

(* login up to its checks; registerByEmail of a known email is login. *)
LoginRead(c, u, pw) ==
    /\ account[u] = "active" /\ password[u] = pw
    /\ Begin(c, "login", u, None, c, "store")
    /\ UNCHANGED <<rowVars, adminActs, historyVars>>

(* ... or refused, with its LoginLog row, whose insertion may fail silently. *)
LoginRefused(c, u, pw) ==
    /\ ~(account[u] = "active" /\ password[u] = pw)
    /\ Begin(c, "login", u, None, c, "refused")
    /\ loginLog' \in {loginLog, loginLog \cup {c}}
    /\ UNCHANGED <<account, password, hashedRt, lastLogin, adminActs, historyVars>>

(* miniprogramLogin finds the row by its union id, or creates it. *)
MiniprogramLogin(c, u) ==
    /\ u \in WechatUsers
    /\ account[u] # "removed"
    /\ account' = [account EXCEPT ![u] = IF @ = "absent" THEN "active" ELSE @]
    /\ Begin(c, "wechat", u, None, c, "store")
    /\ UNCHANGED <<password, hashedRt, lastLogin, loginLog, adminActs, historyVars>>

(* register: createUserByWeb refuses a known email. *)
Register(c, u, pw) ==
    /\ u \notin WechatUsers
    /\ account[u] = "absent"
    /\ account' = [account EXCEPT ![u] = "active"]
    /\ password' = [password EXCEPT ![u] = pw]
    /\ Begin(c, "register", u, None, c, "store")
    /\ UNCHANGED <<hashedRt, lastLogin, loginLog, adminActs, historyVars>>

(* Mutant: a token is refused only when there is no stored hash. *)
RefreshAnyToken(c, t) ==
    LET u == call[t].user IN
    /\ Begin(c, "refresh", u, None, call[t].session,
             IF ~Exists(u) \/ hashedRt[u] = None THEN "refused"
             ELSE IF account[u] = "disabled" THEN "clear"
             ELSE "store")
    /\ UNCHANGED <<rowVars, adminActs, historyVars>>

(* refreshToken up to its checks: without a stored hash the token is       *)
(* refused; a disabled user or another token's hash leads to clearUserToken. *)
RefreshRead(c, t) ==
    LET u == call[t].user IN
    /\ Begin(c, "refresh", u, None, call[t].session,
             IF ~Exists(u) \/ hashedRt[u] = None THEN "refused"
             ELSE IF account[u] = "active" /\ hashedRt[u] = t THEN "store"
             ELSE "clear")
    /\ UNCHANGED <<rowVars, adminActs, historyVars>>

(* updateRtHash throws when the row is gone. *)
StoreToken(c) ==
    /\ pc[c] = "store"
    /\ Exists(call[c].user)
    /\ SetHashedRt(call[c].user, c)
    /\ Continue(c, IF call[c].kind = "login" THEN "record" ELSE "returned")
    /\ UNCHANGED <<account, password, lastLogin, loginLog, adminActs, revoked, overtaken>>

(* Mutant: the row is saved as the login knows it, its token included. *)
RecordLoginSavingRow(c) ==
    /\ pc[c] = "record"
    /\ Exists(call[c].user)
    /\ lastLogin' = [lastLogin EXCEPT ![call[c].user] = c]
    /\ SetHashedRt(call[c].user, c)
    /\ Continue(c, "log")
    /\ UNCHANGED <<account, password, loginLog, adminActs, revoked, overtaken>>

RecordSuccessfulLogin(c) ==
    /\ pc[c] = "record"
    /\ Exists(call[c].user)
    /\ lastLogin' = [lastLogin EXCEPT ![call[c].user] = c]
    /\ Continue(c, "log")
    /\ UNCHANGED <<account, password, hashedRt, loginLog, adminActs, historyVars>>

RecordLoginLog(c) ==
    /\ pc[c] = "log"
    /\ loginLog' \in {loginLog, loginLog \cup {c}}
    /\ Continue(c, "returned")
    /\ UNCHANGED <<account, password, hashedRt, lastLogin, adminActs, historyVars>>

----------------------------------------------------------------------------
(* Calls that end a session *)

(* logoutByRefreshToken ends the session only when the token is current. *)
LogoutRead(c, t) ==
    LET u == call[t].user IN
    /\ Begin(c, "logout", u, None, call[t].session,
             IF Exists(u) /\ hashedRt[u] = t THEN "clear" ELSE "done")
    /\ UNCHANGED <<rowVars, adminActs, historyVars>>

(* clearUserToken of a logout, a reused token or a disabled user; an update *)
(* of many rows, it finds none when the user is gone.                       *)
ClearUserToken(c) ==
    /\ pc[c] = "clear"
    /\ LET u == call[c].user IN
        Revoke(u, IF call[c].kind = "logout" THEN {call[c].session} ELSE StoredSession(u))
    /\ Continue(c, IF call[c].kind = "logout" THEN "done" ELSE "refused")
    /\ UNCHANGED <<account, password, lastLogin, loginLog, adminActs>>

(* changePassword of the user of an access token, which is issued with the *)
(* refresh token and checked for nothing but the user's row.               *)
ChangePasswordRead(c, t, old, new) ==
    LET u == call[t].user IN
    /\ Exists(u)
    /\ password[u] = old
    /\ Begin(c, "password", u, new, None, "write")
    /\ UNCHANGED <<rowVars, adminActs, historyVars>>

ChangePasswordWrite(c) ==
    /\ pc[c] = "write"
    /\ LET u == call[c].user IN
        /\ Exists(u)
        /\ password' = [password EXCEPT ![u] = call[c].password]
        /\ EndAllSessions(u)
    /\ Continue(c, "done")
    /\ UNCHANGED <<account, lastLogin, loginLog, adminActs>>

(* A statement fails, or the process dies: nothing after it runs. *)
Fail(c) ==
    /\ pc[c] \in Running
    /\ Continue(c, "failed")
    /\ UNCHANGED <<rowVars, adminActs, historyVars>>

----------------------------------------------------------------------------
(* User administration: one update of the row each *)

AdminAct ==
    /\ adminActs < MaxAdminActs
    /\ adminActs' = adminActs + 1
    /\ UNCHANGED <<pc, call>>

CreateUser(u, pw, status) ==
    /\ AdminAct
    /\ u \notin WechatUsers
    /\ account[u] = "absent"
    /\ account' = [account EXCEPT ![u] = status]
    /\ password' = [password EXCEPT ![u] = pw]
    /\ UNCHANGED <<hashedRt, lastLogin, loginLog, historyVars>>

ResetPassword(u, pw) ==
    /\ AdminAct
    /\ Exists(u)
    /\ password' = [password EXCEPT ![u] = pw]
    /\ EndAllSessions(u)
    /\ UNCHANGED <<account, lastLogin, loginLog>>

(* updateUserStatus: nobody disables himself; only a disabling ends sessions. *)
UpdateUserStatus(admin, u, status) ==
    /\ AdminAct
    /\ Exists(u)
    /\ admin = u => status = "active"
    /\ account' = [account EXCEPT ![u] = status]
    /\ \/ status = "active" /\ UNCHANGED <<hashedRt, historyVars>>
       \/ status = "disabled" /\ EndAllSessions(u)
    /\ UNCHANGED <<password, lastLogin, loginLog>>

(* Mutant: a status that is not given is written all the same. *)
UpdateUserEveryField(u, pw, status) ==
    /\ AdminAct
    /\ Exists(u)
    /\ account' = [account EXCEPT ![u] = status]
    /\ pw # None
    /\ password' = [password EXCEPT ![u] = pw]
    /\ EndAllSessions(u)
    /\ UNCHANGED <<lastLogin, loginLog>>

(* updateUser: each field is optional; a new password ends the sessions, a *)
(* new status does not.                                                    *)
UpdateUser(u, pw, status) ==
    /\ AdminAct
    /\ Exists(u)
    /\ account' = [account EXCEPT ![u] = IF status = None THEN @ ELSE status]
    /\ \/ /\ pw = None
          /\ overtaken' = overtaken \cup (IF status = "disabled" THEN StoringCalls(u) ELSE {})
          /\ UNCHANGED <<password, hashedRt, spent, revoked>>
       \/ /\ pw # None
          /\ password' = [password EXCEPT ![u] = pw]
          /\ EndAllSessions(u)
    /\ UNCHANGED <<lastLogin, loginLog>>

(* remove, removeByIds: the row goes with everything in it. *)
RemoveUser(admin, u) ==
    /\ AdminAct
    /\ Exists(u)
    /\ admin # u
    /\ account' = [account EXCEPT ![u] = "removed"]
    /\ EndAllSessions(u)
    /\ password' = [password EXCEPT ![u] = None]
    /\ UNCHANGED <<lastLogin, loginLog>>

----------------------------------------------------------------------------

IssueStep(c) ==
    \/ \E u \in Users, pw \in Passwords :
        LoginRead(c, u, pw) \/ LoginRefused(c, u, pw) \/ Register(c, u, pw)
    \/ \E u \in Users : MiniprogramLogin(c, u)
    \/ \E t \in Returned : RefreshRead(c, t)
    \/ StoreToken(c)
    \/ RecordSuccessfulLogin(c)
    \/ RecordLoginLog(c)

EndStep(c) ==
    \/ \E t \in Returned :
        \/ LogoutRead(c, t)
        \/ \E old, new \in Passwords : ChangePasswordRead(c, t, old, new)
    \/ ClearUserToken(c)
    \/ ChangePasswordWrite(c)

AdminStep ==
    \E u \in Users, admin \in Admins, status \in {"active", "disabled"} :
        \/ \E pw \in Passwords : CreateUser(u, pw, status) \/ ResetPassword(u, pw)
        \/ UpdateUserStatus(admin, u, status)
        \/ \E pw \in Passwords \cup {None} :
            UpdateUser(u, pw, status) \/ UpdateUser(u, pw, None)
        \/ RemoveUser(admin, u)

Next ==
    \/ \E c \in Calls : IssueStep(c) \/ EndStep(c) \/ Fail(c)
    \/ AdminStep

Spec == Init /\ [][Next]_vars

----------------------------------------------------------------------------
(* Properties *)

(* The stored hash is a register of single-use tokens: whatever the        *)
(* interleaving of logins, refreshes, logouts and administration, a token  *)
(* that updateRtHash or clearUserToken displaced matches for nobody again. *)
Hash == INSTANCE SessionRegister WITH
    Tokens <- Calls, current <- hashedRt, spent <- spent
SessionImplemented == Hash!RegisterSpec

(* A session ended by a logout, a reused token, a new password or a        *)
(* disabling is alive again only through one of its own calls that was     *)
(* between its check and updateRtHash at that moment (refreshToken, login).*)
RevokedStaysEnded == \A u \in Users, s \in revoked :
    s \in StoredSession(u) => \E c \in overtaken : call[c].session = s

(* While a user is disabled, login, register and refresh open or continue  *)
(* no session of his, save a call the disabling overtook; miniprogramLogin *)
(* does not look at the status.                                            *)
NoSessionWhileDisabled == [][\A u \in Users, c \in Calls :
    account[u] = "disabled" /\ hashedRt[u] # c /\ hashedRt'[u] = c
        => c \in overtaken \/ call[c].kind = "wechat"]_vars

(* Ending a session ends it: the stored hash never belongs to a session    *)
(* that was ended (clearUserToken and the writes of hashedRt: null).       *)
RevocationEndsSessions == \A u \in Users : StoredSession(u) \cap revoked = {}

(* No login that starts while the user is disabled gets past its checks    *)
(* (login, miniprogramLogin).                                              *)
DisabledCannotLogIn == [][\A c \in Calls :
    pc[c] = "idle" /\ pc'[c] = "store" => account[call'[c].user] # "disabled"]_vars

=============================================================================
