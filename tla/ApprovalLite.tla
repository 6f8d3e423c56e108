---------------------------- MODULE ApprovalLite ----------------------------
(***************************************************************************)
(* Single-step approval requests                                           *)
(* (src/src/approval-requests/approval-requests.service.ts) on top of the  *)
(* message center.  Every HTTP call runs as a sequence of awaits: a step   *)
(* is one SQL statement or one $transaction, and between two steps any     *)
(* other call, a message endpoint or an administrator may run.  A call     *)
(* whose statement fails, or whose process dies, stops where it is.        *)
(***************************************************************************)
EXTENDS MessageCenter

CONSTANTS
    Calls,          \* HTTP calls to this service; each runs once
    Roles,          \* role codes
    Admins,         \* users with isAdmin in their token
    Creators,       \* users the permission guard lets create requests
    Deciders,       \* ... approve and reject
    Managers,       \* holders of approval.requests.manage
    Cancellers,     \* holders of approval.requests.cancel
    InitialMembers, \* the user-role links at the start
    MaxAdminChanges, \* bound on SetMembership, SetActive and SetEnabled together
    None

ASSUME ApproversDistinct == Users \cap Roles = {} /\ None \notin Users \cup Roles \cup Requests
ASSUME GuardedUsers ==
    /\ Admins \cup Creators \cup Deciders \cup Managers \cup Cancellers \subseteq Users
    /\ InitialMembers \subseteq Users \X Roles
ASSUME TitlesAssumption == Titles = {"APPROVED", "REJECTED", "CANCELLED"}
ASSUME BoundAssumption == MaxAdminChanges \in Nat

VARIABLES
    status,     \* ApprovalRequest.status, "NONE" before the row exists
    applicant,  \* ApprovalRequest.applicantId
    approver,   \* approverUserId or approverRoleCode, by approverType
    history,    \* the ApprovalAction rows of a request, oldest first
    pc, call,   \* where each call is and what it knows
    memberOf,   \* user-role links
    active,     \* users whose status is active
    enabled,    \* roles with enabled = true
    adminChanges, \* how often an administrator changed one of these three
    overtaken   \* history variable: requests processed while create was still fanning out

requestVars == <<status, applicant, approver, history>>
rbacVars == <<memberOf, active, enabled, adminChanges>>
vars == <<messageVars, requestVars, pc, call, rbacVars, overtaken>>

Verdicts == {"APPROVED", "REJECTED", "CANCELLED"}
Statuses == {"NONE", "PENDING"} \cup Verdicts
Actions == {"SUBMIT", "COMMENT"} \cup Verdicts
ApprovalAction == [actor : Users, action : Actions]
Approvers == Users \cup Roles

FanOutSteps == {"fanOut", "createMany"}
AdmittedSteps == {"check", "decide", "cancel"}
CleanupSteps == {"completeOwn", "cancelOthers", "cancelTodos"}
Running == {"insert", "comment", "notify"} \cup FanOutSteps \cup AdmittedSteps \cup CleanupSteps
Steps == {"idle", "done", "failed"} \cup Running

CallState == [user : Users \cup {None}, req : Requests \cup {None},
              approver : Approvers \cup {None}, verdict : Verdicts \cup {None},
              targets : SUBSET Users]
NoCall == [user |-> None, req |-> None, approver |-> None, verdict |-> None, targets |-> {}]

TypeOK ==
    /\ MessageTypeOK
    /\ status \in [Requests -> Statuses]
    /\ applicant \in [Requests -> Users \cup {None}]
    /\ approver \in [Requests -> Approvers \cup {None}]
    /\ history \in [Requests -> Seq(ApprovalAction)]
    /\ pc \in [Calls -> Steps]
    /\ call \in [Calls -> CallState]
    /\ memberOf \subseteq Users \X Roles
    /\ active \subseteq Users
    /\ enabled \subseteq Roles
    /\ adminChanges \in 0..MaxAdminChanges
    /\ overtaken \subseteq Requests

Init ==
    /\ MessageInit
    /\ status = [r \in Requests |-> "NONE"]
    /\ applicant = [r \in Requests |-> None]
    /\ approver = [r \in Requests |-> None]
    /\ history = [r \in Requests |-> <<>>]
    /\ pc = [c \in Calls |-> "idle"]
    /\ call = [c \in Calls |-> NoCall]
    /\ memberOf = InitialMembers
    /\ active = Users
    /\ enabled = Roles
    /\ adminChanges = 0
    /\ overtaken = {}

----------------------------------------------------------------------------
(* Helpers *)

Goto(c, step) == pc' = [pc EXCEPT ![c] = step]

Begin(c, args, step) ==
    /\ pc[c] = "idle"
    /\ Goto(c, step)
    /\ call' = [call EXCEPT ![c] = args]

(* isApprover *)
IsApprover(u, r) ==
    \/ u \in Admins
    \/ approver[r] = u
    \/ <<u, approver[r]>> \in memberOf

(* The users createTodoForRole finds: active, with the role, the role enabled. *)
RoleHolders(role) == {u \in active : role \in enabled /\ <<u, role>> \in memberOf}

Log(r, u, action) ==
    history' = [history EXCEPT ![r] = Append(@, [actor |-> u, action |-> action])]

----------------------------------------------------------------------------
(* create: the approver is checked, the request and its SUBMIT action are  *)
(* one transaction, the todos are written after it.                        *)

CreateCheck(c, u, a) ==
    /\ u \in Creators
    /\ a \in active \cup enabled
    /\ Begin(c, [NoCall EXCEPT !.user = u, !.approver = a], "insert")
    /\ UNCHANGED <<messageVars, requestVars, rbacVars, overtaken>>

(* Mutant: the row is inserted without its applicant. *)
CreateInsertAnonymous(c, r) ==
    /\ pc[c] = "insert"
    /\ status[r] = "NONE"
    /\ status' = [status EXCEPT ![r] = "PENDING"]
    /\ approver' = [approver EXCEPT ![r] = call[c].approver]
    /\ Log(r, call[c].user, "SUBMIT")
    /\ call' = [call EXCEPT ![c].req = r]
    /\ Goto(c, "fanOut")
    /\ UNCHANGED <<messageVars, applicant, rbacVars, overtaken>>

CreateInsert(c, r) ==
    /\ pc[c] = "insert"
    /\ status[r] = "NONE"
    /\ status' = [status EXCEPT ![r] = "PENDING"]
    /\ applicant' = [applicant EXCEPT ![r] = call[c].user]
    /\ approver' = [approver EXCEPT ![r] = call[c].approver]
    /\ Log(r, call[c].user, "SUBMIT")
    /\ call' = [call EXCEPT ![c].req = r]
    /\ Goto(c, "fanOut")
    /\ UNCHANGED <<messageVars, rbacVars, overtaken>>

(* Mutant: the user's status is tested again, and a disabled one skipped. *)
FanOutToActiveUser(c) ==
    /\ pc[c] = "fanOut"
    /\ call[c].approver \in Users
    /\ CreateTodos(call[c].req, {call[c].approver} \cap active)
    /\ Goto(c, "done")
    /\ UNCHANGED <<requestVars, call, rbacVars, overtaken>>

FanOutToUser(c) ==
    /\ pc[c] = "fanOut"
    /\ call[c].approver \in Users
    /\ CreateTodos(call[c].req, {call[c].approver})
    /\ Goto(c, "done")
    /\ UNCHANGED <<requestVars, call, rbacVars, overtaken>>

FanOutFindRoleHolders(c) ==
    /\ pc[c] = "fanOut"
    /\ call[c].approver \in Roles
    /\ LET holders == RoleHolders(call[c].approver) IN
         /\ call' = [call EXCEPT ![c].targets = holders]
         /\ Goto(c, IF holders = {} THEN "done" ELSE "createMany")
    /\ UNCHANGED <<messageVars, requestVars, rbacVars, overtaken>>

FanOutCreateMany(c) ==
    /\ pc[c] = "createMany"
    /\ CreateTodos(call[c].req, call[c].targets)
    /\ Goto(c, "done")
    /\ UNCHANGED <<requestVars, call, rbacVars, overtaken>>

----------------------------------------------------------------------------
(* decide: approve and reject.  The status is read first and never         *)
(* re-checked: the transaction updates by id alone.                        *)

(* Mutant: the status check is forgotten. *)
DecideReadUnchecked(c, u, r, verdict) ==
    /\ u \in Deciders
    /\ status[r] # "NONE"
    /\ Begin(c, [NoCall EXCEPT !.user = u, !.req = r, !.verdict = verdict], "check")
    /\ UNCHANGED <<messageVars, requestVars, rbacVars, overtaken>>

DecideRead(c, u, r, verdict) ==
    /\ u \in Deciders
    /\ status[r] = "PENDING"
    /\ Begin(c, [NoCall EXCEPT !.user = u, !.req = r, !.verdict = verdict], "check")
    /\ UNCHANGED <<messageVars, requestVars, rbacVars, overtaken>>

AssertCanApprove(c) ==
    /\ pc[c] = "check"
    /\ Goto(c, IF IsApprover(call[c].user, call[c].req) THEN "decide" ELSE "done")
    /\ UNCHANGED <<messageVars, requestVars, call, rbacVars, overtaken>>

(* Mutant: the action is written outside the transaction, and is lost. *)
ProcessUnlogged(c, r, verdict) ==
    /\ status' = [status EXCEPT ![r] = verdict]
    /\ overtaken' = IF \E d \in Calls : pc[d] \in FanOutSteps /\ call[d].req = r
                    THEN overtaken \cup {r} ELSE overtaken
    /\ UNCHANGED <<messageVars, applicant, approver, history, call, rbacVars>>

(* The transaction of decide and of cancel, and the note of whether it     *)
(* overtook the creator's fan-out.                                         *)
Process(c, r, verdict) ==
    /\ status' = [status EXCEPT ![r] = verdict]
    /\ Log(r, call[c].user, verdict)
    /\ overtaken' = IF \E d \in Calls : pc[d] \in FanOutSteps /\ call[d].req = r
                    THEN overtaken \cup {r} ELSE overtaken
    /\ UNCHANGED <<messageVars, applicant, approver, call, rbacVars>>

DecideCommit(c) ==
    /\ pc[c] = "decide"
    /\ Process(c, call[c].req, call[c].verdict)
    /\ Goto(c, "completeOwn")

CompleteOwnTodos(c) ==
    /\ pc[c] = "completeOwn"
    /\ CompleteBusinessTodos(call[c].req, call[c].user)
    /\ Goto(c, "cancelOthers")
    /\ UNCHANGED <<requestVars, call, rbacVars, overtaken>>

CancelOthersTodos(c) ==
    /\ pc[c] = "cancelOthers"
    /\ CancelBusinessTodos(call[c].req, {call[c].user})
    /\ Goto(c, "notify")
    /\ UNCHANGED <<requestVars, call, rbacVars, overtaken>>

(* Mutant: the caller is notified instead of the applicant. *)
NotifyCaller(c) ==
    /\ pc[c] = "notify"
    /\ CreateNotification(call[c].req, call[c].user, call[c].verdict)
    /\ Goto(c, "done")
    /\ UNCHANGED <<requestVars, call, rbacVars, overtaken>>

NotifyApplicant(c) ==
    /\ pc[c] = "notify"
    /\ CreateNotification(call[c].req, applicant[call[c].req], call[c].verdict)
    /\ Goto(c, "done")
    /\ UNCHANGED <<requestVars, call, rbacVars, overtaken>>

----------------------------------------------------------------------------
(* cancel: by the applicant, an administrator or a holder of               *)
(* approval.requests.cancel or .manage.                                    *)

(* Mutant: the status check is forgotten. *)
CancelReadUnchecked(c, u, r) ==
    /\ status[r] # "NONE"
    /\ u \in Admins \cup Cancellers \cup Managers \/ u = applicant[r]
    /\ Begin(c, [NoCall EXCEPT !.user = u, !.req = r, !.verdict = "CANCELLED"], "cancel")
    /\ UNCHANGED <<messageVars, requestVars, rbacVars, overtaken>>

CancelRead(c, u, r) ==
    /\ status[r] = "PENDING"
    /\ u \in Admins \cup Cancellers \cup Managers \/ u = applicant[r]
    /\ Begin(c, [NoCall EXCEPT !.user = u, !.req = r, !.verdict = "CANCELLED"], "cancel")
    /\ UNCHANGED <<messageVars, requestVars, rbacVars, overtaken>>

CancelCommit(c) ==
    /\ pc[c] = "cancel"
    /\ Process(c, call[c].req, "CANCELLED")
    /\ Goto(c, "cancelTodos")

(* Mutant: the caller's own todo is spared, as in decide. *)
CancelTodosOfOthers(c) ==
    /\ pc[c] = "cancelTodos"
    /\ CancelBusinessTodos(call[c].req, {call[c].user})
    /\ Goto(c, "notify")
    /\ UNCHANGED <<requestVars, call, rbacVars, overtaken>>

CancelAllTodos(c) ==
    /\ pc[c] = "cancelTodos"
    /\ CancelBusinessTodos(call[c].req, {})
    /\ Goto(c, "notify")
    /\ UNCHANGED <<requestVars, call, rbacVars, overtaken>>

----------------------------------------------------------------------------
(* comment: allowed to whoever may view the request, at any status.        *)

CommentRead(c, u, r) ==
    /\ status[r] # "NONE"
    /\ u \in Admins \cup Managers \/ u = applicant[r] \/ IsApprover(u, r)
    /\ Begin(c, [NoCall EXCEPT !.user = u, !.req = r], "comment")
    /\ UNCHANGED <<messageVars, requestVars, rbacVars, overtaken>>

CommentInsert(c) ==
    /\ pc[c] = "comment"
    /\ Log(call[c].req, call[c].user, "COMMENT")
    /\ Goto(c, "done")
    /\ UNCHANGED <<messageVars, status, applicant, approver, call, rbacVars, overtaken>>

----------------------------------------------------------------------------
(* A statement fails or the process dies: what was committed stays.        *)
Fail(c) ==
    /\ pc[c] \in Running
    /\ Goto(c, "failed")
    /\ UNCHANGED <<messageVars, requestVars, call, rbacVars, overtaken>>

(* Administrators change memberships, user status and role status. *)
Toggle(S, x) == IF x \in S THEN S \ {x} ELSE S \cup {x}

AdminChange ==
    /\ adminChanges < MaxAdminChanges
    /\ adminChanges' = adminChanges + 1
    /\ UNCHANGED <<messageVars, requestVars, pc, call, overtaken>>

SetMembership(u, role) ==
    AdminChange /\ memberOf' = Toggle(memberOf, <<u, role>>) /\ UNCHANGED <<active, enabled>>

SetActive(u) == AdminChange /\ active' = Toggle(active, u) /\ UNCHANGED <<memberOf, enabled>>

SetEnabled(role) ==
    AdminChange /\ enabled' = Toggle(enabled, role) /\ UNCHANGED <<memberOf, active>>

----------------------------------------------------------------------------
BeginCall(c) ==
    \E u \in Users :
        \/ \E a \in Approvers : CreateCheck(c, u, a)
        \/ \E r \in Requests :
              \/ \E verdict \in {"APPROVED", "REJECTED"} : DecideRead(c, u, r, verdict)
              \/ CancelRead(c, u, r)
              \/ CommentRead(c, u, r)

ContinueCall(c) ==
    \/ \E r \in Requests : CreateInsert(c, r)
    \/ FanOutToUser(c) \/ FanOutFindRoleHolders(c) \/ FanOutCreateMany(c)
    \/ AssertCanApprove(c) \/ DecideCommit(c)
    \/ CompleteOwnTodos(c) \/ CancelOthersTodos(c)
    \/ CancelCommit(c) \/ CancelAllTodos(c)
    \/ NotifyApplicant(c)
    \/ CommentInsert(c)

Administrator ==
    \/ \E u \in Users, role \in Roles : SetMembership(u, role)
    \/ \E u \in Users : SetActive(u)
    \/ \E role \in Roles : SetEnabled(role)

Next ==
    \/ \E c \in Calls : BeginCall(c) \/ ContinueCall(c) \/ Fail(c)
    \/ MessageEndpoint /\ UNCHANGED <<requestVars, pc, call, rbacVars, overtaken>>
    \/ Administrator

Spec == Init /\ [][Next]_vars

(* A started call runs to its end unless it fails: the event loop resumes  *)
(* every settled await and the database answers every statement.           *)
FairSpec == Spec /\ \A c \in Calls : WF_vars(ContinueCall(c))

----------------------------------------------------------------------------
(* Properties *)

On(c, r) == call[c].req = r
Quiet(r) == \A c \in Calls : On(c, r) => pc[c] \notin Running
FailedOn(r) == \E c \in Calls : On(c, r) /\ pc[c] = "failed"
Processed(r) == status[r] \in Verdicts
TodosOf(r) == {t \in todos : BusinessId(t) = r}

(* A request's status and its action log never disagree, whatever calls    *)
(* interleave or fail: the log opens with the applicant's SUBMIT, and the  *)
(* last entry that is not a comment is the one that set the status.        *)
HistoryAgrees ==
    \A r \in Requests :
        LET log == history[r] IN
        IF status[r] = "NONE" THEN log = <<>> ELSE
        /\ Len(log) > 0
        /\ log[1] = [actor |-> applicant[r], action |-> "SUBMIT"]
        /\ \E i \in 1..Len(log) :
              /\ log[i].action = IF status[r] = "PENDING" THEN "SUBMIT" ELSE status[r]
              /\ \A j \in 1..Len(log) : j > i => log[j].action = "COMMENT"

(* A todo can outlive the processing of its request in two ways only: a    *)
(* call on that request is still cleaning up or failed on the way, or the  *)
(* request was processed before create had written its todos.              *)
LeftoverExplained ==
    \A r \in Requests :
        Processed(r) /\ TodosOf(r) \cap PendingTodos # {} =>
            \/ r \in overtaken
            \/ \E c \in Calls : On(c, r) /\ pc[c] \in CleanupSteps \cup {"failed"}

(* While a request is pending, its todos are closed by their owner's own   *)
(* click only: no call cleans up before the verdict is stored, nor cleans  *)
(* up the todos of another request or of another user's.                   *)
PendingTodosUntouched ==
    [][\A t \in PendingTodos :
         status[BusinessId(t)] = "PENDING" /\ t \notin PendingTodos' =>
             <<"complete", t>> \in todoWrites \/ <<"cancel", t>> \in todoWrites]_vars

(* Once no call on a request is running or has failed, the applicant has   *)
(* been sent exactly one notification for every verdict in the log.        *)
EveryVerdictReported ==
    \A r \in Requests : Quiet(r) /\ ~FailedOn(r) =>
        \A v \in Verdicts :
            Cardinality({i \in 1..Len(notices[r]) :
                           notices[r][i] = [userId |-> applicant[r], title |-> v]})
              = Cardinality({i \in 1..Len(history[r]) : history[r][i].action = v})

(* The status column behaves as ApprovalRegister says: a request is        *)
(* processed only by calls that found it pending when they started.        *)
Register == INSTANCE ApprovalRegister WITH
    admitted <- [r \in Requests |-> {c \in Calls : pc[c] \in AdmittedSteps /\ On(c, r)}]

RegisterImplemented == Register!RegisterSpec

(* Once a processed request has no such call left, its status is final: a  *)
(* call sent after the verdict is refused and changes nothing.             *)
Settled(r) ==
    Processed(r) /\ \A c \in Calls : On(c, r) => pc[c] \notin AdmittedSteps

SettledIsFinal ==
    [][\A r \in Requests : Settled(r) => Settled(r)' /\ status'[r] = status[r]]_vars

(* Unless a call on the request fails, a verdict reaches the applicant and *)
(* a request for one user's approval reaches that user's todo list.        *)
VerdictReachesApplicant ==
    \A r \in Requests : \A v \in Verdicts :
        status[r] = v ~>
            \/ \E i \in DOMAIN notices[r] :
                   notices[r][i] = [userId |-> applicant[r], title |-> v]
            \/ FailedOn(r)

RequestReachesApprover ==
    \A r \in Requests :
        approver[r] \in Users ~> <<r, approver[r]>> \in todos \/ FailedOn(r)

(* What the documentation says, and the code does not keep: "a processed   *)
(* request cannot be processed again"                                      *)
ProcessedOnce ==
    [][\A r \in Requests : Processed(r) => status'[r] = status[r]]_vars

(* "approving or rejecting completes the approver's todo", "cancelling     *)
(* cancels the todos": nothing is left to do on a processed request.       *)
NoTodoLeft ==
    \A r \in Requests :
        Processed(r) /\ Quiet(r) /\ ~FailedOn(r) => TodosOf(r) \cap PendingTodos = {}
=============================================================================
