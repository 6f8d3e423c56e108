------------------------- MODULE ApprovalLiteProofs -------------------------
(***************************************************************************)
(* Proofs about ApprovalLite, for every set of users, roles, requests and  *)
(* calls.                                                                  *)
(***************************************************************************)
EXTENDS ApprovalLite, FiniteSetTheorems, TLAPS

(* What a call knows at each step: the fields its later statements use     *)
(* have been filled in, and the request it works on exists.                *)
CallKnows ==
    \A c \in Calls :
        /\ pc[c] \in Running => call[c].user \in Users
        /\ pc[c] \in {"insert"} \cup FanOutSteps => call[c].approver \in Approvers
        /\ pc[c] \in Running \ {"insert"} =>
              call[c].req \in Requests /\ status[call[c].req] # "NONE"
        /\ pc[c] \in {"notify"} \cup AdmittedSteps \cup CleanupSteps =>
              call[c].verdict \in Verdicts

(* The columns of a request that exists are filled in. *)
RequestFilled ==
    \A r \in Requests : status[r] # "NONE" => applicant[r] \in Users

TypeInv == TypeOK /\ CallKnows /\ RequestFilled

----------------------------------------------------------------------------
(* Appending a row keeps the type of a log.                                *)

LEMMA LogType ==
    ASSUME history \in [Requests -> Seq(ApprovalAction)],
           NEW r \in Requests, NEW u \in Users, NEW action \in Actions, Log(r, u, action)
    PROVE  history' \in [Requests -> Seq(ApprovalAction)]
  <1>1. [actor |-> u, action |-> action] \in ApprovalAction
    BY DEF ApprovalAction
  <1>2. Append(history[r], [actor |-> u, action |-> action]) \in Seq(ApprovalAction)
    BY <1>1
  <1> QED
    BY <1>2 DEF Log

LEMMA CallUpdate ==
    ASSUME NEW args \in CallState
    PROVE  /\ \A r \in Requests : [args EXCEPT !.req = r] \in CallState
           /\ \A us \in SUBSET Users : [args EXCEPT !.targets = us] \in CallState
  BY DEF CallState

LEMMA NoticeType ==
    ASSUME notices \in [Requests -> Seq(Notice)],
           NEW r \in Requests, NEW u \in Users, NEW title \in Titles,
           CreateNotification(r, u, title)
    PROVE  notices' \in [Requests -> Seq(Notice)]
  <1>1. [userId |-> u, title |-> title] \in Notice
    BY DEF Notice
  <1>2. Append(notices[r], [userId |-> u, title |-> title]) \in Seq(Notice)
    BY <1>1
  <1> QED
    BY <1>2 DEF CreateNotification

----------------------------------------------------------------------------
(* The initial states have the types, and every step keeps them.           *)

LEMMA InitTypeInv == Init => TypeInv
  BY ApproversDistinct, GuardedUsers, BoundAssumption
     DEF Init, MessageInit, TypeInv, TypeOK, MessageTypeOK, CallKnows, RequestFilled,
         NoCall, CallState, Statuses, Steps, Running, FanOutSteps, AdmittedSteps,
         CleanupSteps, Todo

LEMMA NextTypeInv == TypeInv /\ [Next]_vars => TypeInv'
  <1> SUFFICES ASSUME TypeInv, [Next]_vars
               PROVE  TypeInv'
    OBVIOUS
  <1> USE DEF TypeInv, TypeOK, MessageTypeOK, CallKnows, RequestFilled, requestVars,
              messageVars, rbacVars, Todo, Owner, BusinessId, Goto, Steps, Running,
              FanOutSteps, AdmittedSteps, CleanupSteps, CallState, Statuses, Verdicts
  <1>1. ASSUME NEW c \in Calls, NEW u \in Users, NEW a \in Approvers, CreateCheck(c, u, a)
        PROVE  TypeInv'
    BY <1>1 DEF CreateCheck, Begin, NoCall
  <1>2. ASSUME NEW c \in Calls, NEW u \in Users, NEW r \in Requests, NEW v \in Verdicts,
               DecideRead(c, u, r, v)
        PROVE  TypeInv'
    BY <1>2 DEF DecideRead, Begin, NoCall
  <1>3. ASSUME NEW c \in Calls, NEW u \in Users, NEW r \in Requests, CancelRead(c, u, r)
        PROVE  TypeInv'
    BY <1>3 DEF CancelRead, Begin, NoCall
  <1>4. ASSUME NEW c \in Calls, NEW u \in Users, NEW r \in Requests, CommentRead(c, u, r)
        PROVE  TypeInv'
    BY <1>4, ZenonT(40) DEF CommentRead, Begin, NoCall
  <1>5. ASSUME NEW c \in Calls, NEW r \in Requests, CreateInsert(c, r)
        PROVE  TypeInv'
    <2>1. call' \in [Calls -> CallState] /\ pc' \in [Calls -> Steps]
      <3> HIDE DEF CallState
      <3>1. [call[c] EXCEPT !.req = r] \in CallState
        BY CallUpdate
      <3> QED
        BY <1>5, <3>1 DEF CreateInsert
    <2>2. history' \in [Requests -> Seq(ApprovalAction)]
      BY <1>5, LogType DEF CreateInsert, Actions
    <2>3. TypeOK'
      BY <1>5, <2>1, <2>2 DEF CreateInsert
    <2>4. RequestFilled'
      BY <1>5, ApproversDistinct DEF CreateInsert
    <2>5. CallKnows'
      BY <1>5, ApproversDistinct DEF CreateInsert
    <2> QED
      BY <2>3, <2>4, <2>5
  <1>6. ASSUME NEW c \in Calls, FanOutToUser(c)
        PROVE  TypeInv'
    BY <1>6 DEF FanOutToUser, CreateTodos
  <1>7. ASSUME NEW c \in Calls, FanOutFindRoleHolders(c)
        PROVE  TypeInv'
    <2> DEFINE holders == RoleHolders(call[c].approver)
    <2>1. holders \in SUBSET Users
      BY DEF RoleHolders
    <2>2. [call[c] EXCEPT !.targets = holders] \in CallState
      <3> HIDE DEF holders, CallState
      <3> QED
        BY <2>1, CallUpdate
    <2>3. call' = [call EXCEPT ![c].targets = holders]
      BY <1>7 DEF FanOutFindRoleHolders
    <2>4. pc' = [pc EXCEPT ![c] = "done"] \/ pc' = [pc EXCEPT ![c] = "createMany"]
      BY <1>7 DEF FanOutFindRoleHolders
    <2> HIDE DEF holders
    <2>5. call' \in [Calls -> CallState] /\ pc' \in [Calls -> Steps]
      <3>1. pc' \in [Calls -> Steps]
        BY <2>4
      <3>2. call \in [Calls -> CallState]
        OBVIOUS
      <3> HIDE DEF CallState
      <3>3. call' \in [Calls -> CallState]
        BY <2>2, <2>3, <3>2
      <3> QED
        BY <3>1, <3>3
    <2>6. CallKnows'
      BY <1>7, <2>3, <2>4 DEF FanOutFindRoleHolders
    <2> QED
      BY <1>7, <2>5, <2>6 DEF FanOutFindRoleHolders
  <1>8. ASSUME NEW c \in Calls, FanOutCreateMany(c)
        PROVE  TypeInv'
    BY <1>8 DEF FanOutCreateMany, CreateTodos
  <1>9. ASSUME NEW c \in Calls, AssertCanApprove(c)
        PROVE  TypeInv'
    BY <1>9 DEF AssertCanApprove
  <1>10. ASSUME NEW c \in Calls, DecideCommit(c)
         PROVE  TypeInv'
    <2>1. history' \in [Requests -> Seq(ApprovalAction)]
      BY <1>10, LogType DEF DecideCommit, Process, Actions
    <2> QED
      BY <1>10, <2>1, ZenonT(40) DEF DecideCommit, Process
  <1>11. ASSUME NEW c \in Calls, CancelCommit(c)
         PROVE  TypeInv'
    <2>1. history' \in [Requests -> Seq(ApprovalAction)]
      BY <1>11, LogType DEF CancelCommit, Process, Actions
    <2> QED
      BY <1>11, <2>1, ZenonT(40) DEF CancelCommit, Process
  <1>12. ASSUME NEW c \in Calls, CompleteOwnTodos(c)
         PROVE  TypeInv'
    BY <1>12 DEF CompleteOwnTodos, CompleteBusinessTodos, PendingTodos
  <1>13. ASSUME NEW c \in Calls, CancelOthersTodos(c)
         PROVE  TypeInv'
    BY <1>13 DEF CancelOthersTodos, CancelBusinessTodos, PendingTodos
  <1>14. ASSUME NEW c \in Calls, CancelAllTodos(c)
         PROVE  TypeInv'
    BY <1>14 DEF CancelAllTodos, CancelBusinessTodos, PendingTodos
  <1>15. ASSUME NEW c \in Calls, NotifyApplicant(c)
         PROVE  TypeInv'
    <2>1. notices' \in [Requests -> Seq(Notice)]
      BY <1>15, NoticeType, TitlesAssumption DEF NotifyApplicant
    <2> QED
      BY <1>15, <2>1 DEF NotifyApplicant, CreateNotification
  <1>16. ASSUME NEW c \in Calls, CommentInsert(c)
         PROVE  TypeInv'
    <2>1. history' \in [Requests -> Seq(ApprovalAction)]
      BY <1>16, LogType DEF CommentInsert, Actions
    <2> QED
      BY <1>16, <2>1 DEF CommentInsert
  <1>17. ASSUME NEW c \in Calls, Fail(c)
         PROVE  TypeInv'
    BY <1>17 DEF Fail
  <1>18. ASSUME TodoEndpoint, UNCHANGED <<requestVars, pc, call, rbacVars, overtaken>>
         PROVE  TypeInv'
    BY <1>18 DEF TodoEndpoint, CompleteTodoRead, CancelTodoRead, CompleteTodoWrite,
                 CancelTodoWrite
  <1>19. ASSUME NoticeEndpoint, UNCHANGED <<requestVars, pc, call, rbacVars, overtaken>>
         PROVE  TypeInv'
    BY <1>19 DEF NoticeEndpoint, MarkRead, MarkAllRead, NoticesOf
  <1>20. ASSUME Administrator
         PROVE  TypeInv'
    <2> DEFINE RbacTyped == memberOf \subseteq Users \X Roles /\ active \subseteq Users
                            /\ enabled \subseteq Roles
    <2>1. RbacTyped'
      <3>1. ASSUME NEW u \in Users, NEW role \in Roles, SetMembership(u, role)
            PROVE  RbacTyped'
        BY <3>1 DEF SetMembership, Toggle
      <3>2. ASSUME NEW u \in Users, SetActive(u)
            PROVE  RbacTyped'
        BY <3>2 DEF SetActive, Toggle
      <3>3. ASSUME NEW role \in Roles, SetEnabled(role)
            PROVE  RbacTyped'
        BY <3>3 DEF SetEnabled, Toggle
      <3> QED
        BY <1>20, <3>1, <3>2, <3>3 DEF Administrator
    <2>2. AdminChange
      BY <1>20 DEF Administrator, SetMembership, SetActive, SetEnabled
    <2>3. adminChanges' \in 0..MaxAdminChanges
      BY <2>2, BoundAssumption DEF AdminChange
    <2> QED
      BY <2>1, <2>2, <2>3 DEF AdminChange
  <1>21. CASE UNCHANGED vars
    BY <1>21 DEF vars
  <1> HIDE DEF TypeInv
  <1> QED
    BY <1>1, <1>2, <1>3, <1>4, <1>5, <1>6, <1>7, <1>8, <1>9, <1>10, <1>11, <1>12,
       <1>13, <1>14, <1>15, <1>16, <1>17, <1>18, <1>19, <1>20, <1>21
       DEF Next, BeginCall, ContinueCall, MessageEndpoint

(* Type correctness: in every reachable state the tables have their types. *)
THEOREM TypeCorrect == Spec => []TypeOK
  <1>1. Spec => []TypeInv
    BY InitTypeInv, NextTypeInv, PTL DEF Spec
  <1> QED
    BY <1>1, PTL DEF TypeInv

----------------------------------------------------------------------------
(* What the first step of any call does: it reads, it remembers its        *)
(* arguments, and only a call that found the request pending is admitted.  *)

BeginStep(c) ==
    /\ pc[c] = "idle"
    /\ \E args \in CallState, step \in {"insert", "check", "cancel", "comment"} :
          /\ pc' = [pc EXCEPT ![c] = step]
          /\ call' = [call EXCEPT ![c] = args]
          /\ step \in AdmittedSteps => args.req \in Requests /\ status[args.req] = "PENDING"
    /\ UNCHANGED <<messageVars, requestVars, rbacVars, overtaken>>

LEMMA BeginCallStep ==
    ASSUME NEW c \in Calls, BeginCall(c)
    PROVE  BeginStep(c)
  <1> USE DEF Begin, BeginStep, AdmittedSteps, Goto
  <1>1. ASSUME NEW u \in Users, NEW a \in Approvers, CreateCheck(c, u, a)
        PROVE  BeginStep(c)
    <2>1. [NoCall EXCEPT !.user = u, !.approver = a] \in CallState
      BY DEF NoCall, CallState
    <2> QED
      BY <1>1, <2>1 DEF CreateCheck
  <1>2. ASSUME NEW u \in Users, NEW r \in Requests, NEW v \in {"APPROVED", "REJECTED"},
               DecideRead(c, u, r, v)
        PROVE  BeginStep(c)
    <2> DEFINE args == [NoCall EXCEPT !.user = u, !.req = r, !.verdict = v]
    <2>1. args \in CallState /\ args.req = r
      BY DEF NoCall, CallState, Verdicts
    <2> HIDE DEF args
    <2>2. Begin(c, args, "check") /\ status[r] = "PENDING"
          /\ UNCHANGED <<messageVars, requestVars, rbacVars, overtaken>>
      BY <1>2 DEF DecideRead, args
    <2> QED
      BY <2>1, <2>2
  <1>3. ASSUME NEW u \in Users, NEW r \in Requests, CancelRead(c, u, r)
        PROVE  BeginStep(c)
    <2> DEFINE args == [NoCall EXCEPT !.user = u, !.req = r, !.verdict = "CANCELLED"]
    <2>1. args \in CallState /\ args.req = r
      BY DEF NoCall, CallState, Verdicts
    <2> HIDE DEF args
    <2>2. Begin(c, args, "cancel") /\ status[r] = "PENDING"
          /\ UNCHANGED <<messageVars, requestVars, rbacVars, overtaken>>
      BY <1>3 DEF CancelRead, args
    <2> QED
      BY <2>1, <2>2
  <1>4. ASSUME NEW u \in Users, NEW r \in Requests, CommentRead(c, u, r)
        PROVE  BeginStep(c)
    <2>1. [NoCall EXCEPT !.user = u, !.req = r] \in CallState
      BY DEF NoCall, CallState
    <2> QED
      BY <1>4, <2>1 DEF CommentRead
  <1> QED
    BY <1>1, <1>2, <1>3, <1>4 DEF BeginCall

----------------------------------------------------------------------------
(* Cleanup follows the verdict.                                            *)

(* A call that cleans up or notifies has stored a verdict.                 *)
CleanupAfterVerdict ==
    \A c \in Calls : pc[c] \in {"notify"} \cup CleanupSteps => Processed(call[c].req)

LEMMA NextCleanupAfterVerdict ==
    TypeInv /\ CleanupAfterVerdict /\ [Next]_vars => CleanupAfterVerdict'
  <1> SUFFICES ASSUME TypeInv, CleanupAfterVerdict, [Next]_vars
               PROVE  CleanupAfterVerdict'
    OBVIOUS
  <1> USE DEF TypeInv, TypeOK, CallKnows, CleanupAfterVerdict, Processed, Goto, requestVars,
              Steps, Running, FanOutSteps, AdmittedSteps, CleanupSteps, Verdicts
  <1>1. ASSUME NEW c \in Calls, BeginCall(c)
        PROVE  CleanupAfterVerdict'
    BY <1>1, BeginCallStep DEF BeginStep
  <1>2. ASSUME NEW c \in Calls, NEW r \in Requests, CreateInsert(c, r)
        PROVE  CleanupAfterVerdict'
    BY <1>2 DEF CreateInsert, CallState
  <1>3. ASSUME NEW c \in Calls,
               \/ FanOutToUser(c) \/ FanOutFindRoleHolders(c) \/ FanOutCreateMany(c)
               \/ AssertCanApprove(c)
        PROVE  CleanupAfterVerdict'
    BY <1>3 DEF FanOutToUser, FanOutFindRoleHolders, FanOutCreateMany, AssertCanApprove, CallState
  <1>4. ASSUME NEW c \in Calls, DecideCommit(c) \/ CancelCommit(c)
        PROVE  CleanupAfterVerdict'
    <2>1. PICK v \in Verdicts : status' = [status EXCEPT ![call[c].req] = v]
      BY <1>4 DEF DecideCommit, CancelCommit, Process
    <2>2. /\ UNCHANGED call
          /\ pc' = [pc EXCEPT ![c] = "completeOwn"] \/ pc' = [pc EXCEPT ![c] = "cancelTodos"]
      BY <1>4 DEF DecideCommit, CancelCommit, Process
    <2>3. call[c].req \in Requests
      BY <1>4 DEF DecideCommit, CancelCommit
    <2> QED
      BY <2>1, <2>2, <2>3
  <1>5. ASSUME NEW c \in Calls,
               \/ CompleteOwnTodos(c) \/ CancelOthersTodos(c) \/ CancelAllTodos(c)
               \/ NotifyApplicant(c) \/ CommentInsert(c) \/ Fail(c)
        PROVE  CleanupAfterVerdict'
    BY <1>5 DEF CompleteOwnTodos, CancelOthersTodos, CancelAllTodos, NotifyApplicant,
                CommentInsert, Fail
  <1>6. CASE Administrator
    BY <1>6 DEF Administrator, SetMembership, SetActive, SetEnabled, AdminChange
  <1>7. CASE UNCHANGED <<requestVars, pc, call>>
    BY <1>7
  <1> HIDE DEF CleanupAfterVerdict, TypeInv, requestVars
  <1> QED
    BY <1>1, <1>2, <1>3, <1>4, <1>5, <1>6, <1>7 DEF Next, ContinueCall, vars

LEMMA ControlInvariant == Spec => [](TypeInv /\ CleanupAfterVerdict)
  <1>1. Init => CleanupAfterVerdict
    BY DEF Init, CleanupAfterVerdict, CleanupSteps
  <1> QED
    BY <1>1, InitTypeInv, NextTypeInv, NextCleanupAfterVerdict, PTL DEF Spec

(* One step closes a todo of a pending request only for its owner's click. *)
LEMMA StepKeepsPendingTodos ==
    ASSUME TypeInv, CleanupAfterVerdict, [Next]_vars,
           NEW t \in PendingTodos, status[BusinessId(t)] = "PENDING", t \notin PendingTodos'
    PROVE  <<"complete", t>> \in todoWrites \/ <<"cancel", t>> \in todoWrites
  <1> USE DEF PendingTodos, messageVars
  <1>1. CASE \E c \in Calls : CompleteOwnTodos(c) \/ CancelOthersTodos(c) \/ CancelAllTodos(c)
    <2> PICK c \in Calls : CompleteOwnTodos(c) \/ CancelOthersTodos(c) \/ CancelAllTodos(c)
      BY <1>1
    <2>1. Processed(call[c].req)
      BY DEF CompleteOwnTodos, CancelOthersTodos, CancelAllTodos, CleanupAfterVerdict, CleanupSteps
    <2>2. BusinessId(t) # call[c].req
      BY <2>1 DEF Processed, Verdicts
    <2> QED
      BY <2>2 DEF CompleteOwnTodos, CancelOthersTodos, CancelAllTodos, CompleteBusinessTodos,
                  CancelBusinessTodos
  <1>2. CASE \E c \in Calls : FanOutToUser(c) \/ FanOutCreateMany(c)
    BY <1>2 DEF FanOutToUser, FanOutCreateMany, CreateTodos
  <1>3. CASE TodoEndpoint
    BY <1>3 DEF TodoEndpoint, CompleteTodoRead, CancelTodoRead, CompleteTodoWrite,
                CancelTodoWrite
  <1>4. CASE UNCHANGED <<todos, completed, cancelled>>
    BY <1>4
  <1>5. CASE \E c \in Calls : BeginCall(c)
    BY <1>5, <1>4, BeginCallStep DEF BeginStep
  <1>6. CASE \E c \in Calls :
               \/ \E r \in Requests : CreateInsert(c, r)
               \/ FanOutFindRoleHolders(c) \/ AssertCanApprove(c) \/ DecideCommit(c)
               \/ CancelCommit(c) \/ NotifyApplicant(c) \/ CommentInsert(c) \/ Fail(c)
    BY <1>6 DEF CreateInsert, FanOutFindRoleHolders, AssertCanApprove, DecideCommit,
                CancelCommit, Process, NotifyApplicant, CreateNotification, CommentInsert, Fail
  <1>7. CASE NoticeEndpoint
    BY <1>7 DEF NoticeEndpoint, MarkRead, MarkAllRead
  <1>8. CASE Administrator
    BY <1>8 DEF Administrator, SetMembership, SetActive, SetEnabled, AdminChange
  <1> QED
    BY <1>1, <1>2, <1>3, <1>4, <1>5, <1>6, <1>7, <1>8
       DEF Next, ContinueCall, MessageEndpoint, vars

(* While a request is pending, only an owner's click closes its todos.     *)
THEOREM PendingTodosKept == Spec => PendingTodosUntouched
  <1>1. TypeInv /\ CleanupAfterVerdict /\ [Next]_vars =>
          [\A t \in PendingTodos :
             status[BusinessId(t)] = "PENDING" /\ t \notin PendingTodos' =>
               <<"complete", t>> \in todoWrites \/ <<"cancel", t>> \in todoWrites]_vars
    BY StepKeepsPendingTodos
  <1> QED
    BY <1>1, ControlInvariant, PTL DEF Spec, PendingTodosUntouched

----------------------------------------------------------------------------
(* Where a leftover todo comes from.                                       *)

(* A call still to write the todos of a processed request was overtaken.   *)
LateFanOut ==
    \A c \in Calls : pc[c] \in FanOutSteps /\ Processed(call[c].req) =>
        call[c].req \in overtaken

(* Between the two clean-up statements of decide, the decider's own todo   *)
(* is closed.                                                              *)
OwnTodoClosed ==
    \A c \in Calls : pc[c] = "cancelOthers" =>
        \/ call[c].req \in overtaken
        \/ <<call[c].req, call[c].user>> \notin PendingTodos

CleanupInv ==
    /\ TypeInv
    /\ CleanupAfterVerdict
    /\ LateFanOut
    /\ OwnTodoClosed
    /\ LeftoverExplained

LEMMA NextCleanupInv == CleanupInv /\ [Next]_vars => CleanupInv'
  <1> SUFFICES ASSUME CleanupInv, [Next]_vars
               PROVE  LateFanOut' /\ OwnTodoClosed' /\ LeftoverExplained'
    BY NextTypeInv, NextCleanupAfterVerdict DEF CleanupInv
  <1> DEFINE Goal == LateFanOut' /\ OwnTodoClosed' /\ LeftoverExplained'
  <1>a. /\ pc \in [Calls -> Steps]
        /\ call \in [Calls -> CallState]
        /\ status \in [Requests -> Statuses]
        /\ todos \subseteq Todo
        /\ \A c \in Calls : pc[c] \in Running \ {"insert"} => call[c].req \in Requests
        /\ \A c \in Calls : pc[c] \in {"decide", "cancel"} => call[c].verdict \in Verdicts
        /\ CleanupAfterVerdict /\ LateFanOut /\ OwnTodoClosed /\ LeftoverExplained
    BY DEF CleanupInv, TypeInv, TypeOK, MessageTypeOK, CallKnows, AdmittedSteps
  <1> USE <1>a DEF CleanupAfterVerdict, LateFanOut,
              OwnTodoClosed, LeftoverExplained, Processed, TodosOf, On, Goto, requestVars,
              messageVars, PendingTodos, BusinessId, Owner, Running, FanOutSteps,
              AdmittedSteps, CleanupSteps, Verdicts
  <1>1. ASSUME NEW c \in Calls, BeginCall(c)
        PROVE  Goal
    BY <1>1, BeginCallStep DEF BeginStep
  <1>2. ASSUME NEW c \in Calls, NEW r \in Requests, CreateInsert(c, r)
        PROVE  Goal
    <2>1. /\ call' = [call EXCEPT ![c] = [call[c] EXCEPT !.req = r]]
          /\ pc' = [pc EXCEPT ![c] = "fanOut"] /\ pc[c] = "insert"
          /\ status' = [status EXCEPT ![r] = "PENDING"] /\ status[r] = "NONE"
          /\ UNCHANGED <<todos, completed, cancelled, overtaken>>
      BY <1>2 DEF CreateInsert
    <2>2. call[c] \in CallState
      OBVIOUS
    <2>3. call'[c].req = r
      BY <2>1, <2>2 DEF CallState
    <2>4. LateFanOut'
      BY <2>1, <2>3
    <2>5. OwnTodoClosed'
      BY <2>1
    <2>6. LeftoverExplained'
      BY <2>1
    <2> QED
      BY <2>4, <2>5, <2>6
  <1>3. ASSUME NEW c \in Calls, FanOutToUser(c) \/ FanOutCreateMany(c)
        PROVE  Goal
    BY <1>3 DEF FanOutToUser, FanOutCreateMany, CreateTodos
  <1>4. ASSUME NEW c \in Calls, FanOutFindRoleHolders(c)
        PROVE  Goal
    BY <1>4 DEF FanOutFindRoleHolders
  <1>5. ASSUME NEW c \in Calls, DecideCommit(c) \/ CancelCommit(c)
        PROVE  Goal
    BY <1>5 DEF DecideCommit, CancelCommit, Process
  <1>6. ASSUME NEW c \in Calls, CompleteOwnTodos(c)
        PROVE  Goal
    BY <1>6 DEF CompleteOwnTodos, CompleteBusinessTodos
  <1>7. ASSUME NEW c \in Calls, CancelOthersTodos(c)
        PROVE  Goal
    <2>1. LateFanOut' /\ OwnTodoClosed'
      BY <1>7 DEF CancelOthersTodos, CancelBusinessTodos
    <2>2. ASSUME NEW t \in PendingTodos', BusinessId(t) = call[c].req, t \in Todo
          PROVE  call[c].req \in overtaken
      BY <1>7, <2>2 DEF CancelOthersTodos, CancelBusinessTodos, Todo
    <2>3. LeftoverExplained'
      BY <1>7, <2>2 DEF CancelOthersTodos, CancelBusinessTodos
    <2> QED
      BY <2>1, <2>3
  <1>8. ASSUME NEW c \in Calls, CancelAllTodos(c)
        PROVE  Goal
    BY <1>8 DEF CancelAllTodos, CancelBusinessTodos
  <1>9. ASSUME NEW c \in Calls,
               AssertCanApprove(c) \/ NotifyApplicant(c) \/ CommentInsert(c) \/ Fail(c)
        PROVE  Goal
    BY <1>9 DEF AssertCanApprove, NotifyApplicant, CreateNotification, CommentInsert, Fail
  <1>10. CASE TodoEndpoint /\ UNCHANGED <<requestVars, pc, call, rbacVars, overtaken>>
    BY <1>10 DEF TodoEndpoint, CompleteTodoRead, CancelTodoRead, CompleteTodoWrite,
                 CancelTodoWrite
  <1>11. CASE NoticeEndpoint /\ UNCHANGED <<requestVars, pc, call, rbacVars, overtaken>>
    BY <1>11 DEF NoticeEndpoint, MarkRead, MarkAllRead
  <1>12. CASE Administrator
    <2>1. UNCHANGED <<status, pc, call, todos, completed, cancelled, overtaken>>
      BY <1>12 DEF Administrator, SetMembership, SetActive, SetEnabled, AdminChange
    <2> QED
      BY <2>1
  <1>13. CASE UNCHANGED vars
    BY <1>13 DEF vars
  <1> HIDE DEF CleanupInv, LateFanOut, OwnTodoClosed, LeftoverExplained, requestVars
  <1> QED
    BY <1>1, <1>2, <1>3, <1>4, <1>5, <1>6, <1>7, <1>8, <1>9, <1>10, <1>11, <1>12, <1>13
       DEF Next, ContinueCall, MessageEndpoint

(* A todo outlives its request's processing only through an unfinished or  *)
(* failed call, or because create had not written it yet.                  *)
THEOREM LeftoversExplained == Spec => []LeftoverExplained
  <1>1. Init => CleanupInv
    BY InitTypeInv DEF Init, MessageInit, CleanupInv, CleanupAfterVerdict, LateFanOut,
                       OwnTodoClosed, LeftoverExplained, Processed, Verdicts, CleanupSteps,
                       FanOutSteps
  <1>2. CleanupInv => LeftoverExplained
    BY DEF CleanupInv
  <1> QED
    BY <1>1, <1>2, NextCleanupInv, PTL DEF Spec

----------------------------------------------------------------------------
(* The status column implements ApprovalRegister.                          *)

(* The refinement mapping. *)
Admitted == [r \in Requests |-> {c \in Calls : pc[c] \in AdmittedSteps /\ On(c, r)}]

LEMMA AdmittedUnchanged ==
    ASSUME \A c \in Calls : pc[c] \in AdmittedSteps \/ pc'[c] \in AdmittedSteps =>
              pc[c] \in AdmittedSteps /\ pc'[c] \in AdmittedSteps /\ call'[c].req = call[c].req
    PROVE  Admitted' = Admitted
  <1>1. ASSUME NEW r \in Requests
        PROVE  {c \in Calls : pc[c] \in AdmittedSteps /\ On(c, r)}'
                 = {c \in Calls : pc[c] \in AdmittedSteps /\ On(c, r)}
    BY DEF On
  <1> QED
    BY <1>1 DEF Admitted

LEMMA AdmittedGrows ==
    ASSUME pc \in [Calls -> Steps], NEW c \in Calls, NEW r \in Requests, NEW step \in AdmittedSteps,
           pc[c] = "idle", pc' = [pc EXCEPT ![c] = step], call'[c].req = r,
           \A d \in Calls \ {c} : call'[d] = call[d]
    PROVE  Admitted' = [Admitted EXCEPT ![r] = @ \cup {c}]
  <1>1. ASSUME NEW q \in Requests
        PROVE  {d \in Calls : pc[d] \in AdmittedSteps /\ On(d, q)}'
                 = IF q = r THEN {d \in Calls : pc[d] \in AdmittedSteps /\ On(d, q)} \cup {c}
                            ELSE {d \in Calls : pc[d] \in AdmittedSteps /\ On(d, q)}
    <2>1. pc'[c] \in AdmittedSteps /\ pc[c] \notin AdmittedSteps
      BY DEF AdmittedSteps
    <2>2. \A d \in Calls \ {c} : pc'[d] = pc[d] /\ (On(d, q)' <=> On(d, q))
      BY DEF On
    <2>3. On(c, q)' <=> q = r
      BY DEF On
    <2>4. ASSUME NEW d \in Calls
          PROVE  pc'[d] \in AdmittedSteps /\ On(d, q)'
                     <=> (pc[d] \in AdmittedSteps /\ On(d, q)) \/ (q = r /\ d = c)
      BY <2>1, <2>2, <2>3
    <2> QED
      BY <2>4
  <1>2. /\ Admitted = [q \in Requests |-> Admitted[q]]
        /\ Admitted' = [q \in Requests |-> Admitted'[q]]
    BY DEF Admitted
  <1>3. \A q \in Requests : Admitted'[q] = IF q = r THEN Admitted[q] \cup {c} ELSE Admitted[q]
    BY <1>1 DEF Admitted
  <1> QED
    BY <1>2, <1>3

LEMMA AdmittedShrinks ==
    ASSUME pc \in [Calls -> Steps], NEW c \in Calls, NEW r \in Requests, NEW step,
           step \notin AdmittedSteps, pc' = [pc EXCEPT ![c] = step],
           call[c].req = r, UNCHANGED call
    PROVE  Admitted' = [Admitted EXCEPT ![r] = @ \ {c}]
  <1>1. ASSUME NEW q \in Requests
        PROVE  {d \in Calls : pc[d] \in AdmittedSteps /\ On(d, q)}'
                 = IF q = r THEN {d \in Calls : pc[d] \in AdmittedSteps /\ On(d, q)} \ {c}
                            ELSE {d \in Calls : pc[d] \in AdmittedSteps /\ On(d, q)}
    <2>1. ASSUME NEW d \in Calls
          PROVE  pc'[d] \in AdmittedSteps /\ On(d, q)'
                     <=> pc[d] \in AdmittedSteps /\ On(d, q) /\ ~(q = r /\ d = c)
      BY DEF On
    <2> QED
      BY <2>1
  <1>2. /\ Admitted = [q \in Requests |-> Admitted[q]]
        /\ Admitted' = [q \in Requests |-> Admitted'[q]]
    BY DEF Admitted
  <1>3. \A q \in Requests : Admitted'[q] = IF q = r THEN Admitted[q] \ {c} ELSE Admitted[q]
    BY <1>1 DEF Admitted
  <1> QED
    BY <1>2, <1>3

LEMMA StepSimulates ==
    ASSUME TypeInv, [Next]_vars
    PROVE  [Register!RegisterNext]_(Register!registerVars)
  <1> DEFINE Simulated == \/ Register!RegisterNext
                          \/ status' = status /\ Admitted' = Admitted
  <1> USE DEF Goto, requestVars, AdmittedSteps
  <1>a. /\ pc \in [Calls -> Steps] /\ call \in [Calls -> CallState]
        /\ \A c \in Calls : pc[c] \in AdmittedSteps =>
              call[c].req \in Requests /\ call[c].verdict \in Verdicts
    BY DEF TypeInv, TypeOK, CallKnows, Running
  <1>1. ASSUME NEW c \in Calls, BeginCall(c)
        PROVE  Simulated
    <2> PICK args \in CallState, step \in {"insert", "check", "cancel", "comment"} :
               /\ pc[c] = "idle"
               /\ pc' = [pc EXCEPT ![c] = step]
               /\ call' = [call EXCEPT ![c] = args]
               /\ step \in AdmittedSteps => args.req \in Requests /\ status[args.req] = "PENDING"
               /\ UNCHANGED status
      BY <1>1, BeginCallStep DEF BeginStep
    <2>1. CASE step \in AdmittedSteps
      <3>1. Admitted' = [Admitted EXCEPT ![args.req] = @ \cup {c}]
        BY <1>a, <2>1, AdmittedGrows
      <3>2. Register!Admit(args.req, c)
        BY <2>1, <3>1 DEF Register!Admit, Admitted
      <3> QED
        BY <2>1, <3>2 DEF Register!RegisterNext
    <2>2. CASE step \notin AdmittedSteps
      BY <1>a, <2>2, AdmittedUnchanged
    <2> QED
      BY <2>1, <2>2
  <1>2. ASSUME NEW c \in Calls, NEW r \in Requests, CreateInsert(c, r)
        PROVE  Simulated
    <2>1. Admitted' = Admitted
      BY <1>2, <1>a, AdmittedUnchanged DEF CreateInsert
    <2>2. Register!Submit(r)
      BY <1>2, <2>1 DEF CreateInsert, Register!Submit, Admitted
    <2> QED
      BY <2>2 DEF Register!RegisterNext
  <1>3. ASSUME NEW c \in Calls, DecideCommit(c) \/ CancelCommit(c)
        PROVE  Simulated
    <2>1. call[c].req \in Requests /\ pc[c] \in AdmittedSteps /\ UNCHANGED call
      BY <1>3, <1>a DEF DecideCommit, CancelCommit, Process
    <2>2. PICK v \in Verdicts : status' = [status EXCEPT ![call[c].req] = v]
      BY <1>3, <1>a DEF DecideCommit, CancelCommit, Process, Verdicts
    <2>3. Admitted' = [Admitted EXCEPT ![call[c].req] = @ \ {c}]
      BY <1>3, <1>a, <2>1, AdmittedShrinks DEF DecideCommit, CancelCommit
    <2>4. Register!Process(call[c].req, c, v)
      BY <2>1, <2>2, <2>3 DEF Register!Process, Admitted, On
    <2> QED
      BY <2>1, <2>4 DEF Register!RegisterNext, Register!Verdicts, Verdicts
  <1>4. ASSUME NEW c \in Calls, NEW step, step \notin AdmittedSteps,
               pc' = [pc EXCEPT ![c] = step], UNCHANGED <<call, status>>
        PROVE  Simulated
    <2>1. CASE pc[c] \in AdmittedSteps
      <3>1. Admitted' = [Admitted EXCEPT ![call[c].req] = @ \ {c}]
        BY <1>a, <1>4, <2>1, AdmittedShrinks
      <3>2. Register!Withdraw(call[c].req, c)
        BY <1>a, <1>4, <2>1, <3>1 DEF Register!Withdraw, Admitted, On
      <3> QED
        BY <1>a, <2>1, <3>2 DEF Register!RegisterNext
    <2>2. CASE pc[c] \notin AdmittedSteps
      BY <1>a, <1>4, <2>2, AdmittedUnchanged
    <2> QED
      BY <2>1, <2>2
  <1>5. ASSUME NEW c \in Calls, Fail(c)
        PROVE  Simulated
    BY <1>5, <1>4 DEF Fail
  <1>6. ASSUME NEW c \in Calls, AssertCanApprove(c)
        PROVE  Simulated
    <2>1. CASE pc' = [pc EXCEPT ![c] = "done"]
      BY <1>6, <1>4, <2>1 DEF AssertCanApprove
    <2>2. CASE pc' = [pc EXCEPT ![c] = "decide"]
      BY <1>6, <1>a, <2>2, AdmittedUnchanged DEF AssertCanApprove
    <2> QED
      BY <1>6, <2>1, <2>2 DEF AssertCanApprove
  <1>7. ASSUME NEW c \in Calls,
               \/ FanOutToUser(c) \/ FanOutCreateMany(c)
               \/ CompleteOwnTodos(c) \/ CancelOthersTodos(c)
               \/ CancelAllTodos(c) \/ NotifyApplicant(c) \/ CommentInsert(c)
        PROVE  Simulated
    BY <1>7, <1>4 DEF FanOutToUser, FanOutCreateMany, CompleteOwnTodos, CancelOthersTodos,
                      CancelAllTodos, NotifyApplicant, CommentInsert
  <1>8. ASSUME NEW c \in Calls, FanOutFindRoleHolders(c)
        PROVE  Simulated
    BY <1>8, <1>a, AdmittedUnchanged DEF FanOutFindRoleHolders
  <1>9. ASSUME UNCHANGED <<status, pc, call>>
        PROVE  Simulated
    BY <1>9 DEF Admitted, On
  <1>10. ASSUME Administrator
         PROVE  Simulated
    BY <1>9, <1>10 DEF Administrator, SetMembership, SetActive, SetEnabled, AdminChange
  <1> HIDE DEF Simulated
  <1>11. Simulated
    BY <1>1, <1>2, <1>3, <1>5, <1>6, <1>7, <1>8, <1>9, <1>10 DEF Next, ContinueCall, vars
  <1> QED
    BY <1>11 DEF Simulated, Register!registerVars, Admitted

(* The approval service implements the register: a request is submitted    *)
(* once and processed only by calls that found it pending.                 *)
THEOREM ImplementsRegister == Spec => RegisterImplemented
  <1>1. Init => Register!RegisterInit
    BY DEF Init, Register!RegisterInit, AdmittedSteps
  <1>2. Spec => []TypeInv
    BY InitTypeInv, NextTypeInv, PTL DEF Spec
  <1>3. TypeInv /\ [Next]_vars => [Register!RegisterNext]_(Register!registerVars)
    BY StepSimulates
  <1> QED
    BY <1>1, <1>2, <1>3, PTL DEF Spec, RegisterImplemented, Register!RegisterSpec

(* In the register, a processed request with no admitted call is frozen.   *)
LEMMA SettledStep ==
    ASSUME TypeInv, [Next]_vars, NEW r \in Requests, Settled(r)
    PROVE  Settled(r)' /\ status'[r] = status[r]
  <1>1. Admitted[r] = {} /\ status[r] \in Verdicts
    BY DEF Settled, Admitted, Processed, On
  <1>2. \/ Register!RegisterNext
        \/ status' = status /\ Admitted' = Admitted
    BY StepSimulates DEF Register!registerVars, Admitted
  <1>3. DOMAIN Admitted = Requests /\ status \in [Requests -> Statuses]
    BY DEF Admitted, TypeInv, TypeOK
  <1> DEFINE Frozen == status'[r] = status[r] /\ Admitted'[r] = {}
  <1>4. Frozen
    <2>1. ASSUME NEW q \in Requests, Register!Submit(q)
          PROVE  Frozen
      BY <1>1, <1>3, <2>1 DEF Register!Submit, Admitted, Verdicts
    <2>2. ASSUME NEW q \in Requests, NEW c \in Calls, Register!Admit(q, c)
          PROVE  Frozen
      BY <1>1, <1>3, <2>2 DEF Register!Admit, Admitted, Verdicts
    <2>3. ASSUME NEW q \in Requests, NEW c \in Calls, Register!Withdraw(q, c)
          PROVE  Frozen
      BY <1>1, <1>3, <2>3 DEF Register!Withdraw, Admitted
    <2>4. ASSUME NEW q \in Requests, NEW c \in Calls, NEW v, Register!Process(q, c, v)
          PROVE  Frozen
      BY <1>1, <1>3, <2>4 DEF Register!Process, Admitted
    <2> QED
      BY <1>1, <1>2, <2>1, <2>2, <2>3, <2>4 DEF Register!RegisterNext
  <1> QED
    BY <1>1, <1>4 DEF Settled, Admitted, Processed, On

(* A call sent after the verdict, once the earlier ones are over, changes  *)
(* nothing: the status of a settled request is final.                      *)
THEOREM SettledStaysFinal == Spec => SettledIsFinal
  <1>1. Spec => []TypeInv
    BY InitTypeInv, NextTypeInv, PTL DEF Spec
  <1>2. TypeInv /\ [Next]_vars =>
          [\A r \in Requests : Settled(r) => Settled(r)' /\ status'[r] = status[r]]_vars
    BY SettledStep
  <1> QED
    BY <1>1, <1>2, PTL DEF Spec, SettledIsFinal

----------------------------------------------------------------------------
(* The action log and the status.                                          *)

(* The log of a request r agrees with its status. *)
LogAgrees(log, st, who) ==
    IF st = "NONE" THEN log = <<>> ELSE
    /\ Len(log) > 0
    /\ log[1] = [actor |-> who, action |-> "SUBMIT"]
    /\ \E i \in 1..Len(log) :
          /\ log[i].action = IF st = "PENDING" THEN "SUBMIT" ELSE st
          /\ \A j \in 1..Len(log) : j > i => log[j].action = "COMMENT"

LEMMA HistoryIsLogs ==
    HistoryAgrees <=> \A r \in Requests : LogAgrees(history[r], status[r], applicant[r])
  BY DEF HistoryAgrees, LogAgrees

(* A verdict appended to a log becomes its status; a comment keeps it.     *)
LEMMA AppendVerdict ==
    ASSUME NEW log \in Seq(ApprovalAction), NEW st, st # "NONE", NEW who, NEW u,
           NEW v \in Verdicts, LogAgrees(log, st, who)
    PROVE  LogAgrees(Append(log, [actor |-> u, action |-> v]), v, who)
  <1> DEFINE longer == Append(log, [actor |-> u, action |-> v])
  <1>1. /\ Len(longer) = Len(log) + 1 /\ Len(log) \in Nat
        /\ \A i \in 1..Len(log) : longer[i] = log[i]
        /\ longer[Len(log) + 1] = [actor |-> u, action |-> v]
    OBVIOUS
  <1>2. Len(log) > 0 /\ log[1] = [actor |-> who, action |-> "SUBMIT"]
    BY DEF LogAgrees
  <1> HIDE DEF longer
  <1>3. Len(longer) > 0 /\ longer[1] = [actor |-> who, action |-> "SUBMIT"]
    BY <1>1, <1>2
  <1>4. \E i \in 1..Len(longer) :
          longer[i].action = v /\ \A j \in 1..Len(longer) : j > i => longer[j].action = "COMMENT"
    <2>1. Len(log) + 1 \in 1..Len(longer)
      BY <1>1
    <2> WITNESS Len(log) + 1 \in 1..Len(longer)
    <2> QED
      BY <1>1
  <1> QED
    BY <1>3, <1>4 DEF LogAgrees, Verdicts, longer

LEMMA AppendComment ==
    ASSUME NEW log \in Seq(ApprovalAction), NEW st, st # "NONE", NEW who, NEW u,
           LogAgrees(log, st, who)
    PROVE  LogAgrees(Append(log, [actor |-> u, action |-> "COMMENT"]), st, who)
  <1> DEFINE longer == Append(log, [actor |-> u, action |-> "COMMENT"])
  <1>1. /\ Len(longer) = Len(log) + 1 /\ Len(log) \in Nat
        /\ \A i \in 1..Len(log) : longer[i] = log[i]
        /\ longer[Len(log) + 1].action = "COMMENT"
    OBVIOUS
  <1> HIDE DEF longer
  <1>2. Len(longer) > 0 /\ longer[1] = [actor |-> who, action |-> "SUBMIT"]
    BY <1>1 DEF LogAgrees
  <1>3. PICK i \in 1..Len(log) :
          /\ log[i].action = IF st = "PENDING" THEN "SUBMIT" ELSE st
          /\ \A j \in 1..Len(log) : j > i => log[j].action = "COMMENT"
    BY DEF LogAgrees
  <1>4. /\ i \in 1..Len(longer)
        /\ longer[i].action = IF st = "PENDING" THEN "SUBMIT" ELSE st
        /\ \A j \in 1..Len(longer) : j > i => longer[j].action = "COMMENT"
    BY <1>1, <1>3
  <1> QED
    BY <1>2, <1>4 DEF LogAgrees, longer

LEMMA FirstEntry ==
    ASSUME NEW who
    PROVE  LogAgrees(Append(<<>>, [actor |-> who, action |-> "SUBMIT"]), "PENDING", who)
  <1> DEFINE log == Append(<<>>, [actor |-> who, action |-> "SUBMIT"])
  <1>1. Len(log) = 1 /\ log[1] = [actor |-> who, action |-> "SUBMIT"]
    OBVIOUS
  <1> QED
    BY <1>1 DEF LogAgrees

LEMMA NextHistoryAgrees == TypeInv /\ HistoryAgrees /\ [Next]_vars => HistoryAgrees'
  <1> SUFFICES ASSUME TypeInv, [Next]_vars, NEW r \in Requests,
                      \A q \in Requests : LogAgrees(history[q], status[q], applicant[q])
               PROVE  LogAgrees(history[r], status[r], applicant[r])'
    BY HistoryIsLogs DEF HistoryAgrees, LogAgrees
  <1> DEFINE Goal == LogAgrees(history'[r], status'[r], applicant'[r])
  <1>a. /\ history \in [Requests -> Seq(ApprovalAction)]
        /\ status \in [Requests -> Statuses]
        /\ applicant \in [Requests -> Users \cup {None}]
        /\ \A c \in Calls : pc[c] \in Running \ {"insert"} =>
              call[c].req \in Requests /\ status[call[c].req] # "NONE"
        /\ \A c \in Calls : pc[c] \in AdmittedSteps => call[c].verdict \in Verdicts
    BY DEF TypeInv, TypeOK, CallKnows
  <1>1. ASSUME UNCHANGED <<history, status, applicant>>
        PROVE  Goal
    BY <1>1
  <1>2. ASSUME NEW c \in Calls, NEW q \in Requests, CreateInsert(c, q)
        PROVE  Goal
    <2>1. CASE q = r
      <3>1. history[r] = <<>>
        BY <1>2, <2>1 DEF CreateInsert, LogAgrees
      <3>2. /\ history'[r] = Append(<<>>, [actor |-> call[c].user, action |-> "SUBMIT"])
            /\ status'[r] = "PENDING" /\ applicant'[r] = call[c].user
        BY <1>2, <1>a, <2>1, <3>1 DEF CreateInsert, Log
      <3> QED
        BY <3>2, FirstEntry
    <2>2. CASE q # r
      BY <1>2, <1>a, <2>2 DEF CreateInsert, Log
    <2> QED
      BY <2>1, <2>2
  <1>3. ASSUME NEW c \in Calls, DecideCommit(c) \/ CancelCommit(c)
        PROVE  Goal
    <2>1. PICK v \in Verdicts : Process(c, call[c].req, v)
      BY <1>3, <1>a DEF DecideCommit, CancelCommit, Verdicts, AdmittedSteps
    <2>2. call[c].req \in Requests /\ status[call[c].req] # "NONE"
      BY <1>3, <1>a DEF DecideCommit, CancelCommit, Running, AdmittedSteps
    <2>3. CASE call[c].req = r
      <3>1. /\ history'[r] = Append(history[r], [actor |-> call[c].user, action |-> v])
            /\ status'[r] = v /\ applicant' = applicant
        BY <1>a, <2>1, <2>3 DEF Process, Log
      <3> QED
        BY <1>a, <2>2, <2>3, <3>1, AppendVerdict
    <2>4. CASE call[c].req # r
      BY <1>a, <2>1, <2>2, <2>4 DEF Process, Log
    <2> QED
      BY <2>3, <2>4
  <1>4. ASSUME NEW c \in Calls, CommentInsert(c)
        PROVE  Goal
    <2>1. call[c].req \in Requests /\ status[call[c].req] # "NONE"
      BY <1>4, <1>a DEF CommentInsert, Running
    <2>2. CASE call[c].req = r
      <3>1. /\ history'[r] = Append(history[r], [actor |-> call[c].user, action |-> "COMMENT"])
            /\ status' = status /\ applicant' = applicant
        BY <1>4, <1>a, <2>2 DEF CommentInsert, Log
      <3> QED
        BY <1>a, <2>1, <2>2, <3>1, AppendComment
    <2>3. CASE call[c].req # r
      BY <1>4, <1>a, <2>1, <2>3 DEF CommentInsert, Log
    <2> QED
      BY <2>2, <2>3
  <1>5. ASSUME NEW c \in Calls, BeginCall(c)
        PROVE  Goal
    BY <1>1, <1>5, BeginCallStep DEF BeginStep, requestVars
  <1>6. ASSUME NEW c \in Calls,
               \/ FanOutToUser(c) \/ FanOutFindRoleHolders(c) \/ FanOutCreateMany(c)
               \/ AssertCanApprove(c) \/ CompleteOwnTodos(c) \/ CancelOthersTodos(c)
               \/ CancelAllTodos(c) \/ NotifyApplicant(c) \/ Fail(c)
        PROVE  Goal
    BY <1>1, <1>6 DEF FanOutToUser, FanOutFindRoleHolders, FanOutCreateMany, AssertCanApprove,
                      CompleteOwnTodos, CancelOthersTodos, CancelAllTodos, NotifyApplicant,
                      Fail, requestVars
  <1>7. ASSUME Administrator
        PROVE  Goal
    BY <1>1, <1>7 DEF Administrator, SetMembership, SetActive, SetEnabled, AdminChange,
                      requestVars
  <1> HIDE DEF Goal
  <1>8. Goal
    BY <1>1, <1>2, <1>3, <1>4, <1>5, <1>6, <1>7 DEF Next, ContinueCall, vars, requestVars
  <1> QED
    BY <1>8 DEF Goal

(* In every reachable state the status of a request is the one its action  *)
(* log ends with.                                                          *)
THEOREM HistoryNeverDisagrees == Spec => []HistoryAgrees
  <1>1. Init => HistoryAgrees
    BY DEF Init, HistoryAgrees
  <1>2. Spec => []TypeInv
    BY InitTypeInv, NextTypeInv, PTL DEF Spec
  <1> QED
    BY <1>1, <1>2, NextHistoryAgrees, PTL DEF Spec

----------------------------------------------------------------------------
(* Every verdict is reported: the log holds one entry of a verdict for     *)
(* each notification sent and for each call that owes one, having stored   *)
(* its verdict and not yet sent it.                                        *)

OwingSteps == {"notify"} \cup CleanupSteps
Owing(r, v) == {c \in Calls : pc[c] \in OwingSteps /\ On(c, r) /\ call[c].verdict = v}

(* The places of a log where an entry of T stands. *)
Places(log, T) == {i \in 1..Len(log) : log[i] \in T}

VerdictRows(v) == {a \in ApprovalAction : a.action = v}
Logged(r, v) == Cardinality(Places(history[r], VerdictRows(v)))
Sent(r, v) == Cardinality(Places(notices[r], {[userId |-> applicant[r], title |-> v]}))

Balanced(r, v) == FailedOn(r) \/ Logged(r, v) = Sent(r, v) + Cardinality(Owing(r, v))

Begun == {c \in Calls : pc[c] # "idle"}

ReportInv ==
    /\ IsFiniteSet(Begun)
    /\ \A c \in Calls : pc[c] = "cancel" => call[c].verdict = "CANCELLED"
    /\ \A r \in Requests : status[r] = "NONE" => notices[r] = <<>>
    /\ \A r \in Requests, v \in Verdicts : Balanced(r, v)

LEMMA PlacesCount ==
    ASSUME NEW S, NEW log \in Seq(S), NEW T
    PROVE  IsFiniteSet(Places(log, T)) /\ Cardinality(Places(log, T)) \in Nat
  <1>1. IsFiniteSet(1..Len(log))
    BY FS_Interval
  <1>2. IsFiniteSet(Places(log, T))
    BY <1>1, FS_Subset DEF Places
  <1> QED
    BY <1>2, FS_CardinalityType

(* An appended row is one more place, or none. *)
LEMMA PlacesAppend ==
    ASSUME NEW S, NEW log \in Seq(S), NEW row \in S, NEW T
    PROVE  Cardinality(Places(Append(log, row), T)) = Cardinality(Places(log, T)) + (IF row \in T THEN 1 ELSE 0)
  <1> DEFINE longer == Append(log, row)
             end == Len(log) + 1
  <1>1. /\ Len(log) \in Nat /\ Len(longer) = end /\ longer[end] = row
        /\ \A i \in 1..Len(log) : longer[i] = log[i]
    OBVIOUS
  <1>2. IsFiniteSet(Places(log, T)) /\ Cardinality(Places(log, T)) \in Nat
    BY PlacesCount
  <1>3. end \notin Places(log, T)
    BY <1>1 DEF Places
  <1> HIDE DEF longer
  <1>4. CASE row \in T
    <2>1. Places(longer, T) = Places(log, T) \cup {end}
      BY <1>1, <1>4 DEF Places
    <2>2. Cardinality(Places(log, T) \cup {end}) = Cardinality(Places(log, T)) + 1
      BY <1>2, <1>3, FS_AddElement
    <2> QED
      BY <1>4, <2>1, <2>2 DEF longer
  <1>5. CASE row \notin T
    <2>1. Places(longer, T) = Places(log, T)
      BY <1>1, <1>5 DEF Places
    <2> QED
      BY <1>2, <1>5, <2>1 DEF longer
  <1> QED
    BY <1>4, <1>5

LEMMA CountTypes ==
    ASSUME TypeInv, NEW r \in Requests, NEW v
    PROVE  Logged(r, v) \in Nat /\ Sent(r, v) \in Nat
  BY PlacesCount DEF TypeInv, TypeOK, MessageTypeOK, Logged, Sent

LEMMA OwingFinite ==
    ASSUME IsFiniteSet(Begun), NEW r, NEW v
    PROVE  IsFiniteSet(Owing(r, v)) /\ Cardinality(Owing(r, v)) \in Nat
  <1>1. Owing(r, v) \subseteq Begun
    BY DEF Owing, Begun, OwingSteps, CleanupSteps
  <1> QED
    BY <1>1, FS_Subset, FS_CardinalityType

(* One call moves at a time, and it never comes back to where it began. *)
LEMMA BegunStep == TypeInv /\ IsFiniteSet(Begun) /\ [Next]_vars => IsFiniteSet(Begun)'
  <1> SUFFICES ASSUME TypeInv, IsFiniteSet(Begun), [Next]_vars PROVE IsFiniteSet(Begun')
    OBVIOUS
  <1>1. ASSUME NEW c \in Calls, NEW step, pc' = [pc EXCEPT ![c] = step] PROVE IsFiniteSet(Begun')
    <2>1. Begun' \subseteq Begun \cup {c}
      BY <1>1 DEF Begun, TypeInv, TypeOK
    <2> QED
      BY <2>1, FS_AddElement, FS_Subset
  <1>2. CASE UNCHANGED pc
    BY <1>2 DEF Begun
  <1>3. ASSUME NEW c \in Calls, BeginCall(c) PROVE IsFiniteSet(Begun')
    BY <1>1, <1>3, BeginCallStep DEF BeginStep
  <1>4. ASSUME NEW c \in Calls, ContinueCall(c) \/ Fail(c) PROVE IsFiniteSet(Begun')
    BY <1>1, <1>4 DEF ContinueCall, Fail, CreateInsert, FanOutToUser, FanOutFindRoleHolders, FanOutCreateMany,
                      AssertCanApprove, DecideCommit, CompleteOwnTodos, CancelOthersTodos, CancelCommit, CancelAllTodos,
                      NotifyApplicant, CommentInsert, Goto
  <1> QED
    BY <1>2, <1>3, <1>4 DEF Next, Administrator, SetMembership, SetActive, SetEnabled, AdminChange, vars

(* A call that owes nothing before and after its step changes no debt.     *)
LEMMA OwingKept ==
    ASSUME TypeInv, NEW c \in Calls, pc[c] \notin OwingSteps, pc'[c] \notin OwingSteps,
           \A d \in Calls \ {c} : pc'[d] = pc[d] /\ call'[d] = call[d],
           NEW r, NEW v
    PROVE  Owing(r, v)' = Owing(r, v)
  BY DEF Owing, On

(* What a call has failed on stays failed on. *)
LEMMA FailedKept ==
    ASSUME NEW c \in Calls, pc[c] # "failed",
           \A d \in Calls \ {c} : pc'[d] = pc[d] /\ call'[d] = call[d],
           NEW r, FailedOn(r)
    PROVE  FailedOn(r)'
  BY DEF FailedOn, On

LEMMA BalanceCommit ==
    ASSUME TypeInv, ReportInv, NEW c \in Calls, DecideCommit(c) \/ CancelCommit(c),
           NEW r \in Requests, NEW v \in Verdicts
    PROVE  Balanced(r, v)'
  <1> DEFINE q == call[c].req
             w == call[c].verdict
             u == call[c].user
  <1>1. q \in Requests /\ w \in Verdicts /\ u \in Users /\ pc[c] \in AdmittedSteps
    BY DEF DecideCommit, CancelCommit, TypeInv, CallKnows, Running, AdmittedSteps
  <1>2. /\ history' = [history EXCEPT ![q] = Append(@, [actor |-> u, action |-> w])]
        /\ UNCHANGED <<notices, applicant, call>>
    BY DEF DecideCommit, CancelCommit, Process, Log, ReportInv, messageVars
  <1>3. pc'[c] \in OwingSteps /\ pc'[c] # "failed" /\ \A d \in Calls \ {c} : pc'[d] = pc[d]
    BY DEF DecideCommit, CancelCommit, Goto, TypeInv, TypeOK, OwingSteps, CleanupSteps
  <1>4. FailedOn(r) => FailedOn(r)'
    BY <1>1, <1>2, <1>3, FailedKept DEF AdmittedSteps
  <1>5. Sent(r, v)' = Sent(r, v)
    BY <1>2 DEF Sent
  <1>6. c \notin Owing(r, v)
    BY <1>1 DEF Owing, OwingSteps, CleanupSteps, AdmittedSteps
  <1>7. Logged(r, v) \in Nat /\ Sent(r, v) \in Nat
    BY CountTypes
  <1>8. IsFiniteSet(Owing(r, v)) /\ Cardinality(Owing(r, v)) \in Nat
    BY OwingFinite DEF ReportInv
  <1>9. history[q] \in Seq(ApprovalAction) /\ [actor |-> u, action |-> w] \in ApprovalAction
    BY <1>1 DEF TypeInv, TypeOK, ApprovalAction, Actions
  <1>10. history'[r] = IF r = q THEN Append(history[r], [actor |-> u, action |-> w]) ELSE history[r]
    BY <1>1, <1>2 DEF TypeInv, TypeOK
  <1>11. CASE r = q /\ v = w
    <2>1. [actor |-> u, action |-> w] \in VerdictRows(v)
      BY <1>9, <1>11 DEF VerdictRows
    <2>2. Logged(r, v)' = Logged(r, v) + 1
      BY <1>9, <1>10, <1>11, <2>1, PlacesAppend DEF Logged
    <2>3. Owing(r, v)' = Owing(r, v) \cup {c}
      BY <1>2, <1>3, <1>11 DEF Owing, On
    <2>4. Cardinality(Owing(r, v)') = Cardinality(Owing(r, v)) + 1
      BY <1>6, <1>8, <2>3, FS_AddElement
    <2> QED
      BY <1>4, <1>5, <1>7, <1>8, <2>2, <2>4 DEF ReportInv, Balanced
  <1>12. CASE r # q \/ v # w
    <2>1. Logged(r, v)' = Logged(r, v)
      <3>1. CASE r # q
        BY <1>10, <3>1 DEF Logged
      <3>2. CASE r = q /\ v # w
        <4>1. [actor |-> u, action |-> w] \notin VerdictRows(v)
          BY <3>2 DEF VerdictRows
        <4>2. Cardinality(Places(history'[r], VerdictRows(v))) = Cardinality(Places(history[r], VerdictRows(v))) + 0
          BY <1>9, <1>10, <3>2, <4>1, PlacesAppend
        <4> QED
          BY <1>7, <4>2 DEF Logged
      <3> QED
        BY <1>12, <3>1, <3>2
    <2>2. Owing(r, v)' = Owing(r, v)
      BY <1>2, <1>3, <1>6, <1>12 DEF Owing, On
    <2> QED
      BY <1>4, <1>5, <2>1, <2>2 DEF ReportInv, Balanced
  <1> QED
    BY <1>11, <1>12

LEMMA BalanceNotify ==
    ASSUME TypeInv, ReportInv, NEW c \in Calls, NotifyApplicant(c), NEW r \in Requests, NEW v \in Verdicts
    PROVE  Balanced(r, v)'
  <1> DEFINE q == call[c].req
             w == call[c].verdict
             u == applicant[q]
  <1>1. q \in Requests /\ w \in Verdicts /\ u \in Users /\ pc[c] = "notify"
    BY DEF NotifyApplicant, TypeInv, CallKnows, RequestFilled, Running
  <1>2. /\ notices' = [notices EXCEPT ![q] = Append(@, [userId |-> u, title |-> w])]
        /\ UNCHANGED <<history, applicant, call>>
    BY DEF NotifyApplicant, CreateNotification, requestVars
  <1>3. pc'[c] = "done" /\ \A d \in Calls \ {c} : pc'[d] = pc[d]
    BY DEF NotifyApplicant, Goto, TypeInv, TypeOK
  <1>4. FailedOn(r) => FailedOn(r)'
    BY <1>1, <1>2, <1>3, FailedKept
  <1>5. Logged(r, v)' = Logged(r, v)
    BY <1>2 DEF Logged
  <1>6. c \in Owing(r, v) <=> r = q /\ v = w
    BY <1>1 DEF Owing, OwingSteps, On
  <1>7. Logged(r, v) \in Nat /\ Sent(r, v) \in Nat
    BY CountTypes
  <1>8. IsFiniteSet(Owing(r, v)) /\ Cardinality(Owing(r, v)) \in Nat
    BY OwingFinite DEF ReportInv
  <1>9. notices[q] \in Seq(Notice) /\ [userId |-> u, title |-> w] \in Notice
    BY <1>1, TitlesAssumption DEF TypeInv, TypeOK, MessageTypeOK, Notice, Verdicts
  <1>10. notices'[r] = IF r = q THEN Append(notices[r], [userId |-> u, title |-> w]) ELSE notices[r]
    BY <1>1, <1>2 DEF TypeInv, TypeOK, MessageTypeOK
  <1>11. Owing(r, v)' = Owing(r, v) \ {c}
    BY <1>1, <1>2, <1>3 DEF Owing, OwingSteps, CleanupSteps, On
  <1>12. CASE r = q /\ v = w
    <2>1. Sent(r, v)' = Sent(r, v) + 1
      <3>1. [userId |-> u, title |-> w] \in {[userId |-> applicant[r], title |-> v]}
        BY <1>12
      <3> QED
        BY <1>2, <1>9, <1>10, <1>12, <3>1, PlacesAppend DEF Sent
    <2>2. Cardinality(Owing(r, v)') = Cardinality(Owing(r, v)) - 1
      <3>1. c \in Owing(r, v)
        BY <1>6, <1>12
      <3>2. Cardinality(Owing(r, v) \ {c}) = Cardinality(Owing(r, v)) - 1
        BY <1>8, <3>1, FS_RemoveElement
      <3> QED
        BY <1>11, <3>2
    <2> QED
      BY <1>4, <1>5, <1>7, <1>8, <2>1, <2>2 DEF ReportInv, Balanced
  <1>13. CASE r # q \/ v # w
    <2>1. Sent(r, v)' = Sent(r, v)
      <3>1. CASE r # q
        BY <1>2, <1>10, <3>1 DEF Sent
      <3>2. CASE r = q /\ v # w
        <4> DEFINE T == {[userId |-> applicant[r], title |-> v]}
        <4>1. [userId |-> u, title |-> w] \notin T
          BY <3>2
        <4> HIDE DEF T
        <4>2. Cardinality(Places(notices'[r], T)) = Cardinality(Places(notices[r], T)) + 0
          BY <1>9, <1>10, <3>2, <4>1, PlacesAppend
        <4> QED
          BY <1>2, <1>7, <4>2 DEF Sent, T
      <3> QED
        BY <1>13, <3>1, <3>2
    <2>2. Owing(r, v)' = Owing(r, v)
      BY <1>6, <1>11, <1>13
    <2> QED
      BY <1>4, <1>5, <2>1, <2>2 DEF ReportInv, Balanced
  <1> QED
    BY <1>12, <1>13

(* A row that is no verdict changes no count. *)
LEMMA LoggedKept ==
    ASSUME TypeInv, NEW q \in Requests, NEW u \in Users, NEW action \in {"SUBMIT", "COMMENT"}, Log(q, u, action),
           NEW r \in Requests, NEW v \in Verdicts
    PROVE  Logged(r, v)' = Logged(r, v)
  <1> DEFINE row == [actor |-> u, action |-> action]
  <1>1. row \in ApprovalAction /\ row \notin VerdictRows(v)
    BY DEF ApprovalAction, Actions, VerdictRows, Verdicts
  <1>2. history[r] \in Seq(ApprovalAction) /\ history' = [history EXCEPT ![q] = Append(@, row)]
    BY DEF Log, TypeInv, TypeOK
  <1>3. history'[r] = IF r = q THEN Append(history[r], row) ELSE history[r]
    BY <1>2 DEF TypeInv, TypeOK
  <1> HIDE DEF row
  <1>4. CASE r = q
    <2>1. Cardinality(Places(history'[r], VerdictRows(v))) = Cardinality(Places(history[r], VerdictRows(v))) + 0
      BY <1>1, <1>2, <1>3, <1>4, PlacesAppend
    <2>2. Logged(r, v) \in Nat
      BY CountTypes
    <2> QED
      BY <2>1, <2>2 DEF Logged
  <1>5. CASE r # q
    BY <1>3, <1>5 DEF Logged
  <1> QED
    BY <1>4, <1>5

LEMMA BalanceInsert ==
    ASSUME TypeInv, ReportInv, NEW c \in Calls, NEW q \in Requests, CreateInsert(c, q),
           NEW r \in Requests, NEW v \in Verdicts
    PROVE  Balanced(r, v)'
  <1>1. pc[c] = "insert" /\ pc'[c] = "fanOut" /\ \A d \in Calls \ {c} : pc'[d] = pc[d] /\ call'[d] = call[d]
    BY DEF CreateInsert, Goto, TypeInv, TypeOK
  <1>2. FailedOn(r) => FailedOn(r)'
    BY <1>1, FailedKept
  <1>3. Owing(r, v)' = Owing(r, v)
    BY <1>1, OwingKept DEF OwingSteps, CleanupSteps
  <1>4. call[c].user \in Users
    BY <1>1 DEF TypeInv, CallKnows, Running
  <1>5. Logged(r, v)' = Logged(r, v)
    BY <1>4, LoggedKept DEF CreateInsert
  <1>6. Sent(r, v)' = Sent(r, v)
    <2>1. CASE r = q
      <3>1. notices[r] = <<>> /\ notices' = notices
        BY <2>1 DEF CreateInsert, ReportInv, messageVars
      <3>2. \A T : Places(<<>>, T) = {}
        BY DEF Places
      <3> QED
        BY <3>1, <3>2 DEF Sent
    <2>2. CASE r # q
      BY <2>2 DEF CreateInsert, Sent, messageVars, TypeInv, TypeOK
    <2> QED
      BY <2>1, <2>2
  <1> QED
    BY <1>2, <1>3, <1>5, <1>6 DEF ReportInv, Balanced

LEMMA BalanceOther ==
    ASSUME TypeInv, ReportInv, NEW c \in Calls, NEW r \in Requests, NEW v \in Verdicts,
           \/ BeginCall(c) \/ FanOutToUser(c) \/ FanOutFindRoleHolders(c) \/ FanOutCreateMany(c)
           \/ AssertCanApprove(c) \/ CommentInsert(c)
           \/ CompleteOwnTodos(c) \/ CancelOthersTodos(c) \/ CancelAllTodos(c) \/ Fail(c)
    PROVE  Balanced(r, v)'
  <1>1. \A d \in Calls \ {c} : pc'[d] = pc[d] /\ call'[d] = call[d]
    <2>1. CASE BeginCall(c)
      BY <2>1, BeginCallStep DEF BeginStep, TypeInv, TypeOK
    <2> QED
      BY <2>1 DEF FanOutToUser, FanOutFindRoleHolders, FanOutCreateMany, AssertCanApprove, CommentInsert,
                  CompleteOwnTodos, CancelOthersTodos, CancelAllTodos, Fail, Goto, TypeInv, TypeOK
  <1>2. pc[c] # "failed"
    <2>1. CASE BeginCall(c)
      BY <2>1, BeginCallStep DEF BeginStep
    <2> QED
      BY <2>1 DEF FanOutToUser, FanOutFindRoleHolders, FanOutCreateMany, AssertCanApprove, CommentInsert,
                  CompleteOwnTodos, CancelOthersTodos, CancelAllTodos, Fail, Running, FanOutSteps, AdmittedSteps,
                  CleanupSteps
  <1>3. FailedOn(r) => FailedOn(r)'
    BY <1>1, <1>2, FailedKept
  <1>4. Sent(r, v)' = Sent(r, v)
    <2>1. UNCHANGED <<notices, applicant>>
      <3>1. CASE BeginCall(c)
        BY <3>1, BeginCallStep DEF BeginStep, messageVars, requestVars
      <3> QED
        BY <3>1 DEF FanOutToUser, FanOutFindRoleHolders, FanOutCreateMany, AssertCanApprove, CommentInsert,
                    CompleteOwnTodos, CancelOthersTodos, CancelAllTodos, Fail, CreateTodos, CompleteBusinessTodos,
                    CancelBusinessTodos, messageVars, requestVars
    <2> QED
      BY <2>1 DEF Sent
  <1>5. Logged(r, v)' = Logged(r, v)
    <2>1. CASE CommentInsert(c)
      <3>1. call[c].req \in Requests /\ call[c].user \in Users
        BY <2>1 DEF CommentInsert, TypeInv, CallKnows, Running
      <3> QED
        BY <2>1, <3>1, LoggedKept DEF CommentInsert
    <2>2. CASE BeginCall(c)
      BY <2>2, BeginCallStep DEF BeginStep, requestVars, Logged
    <2>3. CASE UNCHANGED requestVars
      BY <2>3 DEF requestVars, Logged
    <2> QED
      BY <2>1, <2>2, <2>3 DEF FanOutToUser, FanOutFindRoleHolders, FanOutCreateMany, AssertCanApprove,
                              CompleteOwnTodos, CancelOthersTodos, CancelAllTodos, Fail
  <1>6. Owing(r, v)' = Owing(r, v) \/ FailedOn(r)'
    <2>1. CASE BeginCall(c)
      <3>1. pc[c] = "idle" /\ pc'[c] \in {"insert", "check", "cancel", "comment"}
        BY <2>1, BeginCallStep DEF BeginStep, TypeInv, TypeOK
      <3> QED
        BY <1>1, <3>1, OwingKept DEF OwingSteps, CleanupSteps
    <2>2. CASE FanOutToUser(c) \/ FanOutFindRoleHolders(c) \/ FanOutCreateMany(c) \/ AssertCanApprove(c)
               \/ CommentInsert(c)
      <3>1. pc[c] \notin OwingSteps /\ pc'[c] \in {"done", "createMany", "decide"}
        BY <2>2 DEF FanOutToUser, FanOutFindRoleHolders, FanOutCreateMany, AssertCanApprove, CommentInsert, Goto, TypeInv,
                    TypeOK, OwingSteps, CleanupSteps
      <3> QED
        BY <1>1, <3>1, OwingKept DEF OwingSteps, CleanupSteps
    <2>3. CASE CompleteOwnTodos(c) \/ CancelOthersTodos(c) \/ CancelAllTodos(c)
      <3>1. pc[c] \in OwingSteps /\ pc'[c] \in OwingSteps /\ UNCHANGED call
        BY <2>3 DEF CompleteOwnTodos, CancelOthersTodos, CancelAllTodos, Goto, TypeInv, TypeOK, OwingSteps, CleanupSteps
      <3> QED
        BY <1>1, <3>1 DEF Owing, On
    <2>4. CASE Fail(c)
      <3>1. pc'[c] = "failed" /\ UNCHANGED call
        BY <2>4 DEF Fail, Goto, TypeInv, TypeOK
      <3>2. CASE On(c, r)
        BY <3>1, <3>2 DEF FailedOn, On
      <3>3. CASE ~On(c, r)
        BY <1>1, <3>1, <3>3 DEF Owing, On
      <3> QED
        BY <3>2, <3>3
    <2> QED
      BY <2>1, <2>2, <2>3, <2>4
  <1> QED
    BY <1>3, <1>4, <1>5, <1>6 DEF ReportInv, Balanced

(* Only cancel leads to the cancel step, and it carries its verdict. *)
LEMMA CancelVerdictStep ==
    ASSUME TypeInv, ReportInv, [Next]_vars, NEW d \in Calls, pc'[d] = "cancel"
    PROVE  call'[d].verdict = "CANCELLED"
  <1> USE DEF Goto, TypeInv, TypeOK
  <1>1. CASE pc'[d] = pc[d] /\ call'[d] = call[d]
    BY <1>1 DEF ReportInv
  <1>2. ASSUME NEW c \in Calls, BeginCall(c)
        PROVE  call'[d].verdict = "CANCELLED"
    <2>1. CASE d # c
      BY <1>1, <1>2, <2>1, BeginCallStep DEF BeginStep
    <2>2. CASE d = c
      <3>0. \A step : Goto(c, step) => step = "cancel"
        BY <2>2
      <3> HIDE DEF Goto
      <3>1. /\ \A u, a : ~CreateCheck(c, u, a)
            /\ \A u, r, v : ~DecideRead(c, u, r, v)
            /\ \A u, r : ~CommentRead(c, u, r)
        BY <3>0, Zenon DEF CreateCheck, DecideRead, CommentRead, Begin
      <3>2. PICK u \in Users, r \in Requests : CancelRead(c, u, r)
        BY <1>2, <3>1, Zenon DEF BeginCall
      <3>3. call' = [call EXCEPT ![c] = [NoCall EXCEPT !.user = u, !.req = r, !.verdict = "CANCELLED"]]
        BY <3>2 DEF CancelRead, Begin
      <3> QED
        BY <2>2, <3>3 DEF NoCall
    <2> QED
      BY <2>1, <2>2
  <1>3. ASSUME NEW c \in Calls, ContinueCall(c) \/ Fail(c)
        PROVE  call'[d].verdict = "CANCELLED"
    <2>1. pc' = [pc EXCEPT ![c] = pc'[c]] /\ pc'[c] # "cancel"
      BY <1>3 DEF ContinueCall, Fail, CreateInsert, FanOutToUser, FanOutFindRoleHolders, FanOutCreateMany,
                  AssertCanApprove, DecideCommit, CompleteOwnTodos, CancelOthersTodos, CancelCommit, CancelAllTodos,
                  NotifyApplicant, CommentInsert
    <2>2. d # c /\ pc'[d] = pc[d]
      BY <2>1
    <2>3. call'[d] = call[d]
      BY <1>3, <2>2 DEF ContinueCall, Fail, CreateInsert, FanOutToUser, FanOutFindRoleHolders, FanOutCreateMany,
                        AssertCanApprove, DecideCommit, CompleteOwnTodos, CancelOthersTodos, CancelCommit,
                        CancelAllTodos, NotifyApplicant, CommentInsert, Process
    <2> QED
      BY <1>1, <2>2, <2>3
  <1>4. CASE UNCHANGED <<pc, call>>
    BY <1>1, <1>4
  <1> QED
    BY <1>2, <1>3, <1>4 DEF Next, Administrator, SetMembership, SetActive, SetEnabled, AdminChange, vars

(* A request that does not exist has been reported on to nobody. *)
LEMMA NoEarlyNotice ==
    ASSUME TypeInv, ReportInv, [Next]_vars, NEW r \in Requests, status'[r] = "NONE"
    PROVE  notices'[r] = <<>>
  <1>1. CASE status'[r] = status[r] /\ notices'[r] = notices[r]
    BY <1>1 DEF ReportInv
  <1>2. ASSUME NEW c \in Calls, BeginCall(c) PROVE notices'[r] = <<>>
    BY <1>1, <1>2, BeginCallStep DEF BeginStep, messageVars, requestVars
  <1>3. ASSUME NEW c \in Calls, NEW q \in Requests, CreateInsert(c, q) PROVE notices'[r] = <<>>
    BY <1>1, <1>3 DEF CreateInsert, messageVars, TypeInv, TypeOK
  <1>4. ASSUME NEW c \in Calls, DecideCommit(c) \/ CancelCommit(c) PROVE notices'[r] = <<>>
    <2>1. PICK v \in Verdicts : status' = [status EXCEPT ![call[c].req] = v]
      BY <1>4 DEF DecideCommit, CancelCommit, Process, TypeInv, CallKnows, AdmittedSteps, Verdicts
    <2>2. UNCHANGED notices
      BY <1>4 DEF DecideCommit, CancelCommit, Process, messageVars
    <2>3. status'[r] = status[r]
      BY <2>1 DEF Verdicts, TypeInv, TypeOK
    <2> QED
      BY <1>1, <2>2, <2>3
  <1>5. ASSUME NEW c \in Calls, NotifyApplicant(c) PROVE notices'[r] = <<>>
    <2>1. status[call[c].req] # "NONE" /\ UNCHANGED status
      BY <1>5 DEF NotifyApplicant, TypeInv, CallKnows, Running, requestVars
    <2>2. call[c].req # r
      BY <2>1
    <2>3. notices'[r] = notices[r]
      BY <1>5, <2>2 DEF NotifyApplicant, CreateNotification, TypeInv, TypeOK, MessageTypeOK
    <2> QED
      BY <1>1, <2>1, <2>3
  <1>6. ASSUME NEW c \in Calls,
               \/ FanOutToUser(c) \/ FanOutFindRoleHolders(c) \/ FanOutCreateMany(c) \/ AssertCanApprove(c)
               \/ CommentInsert(c) \/ CompleteOwnTodos(c) \/ CancelOthersTodos(c) \/ CancelAllTodos(c) \/ Fail(c)
        PROVE  notices'[r] = <<>>
    <2>1. UNCHANGED <<status, notices>>
      BY <1>6 DEF FanOutToUser, FanOutFindRoleHolders, FanOutCreateMany, AssertCanApprove, CommentInsert,
                  CompleteOwnTodos, CancelOthersTodos, CancelAllTodos, Fail, CreateTodos, CompleteBusinessTodos,
                  CancelBusinessTodos, messageVars, requestVars
    <2> QED
      BY <1>1, <2>1
  <1>7. CASE UNCHANGED <<status, notices>>
    BY <1>1, <1>7
  <1>8. CASE MessageEndpoint /\ UNCHANGED requestVars
    <2>1. UNCHANGED <<status, notices>>
      BY <1>8 DEF MessageEndpoint, TodoEndpoint, NoticeEndpoint, CompleteTodoRead, CompleteTodoWrite, CancelTodoRead,
                  CancelTodoWrite, MarkRead, MarkAllRead, requestVars
    <2> QED
      BY <1>1, <2>1
  <1> QED
    BY <1>2, <1>3, <1>4, <1>5, <1>6, <1>7, <1>8
       DEF Next, ContinueCall, Administrator, SetMembership, SetActive, SetEnabled, AdminChange, vars, messageVars,
           requestVars

LEMMA NextReportInv == TypeInv /\ ReportInv /\ [Next]_vars => ReportInv'
  <1> SUFFICES ASSUME TypeInv, ReportInv, [Next]_vars PROVE ReportInv'
    OBVIOUS
  <1>1. IsFiniteSet(Begun')
    BY BegunStep DEF ReportInv
  <1>2. \A c \in Calls : pc'[c] = "cancel" => call'[c].verdict = "CANCELLED"
    BY CancelVerdictStep
  <1>3. \A r \in Requests : status'[r] = "NONE" => notices'[r] = <<>>
    BY NoEarlyNotice
  <1>4. ASSUME NEW r \in Requests, NEW v \in Verdicts PROVE Balanced(r, v)'
    <2>1. CASE UNCHANGED <<history, notices, applicant, pc, call>>
      BY <2>1 DEF ReportInv, Balanced, Logged, Sent, Owing, FailedOn, On
    <2>2. CASE MessageEndpoint /\ UNCHANGED <<requestVars, pc, call>>
      <3>1. UNCHANGED <<history, notices, applicant, pc, call>>
        BY <2>2 DEF MessageEndpoint, TodoEndpoint, NoticeEndpoint, CompleteTodoRead, CompleteTodoWrite,
                    CancelTodoRead, CancelTodoWrite, MarkRead, MarkAllRead, requestVars
      <3> QED
        BY <2>1, <3>1
    <2>3. CASE Administrator
      BY <2>1, <2>3 DEF Administrator, SetMembership, SetActive, SetEnabled, AdminChange, messageVars, requestVars
    <2>4. CASE UNCHANGED vars
      BY <2>1, <2>4 DEF vars, messageVars, requestVars
    <2>5. ASSUME NEW c \in Calls, BeginCall(c) \/ ContinueCall(c) \/ Fail(c) PROVE Balanced(r, v)'
      BY <2>5, BalanceCommit, BalanceNotify, BalanceInsert, BalanceOther DEF ContinueCall
    <2> QED
      BY <2>2, <2>3, <2>4, <2>5 DEF Next
  <1> QED
    BY <1>1, <1>2, <1>3, <1>4 DEF ReportInv

LEMMA InitReportInv == Init => ReportInv
  <1> SUFFICES ASSUME Init PROVE ReportInv
    OBVIOUS
  <1>1. Begun = {} /\ \A r, v : Owing(r, v) = {}
    BY DEF Init, Begun, Owing, OwingSteps, CleanupSteps
  <1>2. IsFiniteSet({}) /\ Cardinality({}) = 0
    BY FS_EmptySet
  <1>3. \A T : Places(<<>>, T) = {}
    BY DEF Places
  <1>4. ASSUME NEW r \in Requests, NEW v \in Verdicts PROVE Balanced(r, v)
    <2>1. history[r] = <<>> /\ notices[r] = <<>>
      BY DEF Init, MessageInit
    <2>2. Logged(r, v) = 0 /\ Sent(r, v) = 0
      BY <1>2, <1>3, <2>1 DEF Logged, Sent
    <2>3. Cardinality(Owing(r, v)) = 0
      BY <1>1, <1>2
    <2> QED
      BY <2>2, <2>3 DEF Balanced
  <1> QED
    BY <1>1, <1>2, <1>4 DEF ReportInv, Init, MessageInit

(* The applicant hears of every verdict, once: on every request no call is *)
(* running on and none failed on, the verdicts in the log and the          *)
(* notifications sent are as many of each kind, however approve, reject,   *)
(* cancel and comment raced.                                               *)
THEOREM VerdictsAreReported == Spec => []EveryVerdictReported
  <1>1. Spec => [](TypeInv /\ ReportInv)
    BY InitTypeInv, NextTypeInv, InitReportInv, NextReportInv, PTL DEF Spec
  <1>2. TypeInv /\ ReportInv => EveryVerdictReported
    <2> SUFFICES ASSUME TypeInv, ReportInv, NEW r \in Requests, Quiet(r), ~FailedOn(r), NEW v \in Verdicts
                 PROVE  Cardinality({i \in 1..Len(notices[r]) :
                                       notices[r][i] = [userId |-> applicant[r], title |-> v]})
                          = Cardinality({i \in 1..Len(history[r]) : history[r][i].action = v})
      BY DEF EveryVerdictReported
    <2>1. Owing(r, v) = {}
      BY DEF Quiet, Owing, OwingSteps, Running
    <2>2. Logged(r, v) = Sent(r, v) + 0
      BY <2>1, FS_EmptySet DEF ReportInv, Balanced
    <2>3. Logged(r, v) = Sent(r, v)
      BY <2>2, CountTypes
    <2>4. Places(notices[r], {[userId |-> applicant[r], title |-> v]})
            = {i \in 1..Len(notices[r]) : notices[r][i] = [userId |-> applicant[r], title |-> v]}
      BY DEF Places
    <2>5. Places(history[r], VerdictRows(v)) = {i \in 1..Len(history[r]) : history[r][i].action = v}
      <3>1. history[r] \in Seq(ApprovalAction)
        BY DEF TypeInv, TypeOK
      <3>2. \A i \in 1..Len(history[r]) : history[r][i] \in ApprovalAction
        BY <3>1
      <3> QED
        BY <3>2 DEF Places, VerdictRows
    <2> QED
      BY <2>3, <2>4, <2>5 DEF Logged, Sent
  <1> QED
    BY <1>1, <1>2, PTL

----------------------------------------------------------------------------
(* The safety half of the liveness properties: what a call still owes is   *)
(* never lost, and a call never goes back.  That every owing call gets its *)
(* next statement is fairness, and stays with TLC.                         *)

(* A stored verdict is on its way: the applicant has a notification with   *)
(* it, or a call has stored it and not yet sent it, or a call failed.  So  *)
(* no interleaving of decide and cancel can swallow the notification of    *)
(* the verdict that stands.                                                *)
VerdictOwed ==
    \A r \in Requests, v \in Verdicts : status[r] = v =>
        \/ \E i \in DOMAIN notices[r] : notices[r][i] = [userId |-> applicant[r], title |-> v]
        \/ Owing(r, v) # {}
        \/ FailedOn(r)

THEOREM VerdictIsNeverLost == Spec => []VerdictOwed
  <1>1. Spec => [](TypeInv /\ HistoryAgrees /\ ReportInv)
    <2>1. Init => HistoryAgrees
      BY DEF Init, HistoryAgrees
    <2> QED
      BY <2>1, InitTypeInv, NextTypeInv, NextHistoryAgrees, InitReportInv, NextReportInv, PTL DEF Spec
  <1>2. TypeInv /\ HistoryAgrees /\ ReportInv => VerdictOwed
    <2> SUFFICES ASSUME TypeInv, HistoryAgrees, ReportInv, NEW r \in Requests, NEW v \in Verdicts,
                        status[r] = v, Owing(r, v) = {}, ~FailedOn(r)
                 PROVE  \E i \in DOMAIN notices[r] : notices[r][i] = [userId |-> applicant[r], title |-> v]
      BY DEF VerdictOwed
    <2>1. Logged(r, v) = Sent(r, v) + 0
      BY FS_EmptySet DEF ReportInv, Balanced
    <2>2. history[r] \in Seq(ApprovalAction) /\ notices[r] \in Seq(Notice)
      BY DEF TypeInv, TypeOK, MessageTypeOK
    <2>3. PICK i \in 1..Len(history[r]) : history[r][i].action = v
      BY DEF HistoryAgrees, Verdicts
    <2>4. i \in Places(history[r], VerdictRows(v))
      BY <2>2, <2>3 DEF Places, VerdictRows
    <2>5. Logged(r, v) # 0
      <3>1. IsFiniteSet(Places(history[r], VerdictRows(v)))
        BY <2>2, PlacesCount
      <3> QED
        BY <2>4, <3>1, FS_EmptySet DEF Logged
    <2>6. Sent(r, v) # 0
      BY <2>1, <2>5, CountTypes
    <2>7. Places(notices[r], {[userId |-> applicant[r], title |-> v]}) # {}
      BY <2>6, FS_EmptySet DEF Sent
    <2>8. PICK j \in 1..Len(notices[r]) : notices[r][j] = [userId |-> applicant[r], title |-> v]
      BY <2>7 DEF Places
    <2>9. DOMAIN notices[r] = 1..Len(notices[r])
      BY <2>2
    <2> QED
      BY <2>8, <2>9
  <1> QED
    BY <1>1, <1>2, PTL

(* A request for one user's approval is on that user's list, or the call   *)
(* that created it is about to write the todo, or has failed: no other     *)
(* call can make create skip it or write it for somebody else.             *)
TodoOwed ==
    \A r \in Requests : approver[r] \in Users =>
        \/ <<r, approver[r]>> \in todos
        \/ \E c \in Calls : pc[c] = "fanOut" /\ On(c, r)
        \/ FailedOn(r)

(* The approver create works with is the one it stored. *)
FanOutKnowsApprover ==
    /\ \A r \in Requests : status[r] = "NONE" => approver[r] = None
    /\ \A c \in Calls : pc[c] \in FanOutSteps => call[c].approver = approver[call[c].req]

OwedInv == FanOutKnowsApprover /\ TodoOwed

LEMMA NextOwedInv == TypeInv /\ OwedInv /\ [Next]_vars => OwedInv'
  <1> SUFFICES ASSUME TypeInv, OwedInv, [Next]_vars PROVE OwedInv'
    OBVIOUS
  <1>a. /\ pc \in [Calls -> Steps]
        /\ call \in [Calls -> CallState]
        /\ status \in [Requests -> Statuses]
        /\ approver \in [Requests -> Approvers \cup {None}]
        /\ \A c \in Calls : pc[c] \in Running \ {"insert"} => call[c].req \in Requests /\ status[call[c].req] # "NONE"
        /\ \A c \in Calls : pc[c] \in {"decide", "cancel"} => call[c].verdict \in Verdicts
        /\ FanOutKnowsApprover /\ TodoOwed
    BY DEF TypeInv, TypeOK, CallKnows, OwedInv, AdmittedSteps
  <1> USE <1>a DEF OwedInv, FanOutKnowsApprover, TodoOwed, FailedOn, On, Goto, requestVars, messageVars, Running,
              FanOutSteps, AdmittedSteps, CleanupSteps, Verdicts
  <1>1. ASSUME NEW c \in Calls, BeginCall(c)
        PROVE  OwedInv'
    BY <1>1, BeginCallStep DEF BeginStep
  <1>2. ASSUME NEW c \in Calls, NEW r \in Requests, CreateInsert(c, r)
        PROVE  OwedInv'
    <2>1. /\ call' = [call EXCEPT ![c] = [call[c] EXCEPT !.req = r]]
          /\ pc' = [pc EXCEPT ![c] = "fanOut"] /\ pc[c] = "insert"
          /\ status' = [status EXCEPT ![r] = "PENDING"] /\ status[r] = "NONE"
          /\ approver' = [approver EXCEPT ![r] = call[c].approver]
          /\ UNCHANGED todos
      BY <1>2 DEF CreateInsert
    <2>2. call'[c].req = r /\ call'[c].approver = call[c].approver
      <3>1. call[c] \in CallState
        OBVIOUS
      <3> QED
        BY <2>1, <3>1 DEF CallState
    <2>3. FanOutKnowsApprover'
      BY <2>1, <2>2
    <2>4. TodoOwed'
      BY <2>1, <2>2
    <2> QED
      BY <2>3, <2>4
  <1>3. ASSUME NEW c \in Calls, FanOutToUser(c)
        PROVE  OwedInv'
    <2>1. /\ pc[c] = "fanOut" /\ pc' = [pc EXCEPT ![c] = "done"]
          /\ todos' = todos \cup ({call[c].req} \X {call[c].approver})
          /\ UNCHANGED <<status, approver, call>>
      BY <1>3 DEF FanOutToUser, CreateTodos
    <2>2. <<call[c].req, approver[call[c].req]>> \in todos'
      BY <2>1
    <2> QED
      BY <2>1, <2>2
  <1>4. ASSUME NEW c \in Calls, FanOutFindRoleHolders(c)
        PROVE  OwedInv'
    <2>1. /\ pc[c] = "fanOut"
          /\ \/ pc' = [pc EXCEPT ![c] = "done"]
             \/ pc' = [pc EXCEPT ![c] = "createMany"]
          /\ UNCHANGED <<todos, status, approver>>
      BY <1>4 DEF FanOutFindRoleHolders
    <2>3. \A d \in Calls : call'[d].req = call[d].req /\ call'[d].approver = call[d].approver
      <3>1. PICK holders : call' = [call EXCEPT ![c] = [call[c] EXCEPT !.targets = holders]]
        BY <1>4 DEF FanOutFindRoleHolders
      <3>2. call[c] \in CallState
        OBVIOUS
      <3> QED
        BY <3>1, <3>2 DEF CallState
    <2>2. approver[call[c].req] \notin Users
      BY <1>4, ApproversDistinct DEF FanOutFindRoleHolders
    <2>4. FanOutKnowsApprover'
      BY <2>1, <2>3
    <2>5. TodoOwed'
      BY <2>1, <2>2, <2>3
    <2> QED
      BY <2>4, <2>5
  <1>5. ASSUME NEW c \in Calls, FanOutCreateMany(c)
        PROVE  OwedInv'
    BY <1>5 DEF FanOutCreateMany, CreateTodos
  <1>6. ASSUME NEW c \in Calls, DecideCommit(c) \/ CancelCommit(c)
        PROVE  OwedInv'
    BY <1>6 DEF DecideCommit, CancelCommit, Process
  <1>7. ASSUME NEW c \in Calls, CompleteOwnTodos(c) \/ CancelOthersTodos(c) \/ CancelAllTodos(c)
        PROVE  OwedInv'
    BY <1>7 DEF CompleteOwnTodos, CancelOthersTodos, CancelAllTodos, CompleteBusinessTodos, CancelBusinessTodos
  <1>8. ASSUME NEW c \in Calls, AssertCanApprove(c) \/ NotifyApplicant(c) \/ CommentInsert(c) \/ Fail(c)
        PROVE  OwedInv'
    BY <1>8 DEF AssertCanApprove, NotifyApplicant, CreateNotification, CommentInsert, Fail
  <1>9. CASE UNCHANGED <<todos, requestVars, pc, call>>
    BY <1>9
  <1>10. CASE MessageEndpoint /\ UNCHANGED <<requestVars, pc, call, rbacVars, overtaken>>
    <2>1. UNCHANGED todos
      BY <1>10 DEF MessageEndpoint, TodoEndpoint, NoticeEndpoint, CompleteTodoRead, CompleteTodoWrite,
                   CancelTodoRead, CancelTodoWrite, MarkRead, MarkAllRead
    <2> QED
      BY <1>9, <1>10, <2>1
  <1>11. CASE Administrator
    <2>1. UNCHANGED <<todos, requestVars, pc, call>>
      BY <1>11 DEF Administrator, SetMembership, SetActive, SetEnabled, AdminChange
    <2> QED
      BY <1>9, <2>1
  <1>12. CASE UNCHANGED vars
    BY <1>9, <1>12 DEF vars
  <1> HIDE DEF OwedInv, FanOutKnowsApprover, TodoOwed, requestVars
  <1> QED
    BY <1>1, <1>2, <1>3, <1>4, <1>5, <1>6, <1>7, <1>8, <1>10, <1>11, <1>12 DEF Next, ContinueCall

THEOREM TodoIsNeverLost == Spec => []TodoOwed
  <1>1. Init => OwedInv
    BY ApproversDistinct DEF Init, MessageInit, OwedInv, FanOutKnowsApprover, TodoOwed, FanOutSteps
  <1>2. OwedInv => TodoOwed
    BY DEF OwedInv
  <1> QED
    BY <1>1, <1>2, InitTypeInv, NextTypeInv, NextOwedInv, PTL DEF Spec

(* How many statements a call has at most before it ends. *)
StepsLeft(step) ==
    CASE step = "idle" -> 7
      [] step \in {"insert", "check", "cancel", "comment"} -> 6
      [] step \in {"fanOut", "decide"} -> 5
      [] step \in {"createMany", "completeOwn", "cancelTodos"} -> 4
      [] step = "cancelOthers" -> 3
      [] step = "notify" -> 2
      [] OTHER -> 1

(* A call never goes back and never waits in place: each of its steps      *)
(* brings it nearer to its end, so no call runs for ever, and the fairness *)
(* of its statements is all that the liveness properties need of it.       *)
CallsAdvance ==
    [][\A c \in Calls :
         /\ pc'[c] # pc[c] => StepsLeft(pc'[c]) < StepsLeft(pc[c])
         /\ ContinueCall(c) => pc'[c] # pc[c]]_vars

LEMMA StepAdvances ==
    ASSUME TypeInv, NEW c \in Calls, BeginCall(c) \/ ContinueCall(c) \/ Fail(c)
    PROVE  /\ StepsLeft(pc'[c]) < StepsLeft(pc[c]) /\ pc'[c] # pc[c]
           /\ \A d \in Calls \ {c} : pc'[d] = pc[d]
  <1> DEFINE Moves(from, to) == pc[c] = from /\ pc' = [pc EXCEPT ![c] = to]
  <1>1. ASSUME NEW from, NEW to, Moves(from, to), StepsLeft(to) < StepsLeft(from)
        PROVE  /\ StepsLeft(pc'[c]) < StepsLeft(pc[c]) /\ pc'[c] # pc[c]
               /\ \A d \in Calls \ {c} : pc'[d] = pc[d]
    <2>1. pc'[c] = to /\ \A d \in Calls \ {c} : pc'[d] = pc[d]
      BY <1>1 DEF TypeInv, TypeOK
    <2>2. StepsLeft(from) \in Nat
      BY DEF StepsLeft
    <2> QED
      BY <1>1, <2>1, <2>2
  <1>2. CASE BeginCall(c)
    <2>1. \E step \in {"insert", "check", "cancel", "comment"} : Moves("idle", step)
      BY <1>2, BeginCallStep DEF BeginStep
    <2>2. \A step \in {"insert", "check", "cancel", "comment"} : StepsLeft(step) < StepsLeft("idle")
      BY DEF StepsLeft
    <2> HIDE DEF Moves
    <2> QED
      BY <1>1, <2>1, <2>2
  <1>3. CASE ContinueCall(c)
    <2>1. \/ Moves("insert", "fanOut") \/ Moves("fanOut", "done") \/ Moves("fanOut", "createMany")
          \/ Moves("createMany", "done") \/ Moves("check", "decide") \/ Moves("check", "done")
          \/ Moves("decide", "completeOwn") \/ Moves("completeOwn", "cancelOthers")
          \/ Moves("cancelOthers", "notify") \/ Moves("cancel", "cancelTodos")
          \/ Moves("cancelTodos", "notify") \/ Moves("notify", "done") \/ Moves("comment", "done")
      BY <1>3 DEF ContinueCall, CreateInsert, FanOutToUser, FanOutFindRoleHolders, FanOutCreateMany, AssertCanApprove,
                  DecideCommit, CompleteOwnTodos, CancelOthersTodos, CancelCommit, CancelAllTodos, NotifyApplicant,
                  CommentInsert, Goto
    <2> HIDE DEF Moves
    <2>2. /\ StepsLeft("fanOut") < StepsLeft("insert") /\ StepsLeft("createMany") < StepsLeft("fanOut")
          /\ StepsLeft("done") < StepsLeft("createMany") /\ StepsLeft("done") < StepsLeft("fanOut")
          /\ StepsLeft("decide") < StepsLeft("check") /\ StepsLeft("done") < StepsLeft("check")
          /\ StepsLeft("completeOwn") < StepsLeft("decide") /\ StepsLeft("cancelTodos") < StepsLeft("cancel")
          /\ StepsLeft("cancelOthers") < StepsLeft("completeOwn") /\ StepsLeft("notify") < StepsLeft("cancelOthers")
          /\ StepsLeft("notify") < StepsLeft("cancelTodos") /\ StepsLeft("done") < StepsLeft("notify")
          /\ StepsLeft("done") < StepsLeft("comment")
      BY DEF StepsLeft
    <2> QED
      BY <1>1, <2>1, <2>2
  <1>4. CASE Fail(c)
    <2>1. Moves(pc[c], "failed") /\ pc[c] \in Running
      BY <1>4 DEF Fail, Goto
    <2>2. StepsLeft("failed") < StepsLeft(pc[c])
      BY <2>1 DEF StepsLeft, Running, FanOutSteps, AdmittedSteps, CleanupSteps
    <2> QED
      BY <1>1, <2>1, <2>2
  <1> QED
    BY <1>2, <1>3, <1>4

THEOREM CallsOnlyAdvance == Spec => CallsAdvance
  <1>1. TypeInv /\ [Next]_vars =>
          [\A c \in Calls :
             /\ pc'[c] # pc[c] => StepsLeft(pc'[c]) < StepsLeft(pc[c])
             /\ ContinueCall(c) => pc'[c] # pc[c]]_vars
    <2> SUFFICES ASSUME TypeInv, Next, NEW c \in Calls
                 PROVE  /\ pc'[c] # pc[c] => StepsLeft(pc'[c]) < StepsLeft(pc[c])
                        /\ ContinueCall(c) => pc'[c] # pc[c]
      OBVIOUS
    <2>1. ContinueCall(c) => pc'[c] # pc[c]
      BY StepAdvances
    <2>2. ASSUME pc'[c] # pc[c] PROVE StepsLeft(pc'[c]) < StepsLeft(pc[c])
      <3>1. PICK d \in Calls : BeginCall(d) \/ ContinueCall(d) \/ Fail(d)
        BY <2>2 DEF Next, Administrator, SetMembership, SetActive, SetEnabled, AdminChange
      <3> QED
        BY <2>2, <3>1, StepAdvances
    <2> QED
      BY <2>1, <2>2
  <1> QED
    BY <1>1, InitTypeInv, NextTypeInv, PTL DEF Spec, CallsAdvance

----------------------------------------------------------------------------
(* The approval service changes messages only through the operations of    *)
(* the message center.                                                     *)

LEMMA StepUsesMessageCenter ==
    ASSUME TypeInv, [Next]_vars
    PROVE  [MessageNext]_messageVars
  <1> DEFINE Goal == MessageNext \/ UNCHANGED messageVars
  <1>a. \A c \in Calls : pc[c] \in Running =>
           /\ pc[c] # "insert" => call[c].req \in Requests
           /\ call[c].user \in Users
           /\ call[c].targets \in SUBSET Users
           /\ pc[c] = "notify" => /\ applicant[call[c].req] \in Users
                                  /\ call[c].verdict \in Titles
    BY TitlesAssumption
       DEF TypeInv, TypeOK, CallKnows, RequestFilled, Running, Verdicts, CallState
  <1>1. ASSUME NEW c \in Calls, FanOutToUser(c)
        PROVE  Goal
    <2>1. call[c].req \in Requests /\ {call[c].approver} \in SUBSET Users
      BY <1>1, <1>a DEF FanOutToUser, Running, FanOutSteps
    <2> QED
      BY <1>1, <2>1 DEF FanOutToUser, MessageNext, BusinessStatement
  <1>2. ASSUME NEW c \in Calls, FanOutCreateMany(c)
        PROVE  Goal
    <2>1. call[c].req \in Requests /\ call[c].targets \in SUBSET Users
      BY <1>2, <1>a DEF FanOutCreateMany, Running, FanOutSteps
    <2> QED
      BY <1>2, <2>1 DEF FanOutCreateMany, MessageNext, BusinessStatement
  <1>3. ASSUME NEW c \in Calls, CompleteOwnTodos(c)
        PROVE  Goal
    <2>1. call[c].req \in Requests /\ call[c].user \in Users
      BY <1>3, <1>a DEF CompleteOwnTodos, Running, CleanupSteps
    <2> QED
      BY <1>3, <2>1 DEF CompleteOwnTodos, MessageNext, BusinessStatement
  <1>4. ASSUME NEW c \in Calls, CancelOthersTodos(c)
        PROVE  Goal
    <2>1. call[c].req \in Requests /\ {call[c].user} \in SUBSET Users
      BY <1>4, <1>a DEF CancelOthersTodos, Running, CleanupSteps
    <2> QED
      BY <1>4, <2>1 DEF CancelOthersTodos, MessageNext, BusinessStatement
  <1>5. ASSUME NEW c \in Calls, CancelAllTodos(c)
        PROVE  Goal
    <2>1. call[c].req \in Requests /\ {} \in SUBSET Users
      BY <1>5, <1>a DEF CancelAllTodos, Running, CleanupSteps
    <2> QED
      BY <1>5, <2>1 DEF CancelAllTodos, MessageNext, BusinessStatement
  <1>6. ASSUME NEW c \in Calls, NotifyApplicant(c)
        PROVE  Goal
    <2>1. /\ call[c].req \in Requests /\ applicant[call[c].req] \in Users
          /\ call[c].verdict \in Titles
      BY <1>6, <1>a DEF NotifyApplicant, Running
    <2> QED
      BY <1>6, <2>1 DEF NotifyApplicant, MessageNext, BusinessStatement
  <1>7. ASSUME NEW c \in Calls, BeginCall(c)
        PROVE  Goal
    BY <1>7, BeginCallStep DEF BeginStep
  <1>8. ASSUME NEW c \in Calls,
               \/ \E r \in Requests : CreateInsert(c, r)
               \/ FanOutFindRoleHolders(c) \/ AssertCanApprove(c) \/ DecideCommit(c)
               \/ CancelCommit(c) \/ CommentInsert(c) \/ Fail(c)
        PROVE  Goal
    BY <1>8 DEF CreateInsert, FanOutFindRoleHolders, AssertCanApprove, DecideCommit,
                CancelCommit, Process, CommentInsert, Fail
  <1>9. ASSUME Administrator
        PROVE  Goal
    BY <1>9 DEF Administrator, SetMembership, SetActive, SetEnabled, AdminChange
  <1>10. ASSUME MessageEndpoint
         PROVE  Goal
    BY <1>10 DEF MessageNext
  <1>11. ASSUME UNCHANGED vars
         PROVE  Goal
    BY <1>11 DEF vars
  <1> HIDE DEF Goal
  <1>12. Goal
    BY <1>1, <1>2, <1>3, <1>4, <1>5, <1>6, <1>7, <1>8, <1>9, <1>10, <1>11
       DEF Next, ContinueCall
  <1> QED
    BY <1>12 DEF Goal

(* Every behaviour of the approval service is one of the message center.   *)
THEOREM UsesMessageCenter == Spec => MessageSpec
  <1>1. Init => MessageInit
    BY DEF Init
  <1>2. Spec => []TypeInv
    BY InitTypeInv, NextTypeInv, PTL DEF Spec
  <1> QED
    BY <1>1, <1>2, StepUsesMessageCenter, PTL DEF Spec, MessageSpec
=============================================================================
