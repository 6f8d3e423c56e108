--------------------------- MODULE MessageCenter ---------------------------
(***************************************************************************)
(* The message center (src/src/messages/messages.service.ts): the Message  *)
(* rows of type TODO and NOTIFICATION and the operations on them.          *)
(*                                                                         *)
(* The only business module that writes todos is approval requests, which  *)
(* fans a request out once, so a todo row is identified by its request     *)
(* (businessId) and its owner (userId).  completedAt and cancelledAt are   *)
(* kept as the sets of rows in which they are not null; the instants       *)
(* themselves are abstracted.                                              *)
(***************************************************************************)
EXTENDS Naturals, Sequences, FiniteSets

CONSTANTS
    Users,      \* user ids
    Requests,   \* approval request ids: the businessId of every message
    Titles,     \* what a notification tells its reader
    MaxTodoCalls \* bound on the completeTodo and cancelTodo calls in flight

VARIABLES
    todos,      \* rows with type = TODO
    completed,  \* todos with completedAt # null
    cancelled,  \* todos with cancelledAt # null
    todoWrites, \* completeTodo / cancelTodo calls between their check and their UPDATE
    notices,    \* per request, the NOTIFICATION rows in creation order
    readNotices \* notifications with readAt # null, as <<request, index>>

messageVars == <<todos, completed, cancelled, todoWrites, notices, readNotices>>

Todo == Requests \X Users
Owner(t) == t[2]
BusinessId(t) == t[1]
Notice == [userId : Users, title : Titles]

MessageTypeOK ==
    /\ todos \subseteq Todo
    /\ completed \subseteq todos
    /\ cancelled \subseteq todos
    /\ todoWrites \subseteq {"complete", "cancel"} \X todos
    /\ notices \in [Requests -> Seq(Notice)]
    /\ readNotices \subseteq Requests \X (Nat \ {0})

MessageInit ==
    /\ todos = {}
    /\ completed = {}
    /\ cancelled = {}
    /\ todoWrites = {}
    /\ notices = [r \in Requests |-> <<>>]
    /\ readNotices = {}

(* A todo is pending while it is neither completed nor cancelled. *)
PendingTodos == todos \ (completed \cup cancelled)

----------------------------------------------------------------------------
(* The statements business modules call.  Each is one SQL statement.       *)

(* createTodo, and the createMany of createTodoForRole. *)
CreateTodos(r, us) ==
    /\ todos' = todos \cup ({r} \X us)
    /\ UNCHANGED <<completed, cancelled, todoWrites, notices, readNotices>>

CompleteBusinessTodos(r, u) ==
    /\ completed' = completed \cup
                      {t \in PendingTodos : BusinessId(t) = r /\ Owner(t) = u}
    /\ UNCHANGED <<todos, cancelled, todoWrites, notices, readNotices>>

(* Mutant: the businessId filter is forgotten. *)
CancelTodosOfEveryBusiness(r, except) ==
    /\ cancelled' = cancelled \cup {t \in PendingTodos : Owner(t) \notin except}
    /\ UNCHANGED <<todos, completed, todoWrites, notices, readNotices>>

(* except is {} or the one user whose todos are spared. *)
CancelBusinessTodos(r, except) ==
    /\ cancelled' = cancelled \cup
                      {t \in PendingTodos : BusinessId(t) = r /\ Owner(t) \notin except}
    /\ UNCHANGED <<todos, completed, todoWrites, notices, readNotices>>

CreateNotification(r, u, title) ==
    /\ notices' = [notices EXCEPT ![r] = Append(@, [userId |-> u, title |-> title])]
    /\ UNCHANGED <<todos, completed, cancelled, todoWrites, readNotices>>

----------------------------------------------------------------------------
(* The endpoints a message's owner calls.  completeTodo and cancelTodo     *)
(* read the row, check it and update it later; a call that is refused      *)
(* leaves no trace.  Two calls with the same operation on the same row are *)
(* one element of todoWrites: the second UPDATE changes no null-ness.      *)

CompleteTodoRead(u, t) ==
    /\ t \in todos
    /\ Owner(t) = u
    /\ t \notin cancelled
    /\ Cardinality(todoWrites) < MaxTodoCalls
    /\ todoWrites' = todoWrites \cup {<<"complete", t>>}
    /\ UNCHANGED <<todos, completed, cancelled, notices, readNotices>>

CompleteTodoWrite(t) ==
    /\ <<"complete", t>> \in todoWrites
    /\ completed' = completed \cup {t}
    /\ todoWrites' = todoWrites \ {<<"complete", t>>}
    /\ UNCHANGED <<todos, cancelled, notices, readNotices>>

CancelTodoRead(u, t) ==
    /\ t \in todos
    /\ Owner(t) = u
    /\ t \notin completed
    /\ Cardinality(todoWrites) < MaxTodoCalls
    /\ todoWrites' = todoWrites \cup {<<"cancel", t>>}
    /\ UNCHANGED <<todos, completed, cancelled, notices, readNotices>>

CancelTodoWrite(t) ==
    /\ <<"cancel", t>> \in todoWrites
    /\ cancelled' = cancelled \cup {t}
    /\ todoWrites' = todoWrites \ {<<"cancel", t>>}
    /\ UNCHANGED <<todos, completed, notices, readNotices>>

(* The row's owner never changes and readAt is only ever set, so the read  *)
(* and the update of markRead are one step.                                *)
MarkRead(u, r, i) ==
    /\ i \in DOMAIN notices[r]
    /\ notices[r][i].userId = u
    /\ readNotices' = readNotices \cup {<<r, i>>}
    /\ UNCHANGED <<todos, completed, cancelled, todoWrites, notices>>

NoticesOf(u) ==
    UNION {{<<r, i>> : i \in {j \in DOMAIN notices[r] : notices[r][j].userId = u}} :
             r \in Requests}

MarkAllRead(u) ==
    /\ readNotices' = readNotices \cup NoticesOf(u)
    /\ UNCHANGED <<todos, completed, cancelled, todoWrites, notices>>

TodoEndpoint ==
    \E t \in todos :
        \/ \E u \in Users : CompleteTodoRead(u, t) \/ CancelTodoRead(u, t)
        \/ CompleteTodoWrite(t)
        \/ CancelTodoWrite(t)

NoticeEndpoint ==
    \E u \in Users :
        \/ MarkAllRead(u)
        \/ \E r \in Requests : \E i \in DOMAIN notices[r] : MarkRead(u, r, i)

MessageEndpoint == TodoEndpoint \/ NoticeEndpoint

----------------------------------------------------------------------------
(* The message center by itself, for any business module using it.         *)

BusinessStatement ==
    \E r \in Requests :
        \/ \E us \in SUBSET Users : CreateTodos(r, us)
        \/ \E u \in Users : CompleteBusinessTodos(r, u)
        \/ \E except \in SUBSET Users : CancelBusinessTodos(r, except)
        \/ \E u \in Users, title \in Titles : CreateNotification(r, u, title)

MessageNext == BusinessStatement \/ MessageEndpoint

MessageSpec == MessageInit /\ [][MessageNext]_messageVars
=============================================================================
