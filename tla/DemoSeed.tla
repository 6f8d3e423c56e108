------------------------------ MODULE DemoSeed ------------------------------
(***************************************************************************)
(* The demo seed, src/src/prisma/seed-demo.ts: a script of single          *)
(* statements that may stop at each, run again and again, beside an        *)
(* application whose users decide the requests it makes (decide and cancel *)
(* of src/src/approval-requests, which keep their todos and notifications  *)
(* under the number of the request).                                       *)
(*                                                                         *)
(* A row is named by the run that made it and its place in the seed; the   *)
(* demo requests are told apart by the status they begin with.             *)
(***************************************************************************)
EXTENDS Naturals, Sequences, FiniteSets

CONSTANT MaxRuns        \* bound

ASSUME DemoConstants == MaxRuns \in Nat \ {0}

DemoApprovals == <<"PENDING", "APPROVED", "REJECTED", "CANCELLED">>
DemoFiles == {"demo/demo-delivery-checklist.pdf", "demo/demo-approval-attachment.txt"}

Kinds == 1..Len(DemoApprovals)

(* A business id is the number of a request, <<run, kind>>, or one of the  *)
(* ids of the seed, told apart by the run 0.                               *)
DemoId(i) == <<0, i>>
NoRequest == <<0, 0>>
DemoNotice == DemoId(Len(DemoApprovals) + 1)
DemoTodo == DemoId(Len(DemoApprovals) + 2)
DemoIds == {DemoId(i) : i \in Kinds} \cup {DemoNotice, DemoTodo}

VARIABLES
    run, seedStep,      \* the script: its run, and the statement it comes to
    demoRequests,       \* rows of approval_requests: id -> status
    demoMessages,       \* rows of messages
    demoFiles,          \* rows of file_assets, with the run that made them
    decision,           \* the call in the application
    used                \* history: requests the application has changed

At(step) == <<step, 0>>     \* a statement made once

demoVars == <<run, seedStep, demoRequests, demoMessages, demoFiles, decision, used>>

NoDecision == [step |-> "idle", of |-> NoRequest, status |-> "PENDING"]

DemoInit ==
    /\ run = 0 /\ seedStep = At("done")
    /\ demoRequests = <<>> /\ demoMessages = {} /\ demoFiles = {}
    /\ decision = NoDecision /\ used = {}

Message(businessId, of, open) == [businessId |-> businessId, of |-> of, open |-> open, run |-> run]

----------------------------------------------------------------------------
(* The script *)

SeedTo(from, to) ==
    /\ seedStep = from
    /\ seedStep' = to
    /\ UNCHANGED <<run, decision, used>>

demoRows == <<demoRequests, demoMessages, demoFiles>>

(* main, of this run or of one after another that stopped. *)
StartDemo ==
    /\ seedStep \in {At("done"), At("stopped")} /\ run < MaxRuns
    /\ run' = run + 1 /\ seedStep' = At("users")
    /\ UNCHANGED <<demoRows, decision, used>>

(* The users are found by their address: an upsert loses nothing here. *)
UpsertDemoUsers == SeedTo(At("users"), At("resetMessages")) /\ UNCHANGED demoRows

ResetMessages ==
    /\ SeedTo(At("resetMessages"), At("resetRequests"))
    /\ demoMessages' = {m \in demoMessages : m.businessId \notin DemoIds}
    /\ UNCHANGED <<demoRequests, demoFiles>>

ResetRequests ==
    /\ SeedTo(At("resetRequests"), At("resetFiles"))
    /\ demoRequests' = <<>>
    /\ UNCHANGED <<demoMessages, demoFiles>>

ResetFiles ==
    /\ SeedTo(At("resetFiles"), At("messages"))
    /\ demoFiles' = {}
    /\ UNCHANGED <<demoRequests, demoMessages>>

SeedDemoMessages ==
    /\ SeedTo(At("messages"), <<"request", 1>>)
    /\ demoMessages' = demoMessages \cup {Message(DemoNotice, NoRequest, FALSE), Message(DemoTodo, NoRequest, TRUE)}
    /\ UNCHANGED <<demoRequests, demoFiles>>

CreateApproval(i) ==
    /\ SeedTo(<<"request", i>>, <<"message", i>>)
    /\ demoRequests' = [r \in DOMAIN demoRequests \cup {<<run, i>>} |->
                           IF r = <<run, i>> THEN DemoApprovals[i] ELSE demoRequests[r]]
    /\ UNCHANGED <<demoMessages, demoFiles>>

(* Mutant: the message is kept under the number of the request, as those   *)
(* of the application are.                                                 *)
MessageUnderNumber(i) ==
    /\ SeedTo(<<"message", i>>, IF i = Len(DemoApprovals) THEN At("files") ELSE <<"request", i + 1>>)
    /\ demoMessages' = demoMessages \cup {Message(<<run, i>>, <<run, i>>, DemoApprovals[i] = "PENDING")}
    /\ UNCHANGED <<demoRequests, demoFiles>>

(* createApprovalTodo or createApprovalNotification *)
CreateApprovalMessage(i) ==
    /\ SeedTo(<<"message", i>>, IF i = Len(DemoApprovals) THEN At("files") ELSE <<"request", i + 1>>)
    /\ demoMessages' = demoMessages \cup {Message(DemoId(i), <<run, i>>, DemoApprovals[i] = "PENDING")}
    /\ UNCHANGED <<demoRequests, demoFiles>>

SeedDemoFiles ==
    /\ SeedTo(At("files"), At("done"))
    /\ demoFiles' = {run} \X DemoFiles
    /\ UNCHANGED <<demoRequests, demoMessages>>

StopDemo ==
    /\ seedStep \notin {At("done"), At("stopped")} /\ seedStep' = At("stopped")
    /\ UNCHANGED <<run, demoRows, decision, used>>

----------------------------------------------------------------------------
(* The application *)

DecisionTo(from, to) ==
    /\ decision.step = from
    /\ decision' = [decision EXCEPT !.step = to]
    /\ UNCHANGED <<run, seedStep, demoFiles>>

ReadRequest ==
    /\ decision.step = "idle"
    /\ \E r \in DOMAIN demoRequests, status \in {"APPROVED", "REJECTED", "CANCELLED"} :
        /\ demoRequests[r] = "PENDING"
        /\ decision' = [step |-> "commit", of |-> r, status |-> status]
    /\ UNCHANGED <<run, seedStep, demoRows, used>>

CommitDecision ==
    /\ DecisionTo("commit", "todos")
    /\ decision.of \in DOMAIN demoRequests
    /\ demoRequests' = [demoRequests EXCEPT ![decision.of] = decision.status]
    /\ used' = used \cup {decision.of}
    /\ UNCHANGED demoMessages

(* completeBusinessTodos and cancelBusinessTodos *)
CloseTodos ==
    /\ DecisionTo("todos", "notify")
    /\ demoMessages' = {IF m.businessId = decision.of THEN [m EXCEPT !.open = FALSE] ELSE m : m \in demoMessages}
    /\ UNCHANGED <<demoRequests, used>>

Notify ==
    /\ decision.step = "notify"
    /\ demoMessages' = demoMessages \cup {Message(decision.of, decision.of, FALSE)}
    /\ decision' = [decision EXCEPT !.step = "done"]
    /\ UNCHANGED <<run, seedStep, demoRequests, demoFiles, used>>

(* The call has answered, or a statement of it fails. *)
EndDecision ==
    /\ decision.step # "idle"
    /\ decision' = NoDecision
    /\ UNCHANGED <<run, seedStep, demoRows, used>>

(* The owner of a todo completes it in the message center. *)
CompleteTodo ==
    /\ \E m \in demoMessages :
        /\ m.open
        /\ demoMessages' = (demoMessages \ {m}) \cup {[m EXCEPT !.open = FALSE]}
    /\ UNCHANGED <<run, seedStep, demoRequests, demoFiles, decision, used>>

Script ==
    \/ StartDemo \/ UpsertDemoUsers \/ ResetMessages \/ ResetRequests \/ ResetFiles \/ SeedDemoMessages
    \/ \E i \in Kinds : CreateApproval(i) \/ CreateApprovalMessage(i)
    \/ SeedDemoFiles \/ StopDemo

DemoNext ==
    \/ Script
    \/ ReadRequest \/ CommitDecision \/ CloseTodos \/ Notify \/ EndDecision \/ CompleteTodo

DemoSpec == DemoInit /\ [][DemoNext]_demoVars

----------------------------------------------------------------------------
(* Properties *)

(* After a run, however many before it stopped half-way, the demo data are *)
(* those of that run and no other: one request of each kind, in its        *)
(* status unless the application has decided it, one message under each    *)
(* demo id, and the files.  Only what the application wrote under the      *)
(* numbers of earlier requests is left (main, resetDemoData).              *)
DemoRestored == seedStep = At("done") /\ run > 0 =>
    /\ DOMAIN demoRequests = {run} \X Kinds
    /\ \A r \in DOMAIN demoRequests : demoRequests[r] = DemoApprovals[r[2]] \/ r \in used
    /\ \A id \in DemoIds : Cardinality({m \in demoMessages : m.businessId = id}) = 1
    /\ \A m \in demoMessages : m.of \in DOMAIN demoRequests \cup {NoRequest} \/ m.businessId \in used
    /\ demoFiles = {run} \X DemoFiles

(* Who decides a request of the demo has its todo closed, as with every    *)
(* other request (createApprovalTodo, decide, cancel).                     *)
DemoTodoCloses == decision.step = "done" => \A m \in demoMessages : m.of = decision.of => ~m.open
=============================================================================
