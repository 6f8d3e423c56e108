-------------------------- MODULE ApprovalRegister --------------------------
(***************************************************************************)
(* What the approval service promises about the status of its requests,    *)
(* without todos, notifications, approvers or history: a request is        *)
(* submitted once, and only a call that was let in while the request was   *)
(* pending may process it.                                                 *)
(***************************************************************************)
CONSTANTS Requests, Calls

VARIABLES
    status,     \* the status column of every request
    admitted    \* the calls that found the request pending and may yet process it

registerVars == <<status, admitted>>

Verdicts == {"APPROVED", "REJECTED", "CANCELLED"}

RegisterInit ==
    /\ status = [r \in Requests |-> "NONE"]
    /\ admitted = [r \in Requests |-> {}]

Submit(r) ==
    /\ status[r] = "NONE"
    /\ status' = [status EXCEPT ![r] = "PENDING"]
    /\ UNCHANGED admitted

Admit(r, c) ==
    /\ status[r] = "PENDING"
    /\ admitted' = [admitted EXCEPT ![r] = @ \cup {c}]
    /\ UNCHANGED status

Withdraw(r, c) ==
    /\ c \in admitted[r]
    /\ admitted' = [admitted EXCEPT ![r] = @ \ {c}]
    /\ UNCHANGED status

Process(r, c, verdict) ==
    /\ c \in admitted[r]
    /\ status' = [status EXCEPT ![r] = verdict]
    /\ admitted' = [admitted EXCEPT ![r] = @ \ {c}]

RegisterNext ==
    \E r \in Requests :
        \/ Submit(r)
        \/ \E c \in Calls :
              \/ Admit(r, c)
              \/ Withdraw(r, c)
              \/ \E verdict \in Verdicts : Process(r, c, verdict)

RegisterSpec == RegisterInit /\ [][RegisterNext]_registerVars
=============================================================================
