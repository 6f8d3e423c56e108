--------------------------- MODULE MCApprovalLite ---------------------------
(* Instances of ApprovalLite for TLC. *)
EXTENDS ApprovalLite, TLC

CONSTANTS ann, bob, manager

MCUsers == {ann, bob}
MCRoles == {manager}
MCMembers == {<<ann, manager>>, <<bob, manager>>}
MCTitles == {"APPROVED", "REJECTED", "CANCELLED"}
Interchangeable == Permutations(Calls) \cup Permutations(Requests)
(* readNotices is written and never read. *)
Read == <<todos, completed, cancelled, todoWrites, notices, requestVars, pc, call, rbacVars, overtaken>>
=============================================================================
