---------------------------- MODULE MCAuthSession ----------------------------
(* Instances of AuthSession for TLC.                                       *)
EXTENDS AuthSession, TLC

(* lastLogin and loginLog are written and never read. *)
Read == <<account, password, hashedRt, pc, call, adminActs, historyVars>>

Interchangeable == Permutations(Calls) \cup Permutations(Passwords)

=============================================================================
