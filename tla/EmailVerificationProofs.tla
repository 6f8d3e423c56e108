----------------------- MODULE EmailVerificationProofs -----------------------
(***************************************************************************)
(* What holds of EmailVerification for any letters, TTLs, limits and time. *)
(* CallInv relates a producing call to its letter and its code, QueueInv   *)
(* the place of a letter to what was sent and lost; both are inductive     *)
(* together with TypeOK, and they imply the safety properties.             *)
(***************************************************************************)
EXTENDS EmailVerification, TLAPS

(* The call publishes before it stores the code, and the code it stores    *)
(* lives CodeTtl from then at least.                                       *)
CallInv(m) ==
    /\ pc[m] = "idle" => letter[m] = "none" /\ codeUntil[m] = 0
    /\ pc[m] \in {"setToken", "setRefresh", "done"} => letter[m] # "none"
    /\ pc[m] \in {"setRefresh", "done"} => codeUntil[m] # 0
    /\ codeUntil[m] # 0 =>
        letter[m] # "none" /\ codeUntil[m] >= publishedAt[m] + CodeTtl

(* Only the handler sends, and what it sent is still in the queue only if  *)
(* something was lost; the attempts field never changes.                   *)
QueueInv(m) ==
    /\ publishedAt[m] <= now
    /\ attempts[m] = 0 /\ letter[m] # "deadLettered"
    /\ letter[m] \in {"none", "ready", "sending"} /\ sent[m] > 0 => lost[m]
    /\ sent[m] = 2 => lost[m]
    /\ letter[m] \in {"accepted", "acked"} => sent[m] > 0
    /\ letter[m] = "expired" => Overdue(m)

IInv == TypeOK /\ \A m \in Letters : CallInv(m) /\ QueueInv(m)

USE TtlAssumption, LimitAssumption

LEMMA InitIInv == Init => IInv
BY DEF Init, IInv, TypeOK, CallInv, QueueInv, Places, InHandler, Left, Overdue

(* A step of one letter leaves the variables of the others alone. *)
LEMMA TypeStep == TypeOK /\ [Next]_vars => TypeOK'
<1> SUFFICES ASSUME TypeOK, [Next]_vars PROVE TypeOK'
  OBVIOUS
<1> USE DEF TypeOK, Places, InHandler, Left, callVars, queueVars
<1>1. ASSUME NEW m \in Letters, Produce(m) PROVE TypeOK'
  <2>1. CASE Publish(m)
    BY <2>1 DEF Publish, GoTo, Enqueue, Move
  <2>2. CASE PublishFails(m)
    BY <2>2 DEF PublishFails, GoTo, Enqueue, Move
  <2>3. CASE SetToken(m)
    BY <2>3 DEF SetToken, GoTo
  <2>4. CASE SetRefresh(m) \/ RedisFails(m)
    BY <2>4 DEF SetRefresh, RedisFails, GoTo
  <2>5. QED
    BY <1>1, <2>1, <2>2, <2>3, <2>4 DEF Produce
<1>2. ASSUME NEW m \in Letters, Deliver(m) PROVE TypeOK'
  BY <1>2 DEF Deliver, Move
<1>3. ASSUME NEW m \in Letters, Handle(m) PROVE TypeOK'
  <2>1. CASE SendMail(m)
    BY <2>1 DEF SendMail, Move, CountUpTo
  <2>2. CASE SendFails(m)
    BY <2>2 DEF SendFails, Move, CountUpTo
  <2>3. CASE AnswerLost(m)
    BY <2>3 DEF AnswerLost, Move, CountUpTo
  <2>4. CASE Ack(m)
    BY <2>4 DEF Ack, Move
  <2>5. QED
    BY <1>3, <2>1, <2>2, <2>3, <2>4 DEF Handle
<1>4. ASSUME NEW m \in Letters, Expire(m) PROVE TypeOK'
  BY <1>4 DEF Expire, Move
<1>5. CASE Crash
  BY <1>5 DEF Crash
<1>6. CASE Tick
  BY <1>6 DEF Tick
<1>7. CASE UNCHANGED vars
  BY <1>7 DEF vars
<1>8. QED
  BY <1>1, <1>2, <1>3, <1>4, <1>5, <1>6, <1>7 DEF Next

LEMMA LetterStep == IInv /\ [Next]_vars => \A n \in Letters : CallInv(n)' /\ QueueInv(n)'
<1> SUFFICES ASSUME IInv, [Next]_vars, NEW n \in Letters PROVE CallInv(n)' /\ QueueInv(n)'
  OBVIOUS
<1>0. TypeOK /\ CallInv(n) /\ QueueInv(n)
  BY DEF IInv
<1> USE <1>0 DEF TypeOK, Places, InHandler, Left, CallInv, QueueInv, Overdue,
                 callVars, queueVars
<1>1. ASSUME NEW m \in Letters, Produce(m) PROVE CallInv(n)' /\ QueueInv(n)'
  <2>1. CASE Publish(m)
    BY <2>1 DEF Publish, GoTo, Enqueue, Move
  <2>2. CASE PublishFails(m)
    BY <2>2 DEF PublishFails, GoTo, Enqueue, Move
  <2>3. CASE SetToken(m)
    BY <2>3 DEF SetToken, GoTo
  <2>4. CASE SetRefresh(m) \/ RedisFails(m)
    BY <2>4 DEF SetRefresh, RedisFails, GoTo
  <2>5. QED
    BY <1>1, <2>1, <2>2, <2>3, <2>4 DEF Produce
<1>2. ASSUME NEW m \in Letters, Deliver(m) PROVE CallInv(n)' /\ QueueInv(n)'
  <2>1. ~(attempts[m] >= MaxRetries)
    BY DEF IInv
  <2>2. Move(m, "ready", "sending")
    BY <1>2, <2>1, Zenon DEF Deliver
  <2>3. QED
    BY <1>2, <2>2 DEF Deliver, Move
<1>3. ASSUME NEW m \in Letters, Handle(m) PROVE CallInv(n)' /\ QueueInv(n)'
  <2>1. CASE SendMail(m)
    BY <2>1 DEF SendMail, Move, CountUpTo
  <2>2. CASE SendFails(m)
    BY <2>2 DEF SendFails, Move, CountUpTo
  <2>3. CASE AnswerLost(m)
    BY <2>3 DEF AnswerLost, Move, CountUpTo
  <2>4. CASE Ack(m)
    BY <2>4 DEF Ack, Move
  <2>5. QED
    BY <1>3, <2>1, <2>2, <2>3, <2>4 DEF Handle
<1>4. ASSUME NEW m \in Letters, Expire(m) PROVE CallInv(n)' /\ QueueInv(n)'
  BY <1>4 DEF Expire, Move
<1>5. CASE Crash
  BY <1>5 DEF Crash
<1>6. CASE Tick
  BY <1>6 DEF Tick
<1>7. CASE UNCHANGED vars
  BY <1>7 DEF vars
<1>8. QED
  BY <1>1, <1>2, <1>3, <1>4, <1>5, <1>6, <1>7 DEF Next

LEMMA Inductive == Spec => []IInv
<1>1. IInv /\ [Next]_vars => IInv'
  BY TypeStep, LetterStep DEF IInv
<1>2. QED
  BY InitIInv, <1>1, PTL DEF Spec

(* The clock, the queue, the calls and the counters keep their types.      *)
THEOREM TypeCorrect == Spec => []TypeOK
<1>1. IInv => TypeOK
  BY DEF IInv
<1>2. QED
  BY Inductive, <1>1, PTL

(* A deliverable letter's code has not expired, for every pair of TTLs in  *)
(* which the message's is not the longer one (TtlAssumption).              *)
THEOREM DeliverableIsFresh == Spec => []FreshLetter
<1>1. IInv => FreshLetter
  BY DEF IInv, FreshLetter, TypeOK, CallInv, QueueInv, Overdue
<1>2. QED
  BY Inductive, <1>1, PTL

(* No code without a letter, wherever the producing call failed.           *)
THEOREM StoredCodeHasLetter == Spec => []CodeHasLetter
<1>1. IInv => CodeHasLetter
  BY DEF IInv, CodeHasLetter, CallInv
<1>2. QED
  BY Inductive, <1>1, PTL

(* A letter leaves the queue unsent only when its time is up.              *)
THEOREM NoLetterLost == Spec => []LossExplained
<1>1. IInv => LossExplained
  BY DEF IInv, LossExplained, QueueInv, Left, TypeOK
<1>2. QED
  BY Inductive, <1>1, PTL

(* A letter is sent twice only after an answer or an ack was lost.         *)
THEOREM NoNeedlessDuplicate == Spec => []DuplicatesExplained
<1>1. IInv => DuplicatesExplained
  BY DEF IInv, DuplicatesExplained, QueueInv
<1>2. QED
  BY Inductive, <1>1, PTL
(* The safety half of EveryLetterLeaves: a letter's deadline is set once,  *)
(* by its publication, and no failure, redelivery or crash moves it; once  *)
(* past it the letter reaches no handler any more, and one that has left   *)
(* the queue never comes back.  What remains is that time passes and that  *)
(* handlers end, which is fairness and stays with TLC.                     *)
DeadlineKept ==
    [][\A m \in Letters : letter[m] # "none" =>
         /\ letter'[m] # "none" /\ publishedAt'[m] = publishedAt[m]
         /\ Overdue(m) => Overdue(m)'
         /\ letter[m] = "ready" /\ Overdue(m) => letter'[m] \in {"ready", "expired"}
         /\ letter[m] \in Left => letter'[m] = letter[m]]_vars

THEOREM RetriesKeepDeadline == Spec => DeadlineKept
<1> DEFINE Kept(m) == letter[m] # "none" =>
             /\ letter'[m] # "none" /\ publishedAt'[m] = publishedAt[m]
             /\ Overdue(m) => Overdue(m)'
             /\ letter[m] = "ready" /\ Overdue(m) => letter'[m] \in {"ready", "expired"}
             /\ letter[m] \in Left => letter'[m] = letter[m]
<1>1. ASSUME IInv, Next PROVE \A m \in Letters : Kept(m)
  <2> USE DEF Left, InHandler, callVars, queueVars
  <2>1. TypeOK
    BY <1>1 DEF IInv
  <2>2. ASSUME NEW m \in Letters, Produce(m) PROVE \A n \in Letters : Kept(n)
    BY <2>1, <2>2 DEF Produce, Publish, PublishFails, SetToken, SetRefresh, RedisFails, Enqueue, GoTo, Move, Overdue,
                      TypeOK
  <2>3. ASSUME NEW m \in Letters, Deliver(m) PROVE \A n \in Letters : Kept(n)
    BY <2>1, <2>3 DEF Deliver, Move, Overdue, TypeOK
  <2>4. ASSUME NEW m \in Letters, Handle(m) PROVE \A n \in Letters : Kept(n)
    BY <2>1, <2>4 DEF Handle, SendMail, SendFails, AnswerLost, Ack, Move, Overdue, TypeOK
  <2>5. ASSUME NEW m \in Letters, Expire(m) PROVE \A n \in Letters : Kept(n)
    BY <2>1, <2>5 DEF Expire, Move, Overdue, TypeOK
  <2>6. CASE Crash
    BY <2>1, <2>6 DEF Crash, Overdue, TypeOK
  <2>7. CASE Tick
    BY <2>1, <2>7 DEF Tick, Overdue, TypeOK
  <2>8. QED
    BY <1>1, <2>2, <2>3, <2>4, <2>5, <2>6, <2>7 DEF Next
<1>2. IInv /\ [Next]_vars => [\A m \in Letters : Kept(m)]_vars
  BY <1>1
<1>3. QED
  BY Inductive, <1>2, PTL DEF Spec, DeadlineKept
=============================================================================
