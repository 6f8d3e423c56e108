-------------------------- MODULE EmailVerification --------------------------
(***************************************************************************)
(* Verification letters: sendEmailVerificationCode publishes the letter to *)
(* RabbitMQ and then stores its code in Redis (src/src/email/,             *)
(* src/src/queue/producers/); a consumer in the same process hands it to   *)
(* the mail server (src/src/queue/consumers/).  Broker, Redis and mail     *)
(* server are external and outlive the process; any step may fail, and the *)
(* process may die at any time.                                            *)
(*                                                                         *)
(* A letter is named by the call that publishes it.  The broker keeps no   *)
(* order that matters here: any deliverable letter may come next.          *)
(***************************************************************************)
EXTENDS Naturals, FiniteSets

CONSTANTS
    Letters,
    MessageTtl,     \* QUEUE_CONFIG.EMAIL.messageTtl
    CodeTtl,        \* expirationTime of a code
    MaxRetries,     \* QUEUE_CONFIG.EMAIL.maxRetries
    Prefetch,       \* prefetchCount of the channel
    MaxTime         \* bound on the clock

ASSUME TtlAssumption == MessageTtl \in Nat \ {0} /\ CodeTtl \in Nat /\ MessageTtl <= CodeTtl
ASSUME LimitAssumption == MaxRetries \in Nat \ {0} /\ Prefetch \in Nat \ {0} /\ MaxTime \in Nat

VARIABLES
    now,
    pc,             \* where the call producing each letter is
    codeUntil,      \* when Redis drops the code, 0 while it has none
    letter,         \* where the letter is
    publishedAt,
    attempts,       \* the attempts field of the message in the queue
    failures,       \* handler calls that threw, counted up to MaxRetries + 1
    sent,           \* how often the mail server took the letter, counted up to 2
    lost            \* history variable: an accepted letter whose ack was lost

callVars == <<pc, codeUntil>>
queueVars == <<letter, publishedAt, attempts, failures, sent, lost>>
vars == <<now, callVars, queueVars>>

Left == {"acked", "expired", "deadLettered"}
InHandler == {"sending", "accepted"}
Places == {"none", "ready"} \cup InHandler \cup Left

TypeOK ==
    /\ now \in 0..MaxTime
    /\ pc \in [Letters -> {"idle", "setToken", "setRefresh", "done", "failed"}]
    /\ codeUntil \in [Letters -> 0..(MaxTime + CodeTtl)]
    /\ letter \in [Letters -> Places]
    /\ publishedAt \in [Letters -> 0..MaxTime]
    /\ attempts \in [Letters -> Nat]
    /\ failures \in [Letters -> 0..(MaxRetries + 1)]
    /\ sent \in [Letters -> 0..2]
    /\ lost \in [Letters -> BOOLEAN]

Init ==
    /\ now = 0
    /\ pc = [m \in Letters |-> "idle"]
    /\ codeUntil = [m \in Letters |-> 0]
    /\ letter = [m \in Letters |-> "none"]
    /\ publishedAt = [m \in Letters |-> 0]
    /\ attempts = [m \in Letters |-> 0]
    /\ failures = [m \in Letters |-> 0]
    /\ sent = [m \in Letters |-> 0]
    /\ lost = [m \in Letters |-> FALSE]

----------------------------------------------------------------------------
(* Helpers *)

CountUpTo(n, limit) == IF n < limit THEN n + 1 ELSE n

Overdue(m) == now >= publishedAt[m] + MessageTtl

Move(m, from, to) ==
    /\ letter[m] = from
    /\ letter' = [letter EXCEPT ![m] = to]

GoTo(m, from, to) ==
    /\ pc[m] = from
    /\ pc' = [pc EXCEPT ![m] = to]

----------------------------------------------------------------------------
(* sendEmailVerificationCode: publish, then set the code, then set the     *)
(* emailRefresh key, which nothing reads.                                  *)

Enqueue(m) ==
    /\ Move(m, "none", "ready")
    /\ publishedAt' = [publishedAt EXCEPT ![m] = now]
    /\ now + MessageTtl <= MaxTime
    /\ UNCHANGED <<now, codeUntil, attempts, failures, sent, lost>>

(* Mutant: publish is not awaited. *)
PublishUnawaited(m) ==
    /\ GoTo(m, "idle", "setToken")
    /\ Enqueue(m) \/ UNCHANGED <<now, codeUntil, queueVars>>

Publish(m) ==
    /\ GoTo(m, "idle", "setToken")
    /\ Enqueue(m)

(* publish rejects, though the broker may have the letter. *)
PublishFails(m) ==
    /\ GoTo(m, "idle", "failed")
    /\ Enqueue(m) \/ UNCHANGED <<now, codeUntil, queueVars>>

(* Mutant: the expiry is turned into seconds twice. *)
SetTokenForHours(m) ==
    /\ GoTo(m, "setToken", "setRefresh")
    /\ codeUntil' = [codeUntil EXCEPT ![m] = now + 60 * CodeTtl]
    /\ UNCHANGED <<now, queueVars>>

SetToken(m) ==
    /\ GoTo(m, "setToken", "setRefresh")
    /\ codeUntil' = [codeUntil EXCEPT ![m] = now + CodeTtl]
    /\ UNCHANGED <<now, queueVars>>

SetRefresh(m) ==
    /\ GoTo(m, "setRefresh", "done")
    /\ UNCHANGED <<now, codeUntil, queueVars>>

RedisFails(m) ==
    /\ \E step \in {"setToken", "setRefresh"} : GoTo(m, step, "failed")
    /\ UNCHANGED <<now, codeUntil, queueVars>>

----------------------------------------------------------------------------
(* The consumer *)

(* The broker delivers; handleVerificationEmail checks the attempts field, *)
(* and a letter past maxRetries goes to the dead letter exchange, where no *)
(* queue is bound.                                                         *)
Deliver(m) ==
    /\ ~Overdue(m)
    /\ Cardinality({n \in Letters : letter[n] \in InHandler}) < Prefetch
    /\ Move(m, "ready", IF attempts[m] >= MaxRetries THEN "deadLettered" ELSE "sending")
    /\ UNCHANGED <<now, callVars, publishedAt, attempts, failures, sent, lost>>

(* Mutant: the metrics that follow a successful send throw. *)
SendThenThrow(m) ==
    /\ Move(m, "sending", "ready")
    /\ sent' = [sent EXCEPT ![m] = CountUpTo(@, 2)]
    /\ UNCHANGED <<now, callVars, publishedAt, attempts, failures, lost>>

SendMail(m) ==
    /\ Move(m, "sending", "accepted")
    /\ sent' = [sent EXCEPT ![m] = CountUpTo(@, 2)]
    /\ UNCHANGED <<now, callVars, publishedAt, attempts, failures, lost>>

(* Mutant: the handler logs the error and does not throw it again. *)
SwallowError(m) ==
    /\ Move(m, "sending", "acked")
    /\ failures' = [failures EXCEPT ![m] = CountUpTo(@, MaxRetries + 1)]
    /\ UNCHANGED <<now, callVars, publishedAt, attempts, sent, lost>>

(* Mutant: a failed letter is published anew. *)
Republish(m) ==
    /\ Move(m, "sending", "ready")
    /\ publishedAt' = [publishedAt EXCEPT ![m] = now]
    /\ failures' = [failures EXCEPT ![m] = CountUpTo(@, MaxRetries + 1)]
    /\ UNCHANGED <<now, callVars, attempts, sent, lost>>

(* The handler throws, and the library puts the message back as it came:   *)
(* the attempts the handler increments are those of its own copy.          *)
SendFails(m) ==
    /\ Move(m, "sending", "ready")
    /\ failures' = [failures EXCEPT ![m] = CountUpTo(@, MaxRetries + 1)]
    /\ UNCHANGED <<now, callVars, publishedAt, attempts, sent, lost>>

(* ... also when the mail server took the letter and the answer was lost. *)
AnswerLost(m) ==
    /\ Move(m, "sending", "ready")
    /\ failures' = [failures EXCEPT ![m] = CountUpTo(@, MaxRetries + 1)]
    /\ sent' = [sent EXCEPT ![m] = CountUpTo(@, 2)]
    /\ lost' = [lost EXCEPT ![m] = TRUE]
    /\ UNCHANGED <<now, callVars, publishedAt, attempts>>

(* Mutant: a letter that failed before is not acknowledged. *)
AckFirstDelivery(m) ==
    /\ failures[m] = 0
    /\ Move(m, "accepted", "acked")
    /\ UNCHANGED <<now, callVars, publishedAt, attempts, failures, sent, lost>>

Ack(m) ==
    /\ Move(m, "accepted", "acked")
    /\ UNCHANGED <<now, callVars, publishedAt, attempts, failures, sent, lost>>

----------------------------------------------------------------------------
(* The environment *)

(* The broker drops a letter whose time is up; one that is with a handler  *)
(* is dropped when it comes back.                                          *)
Expire(m) ==
    /\ Overdue(m)
    /\ Move(m, "ready", "expired")
    /\ UNCHANGED <<now, callVars, publishedAt, attempts, failures, sent, lost>>

(* The process dies: running calls end, unacknowledged letters go back. *)
Crash ==
    /\ pc' = [m \in Letters |-> IF pc[m] \in {"setToken", "setRefresh"} THEN "failed" ELSE pc[m]]
    /\ letter' = [m \in Letters |-> IF letter[m] \in InHandler THEN "ready" ELSE letter[m]]
    /\ lost' = [m \in Letters |-> lost[m] \/ letter[m] = "accepted"]
    /\ UNCHANGED <<now, codeUntil, publishedAt, attempts, failures, sent>>

Tick ==
    /\ now < MaxTime
    /\ now' = now + 1
    /\ UNCHANGED <<callVars, queueVars>>

----------------------------------------------------------------------------

Produce(m) == Publish(m) \/ PublishFails(m) \/ SetToken(m) \/ SetRefresh(m) \/ RedisFails(m)

Handle(m) == SendMail(m) \/ SendFails(m) \/ AnswerLost(m) \/ Ack(m)

Next ==
    \/ \E m \in Letters : Produce(m) \/ Deliver(m) \/ Handle(m) \/ Expire(m)
    \/ Crash
    \/ Tick

Spec == Init /\ [][Next]_vars

(* Time passes, the broker drops overdue letters, and a handler comes to   *)
(* an end: nodemailer gives every connection a timeout.                    *)
FairSpec ==
    /\ Spec
    /\ WF_vars(Tick)
    /\ \A m \in Letters : WF_vars(Expire(m)) /\ WF_vars(Handle(m))

----------------------------------------------------------------------------
(* Properties *)

(* A letter the consumer can still get carries a code that registration    *)
(* accepts, however often it was put back, unless the call has not stored  *)
(* the code yet or failed (messageTtl against expirationTime).             *)
FreshLetter ==
    \A m \in Letters : letter[m] = "ready" /\ ~Overdue(m) =>
        now < codeUntil[m] \/ pc[m] \in {"setToken", "failed"}

(* A code is stored only for a letter the broker has taken: whoever gets a *)
(* token has a letter coming (publish is awaited before redis.set).        *)
CodeHasLetter == \A m \in Letters : codeUntil[m] # 0 => letter[m] # "none"

(* A letter leaves the queue unsent only when its time is up, or for the    *)
(* dead letter exchange after maxRetries failures, whatever fails or        *)
(* crashes in between (handleVerificationEmail, messageTtl).                *)
LossExplained ==
    \A m \in Letters : letter[m] \in Left /\ sent[m] = 0 =>
        \/ Overdue(m)
        \/ letter[m] = "deadLettered" /\ failures[m] >= MaxRetries

(* The same letter is sent twice only after an answer or an ack was lost,  *)
(* to a broken connection or to a crash: a failure alone never does it.    *)
DuplicatesExplained == \A m \in Letters : sent[m] = 2 => lost[m]

(* Every published letter leaves the queue, even if no send ever succeeds. *)
EveryLetterLeaves == \A m \in Letters : letter[m] = "ready" ~> letter[m] \in Left

(* "maxRetries: 3": a letter whose sending fails is given up after as many *)
(* failures (email.consumer.ts checks and increments attempts).            *)
RetriesBounded == \A m \in Letters : failures[m] <= MaxRetries
=============================================================================
