------------------------------- MODULE Outbox -------------------------------
(***************************************************************************)
(* The durable notification outbox (table notification_outbox of           *)
(* adapters/sqlite.py), the publishers that write to it                    *)
(* (services/notification_service.py) and the one worker that drains it    *)
(* (services/mail_worker.py).                                              *)
(*                                                                         *)
(* Every step is one database transaction or one exchange with a           *)
(* transport: between any two of them other publishers run, the process    *)
(* may be killed, and an sqlite error may abort the drain.                 *)
(*                                                                         *)
(* Times are relative: wait[k] is next_attempt_at - now, and Tick lets one *)
(* unit pass.  attempts is kept only up to the value where the exponential *)
(* backoff stops growing, which loses nothing: it is used only inside      *)
(* min(attempts - 1, MaxExponent).                                         *)
(***************************************************************************)
EXTENDS Naturals, FiniteSets

CONSTANTS
  NoKey,         \* the worker holds no row
  Keys,          \* dedup keys the publishers use
  QQKeys,        \* those routed to the owner's QQ account; the rest are mail
  CriticalKeys,  \* those of severity CRITICAL
  Policies,      \* email policies the configuration may hold across restarts
  Holds,         \* not_before - now, for a notification held back when queued
  BatchLimit,    \* LIMIT of pending()
  RetryInitial, RetryMax, MaxExponent,
  MaxRestarts,   \* bound: process restarts and aborted drains
  MaxLostReplies \* bound: deliveries whose answer never comes back

\* The outage notice a failed QQ notification leaves for the mail channel.
Fallback(k) == <<"qq-fallback", k>>
AllKeys == Keys \cup {Fallback(k) : k \in QQKeys}

\* The configured smtp.retry_* delays, doubled per failed attempt.
RetryDelay(n) ==
  LET doubled == RetryInitial * 2^(IF n - 1 < MaxExponent THEN n - 1 ELSE MaxExponent)
  IN  IF doubled < RetryMax THEN doubled ELSE RetryMax

ASSUME KeysAssumption ==
  /\ IsFiniteSet(Keys)
  /\ NoKey \notin AllKeys
  /\ QQKeys \subseteq Keys
  /\ CriticalKeys \subseteq Keys \ QQKeys
  /\ \A k \in QQKeys : Fallback(k) \notin Keys
ASSUME PolicyAssumption == Policies \subseteq {"all", "critical_only", "disabled"}
ASSUME BoundsAssumption ==
  /\ Holds \subseteq Nat
  /\ BatchLimit \in Nat \ {0}
  /\ MaxExponent \in Nat
  /\ MaxRestarts \in Nat
  /\ MaxLostReplies \in Nat
ASSUME RetryAssumption == \A n \in 1 .. MaxExponent + 1 : RetryDelay(n) \in Nat

VARIABLES
  status,     \* AllKeys -> "absent" (no row) | "pending" | "sent" | "suppressed"
  attempts,   \* AllKeys -> failed attempts recorded in the row
  wait,       \* AllKeys -> time left until next_attempt_at
  birth,      \* AllKeys -> rank in ORDER BY created_at
  policy,     \* the email policy of the running process
  pc,         \* where the worker's loop stands
  batch,      \* rows of the last pending() still to be handled, as read then
  current,    \* the row the worker handles
  restarts,   \* restarts so far (bound)
  lostReplies,\* answers lost so far (bound)
  delivered,  \* history: copies of k the transport accepted
  excuses     \* history: accepted copies whose success was never recorded

rowVars    == <<status, attempts, wait, birth>>
workerVars == <<pc, batch, current>>
history    == <<restarts, lostReplies, delivered, excuses>>
outboxVars == <<rowVars, workerVars, policy, history>>

IsMail(k) == k \notin QQKeys

\* EmailAllowed of NotificationService and of MailWorker: fallback notices
\* are warnings and so need the policy "all".
EmailAllowed(k) ==
  \/ policy = "all"
  \/ policy = "critical_only" /\ k \in CriticalKeys

Present(k) == status[k] # "absent"

\* Mutations: rows already sent are polled; backoff is not looked at.
DueWhateverStatus == {k \in AllKeys : Present(k) /\ wait[k] = 0}
DueTooEarly == {k \in AllKeys : status[k] = "pending"}

Due == {k \in AllKeys : status[k] = "pending" /\ wait[k] = 0}

-----------------------------------------------------------------------------
(* The statements of the store. *)

\* Mutation: INSERT OR REPLACE.
EnqueueReplacing(k, hold) ==
  /\ status'   = [status EXCEPT ![k] = "pending"]
  /\ attempts' = [attempts EXCEPT ![k] = 0]
  /\ wait'     = [wait EXCEPT ![k] = hold]
  /\ birth'    = [birth EXCEPT ![k] = Cardinality({j \in AllKeys : Present(j)})]

\* INSERT OR IGNORE on the unique dedup_key.
Enqueue(k, hold) ==
  IF Present(k)
  THEN UNCHANGED rowVars
  ELSE /\ status'   = [status EXCEPT ![k] = "pending"]
       /\ attempts' = [attempts EXCEPT ![k] = 0]
       /\ wait'     = [wait EXCEPT ![k] = hold]
       /\ birth'    = [birth EXCEPT ![k] = Cardinality({j \in AllKeys : Present(j)})]

\* pending(limit): the oldest BatchLimit rows that are due.
Pending ==
  {k \in Due : Cardinality({j \in Due : birth[j] < birth[k]}) < BatchLimit}

\* UPDATE ... SET status = 'sent', whatever the status was.
SetSent(k) == status' = [status EXCEPT ![k] = "sent"]

\* Mutation: without the condition on the status.
SetSuppressedAlways(k) == status' = [status EXCEPT ![k] = "suppressed"]

\* UPDATE ... SET status = 'suppressed' ... AND status = 'pending'.
SetSuppressed(k) ==
  status' = [status EXCEPT ![k] = IF @ = "pending" THEN "suppressed" ELSE @]

\* Mutation: a failed row is due again at once, before younger ones.
SetFailedDueAtOnce(k) ==
  LET n == attempts[k] + 1
      counted == IF n <= MaxExponent + 1 THEN n ELSE MaxExponent + 1
  IN  /\ attempts' = [attempts EXCEPT ![k] = counted]
      /\ wait'     = [wait EXCEPT ![k] = 0]

\* One more attempt counted and the next one put off; the status stays.
SetFailed(k) ==
  LET n == attempts[k] + 1
      counted == IF n <= MaxExponent + 1 THEN n ELSE MaxExponent + 1
  IN  /\ attempts' = [attempts EXCEPT ![k] = counted]
      /\ wait'     = [wait EXCEPT ![k] = RetryDelay(counted)]

-----------------------------------------------------------------------------
(* Publishers. *)

\* NotificationService.publish: mail the policy forbids is never stored.
Publish(k, hold) ==
  IF IsMail(k) /\ ~EmailAllowed(k) THEN UNCHANGED rowVars ELSE Enqueue(k, hold)

\* Only an incident's opening notice is ever held back.
PublishStep(k, hold) ==
  /\ hold = 0 \/ k \in CriticalKeys
  /\ Publish(k, hold)
  /\ UNCHANGED <<workerVars, policy, history>>

\* mark_suppressed as a recovery calls it, on an incident's opening notice.
WithdrawStep(k) ==
  /\ SetSuppressed(k)
  /\ UNCHANGED <<attempts, wait, birth, workerVars, policy, history>>

-----------------------------------------------------------------------------
(* The worker. *)

\* await outbox.pending(): the rest of the loop works on this snapshot.
Poll ==
  /\ pc = "idle"
  /\ Pending # {}
  /\ pc' = "drain"
  /\ batch' = Pending
  /\ UNCHANGED <<rowVars, current, policy, history>>

\* The loop takes the oldest row of its snapshot.  Mail the policy no longer
\* allows is suppressed without being sent.
TakeNext(k) ==
  /\ pc = "drain"
  /\ k \in batch
  /\ \A j \in batch : birth[k] <= birth[j]
  /\ batch' = batch \ {k}
  /\ IF IsMail(k) /\ ~EmailAllowed(k)
     THEN /\ SetSuppressed(k)
          /\ UNCHANGED <<pc, current>>
     ELSE /\ pc' = "sending"
          /\ current' = k
          /\ UNCHANGED status
  /\ UNCHANGED <<attempts, wait, birth, policy, history>>

\* The snapshot is used up: the worker sleeps for its poll interval.
EndDrain ==
  /\ pc = "drain"
  /\ batch = {}
  /\ pc' = "idle"
  /\ UNCHANGED <<rowVars, batch, current, policy, history>>

\* The SMTP server or the QQ client takes the message; its answer is on the way.
Accept(k) ==
  /\ pc = "sending"
  /\ current = k
  /\ pc' = "accepted"
  /\ delivered' = [delivered EXCEPT ![k] = @ + 1]
  /\ UNCHANGED <<rowVars, batch, current, policy, restarts, lostReplies, excuses>>

\* The transport refuses, is unreachable or times out before taking it.
Refuse ==
  /\ pc = "sending"
  /\ pc' = "failed"
  /\ UNCHANGED <<rowVars, batch, current, policy, history>>

\* The message was taken but send() raises: the answer was lost.
LoseReply ==
  /\ pc = "accepted"
  /\ lostReplies < MaxLostReplies
  /\ lostReplies' = lostReplies + 1
  /\ pc' = "failed"
  /\ excuses' = [excuses EXCEPT ![current] = @ + 1]
  /\ UNCHANGED <<rowVars, batch, current, policy, restarts, delivered>>

\* send() returned: mark_sent.
MarkSent ==
  /\ pc = "accepted"
  /\ SetSent(current)
  /\ pc' = "drain"
  /\ current' = NoKey
  /\ UNCHANGED <<attempts, wait, birth, batch, policy, history>>

\* Mutation: the fallback is queued at the first failure only.
MarkFailedFallbackOnce ==
  /\ pc = "failed"
  /\ SetFailed(current)
  /\ IF IsMail(current) \/ attempts[current] > 0
     THEN pc' = "drain" /\ current' = NoKey
     ELSE pc' = "fallback" /\ UNCHANGED current
  /\ UNCHANGED <<status, birth, batch, policy, history>>

\* send() raised: mark_failed, and for a QQ notice the mail fallback next.
MarkFailed ==
  /\ pc = "failed"
  /\ SetFailed(current)
  /\ IF IsMail(current)
     THEN pc' = "drain" /\ current' = NoKey
     ELSE pc' = "fallback" /\ UNCHANGED current
  /\ UNCHANGED <<status, birth, batch, policy, history>>

\* _enqueue_email_fallback, a transaction of its own.
EnqueueFallback ==
  /\ pc = "fallback"
  /\ IF policy = "all" THEN Enqueue(Fallback(current), 0) ELSE UNCHANGED rowVars
  /\ pc' = "drain"
  /\ current' = NoKey
  /\ UNCHANGED <<batch, policy, history>>

\* Mutation: the row in hand is not let go.
StopWorkerHolding ==
  /\ restarts < MaxRestarts
  /\ restarts' = restarts + 1
  /\ pc' = "idle"
  /\ batch' = {}
  /\ UNCHANGED <<rowVars, current, lostReplies, delivered, excuses>>

\* The worker's loop starts anew: the rows stay, the snapshot and an answer on
\* the way are gone.
StopWorker ==
  /\ restarts < MaxRestarts
  /\ restarts' = restarts + 1
  /\ pc' = "idle"
  /\ batch' = {}
  /\ current' = NoKey
  /\ excuses' = IF pc = "accepted" THEN [excuses EXCEPT ![current] = @ + 1] ELSE excuses
  /\ UNCHANGED <<rowVars, lostReplies, delivered>>

\* An sqlite error leaves the loop and supervise() starts it again.
AbortDrain == pc # "idle" /\ StopWorker /\ UNCHANGED policy

\* The process is killed and started with the configuration it then finds.
Restart == StopWorker /\ policy' \in Policies

\* One unit of time passes.
Tick ==
  /\ \E k \in AllKeys : wait[k] > 0
  /\ wait' = [k \in AllKeys |-> IF wait[k] > 0 THEN wait[k] - 1 ELSE 0]
  /\ UNCHANGED <<status, attempts, birth, workerVars, policy, history>>

-----------------------------------------------------------------------------
OutboxInit ==
  /\ status   = [k \in AllKeys |-> "absent"]
  /\ attempts = [k \in AllKeys |-> 0]
  /\ wait     = [k \in AllKeys |-> 0]
  /\ birth    = [k \in AllKeys |-> 0]
  /\ policy   \in Policies
  /\ pc = "idle" /\ batch = {} /\ current = NoKey
  /\ restarts = 0
  /\ lostReplies = 0
  /\ delivered = [k \in AllKeys |-> 0]
  /\ excuses   = [k \in AllKeys |-> 0]

WorkerStep ==
  \/ Poll
  \/ \E k \in AllKeys : TakeNext(k)
  \/ EndDrain
  \/ \E k \in AllKeys : Accept(k)
  \/ Refuse
  \/ LoseReply
  \/ MarkSent
  \/ MarkFailed
  \/ EnqueueFallback

OutboxNext ==
  \/ \E k \in Keys, hold \in Holds : PublishStep(k, hold)
  \/ \E k \in CriticalKeys : WithdrawStep(k)
  \/ WorkerStep
  \/ AbortDrain
  \/ Restart
  \/ Tick

OutboxSpec == OutboxInit /\ [][OutboxNext]_outboxVars

-----------------------------------------------------------------------------
OutboxTypeOK ==
  /\ status \in [AllKeys -> {"absent", "pending", "sent", "suppressed"}]
  /\ attempts \in [AllKeys -> 0 .. MaxExponent + 1]
  /\ wait \in [AllKeys -> Nat]
  /\ birth \in [AllKeys -> Nat]
  /\ policy \in {"all", "critical_only", "disabled"}
  /\ pc \in {"idle", "drain", "sending", "accepted", "failed", "fallback"}
  /\ batch \subseteq AllKeys
  /\ IF pc \in {"idle", "drain"} THEN current = NoKey ELSE current \in AllKeys
  /\ pc = "fallback" => current \in QQKeys
  /\ restarts \in Nat
  /\ lostReplies \in Nat
  /\ delivered \in [AllKeys -> Nat]
  /\ excuses \in [AllKeys -> Nat]

-----------------------------------------------------------------------------
(* Safety. *)

\* A notice goes out a second time only when the success of an earlier copy
\* could not be recorded: its answer was lost, or the worker was stopped
\* between send() and mark_sent().  mail_worker.py orders the two so.
DuplicatesAreExcused ==
  \A k \in AllKeys : delivered[k] <= excuses[k] + 1

\* The books the proof needs: every accepted copy is either unrecorded, or
\* recorded by the status, or about to be; and what the worker holds, in its
\* snapshot or in its hand, is a stored row not sent yet and is held once.
OutboxInv ==
  /\ \A k \in AllKeys :
       delivered[k] = excuses[k]
         + (IF status[k] = "sent" \/ (pc = "accepted" /\ current = k) THEN 1 ELSE 0)
  /\ \A k \in AllKeys : status[k] = "absent" => excuses[k] = 0
  /\ \A k \in batch : status[k] \in {"pending", "suppressed"}
  /\ current # NoKey =>
       current \notin batch /\ status[current] \in {"pending", "suppressed"}

\* What the worker is about to send was due, and it is not put off while it
\* waits in the snapshot: backoff is set by this worker alone.
SnapshotWasDue == \A k \in batch : wait[k] = 0

\* The owner is told by mail that QQ failed only for a notice QQ did fail,
\* and the failed notice stays queued or is sent: the fallback never replaces
\* it (mail_worker.py marks the failure before it queues the fallback).
FallbackFollowsFailure ==
  \A k \in QQKeys :
    Present(Fallback(k)) => attempts[k] >= 1 /\ status[k] \in {"pending", "sent"}

\* The outbox and what the worker holds of it fit together.
OutboxBooks == OutboxTypeOK /\ OutboxInv /\ SnapshotWasDue /\ FallbackFollowsFailure

\* What the outbox promises: see DeliveryPromise.
Promise == INSTANCE DeliveryPromise WITH Notices <- AllKeys
KeepsPromise == Promise!Spec

=============================================================================
