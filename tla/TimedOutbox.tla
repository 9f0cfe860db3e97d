---------------------------- MODULE TimedOutbox ----------------------------
(***************************************************************************)
(* The outbox with the time its worker takes from one reading of the table *)
(* to the next.  When every row of a full batch fails, younger rows are    *)
(* read only if the worker comes back before the failed ones are due       *)
(* again.  With the defaults a batch of a hundred sends that each time out *)
(* after thirty seconds comes back within the hour that is the longest     *)
(* backoff.                                                                *)
(***************************************************************************)
EXTENDS Outbox

VARIABLE elapsed  \* time since the worker last read the table, up to RetryMax

timedVars == <<outboxVars, elapsed>>

Reads == pc = "idle" /\ pc' = "drain"

NothingToRead == pc = "idle" /\ Due = {}

Timer ==
  elapsed' = IF Reads \/ NothingToRead' THEN 0
             ELSE IF Tick /\ elapsed < RetryMax THEN elapsed + 1
             ELSE elapsed

TimedInit == OutboxInit /\ elapsed = 0

TimedNext == OutboxNext /\ Timer

TimedSpec == TimedInit /\ [][TimedNext]_timedVars

\* supervise() keeps the loop running and time passes; a send ends one way or the
\* other because both transports have time limits.  Of the transports only mail
\* is assumed to work again and again; QQ may be down for ever.
Fairness ==
  /\ WF_outboxVars(WorkerStep)
  /\ WF_outboxVars(Tick)
  /\ \A k \in AllKeys \ QQKeys : SF_outboxVars(Accept(k))

TimedFairSpec == TimedSpec /\ Fairness

-----------------------------------------------------------------------------
\* A batch that took as long as the longest backoff.
Slow == elapsed = RetryMax

\* Queued mail is in the end sent, or withdrawn, through restarts, lost
\* answers and failing sends, though rows that fail for ever are older and fill
\* the batch: failures are retried, and put off for longer than a batch takes.
\* Excused is only a worker that keeps being slower than that.
EveryMailSettles ==
  \A k \in AllKeys \ QQKeys :
    status[k] = "pending" ~> status[k] \in {"sent", "suppressed"} \/ Slow

\* While the policy stays "all" the owner learns of every QQ notice, by QQ or by
\* the mail fallback, even if QQ never works again.  A stricter policy, after a
\* restart, may suppress the fallback, and a suppressed row is never queued anew.
QQNoticeReachesOwner ==
  \A k \in QQKeys :
    status[k] = "pending" /\ policy = "all" ~>
      \/ delivered[k] > 0 \/ delivered[Fallback(k)] > 0
      \/ policy # "all" \/ status[Fallback(k)] = "suppressed"
      \/ Slow

=============================================================================
