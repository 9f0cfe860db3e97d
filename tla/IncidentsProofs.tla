--------------------------- MODULE IncidentsProofs ---------------------------
(***************************************************************************)
(* Proofs about Incidents and the Outbox it publishes to.                  *)
(*                                                                         *)
(* The first part is about Outbox alone, for every set of keys, policy,    *)
(* hold, batch limit and fault bound: its type invariant, the books that   *)
(* tie the copies delivered to what the rows record, and that it           *)
(* implements DeliveryPromise.                                             *)
(*                                                                         *)
(* The second part is about the incident service, for every number of      *)
(* probes, webhook handlers and reconcilers, every threshold, delay and    *)
(* policy, and every bound on samples, time, aborted calls and restarts.   *)
(***************************************************************************)
EXTENDS Incidents, TLAPS, FiniteSetTheorems

\* There are finitely many keys, so ranks in the queue are numbers.
LEMMA AllKeysFinite == IsFiniteSet(AllKeys)
<1> DEFINE F == {Fallback(k) : k \in QQKeys}
           f == [k \in QQKeys |-> Fallback(k)]
<1>1. IsFiniteSet(QQKeys)
  BY KeysAssumption, FS_Subset
<1>2. f \in Surjection(QQKeys, F)
  BY DEF Surjection
<1>3. IsFiniteSet(F)
  BY <1>1, <1>2, FS_Surjection
<1> QED
  BY <1>3, KeysAssumption, FS_Union DEF AllKeys

\* The kinds of keys, and that a fallback is mail.
LEMMA KeyFacts ==
  /\ Keys \subseteq AllKeys
  /\ NoKey \notin AllKeys
  /\ QQKeys \subseteq AllKeys
  /\ CriticalKeys \subseteq AllKeys
  /\ \A k \in QQKeys : Fallback(k) \in AllKeys /\ Fallback(k) \notin QQKeys
BY KeysAssumption DEF AllKeys

\* Queueing adds at most one row and disturbs no other.
LEMMA EnqueueType ==
  ASSUME OutboxTypeOK, NEW k \in AllKeys, NEW hold \in Nat, Enqueue(k, hold)
  PROVE  /\ status' \in [AllKeys -> {"absent", "pending", "sent", "suppressed"}]
         /\ attempts' \in [AllKeys -> 0 .. MaxExponent + 1]
         /\ wait' \in [AllKeys -> Nat]
         /\ birth' \in [AllKeys -> Nat]
<1>1. {j \in AllKeys : Present(j)} \in SUBSET AllKeys
  OBVIOUS
<1>2. Cardinality({j \in AllKeys : Present(j)}) \in Nat
  BY <1>1, AllKeysFinite, FS_Subset, FS_CardinalityType
<1>3. 0 \in 0 .. MaxExponent + 1
  BY BoundsAssumption
<1> QED
  BY <1>2, <1>3 DEF Enqueue, OutboxTypeOK, rowVars

\* INSERT OR IGNORE at most turns an absent row into a pending one.
LEMMA EnqueueStatus ==
  ASSUME OutboxTypeOK, NEW k \in AllKeys, NEW hold, Enqueue(k, hold)
  PROVE  \A j \in AllKeys :
           status'[j] = status[j] \/ (status[j] = "absent" /\ status'[j] = "pending")
BY DEF Enqueue, Present, OutboxTypeOK, rowVars

\* Publishing keeps the types of the rows.
LEMMA PublishType ==
  ASSUME OutboxTypeOK, NEW k \in AllKeys, NEW hold \in Nat, Publish(k, hold)
  PROVE  /\ status' \in [AllKeys -> {"absent", "pending", "sent", "suppressed"}]
         /\ attempts' \in [AllKeys -> 0 .. MaxExponent + 1]
         /\ wait' \in [AllKeys -> Nat]
         /\ birth' \in [AllKeys -> Nat]
         /\ \A j \in AllKeys :
              status'[j] = status[j] \/ (status[j] = "absent" /\ status'[j] = "pending")
<1>1. CASE IsMail(k) /\ ~EmailAllowed(k)
  BY <1>1 DEF Publish, OutboxTypeOK, rowVars
<1>2. CASE ~(IsMail(k) /\ ~EmailAllowed(k))
  BY <1>2, EnqueueType, EnqueueStatus DEF Publish
<1> QED
  BY <1>1, <1>2

-----------------------------------------------------------------------------
\* Every step keeps the types.
LEMMA OutboxTypeStep == OutboxTypeOK /\ [OutboxNext]_outboxVars => OutboxTypeOK'
<1> SUFFICES ASSUME OutboxTypeOK, [OutboxNext]_outboxVars
             PROVE  OutboxTypeOK'
  OBVIOUS
<1> USE KeyFacts, BoundsAssumption
<1>1. ASSUME NEW k \in Keys, NEW hold \in Holds, PublishStep(k, hold)
      PROVE  OutboxTypeOK'
  <2>1. hold \in Nat /\ k \in AllKeys
    OBVIOUS
  <2> QED
    BY <1>1, <2>1, PublishType DEF PublishStep, OutboxTypeOK, workerVars, history
<1>2. ASSUME NEW k \in CriticalKeys, WithdrawStep(k)
      PROVE  OutboxTypeOK'
  BY <1>2 DEF WithdrawStep, SetSuppressed, OutboxTypeOK, workerVars, history
<1>3. CASE Poll
  BY <1>3 DEF Poll, Pending, Due, OutboxTypeOK, rowVars, history
<1>4. ASSUME NEW k \in AllKeys, TakeNext(k)
      PROVE  OutboxTypeOK'
  BY <1>4 DEF TakeNext, SetSuppressed, OutboxTypeOK, history
<1>5. CASE EndDrain
  BY <1>5 DEF EndDrain, OutboxTypeOK, rowVars, history
<1>6. ASSUME NEW k \in AllKeys, Accept(k)
      PROVE  OutboxTypeOK'
  BY <1>6 DEF Accept, OutboxTypeOK, rowVars
<1>7. CASE Refuse
  BY <1>7 DEF Refuse, OutboxTypeOK, rowVars, history
<1>8. CASE LoseReply
  BY <1>8 DEF LoseReply, OutboxTypeOK, rowVars
<1>9. CASE MarkSent
  BY <1>9 DEF MarkSent, SetSent, OutboxTypeOK, history
<1>10. CASE MarkFailed
  <2> DEFINE n == attempts[current] + 1
             counted == IF n <= MaxExponent + 1 THEN n ELSE MaxExponent + 1
  <2>1. current \in AllKeys
    BY <1>10 DEF MarkFailed, OutboxTypeOK
  <2>2. counted \in 1 .. MaxExponent + 1 /\ counted \in 0 .. MaxExponent + 1
    BY <2>1 DEF OutboxTypeOK
  <2>3. RetryDelay(counted) \in Nat
    BY <2>2, RetryAssumption
  <2>4. /\ attempts' = [attempts EXCEPT ![current] = counted]
        /\ wait' = [wait EXCEPT ![current] = RetryDelay(counted)]
    BY <1>10 DEF MarkFailed, SetFailed
  <2> HIDE DEF counted
  <2>5. /\ attempts' \in [AllKeys -> 0 .. MaxExponent + 1]
        /\ wait' \in [AllKeys -> Nat]
    BY <2>2, <2>3, <2>4 DEF OutboxTypeOK
  <2> QED
    BY <1>10, <2>1, <2>5 DEF MarkFailed, IsMail, OutboxTypeOK, history
<1>11. CASE EnqueueFallback
  <2>1. current \in QQKeys
    BY <1>11 DEF EnqueueFallback, OutboxTypeOK
  <2>2. 0 \in Nat /\ Fallback(current) \in AllKeys
    BY <2>1
  <2>3. /\ status' \in [AllKeys -> {"absent", "pending", "sent", "suppressed"}]
        /\ attempts' \in [AllKeys -> 0 .. MaxExponent + 1]
        /\ wait' \in [AllKeys -> Nat]
        /\ birth' \in [AllKeys -> Nat]
    <3>1. CASE policy = "all"
      BY <1>11, <2>2, <3>1, EnqueueType DEF EnqueueFallback
    <3>2. CASE policy # "all"
      BY <1>11, <3>2 DEF EnqueueFallback, OutboxTypeOK, rowVars
    <3> QED
      BY <3>1, <3>2
  <2> QED
    BY <1>11, <2>3 DEF EnqueueFallback, OutboxTypeOK, history
<1>12. CASE AbortDrain \/ Restart
  <2>1. policy' \in {"all", "critical_only", "disabled"}
    BY <1>12, PolicyAssumption DEF AbortDrain, Restart, OutboxTypeOK
  <2>2. excuses' \in [AllKeys -> Nat]
    BY <1>12 DEF AbortDrain, Restart, StopWorker, OutboxTypeOK
  <2> QED
    BY <1>12, <2>1, <2>2 DEF AbortDrain, Restart, StopWorker, OutboxTypeOK, rowVars
<1>13. CASE Tick
  BY <1>13 DEF Tick, OutboxTypeOK, workerVars, history
<1>14. CASE UNCHANGED outboxVars
  BY <1>14 DEF OutboxTypeOK, outboxVars, rowVars, workerVars, history
<1> QED
  BY <1>1, <1>2, <1>3, <1>4, <1>5, <1>6, <1>7, <1>8, <1>9, <1>10, <1>11,
     <1>12, <1>13, <1>14 DEF OutboxNext, WorkerStep

\* Every variable of the outbox keeps its type: in particular a row that was
\* written never disappears into an undefined status, and the worker holds a
\* row exactly between taking it and recording what became of it.
THEOREM OutboxTypeCorrect == OutboxSpec => []OutboxTypeOK
<1>1. OutboxInit => OutboxTypeOK
  BY BoundsAssumption, PolicyAssumption, KeyFacts DEF OutboxInit, OutboxTypeOK
<1> QED
  BY <1>1, OutboxTypeStep, PTL DEF OutboxSpec

-----------------------------------------------------------------------------
\* What an insertion leaves of the books: no status but "absent" changes, so
\* nothing counts as sent that did not before.
LEMMA BooksKeptByInsert ==
  ASSUME OutboxTypeOK, OutboxInv,
         \A j \in AllKeys :
           status'[j] = status[j] \/ (status[j] = "absent" /\ status'[j] = "pending"),
         UNCHANGED <<delivered, excuses, batch>>,
         \/ UNCHANGED <<pc, current>>
         \/ pc = "fallback" /\ pc' = "drain" /\ current' = NoKey
  PROVE  OutboxInv'
<1>1. \A k \in AllKeys : status'[k] = "sent" <=> status[k] = "sent"
  BY DEF OutboxTypeOK
<1>2. \A k \in AllKeys : (pc' = "accepted" /\ current' = k) <=> (pc = "accepted" /\ current = k)
  BY DEF OutboxTypeOK
<1>3. \A k \in AllKeys :
        delivered'[k] = excuses'[k]
          + (IF status'[k] = "sent" \/ (pc' = "accepted" /\ current' = k) THEN 1 ELSE 0)
  BY <1>1, <1>2 DEF OutboxInv
<1>4. \A k \in batch' : status'[k] \in {"pending", "suppressed"}
  BY DEF OutboxInv, OutboxTypeOK
<1>5. current' # NoKey =>
        current' \notin batch' /\ status'[current'] \in {"pending", "suppressed"}
  BY DEF OutboxInv, OutboxTypeOK
<1>6. \A k \in AllKeys : status'[k] = "absent" => excuses'[k] = 0
  BY DEF OutboxInv
<1> QED
  BY <1>3, <1>4, <1>5, <1>6 DEF OutboxInv

\* Every step keeps the books of deliveries and of what the worker holds.
LEMMA OutboxInvStep == OutboxTypeOK /\ OutboxInv /\ [OutboxNext]_outboxVars => OutboxInv'
<1> SUFFICES ASSUME OutboxTypeOK, OutboxInv, [OutboxNext]_outboxVars
             PROVE  OutboxInv'
  OBVIOUS
<1> USE KeyFacts
<1>1. ASSUME NEW k \in Keys, NEW hold \in Holds, PublishStep(k, hold)
      PROVE  OutboxInv'
  <2>1. hold \in Nat /\ k \in AllKeys
    BY BoundsAssumption
  <2> QED
    BY <1>1, <2>1, PublishType, BooksKeptByInsert DEF PublishStep, workerVars, history
<1>2. ASSUME NEW k \in CriticalKeys, WithdrawStep(k)
      PROVE  OutboxInv'
  BY <1>2 DEF WithdrawStep, SetSuppressed, OutboxTypeOK, OutboxInv, workerVars, history
<1>3. CASE Poll
  BY <1>3 DEF Poll, Pending, Due, OutboxTypeOK, OutboxInv, rowVars, history
<1>4. ASSUME NEW k \in AllKeys, TakeNext(k)
      PROVE  OutboxInv'
  <2>1. current = NoKey /\ pc = "drain"
    BY <1>4 DEF TakeNext, OutboxTypeOK
  <2>2. status[k] \in {"pending", "suppressed"}
    BY <1>4 DEF TakeNext, OutboxInv
  <2>3. CASE IsMail(k) /\ ~EmailAllowed(k)
    BY <1>4, <2>1, <2>2, <2>3 DEF TakeNext, SetSuppressed, OutboxTypeOK, OutboxInv, history
  <2>4. CASE ~(IsMail(k) /\ ~EmailAllowed(k))
    BY <1>4, <2>1, <2>2, <2>4 DEF TakeNext, OutboxTypeOK, OutboxInv, history
  <2> QED
    BY <2>3, <2>4
<1>5. CASE EndDrain
  BY <1>5 DEF EndDrain, OutboxTypeOK, OutboxInv, rowVars, history
<1>6. ASSUME NEW k \in AllKeys, Accept(k)
      PROVE  OutboxInv'
  <2>1. current = k /\ status[k] \in {"pending", "suppressed"}
    BY <1>6 DEF Accept, OutboxInv
  <2> QED
    BY <1>6, <2>1 DEF Accept, OutboxTypeOK, OutboxInv, rowVars
<1>7. CASE Refuse
  BY <1>7 DEF Refuse, OutboxTypeOK, OutboxInv, rowVars, history
<1>8. CASE LoseReply
  <2>1. current \in AllKeys /\ current # NoKey
    BY <1>8 DEF LoseReply, OutboxTypeOK
  <2> QED
    BY <1>8, <2>1 DEF LoseReply, OutboxTypeOK, OutboxInv, rowVars
<1>9. CASE MarkSent
  <2>1. current \in AllKeys /\ current # NoKey
    BY <1>9 DEF MarkSent, OutboxTypeOK
  <2> QED
    BY <1>9, <2>1 DEF MarkSent, SetSent, OutboxTypeOK, OutboxInv, history
<1>10. CASE MarkFailed
  BY <1>10 DEF MarkFailed, OutboxTypeOK, OutboxInv, history
<1>11. CASE EnqueueFallback
  <2>1. Fallback(current) \in AllKeys
    BY <1>11 DEF EnqueueFallback, OutboxTypeOK
  <2>2. \A j \in AllKeys :
          status'[j] = status[j] \/ (status[j] = "absent" /\ status'[j] = "pending")
    BY <1>11, <2>1, EnqueueStatus DEF EnqueueFallback, rowVars
  <2> QED
    BY <1>11, <2>2, BooksKeptByInsert DEF EnqueueFallback, history
<1>12. CASE AbortDrain \/ Restart
  <2>1. CASE pc = "accepted"
    <3>1. current \in AllKeys /\ status[current] # "sent"
      BY <2>1 DEF OutboxTypeOK, OutboxInv
    <3> QED
      BY <1>12, <2>1, <3>1 DEF AbortDrain, Restart, StopWorker, OutboxTypeOK, OutboxInv, rowVars
  <2>2. CASE pc # "accepted"
    BY <1>12, <2>2 DEF AbortDrain, Restart, StopWorker, OutboxTypeOK, OutboxInv, rowVars
  <2> QED
    BY <2>1, <2>2
<1>13. CASE Tick
  BY <1>13 DEF Tick, OutboxInv, workerVars, history
<1>14. CASE UNCHANGED outboxVars
  BY <1>14 DEF OutboxInv, outboxVars, rowVars, workerVars, history
<1> QED
  BY <1>1, <1>2, <1>3, <1>4, <1>5, <1>6, <1>7, <1>8, <1>9, <1>10, <1>11,
     <1>12, <1>13, <1>14 DEF OutboxNext, WorkerStep

\* The worker's books hold at every step, whatever interleaves with it.
THEOREM OutboxInvariant == OutboxSpec => []OutboxInv
<1>1. OutboxInit => OutboxInv
  BY KeyFacts DEF OutboxInit, OutboxInv
<1> QED
  BY <1>1, OutboxInvStep, OutboxTypeCorrect, PTL DEF OutboxSpec

\* A notice is delivered again only after a copy whose success was not
\* recorded: for any number of notices, restarts and lost answers.
THEOREM NoUnexcusedDuplicate == OutboxSpec => []DuplicatesAreExcused
<1>1. OutboxTypeOK /\ OutboxInv => DuplicatesAreExcused
  BY DEF OutboxTypeOK, OutboxInv, DuplicatesAreExcused
<1> QED
  BY <1>1, OutboxTypeCorrect, OutboxInvariant, PTL

-----------------------------------------------------------------------------
\* What makes the backoff of the snapshot and the fallback inductive: a QQ
\* notice is never withdrawn, and a fallback is queued after a failure only.
FallbackInv ==
  /\ SnapshotWasDue
  /\ FallbackFollowsFailure
  /\ \A k \in QQKeys : status[k] # "suppressed"
  /\ pc = "fallback" => attempts[current] >= 1

\* Different notices have different fallbacks.
LEMMA FallbackIsInjective == \A j, k \in QQKeys : Fallback(j) = Fallback(k) => j = k
BY DEF Fallback

\* An insertion leaves every row that is there as it is.
LEMMA EnqueueKeepsRows ==
  ASSUME OutboxTypeOK, NEW k \in AllKeys, NEW hold \in Nat, Enqueue(k, hold)
  PROVE  \A j \in AllKeys :
           /\ Present(j) => status'[j] = status[j] /\ attempts'[j] = attempts[j] /\ wait'[j] = wait[j]
           /\ Present(j)' => Present(j) \/ (j = k /\ status'[j] = "pending")
BY DEF Enqueue, Present, OutboxTypeOK, rowVars

\* Every step keeps it.
LEMMA FallbackStep ==
  OutboxTypeOK /\ OutboxInv /\ FallbackInv /\ [OutboxNext]_outboxVars => FallbackInv'
<1> SUFFICES ASSUME OutboxTypeOK, OutboxInv, FallbackInv, [OutboxNext]_outboxVars
             PROVE  FallbackInv'
  OBVIOUS
<1> USE KeyFacts
<1>1. ASSUME NEW k \in Keys, NEW hold \in Holds, PublishStep(k, hold)
      PROVE  FallbackInv'
  <2>1. hold \in Nat /\ k \in AllKeys /\ \A j \in QQKeys : Fallback(j) # k
    BY BoundsAssumption, KeysAssumption
  <2>2. CASE IsMail(k) /\ ~EmailAllowed(k)
    BY <1>1, <2>2 DEF PublishStep, Publish, FallbackInv, SnapshotWasDue, FallbackFollowsFailure,
                      Present, rowVars, workerVars
  <2>3. CASE Enqueue(k, hold)
    <3>1. \A j \in AllKeys :
            /\ Present(j) => status'[j] = status[j] /\ attempts'[j] = attempts[j] /\ wait'[j] = wait[j]
            /\ Present(j)' => Present(j) \/ (j = k /\ status'[j] = "pending")
      BY <2>1, <2>3, EnqueueKeepsRows
    <3>2. UNCHANGED <<pc, batch, current>>
      BY <1>1 DEF PublishStep, workerVars
    <3>3. SnapshotWasDue'
      BY <3>1, <3>2 DEF FallbackInv, SnapshotWasDue, OutboxInv, OutboxTypeOK, Present
    <3>4. FallbackFollowsFailure'
      BY <2>1, <3>1 DEF FallbackInv, FallbackFollowsFailure, Present
    <3>5. \A j \in QQKeys : status'[j] # "suppressed"
      BY <3>1 DEF FallbackInv, Present
    <3>6. pc' = "fallback" => attempts'[current'] >= 1
      BY <3>1, <3>2 DEF FallbackInv, OutboxInv, OutboxTypeOK, Present
    <3> QED
      BY <3>3, <3>4, <3>5, <3>6 DEF FallbackInv
  <2> QED
    BY <1>1, <2>2, <2>3 DEF PublishStep, Publish
<1>2. ASSUME NEW k \in AllKeys \ QQKeys, SetSuppressed(k),
             UNCHANGED <<attempts, wait>>, batch' \subseteq batch,
             pc' = "fallback" => UNCHANGED <<pc, current>>
      PROVE  FallbackInv'
  <2>1. \A j \in QQKeys : status'[j] = status[j]
    BY <1>2 DEF SetSuppressed, OutboxTypeOK
  <2>2. \A j \in AllKeys : Present(j)' <=> Present(j)
    BY <1>2 DEF SetSuppressed, Present, OutboxTypeOK
  <2> QED
    BY <1>2, <2>1, <2>2 DEF FallbackInv, SnapshotWasDue, FallbackFollowsFailure
<1>3. ASSUME NEW k \in CriticalKeys, WithdrawStep(k)
      PROVE  FallbackInv'
  <2>1. k \in AllKeys \ QQKeys
    BY KeysAssumption
  <2> QED
    BY <1>2, <1>3, <2>1 DEF WithdrawStep, workerVars
<1>4. CASE Poll
  BY <1>4 DEF Poll, Pending, Due, FallbackInv, SnapshotWasDue, FallbackFollowsFailure, Present,
              rowVars
<1>5. ASSUME NEW k \in AllKeys, TakeNext(k)
      PROVE  FallbackInv'
  <2>1. CASE IsMail(k) /\ ~EmailAllowed(k)
    BY <1>2, <1>5, <2>1 DEF TakeNext, IsMail
  <2>2. CASE ~(IsMail(k) /\ ~EmailAllowed(k))
    BY <1>5, <2>2 DEF TakeNext, FallbackInv, SnapshotWasDue, FallbackFollowsFailure, Present
  <2> QED
    BY <2>1, <2>2
<1>6. CASE UNCHANGED rowVars /\ batch' \subseteq batch /\ pc' # "fallback"
  BY <1>6 DEF rowVars, FallbackInv, SnapshotWasDue, FallbackFollowsFailure, Present
<1>7. CASE MarkSent
  <2>1. current \in AllKeys
    BY <1>7 DEF MarkSent, OutboxTypeOK
  <2>2. status[current] # "absent"
    BY <1>7, <2>1 DEF OutboxInv
  <2>3. /\ status' = [status EXCEPT ![current] = "sent"]
        /\ UNCHANGED <<attempts, wait, batch>> /\ pc' = "drain"
    BY <1>7 DEF MarkSent, SetSent
  <2> QED
    BY <2>1, <2>2, <2>3
    DEF FallbackInv, SnapshotWasDue, FallbackFollowsFailure, Present, OutboxTypeOK
<1>8. CASE MarkFailed
  <2> DEFINE n == attempts[current] + 1
             counted == IF n <= MaxExponent + 1 THEN n ELSE MaxExponent + 1
  <2>1. current \in AllKeys /\ current \notin batch
    BY <1>8 DEF MarkFailed, OutboxTypeOK, OutboxInv
  <2>2. counted \in 1 .. MaxExponent + 1
    BY <2>1, BoundsAssumption DEF OutboxTypeOK
  <2>3. /\ attempts' = [attempts EXCEPT ![current] = counted]
        /\ wait' = [wait EXCEPT ![current] = RetryDelay(counted)]
        /\ UNCHANGED <<status, batch>>
        /\ pc' = "fallback" => current' = current
    BY <1>8 DEF MarkFailed, SetFailed
  <2> HIDE DEF counted
  <2>4. \A j \in AllKeys : attempts'[j] >= attempts[j] \/ attempts'[j] >= 1
    BY <2>1, <2>2, <2>3 DEF OutboxTypeOK
  <2>5. attempts'[current] >= 1
    BY <2>1, <2>2, <2>3 DEF OutboxTypeOK
  <2>6. \A j \in batch : wait'[j] = wait[j]
    BY <2>1, <2>3 DEF OutboxTypeOK
  <2>7. \A j \in AllKeys : attempts[j] \in Int /\ attempts'[j] \in Int
    BY <2>1, <2>2, <2>3, BoundsAssumption DEF OutboxTypeOK
  <2>8. FallbackFollowsFailure'
    BY <2>3, <2>4, <2>7 DEF FallbackInv, FallbackFollowsFailure, Present
  <2>9. SnapshotWasDue'
    BY <2>3, <2>6 DEF FallbackInv, SnapshotWasDue
  <2> QED
    BY <2>3, <2>5, <2>8, <2>9 DEF FallbackInv
<1>9. CASE EnqueueFallback
  <2>1. current \in QQKeys /\ current \in AllKeys
    BY <1>9 DEF EnqueueFallback, OutboxTypeOK
  <2>2. /\ Fallback(current) \in AllKeys \ QQKeys /\ 0 \in Nat
        /\ attempts[current] >= 1 /\ status[current] = "pending"
    BY <1>9, <2>1 DEF EnqueueFallback, FallbackInv, OutboxInv, OutboxTypeOK
  <2>3. CASE policy = "all"
    <3>1. \A j \in AllKeys :
            /\ Present(j) => status'[j] = status[j] /\ attempts'[j] = attempts[j] /\ wait'[j] = wait[j]
            /\ Present(j)' => Present(j) \/ (j = Fallback(current) /\ status'[j] = "pending")
      BY <1>9, <2>2, <2>3, EnqueueKeepsRows DEF EnqueueFallback
    <3>2. batch' = batch /\ pc' = "drain"
      BY <1>9 DEF EnqueueFallback
    <3>3. SnapshotWasDue'
      BY <3>1, <3>2 DEF FallbackInv, SnapshotWasDue, OutboxInv, OutboxTypeOK, Present
    <3>4. ASSUME NEW j \in QQKeys, Present(Fallback(j))'
          PROVE  attempts'[j] >= 1 /\ status'[j] \in {"pending", "sent"}
      <4>1. CASE Present(Fallback(j))
        BY <3>1, <4>1 DEF FallbackInv, FallbackFollowsFailure, Present
      <4>2. CASE ~Present(Fallback(j))
        <5>1. Fallback(j) = Fallback(current)
          BY <3>1, <3>4, <4>2
        <5>2. j = current
          BY <2>1, <5>1, FallbackIsInjective
        <5> QED
          BY <2>1, <2>2, <3>1, <5>2 DEF Present
      <4> QED
        BY <4>1, <4>2
    <3>5. \A j \in QQKeys : status'[j] # "suppressed"
      BY <3>1 DEF FallbackInv, Present
    <3> QED
      BY <3>2, <3>3, <3>4, <3>5 DEF FallbackInv, FallbackFollowsFailure
  <2>4. CASE policy # "all"
    BY <1>6, <1>9, <2>4 DEF EnqueueFallback
  <2> QED
    BY <2>3, <2>4
<1>10. CASE Tick
  BY <1>10 DEF Tick, FallbackInv, SnapshotWasDue, FallbackFollowsFailure, Present, OutboxTypeOK,
               workerVars
<1>11. ASSUME NEW k \in AllKeys, Accept(k)
       PROVE  FallbackInv'
  BY <1>6, <1>11 DEF Accept
<1>12. CASE EndDrain \/ Refuse \/ LoseReply \/ AbortDrain \/ Restart
  BY <1>6, <1>12 DEF EndDrain, Refuse, LoseReply, AbortDrain, Restart, StopWorker
<1>13. CASE UNCHANGED outboxVars
  BY <1>13 DEF outboxVars, rowVars, workerVars, FallbackInv, SnapshotWasDue,
               FallbackFollowsFailure, Present
<1> QED
  BY <1>1, <1>3, <1>4, <1>5, <1>7, <1>8, <1>9, <1>10, <1>11, <1>12, <1>13
  DEF OutboxNext, WorkerStep

\* What the worker holds fits the table: types, books, a snapshot of rows that
\* are due, and a fallback only for a notice that failed and is still queued or
\* sent since, for any keys, policies, delays and faults.
THEOREM OutboxBooksKept == OutboxSpec => []OutboxBooks
<1>1. OutboxInit => FallbackInv
  BY KeyFacts DEF OutboxInit, FallbackInv, SnapshotWasDue, FallbackFollowsFailure, Present
<1>2. FallbackInv => SnapshotWasDue /\ FallbackFollowsFailure
  BY DEF FallbackInv
<1>3. OutboxSpec => []FallbackInv
  BY <1>1, FallbackStep, OutboxTypeCorrect, OutboxInvariant, PTL DEF OutboxSpec
<1> QED
  BY <1>2, <1>3, OutboxTypeCorrect, OutboxInvariant, PTL DEF OutboxBooks

-----------------------------------------------------------------------------
(* The outbox implements DeliveryPromise. *)

\* INSERT OR IGNORE queues a notice, as the promise has it, or does nothing.
LEMMA InsertQueues ==
  ASSUME OutboxTypeOK, NEW k \in AllKeys, NEW hold, Enqueue(k, hold), UNCHANGED delivered
  PROVE  [Promise!Next]_(Promise!vars)
<1>1. CASE Present(k)
  BY <1>1 DEF Enqueue, rowVars, Promise!vars
<1>2. CASE ~Present(k)
  BY <1>2 DEF Enqueue, Present, Promise!Next, Promise!Queue
<1> QED
  BY <1>1, <1>2

\* Every step of the outbox is a step of its promise, or a stutter.
LEMMA PromiseStep ==
  OutboxTypeOK /\ OutboxInv /\ [OutboxNext]_outboxVars => [Promise!Next]_(Promise!vars)
<1> SUFFICES ASSUME OutboxTypeOK, OutboxInv, [OutboxNext]_outboxVars
             PROVE  [Promise!Next]_(Promise!vars)
  OBVIOUS
<1> USE KeyFacts DEF Promise!vars
<1>1. ASSUME NEW k \in Keys, NEW hold \in Holds, PublishStep(k, hold)
      PROVE  [Promise!Next]_(Promise!vars)
  BY <1>1, InsertQueues DEF PublishStep, Publish, rowVars, history
<1>2. ASSUME NEW k \in AllKeys, SetSuppressed(k), UNCHANGED delivered
      PROVE  [Promise!Next]_(Promise!vars)
  <2>1. CASE status[k] = "pending"
    BY <1>2, <2>1 DEF SetSuppressed, OutboxTypeOK, Promise!Next, Promise!Withdraw
  <2>2. CASE status[k] # "pending"
    BY <1>2, <2>2 DEF SetSuppressed, OutboxTypeOK
  <2> QED
    BY <2>1, <2>2
<1>3. ASSUME NEW k \in AllKeys, TakeNext(k)
      PROVE  [Promise!Next]_(Promise!vars)
  BY <1>2, <1>3 DEF TakeNext, history
<1>4. ASSUME NEW k \in AllKeys, Accept(k)
      PROVE  [Promise!Next]_(Promise!vars)
  <2>1. status[k] \in {"pending", "suppressed"}
    BY <1>4 DEF Accept, OutboxInv
  <2> QED
    BY <1>4, <2>1 DEF Accept, rowVars, Promise!Next, Promise!Deliver
<1>5. CASE MarkSent
  <2>1. current \in AllKeys /\ pc = "accepted"
    BY <1>5 DEF MarkSent, OutboxTypeOK
  <2>2. status[current] \in {"pending", "suppressed"} /\ delivered[current] > 0
    BY <2>1 DEF OutboxInv, OutboxTypeOK
  <2>3. Promise!Settle(current)
    BY <1>5, <2>2 DEF MarkSent, SetSent, history, Promise!Settle
  <2> QED
    BY <2>1, <2>3 DEF Promise!Next
<1>6. CASE EnqueueFallback
  <2>1. Fallback(current) \in AllKeys
    BY <1>6 DEF EnqueueFallback, OutboxTypeOK
  <2> QED
    BY <1>6, <2>1, InsertQueues DEF EnqueueFallback, rowVars, history
<1>7. CASE Poll \/ EndDrain \/ Refuse \/ LoseReply \/ MarkFailed \/ AbortDrain \/ Restart \/ Tick
  BY <1>7 DEF Poll, EndDrain, Refuse, LoseReply, MarkFailed, AbortDrain, Restart, StopWorker,
               Tick, rowVars, history
<1>8. ASSUME NEW k \in CriticalKeys, WithdrawStep(k)
      PROVE  [Promise!Next]_(Promise!vars)
  BY <1>2, <1>8 DEF WithdrawStep, history
<1>9. CASE UNCHANGED outboxVars
  BY <1>9 DEF outboxVars, rowVars, history
<1> QED
  BY <1>1, <1>3, <1>4, <1>5, <1>6, <1>7, <1>8, <1>9 DEF OutboxNext, WorkerStep

\* The outbox and its worker keep the promise made to publishers: nothing
\* queued is forgotten, nothing counts as sent that was not delivered, and
\* what was sent is neither delivered nor withdrawn any more.
THEOREM OutboxKeepsPromise == OutboxSpec => KeepsPromise
<1>1. OutboxInit => Promise!Init
  BY DEF OutboxInit, Promise!Init
<1> QED
  BY <1>1, PromiseStep, OutboxTypeCorrect, OutboxInvariant, PTL
  DEF OutboxSpec, KeepsPromise, Promise!Spec

-----------------------------------------------------------------------------
(* The incident service. *)

\* The notices of different incidents, and the three kinds of notices, have
\* different dedup keys.
LEMMA IncidentKeyFacts ==
  /\ \A i \in Ids : OpenKey(i) \in AllKeys /\ OpenKey(i) \in Keys /\ IsMail(OpenKey(i))
  /\ \A i \in Ids : CloseKey(i) \in AllKeys /\ CloseKey(i) \in Keys /\ IsMail(CloseKey(i))
  /\ \A t \in Times : WarnKey(t) \in AllKeys /\ WarnKey(t) \in Keys
  /\ \A i, j \in Ids : OpenKey(i) # CloseKey(j)
  /\ \A i, j \in Ids : CloseKey(i) = CloseKey(j) => i = j
  /\ \A i \in Ids, t \in Times : WarnKey(t) # CloseKey(i)
<1>1. /\ \A i, j \in Ids : CloseKey(i) = CloseKey(j) => i = j
      /\ \A i \in Ids, t \in Times : WarnKey(t) # CloseKey(i)
  BY DEF CloseKey, WarnKey
<1>2. \A i, j \in Ids : OpenKey(i) # CloseKey(j)
  BY IncidentKeysAssumption
<1> QED
  BY <1>1, <1>2, IncidentKeysAssumption, KeysAssumption DEF AllKeys, IsMail

\* Publishing stores the notice unless the policy forbids it, and no other.
LEMMA PublishStores ==
  ASSUME OutboxTypeOK, NEW k \in AllKeys, IsMail(k), NEW hold, Publish(k, hold)
  PROVE  /\ EmailAllowed(k) => status'[k] # "absent"
         /\ \A j \in AllKeys : status[j] # "absent" => status'[j] # "absent"
         /\ \A j \in AllKeys : j # k => status'[j] = status[j]
BY DEF Publish, Enqueue, Present, OutboxTypeOK, rowVars

\* Publishing stores the notice unless the policy forbids it, with its hold if
\* it is new, and disturbs no other row.
LEMMA PublishEffect ==
  ASSUME OutboxTypeOK, NEW k \in AllKeys, NEW hold, Publish(k, hold)
  PROVE  /\ IsMail(k) /\ EmailAllowed(k) => status'[k] # "absent"
         /\ \A j \in AllKeys : status[j] # "absent" => status'[j] = status[j] /\ wait'[j] = wait[j]
         /\ \A j \in AllKeys : j # k => status'[j] = status[j] /\ wait'[j] = wait[j]
         /\ status[k] = "absent" /\ status'[k] # "absent" =>
              status'[k] = "pending" /\ wait'[k] = hold
BY DEF Publish, Enqueue, Present, OutboxTypeOK, rowVars

\* mark_suppressed changes no other row, and this one only if it is pending.
LEMMA SuppressEffect ==
  ASSUME OutboxTypeOK, NEW k \in AllKeys, SetSuppressed(k)
  PROVE  /\ \A j \in AllKeys : j # k => status'[j] = status[j]
         /\ status'[k] = IF status[k] = "pending" THEN "suppressed" ELSE status[k]
BY DEF SetSuppressed, OutboxTypeOK

\* The worker and a restart remove no row and add none under a publisher's
\* key; they do not touch a row that is out of the worker's reach and not due.
LEMMA WorkerEffect ==
  ASSUME OutboxTypeOK, OutboxInv, WorkerStep \/ AbortDrain \/ Restart
  PROVE  /\ \A j \in Keys : status'[j] = "absent" <=> status[j] = "absent"
         /\ \A j \in Keys : OutOfReach(j) /\ j \notin Due =>
              status'[j] = status[j] /\ wait'[j] = wait[j] /\ OutOfReach(j)'
<1> USE KeyFacts
<1>1. CASE EnqueueFallback
  <2>1. Fallback(current) \in AllKeys /\ Fallback(current) \notin Keys
    BY <1>1, KeysAssumption DEF EnqueueFallback, OutboxTypeOK
  <2>2. \A j \in Keys : status'[j] = status[j] /\ wait'[j] = wait[j]
    BY <1>1, <2>1 DEF EnqueueFallback, Enqueue, OutboxTypeOK, rowVars
  <2> QED
    BY <1>1, <2>2 DEF EnqueueFallback, OutOfReach, history
<1>2. ASSUME NEW k \in AllKeys, TakeNext(k)
      PROVE  /\ \A j \in Keys : status'[j] = "absent" <=> status[j] = "absent"
             /\ \A j \in Keys : OutOfReach(j) =>
                  status'[j] = status[j] /\ wait'[j] = wait[j] /\ OutOfReach(j)'
  BY <1>2 DEF TakeNext, SetSuppressed, OutboxTypeOK, OutOfReach, history
<1>3. CASE MarkSent
  <2>1. current \in AllKeys /\ status[current] # "absent"
    BY <1>3 DEF MarkSent, OutboxTypeOK, OutboxInv
  <2>2. status' = [status EXCEPT ![current] = "sent"]
    BY <1>3 DEF MarkSent, SetSent
  <2> QED
    BY <1>3, <2>1, <2>2 DEF MarkSent, OutboxTypeOK, OutOfReach, history
<1>4. CASE MarkFailed
  BY <1>4 DEF MarkFailed, SetFailed, OutboxTypeOK, OutOfReach, history
<1>5. CASE Poll
  BY <1>5 DEF Poll, Pending, OutboxTypeOK, OutOfReach, rowVars, history
<1>6. CASE EndDrain \/ Refuse \/ LoseReply \/ AbortDrain \/ Restart
  BY <1>6 DEF EndDrain, Refuse, LoseReply, AbortDrain, Restart, StopWorker, OutboxTypeOK,
              OutOfReach, rowVars, history
<1>7. ASSUME NEW k \in AllKeys, Accept(k)
      PROVE  /\ UNCHANGED <<status, wait>>
             /\ \A j \in Keys : OutOfReach(j) => OutOfReach(j)'
  BY <1>7 DEF Accept, OutboxTypeOK, OutOfReach, rowVars
<1> QED
  BY <1>1, <1>2, <1>3, <1>4, <1>5, <1>6, <1>7 DEF WorkerStep

-----------------------------------------------------------------------------
(* Incidents uses its outbox as publishers may. *)

\* What a call past its INSERT or SELECT knows of the incident in its hand.
LEMMA InHandFacts ==
  ASSUME IncidentTypeOK, IncidentInv, NEW r \in Reporters,
         HasIncident(r)
  PROVE  /\ inHand[r] \in Ids /\ inHand[r] \in 1 .. opened /\ opened \in Nat
         /\ startedAt[inHand[r]] \in Nat /\ startedAt[inHand[r]] <= now /\ now \in Nat
<1>1. opened \in Nat /\ opened <= MaxJobs
  BY NumbersAssumption DEF IncidentTypeOK
<1>2. inHand[r] \in 1 .. opened
  BY DEF IncidentInv, CallsInOrder, CallInOrder
<1>3. inHand[r] \in Ids
  BY <1>1, <1>2, NumbersAssumption DEF Ids
<1>4. startedAt[inHand[r]] \in Times /\ startedAt[inHand[r]] <= now /\ now \in Times
  BY <1>2 DEF IncidentInv, Numbered, IncidentTypeOK
<1>5. \A t \in Times : t \in Nat
  BY NumbersAssumption DEF Times
<1> QED
  BY <1>1, <1>2, <1>3, <1>4, <1>5

\* Every step of the incident service is a step of the outbox or leaves it alone.
LEMMA UsesOutboxStep ==
  TypeOK /\ IncidentInv /\ [Next]_vars => [OutboxNext]_outboxVars
<1> SUFFICES ASSUME TypeOK, IncidentInv, [Next]_vars
             PROVE  [OutboxNext]_outboxVars
  OBVIOUS
<1> USE IncidentKeyFacts, NumbersAssumption DEF TypeOK
<1>0. 0 \in Holds
  BY HoldsAssumption
<1>1. ASSUME NEW r \in Reporters,
             \/ Begin(r) \/ Healthy(r) \/ Offline(r) \/ SelectOpen(r) \/ InsertIncident(r)
             \/ SelectToClose(r) \/ CloseIncident(r) \/ AbortCall(r)
             \/ \E timeout \in BOOLEAN : Fails(r, timeout)
      PROVE  UNCHANGED outboxVars
  BY <1>1 DEF Begin, Healthy, Offline, SelectOpen, InsertIncident, SelectToClose, CloseIncident,
              AbortCall, Fails
<1>2. ASSUME NEW r \in Reporters, Warn(r)
      PROVE  [OutboxNext]_outboxVars
  <2>1. first[r] \in Times
    BY <1>2 DEF Warn, IncidentInv, CallsInOrder, CallInOrder
  <2>2. CASE Notify
    <3>1. PublishStep(WarnKey(first[r]), 0)
      BY <1>2, <2>2 DEF Warn, PublishStep
    <3> QED
      BY <1>0, <2>1, <3>1 DEF OutboxNext
  <2>3. CASE ~Notify
    BY <1>2, <2>3 DEF Warn, outboxVars
  <2> QED
    BY <2>2, <2>3
<1>3. ASSUME NEW r \in Reporters, Announce(r)
      PROVE  [OutboxNext]_outboxVars
  <2> DEFINE i == inHand[r]
             until == startedAt[i] + EmailDelay
             hold == IF until > now THEN until - now ELSE 0
  <2>1. i \in Ids /\ startedAt[i] \in Nat /\ startedAt[i] <= now /\ now \in Nat
    BY <1>3, InHandFacts DEF Announce, HasIncident
  <2>2. hold \in 0 .. EmailDelay
    BY <2>1
  <2>3. PublishStep(OpenKey(i), hold)
    BY <1>3, <2>1, IncidentKeysAssumption DEF Announce, PublishStep
  <2> QED
    BY <2>1, <2>2, <2>3, HoldsAssumption DEF OutboxNext
<1>4. ASSUME NEW r \in Reporters, WithdrawAlarm(r)
      PROVE  [OutboxNext]_outboxVars
  <2>1. inHand[r] \in Ids
    BY <1>4, InHandFacts DEF WithdrawAlarm, HasIncident
  <2>2. WithdrawStep(OpenKey(inHand[r]))
    BY <1>4 DEF WithdrawAlarm, WithdrawStep
  <2> QED
    BY <2>1, <2>2, IncidentKeysAssumption DEF OutboxNext
<1>5. ASSUME NEW r \in Reporters, AnnounceRecovery(r)
      PROVE  [OutboxNext]_outboxVars
  <2>1. inHand[r] \in Ids
    BY <1>5, InHandFacts DEF AnnounceRecovery, HasIncident
  <2>2. PublishStep(CloseKey(inHand[r]), 0)
    BY <1>5 DEF AnnounceRecovery, PublishStep
  <2> QED
    BY <1>0, <2>1, <2>2 DEF OutboxNext
<1>6. ASSUME WorkerStep \/ AbortDrain \/ Crash
      PROVE  [OutboxNext]_outboxVars
  BY <1>6 DEF Crash, OutboxNext
<1>7. CASE ClockTick
  <2>1. CASE \E k \in AllKeys : wait[k] > 0
    BY <1>7, <2>1 DEF ClockTick, Tick, OutboxNext
  <2>2. CASE ~ \E k \in AllKeys : wait[k] > 0
    <3>1. wait' = wait
      BY <1>7, <2>2 DEF ClockTick, OutboxTypeOK
    <3> QED
      BY <1>7, <3>1 DEF ClockTick, outboxVars, rowVars
  <2> QED
    BY <2>1, <2>2
<1>8. CASE UNCHANGED vars
  BY <1>8 DEF vars
<1> QED
  BY <1>1, <1>2, <1>3, <1>4, <1>5, <1>6, <1>7, <1>8 DEF Next, ReporterStep

-----------------------------------------------------------------------------
\* Steps keep the types of the incident table and of the calls.
LEMMA IncidentTypeStep ==
  TypeOK /\ IncidentInv /\ [Next]_vars => IncidentTypeOK'
<1> SUFFICES ASSUME OutboxTypeOK, IncidentTypeOK, IncidentInv, [Next]_vars
             PROVE  IncidentTypeOK'
  BY DEF TypeOK
<1> USE DEF Places, tableVars, callVars, probeVars
<1>1. ASSUME NEW r \in Reporters, Begin(r)
      PROVE  IncidentTypeOK'
  <2>1. jobs' \in 0 .. MaxJobs
    <3>1. jobs \in 0 .. MaxJobs /\ jobs < MaxJobs /\ jobs' = jobs + 1
      BY <1>1 DEF Begin, IncidentTypeOK
    <3> QED
      BY <3>1, NumbersAssumption
  <2>2. checkedAt' \in [Reporters -> Times \cup {NoTime}] /\ at' \in [Reporters -> Places]
    BY <1>1 DEF Begin, GoTo, IncidentTypeOK
  <2> QED
    BY <1>1, <2>1, <2>2 DEF Begin, IncidentTypeOK
<1>2. ASSUME NEW r \in Reporters, Healthy(r)
      PROVE  IncidentTypeOK'
  <2>1. 0 \in 0 .. Threshold
    BY NumbersAssumption
  <2> HIDE DEF Places
  <2>2. streak' \in [Monitors -> 0 .. Threshold] /\ first' \in [Monitors -> Times \cup {NoTime}]
    BY <1>2, <2>1 DEF Healthy, IncidentTypeOK
  <2>3. at' \in [Reporters -> Places]
    BY <1>2 DEF Healthy, GoTo, Places, IncidentTypeOK
  <2> QED
    BY <1>2, <2>2, <2>3 DEF Healthy, IncidentTypeOK
<1>3. ASSUME NEW r \in Reporters, NEW timeout \in BOOLEAN, Fails(r, timeout)
      PROVE  IncidentTypeOK'
  <2>1. streak' \in [Monitors -> 0 .. Threshold]
    <3> DEFINE n == IF streak[r] < Threshold THEN streak[r] + 1 ELSE streak[r]
    <3>1. streak[r] \in 0 .. Threshold /\ Threshold \in Nat
      BY <1>3, NumbersAssumption DEF Fails, IncidentTypeOK
    <3>2. n \in 0 .. Threshold
      BY <3>1
    <3>3. streak' = [streak EXCEPT ![r] = n]
      BY <1>3 DEF Fails
    <3> HIDE DEF n
    <3> QED
      BY <3>2, <3>3 DEF IncidentTypeOK
  <2>2. first' \in [Monitors -> Times \cup {NoTime}]
    BY <1>3 DEF Fails, IncidentTypeOK
  <2>3. at' \in [Reporters -> Places]
    BY <1>3 DEF Fails, GoTo, IncidentTypeOK
  <2> QED
    BY <1>3, <2>1, <2>2, <2>3 DEF Fails, IncidentTypeOK
<1>4. ASSUME NEW r \in Reporters, Offline(r) \/ Warn(r) \/ SelectOpen(r)
      PROVE  IncidentTypeOK'
  BY <1>4 DEF Offline, Warn, SelectOpen, GoTo, IncidentTypeOK
<1>5. ASSUME NEW r \in Reporters, InsertIncident(r)
      PROVE  IncidentTypeOK'
  <2>1. CASE Open = {}
    <3>1. opened' \in 0 .. MaxJobs /\ opened' \in Ids
      <4>1. opened \in 0 .. MaxJobs /\ opened < MaxJobs /\ opened' = opened + 1
        BY <1>5, <2>1 DEF InsertIncident, IncidentTypeOK
      <4> QED
        BY <4>1, NumbersAssumption DEF Ids
    <3>2. checkedAt[r] \in Times \cup {NoTime} /\ (r \in Monitors => first[r] \in Times \cup {NoTime})
      BY DEF IncidentTypeOK
    <3>3. at' \in [Reporters -> Places]
      BY <1>5, <2>1 DEF InsertIncident, GoTo, IncidentTypeOK
    <3> QED
      BY <1>5, <2>1, <3>1, <3>2, <3>3 DEF InsertIncident, IncidentTypeOK
  <2>2. CASE Open # {}
    BY <1>5, <2>2 DEF InsertIncident, GoTo, IncidentTypeOK
  <2> QED
    BY <2>1, <2>2
<1>6. ASSUME NEW r \in Reporters, Announce(r)
      PROVE  IncidentTypeOK'
  <2>1. OpenKey(inHand[r]) \in Keys
    BY <1>6, InHandFacts, IncidentKeyFacts DEF Announce, HasIncident
  <2> QED
    BY <1>6, <2>1 DEF Announce, GoTo, IncidentTypeOK
<1>7. ASSUME NEW r \in Reporters, SelectToClose(r)
      PROVE  IncidentTypeOK'
  BY <1>7 DEF SelectToClose, Open, GoTo, IncidentTypeOK
<1>8. ASSUME NEW r \in Reporters, CloseIncident(r)
      PROVE  IncidentTypeOK'
  <2>1. checkedAt[r] \in Times \cup {NoTime}
    BY DEF IncidentTypeOK
  <2> QED
    BY <1>8, <2>1 DEF CloseIncident, GoTo, IncidentTypeOK
<1>9. ASSUME NEW r \in Reporters, WithdrawAlarm(r)
      PROVE  IncidentTypeOK'
  BY <1>9 DEF WithdrawAlarm, GoTo, IncidentTypeOK
<1>10. ASSUME NEW r \in Reporters, AnnounceRecovery(r)
      PROVE  IncidentTypeOK'
  <2>1. CloseKey(inHand[r]) \in Keys
    BY <1>10, InHandFacts, IncidentKeyFacts DEF AnnounceRecovery, HasIncident
  <2> QED
    BY <1>10, <2>1 DEF AnnounceRecovery, GoTo, IncidentTypeOK
<1>11. \A r \in Reporters : Owed(r) \subseteq Keys
  <2> SUFFICES ASSUME NEW r \in Reporters PROVE Owed(r) \subseteq Keys
    OBVIOUS
  <2>1. CASE HasIncident(r)
    <3>1. OpenKey(inHand[r]) \in Keys /\ CloseKey(inHand[r]) \in Keys
      BY <2>1, InHandFacts, IncidentKeyFacts
    <3> QED
      BY <3>1 DEF Owed
  <2>2. CASE ~HasIncident(r)
    BY <2>2 DEF Owed, HasIncident
  <2> QED
    BY <2>1, <2>2
<1>12. ASSUME NEW r \in Reporters, AbortCall(r)
      PROVE  IncidentTypeOK'
  <2>1. at' \in [Reporters -> Places] /\ dropped' \subseteq Keys
    BY <1>11, <1>12 DEF AbortCall, GoTo, IncidentTypeOK
  <2>2. aborts' \in Nat
    <3>1. aborts \in Nat /\ aborts' = aborts + 1
      BY <1>12 DEF AbortCall, IncidentTypeOK
    <3> QED
      BY <3>1
  <2> QED
    BY <1>12, <2>1, <2>2 DEF AbortCall, IncidentTypeOK
<1>13. CASE Crash
  <2>1. streak' \in [Monitors -> 0 .. Threshold]
    <3>1. 0 \in 0 .. Threshold
      BY NumbersAssumption
    <3> QED
      BY <1>13, <3>1 DEF Crash
  <2>2. first' \in [Monitors -> Times \cup {NoTime}] /\ at' \in [Reporters -> Places]
    BY <1>13 DEF Crash
  <2>3. dropped' \subseteq Keys
    <3>1. dropped' = dropped \cup UNION {Owed(r) : r \in Reporters} /\ dropped \subseteq Keys
      BY <1>13 DEF Crash, IncidentTypeOK
    <3> QED
      BY <1>11, <3>1
  <2> QED
    BY <1>13, <2>1, <2>2, <2>3 DEF Crash, IncidentTypeOK
<1>14. CASE ClockTick
  <2>1. now' \in Times
    <3>1. now \in 0 .. MaxTime /\ now < MaxTime /\ now' = now + 1
      BY <1>14 DEF ClockTick, IncidentTypeOK, Times
    <3> QED
      BY <3>1, NumbersAssumption DEF Times
  <2> QED
    BY <1>14, <2>1 DEF ClockTick, IncidentTypeOK
<1>15. CASE UNCHANGED incidentVars
  BY <1>15 DEF incidentVars, IncidentTypeOK
<1> QED
  BY <1>1, <1>2, <1>3, <1>4, <1>5, <1>6, <1>7, <1>8, <1>9, <1>10, <1>12, <1>13, <1>14, <1>15
  DEF Next, ReporterStep, vars

-----------------------------------------------------------------------------
(* The invariants, one after the other. *)

\* No row of an incident disappears, and each is added by the call that
\* announces that incident.
LEMMA RowsOfIncidents ==
  ASSUME TypeOK, OutboxInv, IncidentInv, [Next]_vars
  PROVE  /\ \A i \in Ids : Present(OpenKey(i)) => Present(OpenKey(i))'
         /\ \A i \in Ids : Present(CloseKey(i)) => Present(CloseKey(i))'
         /\ \A i \in Ids : Present(OpenKey(i))' /\ ~Present(OpenKey(i)) =>
              \E r \in Reporters : Announce(r) /\ inHand[r] = i
         /\ \A i \in Ids : Present(CloseKey(i))' /\ ~Present(CloseKey(i)) =>
              \E r \in Reporters : AnnounceRecovery(r) /\ inHand[r] = i
<1> DEFINE Same == \A j \in Keys : status'[j] = "absent" <=> status[j] = "absent"
<1> USE IncidentKeyFacts DEF Present, TypeOK
<1>1. CASE Same
  BY <1>1
<1>2. ASSUME NEW r \in Reporters,
             \/ Begin(r) \/ Healthy(r) \/ Offline(r) \/ SelectOpen(r) \/ InsertIncident(r)
             \/ SelectToClose(r) \/ CloseIncident(r) \/ AbortCall(r)
             \/ \E timeout \in BOOLEAN : Fails(r, timeout)
      PROVE  Same
  BY <1>2 DEF Begin, Healthy, Offline, SelectOpen, InsertIncident, SelectToClose, CloseIncident,
              AbortCall, Fails, outboxVars, rowVars
<1>3. ASSUME NEW r \in Reporters, Warn(r)
      PROVE  \A j \in Keys : j # WarnKey(first[r]) => status'[j] = status[j]
  <2>1. first[r] \in Times
    BY <1>3 DEF Warn, IncidentInv, CallsInOrder, CallInOrder
  <2> QED
    BY <1>3, <2>1, PublishEffect, KeyFacts DEF Warn, rowVars
<1>4. ASSUME NEW r \in Reporters, Announce(r)
      PROVE  /\ \A j \in Keys : j # OpenKey(inHand[r]) => status'[j] = status[j]
             /\ \A j \in Keys : status[j] # "absent" => status'[j] # "absent"
             /\ inHand[r] \in Ids
  <2>1. inHand[r] \in Ids
    BY <1>4, InHandFacts DEF Announce, HasIncident
  <2> QED
    BY <1>4, <2>1, PublishEffect, KeyFacts DEF Announce
<1>5. ASSUME NEW r \in Reporters, WithdrawAlarm(r)
      PROVE  Same
  <2>1. inHand[r] \in Ids
    BY <1>5, InHandFacts DEF WithdrawAlarm, HasIncident
  <2> QED
    BY <1>5, <2>1, SuppressEffect, KeyFacts DEF WithdrawAlarm
<1>6. ASSUME NEW r \in Reporters, AnnounceRecovery(r)
      PROVE  /\ \A j \in Keys : j # CloseKey(inHand[r]) => status'[j] = status[j]
             /\ \A j \in Keys : status[j] # "absent" => status'[j] # "absent"
             /\ inHand[r] \in Ids
  <2>1. inHand[r] \in Ids
    BY <1>6, InHandFacts DEF AnnounceRecovery, HasIncident
  <2> QED
    BY <1>6, <2>1, PublishEffect, KeyFacts DEF AnnounceRecovery
<1>7. ASSUME WorkerStep \/ AbortDrain \/ Crash
      PROVE  Same
  BY <1>7, WorkerEffect DEF Crash
<1>8. CASE ClockTick \/ UNCHANGED vars
  <2>1. Same
    BY <1>8 DEF ClockTick, vars, outboxVars, rowVars
  <2> QED
    BY <1>1, <2>1
<1>9. ASSUME NEW r \in Reporters, Warn(r)
      PROVE  \A i \in Ids : /\ Present(OpenKey(i))' <=> Present(OpenKey(i))
                            /\ Present(CloseKey(i))' <=> Present(CloseKey(i))
  BY <1>3, <1>9 DEF OpenKey, CloseKey, WarnKey
<1>10. ASSUME NEW i \in Ids, NEW j \in Ids, OpenKey(i) = OpenKey(j)
       PROVE  i = j
  BY <1>10 DEF OpenKey
<1> QED
  BY <1>1, <1>2, <1>4, <1>5, <1>6, <1>7, <1>8, <1>9, <1>10 DEF Next, ReporterStep

\* Incidents stay numbered in order of insertion.
LEMMA NumberedStep ==
  TypeOK /\ OutboxInv /\ IncidentInv /\ [Next]_vars => Numbered'
<1> SUFFICES ASSUME TypeOK, OutboxInv, IncidentInv, [Next]_vars
             PROVE  Numbered'
  OBVIOUS
<1>1. \A i \in Ids : Present(OpenKey(i))' => i <= opened
  <2>1. ASSUME NEW r \in Reporters, Announce(r)
        PROVE  inHand[r] <= opened
    <3>1. inHand[r] \in 1 .. opened /\ opened \in Nat
      BY <2>1, InHandFacts DEF Announce, HasIncident, TypeOK
    <3> QED
      BY <3>1
  <2> QED
    BY <2>1, RowsOfIncidents DEF IncidentInv, Numbered
<1>2. CASE \E r \in Reporters : InsertIncident(r) /\ Open = {}
  <2>1. PICK r \in Reporters : InsertIncident(r) /\ Open = {}
    BY <1>2
  <2>2. /\ opened \in Nat /\ opened' = opened + 1 /\ opened' \in Ids
        /\ now' = now
        /\ phase' = [phase EXCEPT ![opened'] = "open"]
    <3>1. opened \in 0 .. MaxJobs /\ opened < MaxJobs /\ opened' = opened + 1
      BY <2>1 DEF InsertIncident, TypeOK, IncidentTypeOK
    <3> QED
      BY <2>1, <3>1, NumbersAssumption DEF InsertIncident, Ids
  <2>3. checkedAt[r] \in Times /\ checkedAt[r] <= now /\ (r \in Monitors => first[r] \in Times)
    BY <2>1 DEF InsertIncident, IncidentInv, CallsInOrder, CallInOrder
  <2>4. \A i \in Ids : phase'[i] = "none" <=> i > opened'
    BY <2>2 DEF TypeOK, IncidentTypeOK, IncidentInv, Numbered, Ids
  <2>5. /\ startedAt' = [startedAt EXCEPT ![opened'] = checkedAt[r]]
        /\ failedAt' = [failedAt EXCEPT ![opened'] =
                          IF r \in Monitors THEN first[r] ELSE checkedAt[r]]
    BY <2>1 DEF InsertIncident
  <2>6. /\ startedAt'[opened'] = checkedAt[r]
        /\ failedAt'[opened'] = IF r \in Monitors THEN first[r] ELSE checkedAt[r]
        /\ \A i \in Ids : i # opened' => startedAt'[i] = startedAt[i] /\ failedAt'[i] = failedAt[i]
    BY <2>2, <2>5 DEF TypeOK, IncidentTypeOK
  <2>7. \A i \in 1 .. opened' : i \in Ids /\ (i = opened' \/ i \in 1 .. opened)
    BY <2>2, NumbersAssumption DEF Ids
  <2>8. \A i \in 1 .. opened' :
          startedAt'[i] \in Times /\ failedAt'[i] \in Times /\ startedAt'[i] <= now'
    BY <2>2, <2>3, <2>6, <2>7 DEF IncidentInv, Numbered
  <2>9. \A i \in Ids : Present(OpenKey(i))' => i <= opened'
    BY <1>1, <2>2 DEF Ids
  <2> QED
    BY <2>4, <2>8, <2>9 DEF Numbered
<1>3. CASE \E r \in Reporters : CloseIncident(r)
  <2>1. PICK r \in Reporters : CloseIncident(r)
    BY <1>3
  <2>2. /\ UNCHANGED <<opened, startedAt, failedAt, now>>
        /\ phase' = phase \/ (phase[inHand[r]] = "open" /\ phase' = [phase EXCEPT ![inHand[r]] = "closed"])
    BY <2>1 DEF CloseIncident
  <2>3. \A i \in Ids : phase'[i] = "none" <=> phase[i] = "none"
    BY <2>2 DEF TypeOK, IncidentTypeOK
  <2> QED
    BY <1>1, <2>2, <2>3 DEF Numbered, IncidentInv
<1>4. CASE ClockTick
  <2>1. now' = now + 1 /\ now \in Nat /\ UNCHANGED tableVars
    BY <1>4, NumbersAssumption DEF ClockTick, TypeOK, IncidentTypeOK, Times
  <2>2. \A i \in 1 .. opened : startedAt[i] <= now'
    BY <2>1, NumbersAssumption DEF IncidentInv, Numbered, Times
  <2> QED
    BY <1>1, <2>1, <2>2 DEF IncidentInv, Numbered, tableVars
<1>5. CASE UNCHANGED <<tableVars, now>>
  BY <1>1, <1>5 DEF Numbered, IncidentInv, tableVars
<1>6. ASSUME NEW r \in Reporters,
             \/ Begin(r) \/ Healthy(r) \/ Offline(r) \/ SelectOpen(r) \/ Warn(r) \/ Announce(r)
             \/ InsertIncident(r) /\ Open # {}
             \/ SelectToClose(r) \/ WithdrawAlarm(r) \/ AnnounceRecovery(r) \/ AbortCall(r)
             \/ \E timeout \in BOOLEAN : Fails(r, timeout)
      PROVE  UNCHANGED <<tableVars, now>>
  BY <1>6 DEF Begin, Healthy, Offline, SelectOpen, Warn, Announce, InsertIncident, SelectToClose,
              WithdrawAlarm, AnnounceRecovery, AbortCall, Fails
<1>7. CASE ((WorkerStep \/ AbortDrain) /\ UNCHANGED incidentVars) \/ Crash \/ UNCHANGED vars
  BY <1>5, <1>7 DEF Crash, vars, incidentVars
<1> QED
  BY <1>2, <1>3, <1>4, <1>5, <1>6, <1>7 DEF Next, ReporterStep

\* A reporter's step leaves the calls of the others alone, and what they know
\* of their incidents stays true.
LEMMA OthersStay ==
  ASSUME IncidentTypeOK, NEW r \in Reporters, ReporterStep(r)
  PROVE  /\ now' = now
         /\ \A s \in Reporters \ {r} :
              at'[s] = at[s] /\ checkedAt'[s] = checkedAt[s] /\ inHand'[s] = inHand[s]
         /\ \A s \in Monitors \ {r} : first'[s] = first[s]
         /\ opened' = opened \/ opened' = opened + 1
         /\ \A i \in Ids : phase[i] = "closed" /\ i # opened + 1 => phase'[i] = "closed"
<1> USE DEF GoTo, tableVars, probeVars, IncidentTypeOK
<1>1. CASE Begin(r) \/ Offline(r) \/ SelectOpen(r) \/ SelectToClose(r)
  BY <1>1 DEF Begin, Offline, SelectOpen, SelectToClose
<1>2. CASE Healthy(r)
  BY <1>2 DEF Healthy
<1>3. ASSUME NEW timeout \in BOOLEAN, Fails(r, timeout)
      PROVE  /\ UNCHANGED <<now, checkedAt, inHand, tableVars>>
             /\ \A s \in Reporters \ {r} : at'[s] = at[s]
             /\ \A s \in Monitors \ {r} : first'[s] = first[s]
  BY <1>3 DEF Fails
<1>4. CASE Warn(r) \/ Announce(r) \/ WithdrawAlarm(r) \/ AnnounceRecovery(r) \/ AbortCall(r)
  BY <1>4 DEF Warn, Announce, WithdrawAlarm, AnnounceRecovery, AbortCall
<1>5. CASE InsertIncident(r)
  BY <1>5 DEF InsertIncident
<1>6. CASE CloseIncident(r)
  BY <1>6 DEF CloseIncident
<1> QED
  BY <1>1, <1>2, <1>3, <1>4, <1>5, <1>6 DEF ReporterStep

\* The clock and the number of incidents, as numbers.
LEMMA NumbersInRange ==
  ASSUME IncidentTypeOK
  PROVE  now \in Nat /\ opened \in Nat /\ opened <= MaxJobs
<1>1. now \in 0 .. MaxTime /\ opened \in 0 .. MaxJobs
  BY DEF IncidentTypeOK, Times
<1> QED
  BY <1>1, NumbersAssumption

\* The next incident has a number of its own.
LEMMA NextNumber ==
  ASSUME NEW n \in Nat
  PROVE  n + 1 \in 1 .. n + 1
OBVIOUS

\* An incident that exists has a number up to the last one.
LEMMA NumberedIds ==
  ASSUME NEW n \in Nat, NEW i \in Ids, ~(i > n)
  PROVE  i \in 1 .. n
BY NumbersAssumption DEF Ids

\* Times, as numbers.
LEMMA TimesAreNumbers == \A t \in Times : t \in Nat
BY NumbersAssumption DEF Times

\* Where a reporter's own step leaves its call.
LEMMA OwnCallInOrder ==
  ASSUME OutboxTypeOK, IncidentTypeOK, IncidentInv, NEW r \in Reporters, ReporterStep(r)
  PROVE  CallInOrder(r)'
<1> USE DEF GoTo, tableVars, probeVars, HasIncident, CallInOrder
<1>0. now \in Nat /\ now \in Times /\ opened \in Nat /\ CallInOrder(r)
  <2>1. now \in Nat /\ opened \in Nat
    BY NumbersInRange
  <2>2. now \in Times /\ CallInOrder(r)
    BY DEF IncidentTypeOK, IncidentInv, CallsInOrder
  <2> QED
    BY <2>1, <2>2
<1>1. CASE Begin(r)
  BY <1>0, <1>1 DEF Begin, IncidentTypeOK
<1>2. CASE Healthy(r)
  BY <1>0, <1>2 DEF Healthy, IncidentTypeOK
<1>3. ASSUME NEW timeout \in BOOLEAN, Fails(r, timeout)
      PROVE  CallInOrder(r)'
  <2>1. checkedAt[r] \in Times /\ checkedAt[r] <= now
    BY <1>0, <1>3 DEF Fails
  <2>2. r \in Monitors /\ first'[r] \in Times
    BY <1>3, <2>1 DEF Fails, IncidentTypeOK
  <2>3. at'[r] \in {"idle", "warn", "select open"}
    BY <1>3 DEF Fails, IncidentTypeOK
  <2> QED
    BY <1>3, <2>1, <2>2, <2>3 DEF Fails
<1>4. CASE Offline(r)
  BY <1>0, <1>4, ReportersAssumption DEF Offline, IncidentTypeOK
<1>5. CASE SelectOpen(r)
  BY <1>0, <1>5 DEF SelectOpen, IncidentTypeOK
<1>6. CASE InsertIncident(r)
  <2>1. CASE Open = {}
    <3>1. /\ opened' = opened + 1 /\ now' = now /\ checkedAt' = checkedAt
          /\ inHand'[r] = opened'
          /\ at'[r] = IF Notify THEN "announce" ELSE "idle"
      BY <1>6, <2>1 DEF InsertIncident, IncidentTypeOK
    <3>2. opened' \in 1 .. opened'
      BY <1>0, <3>1, NextNumber
    <3>3. checkedAt[r] \in Times /\ checkedAt[r] <= now
      BY <1>0, <1>6 DEF InsertIncident
    <3> QED
      BY <3>1, <3>2, <3>3
  <2>2. CASE Open # {}
    BY <1>6, <2>2 DEF InsertIncident, IncidentTypeOK
  <2> QED
    BY <2>1, <2>2
<1>7. CASE SelectToClose(r)
  <2>1. ASSUME NEW i \in Open
        PROVE  i \in 1 .. opened
    <3>1. i \in Ids /\ ~(i > opened)
      BY <2>1 DEF Open, IncidentInv, Numbered
    <3> QED
      BY <1>0, <3>1, NumberedIds
  <2>2. CASE Open = {}
    BY <1>7, <2>2 DEF SelectToClose, IncidentTypeOK
  <2>3. CASE Open # {}
    <3>1. /\ at'[r] = "close" /\ UNCHANGED <<now, checkedAt, opened>>
          /\ \E i \in Open : inHand'[r] = i
      BY <1>7, <2>3 DEF SelectToClose, IncidentTypeOK
    <3> QED
      BY <1>0, <1>7, <2>1, <3>1 DEF SelectToClose
  <2> QED
    BY <2>2, <2>3
<1>8. CASE CloseIncident(r)
  <2>1. inHand[r] \in Ids
    BY <1>8, InHandFacts DEF CloseIncident
  <2>2. /\ UNCHANGED <<now, checkedAt, opened, inHand>>
        /\ \/ at'[r] = "idle"
           \/ at'[r] \in {"withdraw", "announce recovery"} /\ phase'[inHand[r]] = "closed"
    BY <1>8, <2>1 DEF CloseIncident, IncidentTypeOK
  <2> QED
    BY <1>0, <1>8, <2>2 DEF CloseIncident
<1>9. CASE WithdrawAlarm(r)
  BY <1>0, <1>9 DEF WithdrawAlarm, IncidentTypeOK
<1>10. CASE Warn(r) \/ Announce(r) \/ AnnounceRecovery(r) \/ AbortCall(r)
  <2>1. at'[r] = "idle"
    BY <1>10 DEF Warn, Announce, AnnounceRecovery, AbortCall, IncidentTypeOK
  <2> QED
    BY <2>1
<1> QED
  BY <1>1, <1>2, <1>3, <1>4, <1>5, <1>6, <1>7, <1>8, <1>9, <1>10 DEF ReporterStep

\* Every call keeps its sample time and an incident of the right kind.
LEMMA CallsInOrderStep ==
  TypeOK /\ OutboxInv /\ IncidentInv /\ [Next]_vars => CallsInOrder'
<1> SUFFICES ASSUME OutboxTypeOK, IncidentTypeOK, IncidentInv, [Next]_vars,
                    NEW s \in Reporters
             PROVE  CallInOrder(s)'
  BY DEF TypeOK, CallsInOrder
<1>0. /\ opened \in Nat /\ now \in Nat /\ CallInOrder(s)
      /\ HasIncident(s) => inHand[s] \in Ids /\ inHand[s] \in 1 .. opened
  <2>1. CallInOrder(s)
    BY DEF IncidentInv, CallsInOrder
  <2> QED
    BY <2>1, InHandFacts, NumbersInRange
<1>1. ASSUME NEW r \in Reporters, ReporterStep(r)
      PROVE  CallInOrder(s)'
  <2>1. CASE r = s
    BY <1>1, <2>1, OwnCallInOrder
  <2>2. CASE r # s
    <3>1. /\ at'[s] = at[s] /\ checkedAt'[s] = checkedAt[s] /\ inHand'[s] = inHand[s]
          /\ s \in Monitors => first'[s] = first[s]
          /\ now' = now
      BY <1>1, <2>2, OthersStay
    <3>2. HasIncident(s) => inHand[s] \in 1 .. opened' /\ inHand[s] # opened + 1
      BY <1>0, <1>1, OthersStay
    <3>3. HasIncident(s) /\ phase[inHand[s]] = "closed" => phase'[inHand[s]] = "closed"
      BY <1>0, <1>1, <3>2, OthersStay
    <3> QED
      BY <1>0, <3>1, <3>2, <3>3 DEF CallInOrder, HasIncident
  <2> QED
    BY <2>1, <2>2
<1>2. CASE Crash
  <2>1. at'[s] = "idle"
    BY <1>2 DEF Crash
  <2> QED
    BY <2>1 DEF CallInOrder, HasIncident
<1>3. CASE ClockTick
  <2>1. at[s] # "idle" => checkedAt[s] \in Nat /\ checkedAt[s] <= now
    BY <1>0, TimesAreNumbers DEF CallInOrder
  <2>2. now' = now + 1
    BY <1>3 DEF ClockTick
  <2>3. at[s] # "idle" => checkedAt[s] <= now'
    BY <1>0, <2>1, <2>2
  <2> QED
    BY <1>0, <1>3, <2>3 DEF ClockTick, CallInOrder, HasIncident, tableVars, callVars, probeVars
<1>4. CASE UNCHANGED incidentVars
  BY <1>0, <1>4 DEF incidentVars, tableVars, callVars, probeVars, CallInOrder, HasIncident
<1> QED
  BY <1>1, <1>2, <1>3, <1>4 DEF Next, vars

\* A notice that is not stored has never been sent nor touched by the worker.
LEMMA AbsentIsOutOfReach ==
  ASSUME OutboxTypeOK, OutboxInv, NEW k \in AllKeys, status[k] = "absent"
  PROVE  OutOfReach(k)
<1>1. k \notin batch /\ current # k
  BY KeyFacts DEF OutboxInv
<1>2. excuses[k] = 0 /\ delivered[k] = excuses[k] + 0
  BY <1>1 DEF OutboxInv
<1> QED
  BY <1>1, <1>2 DEF OutOfReach

\* Announcing an incident before its hold is over stores a notice that waits
\* out the rest of it.
LEMMA AnnounceHolds ==
  ASSUME TypeOK, OutboxInv, IncidentInv, NEW r \in Reporters, Announce(r),
         ~Present(OpenKey(inHand[r])), Waiting(inHand[r])'
  PROVE  /\ (now + wait[OpenKey(inHand[r])] >= startedAt[inHand[r]] + EmailDelay)'
         /\ OutOfReach(OpenKey(inHand[r]))'
<1> DEFINE i == inHand[r]
           until == startedAt[i] + EmailDelay
           hold == IF until > now THEN until - now ELSE 0
<1>1. /\ i \in Ids /\ OpenKey(i) \in AllKeys
      /\ startedAt[i] \in Nat /\ now \in Nat /\ EmailDelay \in Nat
  BY InHandFacts, IncidentKeyFacts, NumbersAssumption DEF Announce, HasIncident, TypeOK
<1>2. Publish(OpenKey(i), hold)
  BY DEF Announce
<1>3. UNCHANGED <<now, inHand, startedAt, batch, current, delivered>>
  BY DEF Announce, tableVars, workerVars, history
<1>4. now < until
  BY <1>3 DEF Waiting
<1>5. OutboxTypeOK /\ status[OpenKey(i)] = "absent" /\ status'[OpenKey(i)] # "absent"
  BY <1>3 DEF TypeOK, Waiting, Present
<1>6. status'[OpenKey(i)] = "pending" /\ wait'[OpenKey(i)] = hold
  BY <1>1, <1>2, <1>5, PublishEffect
<1>7. OutOfReach(OpenKey(i))'
  BY <1>1, <1>3, <1>5, <1>6, AbsentIsOutOfReach DEF OutOfReach
<1>8. hold = until - now
  BY <1>4
<1>9. now + (until - now) >= until
  BY <1>1
<1> QED
  BY <1>3, <1>6, <1>7, <1>8, <1>9

\* Opening notices stay out of the worker's reach until their hold runs out,
\* and for good once withdrawn.
LEMMA HeldBackStep ==
  TypeOK /\ OutboxInv /\ IncidentInv /\ [Next]_vars => HeldBack'
<1> DEFINE Held(i) ==
      /\ Waiting(i) =>
           now + wait[OpenKey(i)] >= startedAt[i] + EmailDelay /\ OutOfReach(OpenKey(i))
      /\ early[i] = "withdrawn" => status[OpenKey(i)] = "suppressed" /\ OutOfReach(OpenKey(i))
<1> SUFFICES ASSUME OutboxTypeOK, IncidentTypeOK, TypeOK, OutboxInv, IncidentInv, [Next]_vars,
                    NEW i \in Ids
             PROVE  Held(i)'
  BY DEF TypeOK, HeldBack
<1> DEFINE k == OpenKey(i)
           RowStays == /\ status'[k] = status[k] /\ wait'[k] = wait[k]
                       /\ UNCHANGED <<batch, current, delivered>>
<1>0. k \in AllKeys /\ k \in Keys /\ Held(i)
  BY IncidentKeyFacts DEF IncidentInv, HeldBack
<1>1. ASSUME RowStays, now' = now, early'[i] = early[i],
             startedAt'[i] = startedAt[i] \/ ~Present(k)
      PROVE  Held(i)'
  BY <1>0, <1>1 DEF Waiting, OutOfReach, Present
<1>2. ASSUME NEW r \in Reporters,
             \/ Begin(r) \/ Healthy(r) \/ Offline(r) \/ SelectOpen(r)
             \/ SelectToClose(r) \/ CloseIncident(r) \/ AbortCall(r)
             \/ \E timeout \in BOOLEAN : Fails(r, timeout)
      PROVE  Held(i)'
  <2>1. RowStays /\ now' = now /\ early' = early /\ startedAt' = startedAt
    BY <1>2 DEF Begin, Healthy, Offline, SelectOpen, SelectToClose, CloseIncident, AbortCall, Fails,
                outboxVars, rowVars, workerVars, history, tableVars
  <2> QED
    BY <1>1, <2>1
<1>3. ASSUME NEW r \in Reporters, InsertIncident(r)
      PROVE  Held(i)'
  <2>1. RowStays /\ now' = now /\ early' = early
    BY <1>3 DEF InsertIncident, outboxVars, rowVars, workerVars, history
  <2>2. startedAt'[i] = startedAt[i] \/ i = opened + 1
    BY <1>3 DEF InsertIncident, tableVars, IncidentTypeOK
  <2>3. i = opened + 1 => ~Present(k)
    <3>1. Present(k) => i <= opened
      BY DEF IncidentInv, Numbered
    <3> QED
      BY <3>1, NumbersInRange
  <2> QED
    BY <1>1, <2>1, <2>2, <2>3
<1>4. ASSUME NEW j \in AllKeys, NEW hold, Publish(j, hold), j # k \/ Present(k),
             UNCHANGED <<workerVars, history, now, early, startedAt>>
      PROVE  Held(i)'
  <2>1. status'[k] = status[k] /\ wait'[k] = wait[k]
    BY <1>0, <1>4, PublishEffect DEF Present
  <2> QED
    BY <1>1, <1>4, <2>1 DEF workerVars, history
<1>5. ASSUME NEW r \in Reporters, Warn(r)
      PROVE  Held(i)'
  <2>1. first[r] \in Times
    BY <1>5 DEF Warn, IncidentInv, CallsInOrder, CallInOrder
  <2>2. WarnKey(first[r]) \in AllKeys /\ WarnKey(first[r]) # k
    BY <2>1, IncidentKeyFacts DEF WarnKey, OpenKey
  <2>3. UNCHANGED <<workerVars, history, now, early, startedAt>>
    BY <1>5 DEF Warn, tableVars
  <2>4. CASE Notify
    BY <1>4, <1>5, <2>2, <2>3, <2>4 DEF Warn
  <2>5. CASE ~Notify
    BY <1>1, <1>5, <2>3, <2>5 DEF Warn, rowVars, workerVars, history
  <2> QED
    BY <2>4, <2>5
<1>6. ASSUME NEW r \in Reporters, AnnounceRecovery(r)
      PROVE  Held(i)'
  <2>1. inHand[r] \in Ids
    BY <1>6, InHandFacts DEF AnnounceRecovery, HasIncident
  <2>2. CloseKey(inHand[r]) \in AllKeys /\ CloseKey(inHand[r]) # k
    BY <2>1, IncidentKeyFacts
  <2> QED
    BY <1>4, <1>6, <2>2 DEF AnnounceRecovery, tableVars
<1>7. ASSUME NEW r \in Reporters, Announce(r)
      PROVE  Held(i)'
  <2>1. inHand[r] \in Ids /\ OpenKey(inHand[r]) \in AllKeys
    BY <1>7, InHandFacts, IncidentKeyFacts DEF Announce, HasIncident
  <2>2. UNCHANGED <<workerVars, history, now, early, startedAt, inHand>>
    BY <1>7 DEF Announce, tableVars
  <2>3. CASE inHand[r] # i \/ Present(k)
    <3>1. OpenKey(inHand[r]) # k \/ Present(k)
      BY <2>3 DEF OpenKey
    <3> QED
      BY <1>4, <1>7, <2>1, <2>2, <3>1 DEF Announce
  <2>4. CASE inHand[r] = i /\ ~Present(k)
    <3>1. early'[i] # "withdrawn"
      BY <1>0, <2>2, <2>4 DEF Present
    <3>2. inHand' = inHand
      BY <2>2
    <3> QED
      BY <1>7, <2>4, <3>1, <3>2, AnnounceHolds
  <2> QED
    BY <2>3, <2>4
<1>8. ASSUME NEW r \in Reporters, WithdrawAlarm(r)
      PROVE  Held(i)'
  <2>1. inHand[r] \in Ids /\ OpenKey(inHand[r]) \in AllKeys
    BY <1>8, InHandFacts, IncidentKeyFacts DEF WithdrawAlarm, HasIncident
  <2>2. UNCHANGED <<wait, batch, current, delivered, now, startedAt>>
        /\ SetSuppressed(OpenKey(inHand[r]))
    BY <1>8 DEF WithdrawAlarm, workerVars, history, tableVars
  <2>3. CASE inHand[r] # i
    <3>1. OpenKey(inHand[r]) # k
      BY <2>3 DEF OpenKey
    <3>2. status'[k] = status[k] /\ early'[i] = early[i]
      BY <1>0, <1>8, <2>1, <2>2, <2>3, <3>1, SuppressEffect DEF WithdrawAlarm, IncidentTypeOK
    <3> QED
      BY <1>1, <2>2, <3>2
  <2>4. CASE inHand[r] = i
    <3>1. status'[k] = IF status[k] = "pending" THEN "suppressed" ELSE status[k]
      BY <2>1, <2>2, <2>4, SuppressEffect
    <3>2. status[k] \in {"absent", "pending", "sent", "suppressed"}
      BY <1>0 DEF OutboxTypeOK
    <3>3. early'[i] = "withdrawn" => early[i] = "withdrawn" \/ Waiting(i)
      BY <1>8, <2>4 DEF WithdrawAlarm, IncidentTypeOK, Waiting
    <3>4. Waiting(i)' <=> Waiting(i)
      BY <2>2, <3>1, <3>2 DEF Waiting, Present
    <3>5. OutOfReach(k) => OutOfReach(k)'
      BY <2>2, <3>1, <3>2 DEF OutOfReach
    <3>6. OutOfReach(k) /\ Present(k) => status'[k] = "suppressed"
      BY <3>1, <3>2 DEF OutOfReach, Present
    <3> QED
      BY <1>0, <2>2, <3>1, <3>3, <3>4, <3>5, <3>6 DEF Waiting
  <2> QED
    BY <2>3, <2>4
<1>9. ASSUME WorkerStep \/ AbortDrain \/ Restart, UNCHANGED <<now, startedAt, early>>
      PROVE  Held(i)'
  <2>1. Present(k)' <=> Present(k)
    BY <1>0, <1>9, WorkerEffect DEF Present
  <2>2. OutOfReach(k) /\ k \notin Due =>
          status'[k] = status[k] /\ wait'[k] = wait[k] /\ OutOfReach(k)'
    BY <1>0, <1>9, WorkerEffect
  <2>3. Waiting(i) => k \notin Due
    <3>1. ASSUME Waiting(i), wait[k] = 0
          PROVE  FALSE
      <4>1. now + 0 >= startedAt[i] + EmailDelay /\ now < startedAt[i] + EmailDelay
        BY <1>0, <3>1 DEF Waiting
      <4>2. i <= opened
        BY <3>1 DEF Waiting, IncidentInv, Numbered
      <4>3. ~(i > opened)
        BY <4>2, NumbersInRange, NumbersAssumption DEF Ids
      <4>4. startedAt[i] \in Nat
        BY <4>3, NumbersInRange, NumberedIds, TimesAreNumbers DEF IncidentInv, Numbered
      <4> QED
        BY <4>1, <4>4, NumbersInRange, NumbersAssumption
    <3> QED
      BY <3>1 DEF Due
  <2>4. status[k] = "suppressed" => k \notin Due
    BY DEF Due
  <2> QED
    BY <1>0, <1>9, <2>1, <2>2, <2>3, <2>4 DEF Waiting
<1>10. CASE ((WorkerStep \/ AbortDrain) /\ UNCHANGED incidentVars) \/ Crash
  BY <1>9, <1>10 DEF incidentVars, tableVars, Crash
<1>11. CASE ClockTick
  <2>1. /\ UNCHANGED <<status, batch, current, delivered, startedAt, early>>
        /\ now' = now + 1
        /\ wait'[k] = IF wait[k] > 0 THEN wait[k] - 1 ELSE 0
    BY <1>0, <1>11 DEF ClockTick, workerVars, history, tableVars
  <2>2. OutOfReach(k)' <=> OutOfReach(k)
    BY <2>1 DEF OutOfReach
  <2>3. CASE Waiting(i)'
    <3>1. Present(k) /\ now + 1 < startedAt[i] + EmailDelay
      BY <2>1, <2>3 DEF Waiting, Present
    <3>2. i <= opened
      BY <3>1 DEF IncidentInv, Numbered
    <3>3. ~(i > opened)
      BY <3>2, NumbersInRange, NumbersAssumption DEF Ids
    <3>4. /\ startedAt[i] \in Nat /\ now \in Nat /\ EmailDelay \in Nat
          /\ wait[k] \in Nat
      BY <1>0, <3>3, NumbersInRange, NumbersAssumption, NumberedIds, TimesAreNumbers
      DEF IncidentInv, Numbered, OutboxTypeOK
    <3>5. now < startedAt[i] + EmailDelay
      BY <3>1, <3>4
    <3>6. now + wait[k] >= startedAt[i] + EmailDelay /\ OutOfReach(k)
      BY <1>0, <3>1, <3>5 DEF Waiting
    <3>7. now' + wait'[k] >= startedAt[i] + EmailDelay
      BY <2>1, <3>4, <3>5, <3>6
    <3> QED
      BY <1>0, <2>1, <2>2, <3>6, <3>7
  <2>4. CASE ~Waiting(i)'
    BY <1>0, <2>1, <2>2, <2>4
  <2> QED
    BY <2>3, <2>4
<1>12. CASE UNCHANGED vars
  BY <1>1, <1>12 DEF vars, outboxVars, rowVars, workerVars, history, incidentVars, tableVars
<1> QED
  BY <1>2, <1>3, <1>5, <1>6, <1>7, <1>8, <1>10, <1>11, <1>12 DEF Next, ReporterStep

-----------------------------------------------------------------------------
(* The theorems. *)

Inv == TypeOK /\ OutboxInv /\ IncidentInv

\* The initial state satisfies the inductive invariant.
LEMMA InitInv == Init => Inv
<1> SUFFICES ASSUME Init PROVE Inv
  OBVIOUS
<1>1. OutboxTypeOK /\ OutboxInv
  BY BoundsAssumption, PolicyAssumption, KeyFacts DEF Init, OutboxInit, OutboxTypeOK, OutboxInv
<1>2. 0 \in Times /\ 0 \in 0 .. MaxJobs /\ 0 \in 0 .. Threshold
  BY NumbersAssumption DEF Times
<1>3. IncidentTypeOK
  BY <1>2 DEF Init, IncidentTypeOK, Places
<1>4. \A i \in Ids : i > 0 /\ OpenKey(i) \in AllKeys
  BY IncidentKeyFacts DEF Ids
<1>5. Numbered /\ HeldBack
  BY <1>4 DEF Init, OutboxInit, Numbered, HeldBack, Waiting, Present
<1>6. CallsInOrder
  BY DEF Init, CallsInOrder, CallInOrder, HasIncident
<1> QED
  BY <1>1, <1>3, <1>5, <1>6 DEF Inv, TypeOK, IncidentInv

\* Every step preserves the inductive invariant.
LEMMA InvStep == Inv /\ [Next]_vars => Inv'
<1> SUFFICES ASSUME Inv, [Next]_vars PROVE Inv'
  OBVIOUS
<1>1. [OutboxNext]_outboxVars
  BY UsesOutboxStep DEF Inv
<1>2. OutboxTypeOK' /\ OutboxInv'
  BY <1>1, OutboxTypeStep, OutboxInvStep DEF Inv, TypeOK
<1> QED
  BY <1>2, IncidentTypeStep, NumberedStep, CallsInOrderStep, HeldBackStep
  DEF Inv, TypeOK, IncidentInv

\* The outbox's books and the incident service's hold together in every state
\* of the composed system: the invariant the theorems below rest on.
THEOREM InvHolds == Spec => []Inv
BY InitInv, InvStep, PTL DEF Spec

\* The variables keep their types for any number of reporters and incidents.
THEOREM TypeCorrect == Spec => []TypeOK
<1>1. Inv => TypeOK
  BY DEF Inv
<1> QED
  BY <1>1, InvHolds, PTL

\* Incidents are numbered in order, the calls hold incidents of the right
\* kind, and opening notices wait out their hold.
THEOREM IncidentInvariant == Spec => []IncidentInv
<1>1. Inv => IncidentInv
  BY DEF Inv
<1> QED
  BY <1>1, InvHolds, PTL

\* The incident service uses the outbox as its publishers may, so that every
\* theorem about the outbox is a theorem about the composed system.
THEOREM IncidentsUseOutbox == Spec => UsesOutbox
<1>1. Inv /\ [Next]_vars => [OutboxNext]_outboxVars
  BY UsesOutboxStep DEF Inv
<1>2. Init => OutboxInit
  BY DEF Init
<1> QED
  BY <1>1, <1>2, InvHolds, PTL DEF Spec, UsesOutbox, OutboxSpec

\* A notice withdrawn before its hold ran out never reaches anybody: whatever
\* the reporters, the worker, restarts and lost answers do.
THEOREM WithdrawnStaysWithdrawn == Spec => []WithdrawnIsNeverDelivered
<1>1. Inv => WithdrawnIsNeverDelivered
  BY DEF Inv, IncidentInv, HeldBack, OutOfReach, WithdrawnIsNeverDelivered
<1> QED
  BY <1>1, InvHolds, PTL

\* The unique index lets at most one INSERT through.
LEMMA OneOpenStep == Inv /\ OneOpenIncident /\ [Next]_vars => OneOpenIncident'
<1> SUFFICES ASSUME IncidentTypeOK, OneOpenIncident, [Next]_vars
             PROVE  OneOpenIncident'
  BY DEF Inv, TypeOK
<1>1. ASSUME NEW r \in Reporters, InsertIncident(r)
      PROVE  OneOpenIncident'
  BY <1>1 DEF InsertIncident, tableVars, Open, OneOpenIncident, IncidentTypeOK
<1>2. ASSUME NEW r \in Reporters, CloseIncident(r)
      PROVE  OneOpenIncident'
  BY <1>2 DEF CloseIncident, OneOpenIncident, IncidentTypeOK
<1>3. ASSUME NEW r \in Reporters,
             \/ Begin(r) \/ Healthy(r) \/ Offline(r) \/ SelectOpen(r) \/ Warn(r) \/ Announce(r)
             \/ SelectToClose(r) \/ WithdrawAlarm(r) \/ AnnounceRecovery(r) \/ AbortCall(r)
             \/ \E timeout \in BOOLEAN : Fails(r, timeout)
      PROVE  UNCHANGED phase
  BY <1>3 DEF Begin, Healthy, Offline, SelectOpen, Warn, Announce, SelectToClose, WithdrawAlarm,
              AnnounceRecovery, AbortCall, Fails, tableVars
<1>4. CASE ((WorkerStep \/ AbortDrain) /\ UNCHANGED incidentVars) \/ Crash \/ ClockTick
           \/ UNCHANGED vars
  BY <1>4 DEF Crash, ClockTick, vars, incidentVars, tableVars, OneOpenIncident
<1>5. CASE UNCHANGED phase
  BY <1>5 DEF OneOpenIncident
<1> QED
  BY <1>1, <1>2, <1>3, <1>4, <1>5 DEF Next, ReporterStep

\* However many reporters find no open incident at the same time, only one
\* incident of the service is open.
THEOREM OneIncidentIsOpen == Spec => []OneOpenIncident
<1>1. Init => OneOpenIncident
  BY DEF Init, OneOpenIncident
<1> QED
  BY <1>1, OneOpenStep, InvHolds, PTL DEF Spec

\* Only the call whose UPDATE closed the incident goes on to announce it.
LEMMA RecoveryOnlyOnceStep == Inv /\ RecoveryOnlyOnce /\ [Next]_vars => RecoveryOnlyOnce'
<1> DEFINE Closing(r) == at[r] \in {"withdraw", "announce recovery"}
<1> SUFFICES ASSUME TypeOK, IncidentTypeOK, OutboxInv, IncidentInv, RecoveryOnlyOnce, [Next]_vars
             PROVE  RecoveryOnlyOnce'
  BY DEF Inv, TypeOK
<1>1. ASSUME NEW i \in Ids, phase[i] = "closed"
      PROVE  phase'[i] = "closed"
  <2>1. ~(i > opened)
    BY <1>1 DEF IncidentInv, Numbered
  <2>2. i # opened + 1
    BY <2>1, NumbersInRange
  <2>3. ASSUME NEW r \in Reporters, ReporterStep(r)
        PROVE  phase'[i] = "closed"
    BY <1>1, <2>2, <2>3, OthersStay
  <2>4. CASE ((WorkerStep \/ AbortDrain) /\ UNCHANGED incidentVars) \/ Crash \/ ClockTick
             \/ UNCHANGED vars
    BY <1>1, <2>4 DEF Crash, ClockTick, vars, incidentVars, tableVars
  <2> QED
    BY <2>3, <2>4 DEF Next
<1>2. ASSUME NEW i \in Ids, Present(CloseKey(i))'
      PROVE  phase'[i] = "closed"
  <2>1. CASE Present(CloseKey(i))
    BY <1>1, <2>1 DEF RecoveryOnlyOnce
  <2>2. CASE ~Present(CloseKey(i))
    <3>1. PICK r \in Reporters : AnnounceRecovery(r) /\ inHand[r] = i
      BY <1>2, <2>2, RowsOfIncidents
    <3>2. phase[i] = "closed"
      BY <3>1 DEF AnnounceRecovery, IncidentInv, CallsInOrder, CallInOrder
    <3> QED
      BY <1>1, <3>2
  <2> QED
    BY <2>1, <2>2
<1>3. ASSUME NEW r \in Reporters, NEW s \in Reporters, Closing(r)', Closing(s)',
             inHand'[r] = inHand'[s]
      PROVE  r = s
  <2>1. ASSUME NEW q \in Reporters, CloseIncident(q), Closing(q)',
               NEW p \in Reporters, p # q, Closing(p)
        PROVE  inHand[p] # inHand[q]
    <3>1. inHand[q] \in Ids /\ phase[inHand[q]] = "open"
      BY <2>1, InHandFacts DEF CloseIncident, GoTo, HasIncident, IncidentTypeOK
    <3>2. phase[inHand[p]] = "closed"
      BY <2>1 DEF IncidentInv, CallsInOrder, CallInOrder
    <3> QED
      BY <3>1, <3>2
  <2>2. ASSUME NEW q \in Reporters, ReporterStep(q)
        PROVE  /\ \A p \in Reporters \ {q} :
                    (Closing(p)' <=> Closing(p)) /\ inHand'[p] = inHand[p]
               /\ Closing(q)' => inHand'[q] = inHand[q] /\ (Closing(q) \/ CloseIncident(q))
    <3>1. \A p \in Reporters \ {q} : (Closing(p)' <=> Closing(p)) /\ inHand'[p] = inHand[p]
      BY <2>2, OthersStay
    <3>2. ASSUME CloseIncident(q) PROVE inHand'[q] = inHand[q]
      BY <3>2 DEF CloseIncident
    <3>3. ASSUME WithdrawAlarm(q) PROVE inHand'[q] = inHand[q] /\ Closing(q)
      BY <3>3 DEF WithdrawAlarm
    <3>4. ASSUME \/ Begin(q) \/ Healthy(q) \/ Offline(q) \/ SelectOpen(q) \/ Warn(q)
                 \/ InsertIncident(q) \/ Announce(q) \/ SelectToClose(q)
                 \/ AnnounceRecovery(q) \/ AbortCall(q)
                 \/ \E timeout \in BOOLEAN : Fails(q, timeout)
          PROVE  ~Closing(q)'
      <4>1. ASSUME NEW timeout \in BOOLEAN, Fails(q, timeout)
            PROVE  ~Closing(q)'
        BY <4>1 DEF Fails, GoTo, IncidentTypeOK
      <4>2. CASE InsertIncident(q)
        BY <4>2 DEF InsertIncident, GoTo, IncidentTypeOK
      <4>3. CASE Begin(q) \/ Healthy(q) \/ Offline(q) \/ SelectOpen(q) \/ SelectToClose(q)
        BY <4>3 DEF Begin, Healthy, Offline, SelectOpen, SelectToClose, GoTo, IncidentTypeOK
      <4>4. CASE Warn(q) \/ Announce(q) \/ AnnounceRecovery(q) \/ AbortCall(q)
        BY <4>4 DEF Warn, Announce, AnnounceRecovery, AbortCall, GoTo, IncidentTypeOK
      <4> QED
        BY <3>4, <4>1, <4>2, <4>3, <4>4
    <3> QED
      BY <2>2, <3>1, <3>2, <3>3, <3>4 DEF ReporterStep
  <2>3. ASSUME NEW q \in Reporters, ReporterStep(q)
        PROVE  r = s
    <3>1. CASE r # q /\ s # q
      <4>1. Closing(r) /\ Closing(s) /\ inHand[r] = inHand[s]
        BY <1>3, <2>2, <2>3, <3>1
      <4> QED
        BY <4>1 DEF RecoveryOnlyOnce
    <3>2. ASSUME NEW p \in Reporters, p # q, Closing(p)', Closing(q)', inHand'[p] = inHand'[q]
          PROVE  FALSE
      <4>1. Closing(p) /\ inHand'[p] = inHand[p] /\ inHand'[q] = inHand[q]
        BY <2>2, <2>3, <3>2
      <4>2. CASE Closing(q)
        BY <3>2, <4>1, <4>2 DEF RecoveryOnlyOnce
      <4>3. CASE CloseIncident(q)
        BY <2>1, <3>2, <4>1, <4>3
      <4> QED
        BY <2>2, <2>3, <3>2, <4>2, <4>3
    <3> QED
      BY <1>3, <3>1, <3>2
  <2>4. CASE Crash
    BY <1>3, <2>4 DEF Crash
  <2>5. CASE ((WorkerStep \/ AbortDrain) /\ UNCHANGED incidentVars) \/ ClockTick \/ UNCHANGED vars
    <3>1. UNCHANGED <<at, inHand>>
      BY <2>5 DEF ClockTick, vars, incidentVars, callVars
    <3> QED
      BY <1>3, <3>1 DEF RecoveryOnlyOnce
  <2> QED
    BY <2>3, <2>4, <2>5 DEF Next
<1> QED
  BY <1>2, <1>3 DEF RecoveryOnlyOnce

\* A closed incident has one recovery notice, queued by the one call that
\* closed it; no other incident has any.
THEOREM OneRecoveryNotice == Spec => []RecoveryOnlyOnce
<1>1. Init => RecoveryOnlyOnce
  <2>1. \A i \in Ids : CloseKey(i) \in AllKeys
    BY IncidentKeyFacts
  <2> QED
    BY <2>1 DEF Init, OutboxInit, RecoveryOnlyOnce, Present
<1> QED
  BY <1>1, RecoveryOnlyOnceStep, InvHolds, PTL DEF Spec, Inv

\* A notice that is owed stays owed until it is queued or a fault takes it.
LEMMA NoSilentStep == Inv /\ NoSilentIncident /\ [Next]_vars => NoSilentIncident'
<1> DEFINE Announcing(r, i) == at[r] = "announce" /\ inHand[r] = i
           Closing(r, i) == at[r] \in {"withdraw", "announce recovery"} /\ inHand[r] = i
           Told(i) == \/ Present(OpenKey(i)) \/ OpenKey(i) \in dropped
                      \/ \E r \in Reporters : Announcing(r, i)
           ToldOver(i) == \/ Present(CloseKey(i)) \/ CloseKey(i) \in dropped
                          \/ \E r \in Reporters : Closing(r, i)
<1> SUFFICES ASSUME TypeOK, OutboxTypeOK, IncidentTypeOK, OutboxInv, IncidentInv,
                    NoSilentIncident, [Next]_vars, Notify,
                    NEW i \in 1 .. opened'
             PROVE  Told(i)' /\ (phase'[i] = "closed" => ToldOver(i)')
  BY DEF Inv, TypeOK, NoSilentIncident
<1>0. opened' \in Nat /\ i \in Ids
  <2>1. opened' \in 0 .. MaxJobs
    BY IncidentTypeStep DEF IncidentTypeOK
  <2> QED
    BY <2>1, NumbersAssumption DEF Ids
<1>1. dropped \subseteq dropped'
  BY DEF Next, ReporterStep, Begin, Healthy, Offline, Fails, Warn, SelectOpen, InsertIncident,
         Announce, SelectToClose, CloseIncident, WithdrawAlarm, AnnounceRecovery, AbortCall,
         Crash, ClockTick, vars, incidentVars
<1>2. /\ Present(OpenKey(i)) => Present(OpenKey(i))'
      /\ Present(CloseKey(i)) => Present(CloseKey(i))'
  BY <1>0, RowsOfIncidents
\* A call that was to announce either still is, or has, or its end is recorded.
<1>3. ASSUME NEW r \in Reporters, Announcing(r, i)
      PROVE  Told(i)'
  <2>1. OpenKey(i) \in AllKeys /\ IsMail(OpenKey(i))
    BY <1>0, IncidentKeyFacts
  <2>2. CASE Announce(r)
    BY <1>3, <2>1, <2>2, PublishEffect DEF Announce, Present
  <2>3. CASE AbortCall(r) \/ Crash
    BY <1>3, <2>3 DEF AbortCall, Crash, Owed
  <2>4. ASSUME NEW q \in Reporters, ReporterStep(q), q # r
        PROVE  Announcing(r, i)'
    BY <1>3, <2>4, OthersStay
  <2>5. ASSUME ReporterStep(r), ~Announce(r), ~AbortCall(r)
        PROVE  FALSE
    BY <1>3, <2>5 DEF ReporterStep, Begin, Healthy, Offline, Fails, Warn, SelectOpen,
       InsertIncident, SelectToClose, CloseIncident, WithdrawAlarm, AnnounceRecovery
  <2>6. CASE ((WorkerStep \/ AbortDrain) /\ UNCHANGED incidentVars) \/ ClockTick \/ UNCHANGED vars
    BY <1>3, <2>6 DEF ClockTick, vars, incidentVars, callVars
  <2> QED
    BY <2>2, <2>3, <2>4, <2>5, <2>6 DEF Next
<1>4. ASSUME NEW r \in Reporters, Closing(r, i)
      PROVE  ToldOver(i)'
  <2>1. CloseKey(i) \in AllKeys /\ IsMail(CloseKey(i))
    BY <1>0, IncidentKeyFacts
  <2>2. CASE AnnounceRecovery(r)
    BY <1>4, <2>1, <2>2, PublishEffect DEF AnnounceRecovery, Present
  <2>3. CASE AbortCall(r) \/ Crash
    BY <1>4, <2>3 DEF AbortCall, Crash, Owed
  <2>4. CASE WithdrawAlarm(r)
    BY <1>4, <2>4 DEF WithdrawAlarm, GoTo, callVars, IncidentTypeOK
  <2>5. ASSUME NEW q \in Reporters, ReporterStep(q), q # r
        PROVE  Closing(r, i)'
    BY <1>4, <2>5, OthersStay
  <2>6. ASSUME ReporterStep(r), ~AnnounceRecovery(r), ~AbortCall(r), ~WithdrawAlarm(r)
        PROVE  FALSE
    BY <1>4, <2>6 DEF ReporterStep, Begin, Healthy, Offline, Fails, Warn, SelectOpen,
       InsertIncident, Announce, SelectToClose, CloseIncident
  <2>7. CASE ((WorkerStep \/ AbortDrain) /\ UNCHANGED incidentVars) \/ ClockTick \/ UNCHANGED vars
    BY <1>4, <2>7 DEF ClockTick, vars, incidentVars, callVars
  <2> QED
    BY <2>2, <2>3, <2>4, <2>5, <2>6, <2>7 DEF Next
<1>5. CASE \E r \in Reporters : InsertIncident(r) /\ Open = {}
  <2>1. PICK r \in Reporters : InsertIncident(r) /\ Open = {}
    BY <1>5
  <2>2. /\ opened' = opened + 1 /\ inHand'[r] = opened' /\ at'[r] = "announce"
        /\ phase' = [phase EXCEPT ![opened'] = "open"]
    BY <2>1 DEF InsertIncident, GoTo, IncidentTypeOK
  <2>3. CASE i = opened'
    BY <1>0, <2>2, <2>3 DEF IncidentTypeOK
  <2>4. CASE i # opened'
    <3>1. i \in 1 .. opened
      BY <1>0, <2>2, <2>4, NumbersInRange
    <3>2. phase'[i] = phase[i]
      BY <1>0, <2>2, <2>4 DEF IncidentTypeOK
    <3> QED
      BY <1>1, <1>2, <1>3, <1>4, <3>1, <3>2 DEF NoSilentIncident
  <2> QED
    BY <2>3, <2>4
<1>6. CASE \E r \in Reporters : CloseIncident(r) /\ phase[inHand[r]] = "open"
  <2>1. PICK r \in Reporters : CloseIncident(r) /\ phase[inHand[r]] = "open"
    BY <1>6
  <2>2. /\ opened' = opened /\ inHand' = inHand
        /\ at'[r] \in {"withdraw", "announce recovery"}
        /\ phase' = [phase EXCEPT ![inHand[r]] = "closed"]
    BY <2>1 DEF CloseIncident, GoTo, IncidentTypeOK
  <2>3. CASE i = inHand[r]
    BY <1>1, <1>2, <1>3, <2>2, <2>3 DEF NoSilentIncident
  <2>4. CASE i # inHand[r]
    <3>1. phase'[i] = phase[i]
      BY <1>0, <2>2, <2>4 DEF IncidentTypeOK
    <3> QED
      BY <1>1, <1>2, <1>3, <1>4, <2>2, <3>1 DEF NoSilentIncident
  <2> QED
    BY <2>3, <2>4
<1>7. CASE UNCHANGED <<phase, opened>>
  BY <1>1, <1>2, <1>3, <1>4, <1>7 DEF NoSilentIncident
<1>8. ASSUME NEW r \in Reporters,
             \/ Begin(r) \/ Healthy(r) \/ Offline(r) \/ SelectOpen(r) \/ Warn(r) \/ Announce(r)
             \/ InsertIncident(r) /\ Open # {}
             \/ CloseIncident(r) /\ phase[inHand[r]] # "open"
             \/ SelectToClose(r) \/ WithdrawAlarm(r) \/ AnnounceRecovery(r) \/ AbortCall(r)
             \/ \E timeout \in BOOLEAN : Fails(r, timeout)
      PROVE  UNCHANGED <<phase, opened>>
  BY <1>8 DEF Begin, Healthy, Offline, SelectOpen, Warn, Announce, InsertIncident, CloseIncident,
              SelectToClose, WithdrawAlarm, AnnounceRecovery, AbortCall, Fails, tableVars
<1>9. CASE ((WorkerStep \/ AbortDrain) /\ UNCHANGED incidentVars) \/ Crash \/ ClockTick
           \/ UNCHANGED vars
  <2>1. UNCHANGED <<phase, opened>>
    BY <1>9 DEF Crash, ClockTick, vars, incidentVars, tableVars
  <2> QED
    BY <1>7, <2>1
<1> QED
  BY <1>5, <1>6, <1>7, <1>8, <1>9 DEF Next, ReporterStep

\* Every incident is announced, and its end too, unless a fault or the policy
\* kept the notice out of the outbox: no interleaving of reporters loses one.
THEOREM NoIncidentIsSilent == Spec => []NoSilentIncident
<1>1. Init => NoSilentIncident
  BY DEF Init, NoSilentIncident
<1> QED
  BY <1>1, NoSilentStep, InvHolds, PTL DEF Spec, Inv

-----------------------------------------------------------------------------
\* At most one incident is open and each is closed once, with one recovery
\* notice, however many reporters judge the service at once.
THEOREM IncidentsOneAtATime == Spec => []OneAtATime
BY OneIncidentIsOpen, OneRecoveryNotice, PTL DEF OneAtATime

=============================================================================
