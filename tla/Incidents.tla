----------------------------- MODULE Incidents -----------------------------
(***************************************************************************)
(* The life of the incidents of one monitored service of one instance      *)
(* (services/incident_service.py over table incidents), and the alarms it  *)
(* queues in the outbox, whose worker this module includes.                *)
(*                                                                         *)
(* Three kinds of reporters run at the same time: a health probe with its  *)
(* failure counter (services/health_monitor.py), webhook handlers          *)
(* (services/event_processor.py) and the reconciliation loop.  Each call   *)
(* of report_down or report_healthy is a series of awaits; every await is  *)
(* a point where the others run, where the process may be killed and where *)
(* an sqlite error may end the call.                                       *)
(***************************************************************************)
EXTENDS Outbox

CONSTANTS
  Monitors,     \* health probes of the service
  Hooks,        \* webhook handlers: bot_offline or any live event
  Reconcilers,  \* reconciliation loops: they only ever report healthy
  Threshold,    \* failure_threshold
  EmailDelay,   \* incident_email_delay_seconds
  Notify,       \* notify_failures
  MaxJobs,      \* bound: samples and events taken
  MaxTime,      \* bound: the clock
  MaxAborts,    \* bound: calls ended by an exception
  NoTime

Reporters == Monitors \cup Hooks \cup Reconcilers
Ids == 1 .. MaxJobs
Times == 0 .. MaxTime

OpenKey(i)  == <<"incident-open", i>>
CloseKey(i) == <<"incident-close", i>>
WarnKey(t)  == <<"probe-warning", t>>

ASSUME ReportersAssumption ==
  /\ Monitors \cap Hooks = {}
  /\ Reconcilers \cap (Monitors \cup Hooks) = {}
ASSUME SettingsAssumption == Notify \in BOOLEAN /\ NoTime \notin Nat
ASSUME NumbersAssumption ==
  /\ Threshold \in Nat \ {0}
  /\ EmailDelay \in Nat
  /\ MaxJobs \in Nat
  /\ MaxTime \in Nat
  /\ MaxAborts \in Nat
ASSUME IncidentKeysAssumption ==
  /\ \A i \in Ids : OpenKey(i) \in CriticalKeys
  /\ \A i \in Ids : CloseKey(i) \in Keys \ (CriticalKeys \cup QQKeys)
  /\ \A t \in Times : WarnKey(t) \in Keys \ (CriticalKeys \cup QQKeys)
ASSUME HoldsAssumption == 0 .. EmailDelay \subseteq Holds

VARIABLES
  now,
  jobs,        \* samples and events taken so far (bound)
  aborts,      \* calls ended by an exception so far (bound)
  opened,      \* incidents inserted so far; they are 1 .. opened
  phase,       \* Ids -> "none" | "open" | "closed"
  startedAt, failedAt, recoveredAt,   \* columns of the row
  at,          \* Reporters -> the await the call stands at
  checkedAt,   \* Reporters -> time of the sample or event in hand
  inHand,      \* Reporters -> incident the call has opened or closed
  streak,      \* Monitors -> _consecutive_failures, kept up to Threshold
  first,       \* Monitors -> _first_failed_at
  dropped,     \* history: notices a fault or the policy kept out of the outbox
  early        \* history: Ids -> was it withdrawn before the hold ran out, and
               \* was the opening notice in the outbox by then

tableVars    == <<opened, phase, startedAt, failedAt, recoveredAt>>
callVars     == <<at, checkedAt, inHand>>
probeVars    == <<streak, first>>
incidentVars == <<now, jobs, aborts, tableVars, callVars, probeVars, dropped, early>>
vars         == <<outboxVars, incidentVars>>

GoTo(r, place) == at' = [at EXCEPT ![r] = place]

\* SELECT id FROM incidents WHERE ... recovered_at IS NULL
Open == {i \in Ids : phase[i] = "open"}

-----------------------------------------------------------------------------
(* Where samples and events come from. *)

\* A probe, an event or a reconciliation: its time is taken now, its result
\* comes later.
Begin(r) ==
  /\ at[r] = "idle"
  /\ jobs < MaxJobs
  /\ jobs' = jobs + 1
  /\ checkedAt' = [checkedAt EXCEPT ![r] = now]
  /\ GoTo(r, "begun")
  /\ UNCHANGED <<outboxVars, now, aborts, tableVars, inHand, probeVars, dropped, early>>

\* The probe answers, a live event arrives, get_group_list answers.
Healthy(r) ==
  /\ at[r] = "begun"
  /\ IF r \in Monitors
     THEN /\ streak' = [streak EXCEPT ![r] = 0]
          /\ first' = [first EXCEPT ![r] = NoTime]
     ELSE UNCHANGED probeVars
  /\ GoTo(r, "select open to close")
  /\ UNCHANGED <<outboxVars, now, jobs, aborts, tableVars, checkedAt, inHand, dropped, early>>

\* The probe fails: below the threshold only a sample is recorded; from there
\* on the failure is reported, a mere timeout of a read as a warning.
Fails(r, timeout) ==
  /\ at[r] = "begun"
  /\ r \in Monitors
  /\ streak' = [streak EXCEPT ![r] = IF @ < Threshold THEN @ + 1 ELSE @]
  /\ first' = [first EXCEPT ![r] = IF @ = NoTime THEN checkedAt[r] ELSE @]
  /\ GoTo(r, IF streak'[r] < Threshold THEN "idle"
             ELSE IF timeout THEN "warn" ELSE "select open")
  /\ UNCHANGED <<outboxVars, now, jobs, aborts, tableVars, checkedAt, inHand, dropped, early>>

\* bot_offline arrives.
Offline(r) ==
  /\ at[r] = "begun"
  /\ r \in Hooks
  /\ GoTo(r, "select open")
  /\ UNCHANGED <<outboxVars, now, jobs, aborts, tableVars, checkedAt, inHand, probeVars,
                 dropped, early>>

-----------------------------------------------------------------------------
(* report_down *)

\* An unconfirmed timeout is published, if at all, and opens nothing.
Warn(r) ==
  /\ at[r] = "warn"
  /\ IF Notify THEN Publish(WarnKey(first[r]), 0) ELSE UNCHANGED rowVars
  /\ GoTo(r, "idle")
  /\ UNCHANGED <<workerVars, policy, history, now, jobs, aborts, tableVars, checkedAt, inHand,
                 probeVars, dropped, early>>

SelectOpen(r) ==
  /\ at[r] = "select open"
  /\ GoTo(r, IF Open = {} THEN "insert" ELSE "idle")
  /\ UNCHANGED <<outboxVars, now, jobs, aborts, tableVars, checkedAt, inHand, probeVars,
                 dropped, early>>

\* Mutation: an INSERT without the unique index.
InsertIncidentUnindexed(r) ==
  /\ at[r] = "insert"
  /\ opened < MaxJobs
  /\ opened' = opened + 1
  /\ phase' = [phase EXCEPT ![opened'] = "open"]
  /\ startedAt' = [startedAt EXCEPT ![opened'] = checkedAt[r]]
  /\ failedAt' = [failedAt EXCEPT ![opened'] = checkedAt[r]]
  /\ inHand' = [inHand EXCEPT ![r] = opened']
  /\ GoTo(r, "announce")
  /\ UNCHANGED <<outboxVars, now, jobs, aborts, recoveredAt, checkedAt, probeVars, dropped, early>>

\* INSERT OR IGNORE under the unique index on open incidents: the call that
\* comes second gets no row.
InsertIncident(r) ==
  /\ at[r] = "insert"
  /\ IF Open = {}
     THEN /\ opened < MaxJobs
          /\ opened' = opened + 1
          /\ phase' = [phase EXCEPT ![opened'] = "open"]
          /\ startedAt' = [startedAt EXCEPT ![opened'] = checkedAt[r]]
          /\ failedAt' = [failedAt EXCEPT ![opened'] =
                            IF r \in Monitors THEN first[r] ELSE checkedAt[r]]
          /\ inHand' = [inHand EXCEPT ![r] = opened']
          /\ GoTo(r, IF Notify THEN "announce" ELSE "idle")
          /\ UNCHANGED recoveredAt
     ELSE /\ GoTo(r, "idle")
          /\ UNCHANGED <<tableVars, inHand>>
  /\ UNCHANGED <<outboxVars, now, jobs, aborts, checkedAt, probeVars, dropped, early>>

\* Mutation: an incident already closed is no longer announced.
AnnounceIfStillOpen(r) ==
  /\ at[r] = "announce"
  /\ IF phase[inHand[r]] = "open" THEN Publish(OpenKey(inHand[r]), 0) ELSE UNCHANGED rowVars
  /\ GoTo(r, "idle")
  /\ UNCHANGED <<workerVars, policy, history, now, jobs, aborts, tableVars, checkedAt, inHand,
                 probeVars, dropped, early>>

\* After the diagnostic context has been awaited: publish "incident-open", held
\* back until EmailDelay after the incident's start.
Announce(r) ==
  LET i == inHand[r]
      heldUntil == startedAt[i] + EmailDelay
  IN  /\ at[r] = "announce"
      /\ Publish(OpenKey(i), IF heldUntil > now THEN heldUntil - now ELSE 0)
      /\ dropped' = IF EmailAllowed(OpenKey(i)) THEN dropped ELSE dropped \cup {OpenKey(i)}
      /\ GoTo(r, "idle")
      /\ UNCHANGED <<workerVars, policy, history, now, jobs, aborts, tableVars, checkedAt, inHand,
                     probeVars, early>>

-----------------------------------------------------------------------------
(* report_healthy *)

SelectToClose(r) ==
  /\ at[r] = "select open to close"
  /\ IF Open = {}
     THEN GoTo(r, "idle") /\ UNCHANGED inHand
     ELSE /\ \E i \in Open : inHand' = [inHand EXCEPT ![r] = i]
          /\ GoTo(r, "close")
  /\ UNCHANGED <<outboxVars, now, jobs, aborts, tableVars, checkedAt, probeVars, dropped, early>>

\* UPDATE ... WHERE id = ? AND recovered_at IS NULL
CloseIncident(r) ==
  LET i == inHand[r]
  IN  /\ at[r] = "close"
      /\ IF phase[i] = "open"
         THEN /\ phase' = [phase EXCEPT ![i] = "closed"]
              /\ recoveredAt' = [recoveredAt EXCEPT ![i] = checkedAt[r]]
              /\ GoTo(r, IF EmailDelay > 0 THEN "withdraw" ELSE "announce recovery")
         ELSE GoTo(r, "idle") /\ UNCHANGED <<phase, recoveredAt>>
      /\ UNCHANGED <<outboxVars, now, jobs, aborts, opened, startedAt, failedAt, checkedAt, inHand,
                     probeVars, dropped, early>>

\* Mutation: the row is deleted.
WithdrawAlarmDeleting(r) ==
  /\ at[r] = "withdraw"
  /\ status' = [status EXCEPT ![OpenKey(inHand[r])] = "absent"]
  /\ GoTo(r, "announce recovery")
  /\ UNCHANGED <<attempts, wait, birth, workerVars, policy, history,
                 now, jobs, aborts, tableVars, checkedAt, inHand, probeVars, dropped, early>>

\* mark_suppressed("incident-open:...")
WithdrawAlarm(r) ==
  LET i == inHand[r]
  IN  /\ at[r] = "withdraw"
      /\ SetSuppressed(OpenKey(i))
      /\ early' = IF now < startedAt[i] + EmailDelay
                  THEN [early EXCEPT ![i] = IF Present(OpenKey(i)) THEN "withdrawn" ELSE "missed"]
                  ELSE early
      /\ GoTo(r, "announce recovery")
      /\ UNCHANGED <<attempts, wait, birth, workerVars, policy, history,
                     now, jobs, aborts, tableVars, checkedAt, inHand, probeVars, dropped>>

AnnounceRecovery(r) ==
  LET i == inHand[r]
  IN  /\ at[r] = "announce recovery"
      /\ Publish(CloseKey(i), 0)
      /\ dropped' = IF EmailAllowed(CloseKey(i)) THEN dropped ELSE dropped \cup {CloseKey(i)}
      /\ GoTo(r, "idle")
      /\ UNCHANGED <<workerVars, policy, history, now, jobs, aborts, tableVars, checkedAt, inHand,
                     probeVars, early>>

-----------------------------------------------------------------------------
(* Faults and time. *)

\* What a call that ends at place r's call leaves unpublished.
Owed(r) ==
  CASE at[r] = "announce" -> {OpenKey(inHand[r])}
    [] at[r] \in {"withdraw", "announce recovery"} -> {CloseKey(inHand[r])}
    [] OTHER -> {}

\* An exception ends the call: HealthMonitor.run and ReconciliationService.run
\* log it, the webhook answers 500.  The probe's counters stay.
AbortCall(r) ==
  /\ at[r] # "idle"
  /\ aborts < MaxAborts
  /\ aborts' = aborts + 1
  /\ dropped' = dropped \cup Owed(r)
  /\ GoTo(r, "idle")
  /\ UNCHANGED <<outboxVars, now, jobs, tableVars, checkedAt, inHand, probeVars, early>>

\* The process is killed: every call and every counter is lost with it.
Crash ==
  /\ Restart
  /\ dropped' = dropped \cup UNION {Owed(r) : r \in Reporters}
  /\ at' = [r \in Reporters |-> "idle"]
  /\ streak' = [r \in Monitors |-> 0]
  /\ first' = [r \in Monitors |-> NoTime]
  /\ UNCHANGED <<now, jobs, aborts, tableVars, checkedAt, inHand, early>>

ClockTick ==
  /\ now < MaxTime
  /\ now' = now + 1
  /\ wait' = [k \in AllKeys |-> IF wait[k] > 0 THEN wait[k] - 1 ELSE 0]
  /\ UNCHANGED <<status, attempts, birth, workerVars, policy, history,
                 jobs, aborts, tableVars, callVars, probeVars, dropped, early>>

-----------------------------------------------------------------------------
Init ==
  /\ OutboxInit
  /\ now = 0 /\ jobs = 0 /\ aborts = 0 /\ opened = 0
  /\ phase = [i \in Ids |-> "none"]
  /\ startedAt = [i \in Ids |-> NoTime]
  /\ failedAt = [i \in Ids |-> NoTime]
  /\ recoveredAt = [i \in Ids |-> NoTime]
  /\ at = [r \in Reporters |-> "idle"]
  /\ checkedAt = [r \in Reporters |-> NoTime]
  /\ inHand = [r \in Reporters |-> 0]
  /\ streak = [r \in Monitors |-> 0]
  /\ first = [r \in Monitors |-> NoTime]
  /\ dropped = {}
  /\ early = [i \in Ids |-> "no"]

ReporterStep(r) ==
  \/ Begin(r) \/ Healthy(r) \/ Offline(r)
  \/ \E timeout \in BOOLEAN : Fails(r, timeout)
  \/ Warn(r) \/ SelectOpen(r) \/ InsertIncident(r) \/ Announce(r)
  \/ SelectToClose(r) \/ CloseIncident(r) \/ WithdrawAlarm(r) \/ AnnounceRecovery(r)
  \/ AbortCall(r)

Next ==
  \/ \E r \in Reporters : ReporterStep(r)
  \/ (WorkerStep \/ AbortDrain) /\ UNCHANGED incidentVars
  \/ Crash
  \/ ClockTick

Spec == Init /\ [][Next]_vars

-----------------------------------------------------------------------------
Places == {"idle", "begun", "warn", "select open", "insert", "announce",
           "select open to close", "close", "withdraw", "announce recovery"}

IncidentTypeOK ==
  /\ now \in Times
  /\ jobs \in 0 .. MaxJobs
  /\ aborts \in Nat
  /\ opened \in 0 .. MaxJobs
  /\ phase \in [Ids -> {"none", "open", "closed"}]
  /\ startedAt \in [Ids -> Times \cup {NoTime}]
  /\ failedAt \in [Ids -> Times \cup {NoTime}]
  /\ recoveredAt \in [Ids -> Times \cup {NoTime}]
  /\ at \in [Reporters -> Places]
  /\ checkedAt \in [Reporters -> Times \cup {NoTime}]
  /\ inHand \in [Reporters -> Ids \cup {0}]
  /\ streak \in [Monitors -> 0 .. Threshold]
  /\ first \in [Monitors -> Times \cup {NoTime}]
  /\ dropped \subseteq Keys
  /\ early \in [Ids -> {"no", "withdrawn", "missed"}]

TypeOK == OutboxTypeOK /\ IncidentTypeOK

\* The service has at most one open incident, although two reporters may both
\* have found none open before either inserts (sqlite.py, open_incident).
OneOpenIncident == \A i, j \in Ids : phase[i] = "open" /\ phase[j] = "open" => i = j

\* No incident is silent: its opening notice is in the outbox, or the call
\* that opened it is about to put it there, or a fault or the policy kept it
\* out; and so for the recovery notice of a closed one.
NoSilentIncident ==
  Notify => \A i \in 1 .. opened :
    /\ \/ Present(OpenKey(i)) \/ OpenKey(i) \in dropped
       \/ \E r \in Reporters : at[r] = "announce" /\ inHand[r] = i
    /\ phase[i] = "closed" =>
       \/ Present(CloseKey(i)) \/ CloseKey(i) \in dropped
       \/ \E r \in Reporters : at[r] \in {"withdraw", "announce recovery"} /\ inHand[r] = i

\* A recovery notice is queued only for an incident that is over, and at most
\* one call works on it: two healthy reports cannot both close the same one.
RecoveryOnlyOnce ==
  /\ \A i \in Ids : Present(CloseKey(i)) => phase[i] = "closed"
  /\ \A r, s \in Reporters :
       /\ at[r] \in {"withdraw", "announce recovery"}
       /\ at[s] \in {"withdraw", "announce recovery"}
       /\ inHand[r] = inHand[s]
       => r = s

\* One incident at a time: opened once, and closed and announced once.
OneAtATime == OneOpenIncident /\ RecoveryOnlyOnce

\* An opening notice that a recovery withdrew from the outbox before its hold
\* ran out is never delivered, whatever the worker was doing meanwhile.
WithdrawnIsNeverDelivered ==
  \A i \in Ids : early[i] = "withdrawn" => delivered[OpenKey(i)] = 0

\* The worker has not delivered the notice and does not hold it.
OutOfReach(k) ==
  status[k] # "sent" /\ delivered[k] = 0 /\ k \notin batch /\ current # k

\* Incidents are numbered in order of insertion, and none has a notice before
\* it exists.
Numbered ==
  /\ \A i \in Ids : phase[i] = "none" <=> i > opened
  /\ \A i \in 1 .. opened :
       startedAt[i] \in Times /\ failedAt[i] \in Times /\ startedAt[i] <= now
  /\ \A i \in Ids : Present(OpenKey(i)) => i <= opened

HasIncident(r) == at[r] \in {"announce", "close", "withdraw", "announce recovery"}

\* A call has the time of its sample, and past its INSERT or UPDATE it holds
\* an incident of that kind.
CallInOrder(r) ==
  /\ at[r] # "idle" => checkedAt[r] \in Times /\ checkedAt[r] <= now
  /\ HasIncident(r) => inHand[r] \in 1 .. opened
  /\ at[r] \in {"withdraw", "announce recovery"} => phase[inHand[r]] = "closed"
  /\ at[r] = "announce" => Notify
  /\ at[r] = "warn" => r \in Monitors
  /\ r \in Monitors /\ at[r] \in {"warn", "select open", "insert"} => first[r] \in Times

CallsInOrder == \A r \in Reporters : CallInOrder(r)

\* Until its hold has run out an opening notice waits at least that long, out
\* of the worker's reach, and stays there once withdrawn.
Waiting(i) == Present(OpenKey(i)) /\ now < startedAt[i] + EmailDelay

HeldBack ==
  \A i \in Ids :
    /\ Waiting(i) =>
         now + wait[OpenKey(i)] >= startedAt[i] + EmailDelay /\ OutOfReach(OpenKey(i))
    /\ early[i] = "withdrawn" => status[OpenKey(i)] = "suppressed" /\ OutOfReach(OpenKey(i))

\* What makes the four invariants above inductive.
IncidentInv == Numbered /\ CallsInOrder /\ HeldBack

\* The incident service uses the outbox as its publishers may: it queues only
\* its own keys, holds back and withdraws only opening notices.
UsesOutbox == OutboxSpec

-----------------------------------------------------------------------------
(* What a document says and a race refutes. *)

\* AC-02: the recovery notice states how long the failure lasted, so what
\* proves the recovery is not older than the failure.
RecoveryFollowsFailure ==
  \A i \in Ids : phase[i] = "closed" => recoveredAt[i] >= failedAt[i]

=============================================================================
