---------------------------- MODULE LinkMonitor ----------------------------
(***************************************************************************)
(* The monitor of SealDice's journal (services/sealdice_log_monitor.py):   *)
(* failures of the link between SealDice and Milky are counted in a        *)
(* sliding window per connection, matched by the port of the failed POST,  *)
(* or in one window for all lines that name no known port.                 *)
(*                                                                         *)
(* Only this task reports service sealdice_link, for each scope through    *)
(* its own IncidentService (app.py, build_monitors), so a report is one    *)
(* step here; its inside is in Incidents.  Journal records carry their     *)
(* original time and come in order; what classify_log_line makes of a line *)
(* is the input of process_line.                                           *)
(***************************************************************************)
EXTENDS Naturals, Sequences, FiniteSets, FiniteSetsExt

CONSTANTS
  Connections,  \* connections whose port is known (connection_incidents)
  General,      \* the scope <target>/link-general
  Callbacks,    \* are there reply_api_completed lines, as plugins before 0.7.1 wrote
  Threshold,    \* log_failure_threshold
  Window,       \* log_failure_window_seconds
  MaxTime,      \* bound: the clock
  MaxLines,     \* bound: failure lines
  MaxLinkFaults \* bound: crashes and reports that raise

Scopes == Connections \cup {General}

ASSUME ScopesAssumption == General \notin Connections /\ Callbacks \in BOOLEAN
ASSUME LinkNumbersAssumption ==
  /\ Threshold \in Nat \ {0} /\ Window \in Nat \ {0}
  /\ MaxTime \in Nat /\ MaxLines \in Nat /\ MaxLinkFaults \in Nat

VARIABLES
  time,
  up,          \* Connections -> does the link work (the world)
  reading,     \* journalctl runs; while it does not, lines are lost
  failures,    \* Scopes -> deque of failure times
  open,        \* Scopes -> has the scope an open sealdice_link incident
  firstAt,     \* Scopes -> first_failed_at it was opened with
  lines,       \* failure lines read so far (bound)
  faults,      \* crashes and raised reports so far (bound)
  log,         \* history: Scopes -> times of the failures since the last reset
  opening,     \* history: Scopes -> [sure, log, at] at the opening of the incident
  unreported   \* history: scopes whose last report raised

monitorVars == <<reading, failures>>
storeVars   == <<open, firstAt>>
historyVars == <<log, opening, unreported>>
linkVars == <<time, up, monitorVars, storeVars, lines, faults, historyVars>>

\* Mutation: nothing leaves the window.
PruneNothing(times, cutoff) == times

\* while failures and failures[0] < cutoff: failures.popleft()
Prune(times, cutoff) ==
  LET keep == {n \in DOMAIN times : times[n] >= cutoff}
  IN  IF keep = {} THEN <<>> ELSE SubSeq(times, Min(keep), Len(times))

Cutoff == IF time > Window THEN time - Window ELSE 0

\* report_down of the scope's IncidentService; an open incident stays.
ReportDown(s, sure) ==
  IF open[s]
  THEN UNCHANGED <<storeVars, opening>>
  ELSE /\ open' = [open EXCEPT ![s] = TRUE]
       /\ firstAt' = [firstAt EXCEPT ![s] = Head(failures'[s])]
       /\ opening' = [opening EXCEPT ![s] = [sure |-> sure, log |-> log'[s], at |-> time]]

Heal(s) ==
  /\ open' = [open EXCEPT ![s] = FALSE]
  /\ UNCHANGED firstAt

\* Mutation: the deque is kept.
ForgetNothing(s) ==
  /\ UNCHANGED failures
  /\ log' = [log EXCEPT ![s] = <<>>]
  /\ unreported' = unreported \ {s}

\* The window of a scope starts anew.
Forget(s) ==
  /\ failures' = [failures EXCEPT ![s] = <<>>]
  /\ log' = [log EXCEPT ![s] = <<>>]
  /\ unreported' = unreported \ {s}

-----------------------------------------------------------------------------
(* process_line *)

\* Mutation: failures of one port are counted with those of all.
CountFailureTogether(s) ==
  /\ reading
  /\ lines < MaxLines
  /\ lines' = lines + 1
  /\ s \in Connections => ~up[s]
  /\ failures' = [x \in Scopes |-> Append(Prune(failures[x], Cutoff), time)]
  /\ log' = [log EXCEPT ![s] = Append(@, time)]

CountFailure(s) ==
  /\ reading
  /\ lines < MaxLines
  /\ lines' = lines + 1
  /\ s \in Connections => ~up[s]
  /\ failures' = [failures EXCEPT ![s] = Append(Prune(@, Cutoff), time)]
  /\ log' = [log EXCEPT ![s] = Append(@, time)]

Confirmed(s, sure) == sure \/ Len(failures'[s]) >= Threshold

\* A failure line; sure for those that state the disconnection.
FailureLine(s, sure) ==
  /\ CountFailure(s)
  /\ IF Confirmed(s, sure) THEN ReportDown(s, sure) ELSE UNCHANGED <<storeVars, opening>>
  /\ unreported' = unreported \ {s}
  /\ UNCHANGED <<time, up, reading, faults>>

\* The report or the sample raises: run() ends journalctl and starts another
\* one later.
ReportRaises(s, sure) ==
  /\ CountFailure(s)
  /\ faults < MaxLinkFaults
  /\ faults' = faults + 1
  /\ reading' = FALSE
  /\ unreported' = IF Confirmed(s, sure) THEN unreported \cup {s} ELSE unreported \ {s}
  /\ UNCHANGED <<time, up, storeVars, opening>>

\* A line says that Milky is connected again: it names no port.
RecoveryLine ==
  /\ reading
  /\ \E c \in Connections : up[c]
  /\ Forget(General)
  /\ Heal(General)
  /\ UNCHANGED <<time, up, reading, lines, faults, opening>>

\* A reply_api_completed of the connection's account.
ReplyCompleted(c) ==
  /\ reading
  /\ Callbacks
  /\ up[c]
  /\ Forget(c)
  /\ Heal(c)
  /\ UNCHANGED <<time, up, reading, lines, faults, opening>>

\* The window is already cleared when report_healthy raises.
HealRaises(s) ==
  /\ reading
  /\ faults < MaxLinkFaults
  /\ faults' = faults + 1
  /\ IF s = General THEN \E c \in Connections : up[c] ELSE Callbacks /\ up[s]
  /\ Forget(s)
  /\ reading' = FALSE
  /\ UNCHANGED <<time, up, storeVars, lines, opening>>

-----------------------------------------------------------------------------
StartJournal ==
  /\ ~reading
  /\ reading' = TRUE
  /\ UNCHANGED <<time, up, failures, storeVars, lines, faults, historyVars>>

\* The process is killed; incidents are in the database.
Crash ==
  /\ faults < MaxLinkFaults
  /\ faults' = faults + 1
  /\ reading' = FALSE
  /\ failures' = [s \in Scopes |-> <<>>]
  /\ log' = [s \in Scopes |-> <<>>]
  /\ unreported' = {}
  /\ UNCHANGED <<time, up, storeVars, lines, opening>>

Flip(c) ==
  /\ up' = [up EXCEPT ![c] = ~@]
  /\ UNCHANGED <<time, monitorVars, storeVars, lines, faults, historyVars>>

Tick ==
  /\ time < MaxTime
  /\ time' = time + 1
  /\ UNCHANGED <<up, monitorVars, storeVars, lines, faults, historyVars>>

-----------------------------------------------------------------------------
NoOpening == [sure |-> FALSE, log |-> <<>>, at |-> 0]

LinkInit ==
  /\ time = 0 /\ lines = 0 /\ faults = 0
  /\ up = [c \in Connections |-> TRUE]
  /\ reading = FALSE
  /\ failures = [s \in Scopes |-> <<>>]
  /\ open = [s \in Scopes |-> FALSE]
  /\ firstAt = [s \in Scopes |-> 0]
  /\ log = [s \in Scopes |-> <<>>]
  /\ opening = [s \in Scopes |-> NoOpening]
  /\ unreported = {}

LinkNext ==
  \/ \E s \in Scopes, sure \in BOOLEAN : FailureLine(s, sure) \/ ReportRaises(s, sure)
  \/ \E s \in Scopes : HealRaises(s)
  \/ RecoveryLine
  \/ \E c \in Connections : ReplyCompleted(c) \/ Flip(c)
  \/ StartJournal
  \/ Crash
  \/ Tick

LinkSpec == LinkInit /\ [][LinkNext]_linkVars

-----------------------------------------------------------------------------
LinkTypeOK ==
  /\ time \in 0 .. MaxTime /\ lines \in 0 .. MaxLines /\ faults \in 0 .. MaxLinkFaults
  /\ up \in [Connections -> BOOLEAN]
  /\ reading \in BOOLEAN
  /\ failures \in [Scopes -> Seq(0 .. MaxTime)]
  /\ open \in [Scopes -> BOOLEAN]
  /\ firstAt \in [Scopes -> 0 .. MaxTime]
  /\ log \in [Scopes -> Seq(0 .. MaxTime)]
  /\ \A s \in Scopes : Len(failures[s]) <= Len(log[s])
  /\ unreported \subseteq Scopes

\* Positions of the failures in a log no older than the window.
InWindow(times, at) == {n \in DOMAIN times : times[n] + Window >= at}

\* An incident that no definitive line opened rests on Threshold failures of
\* its own scope, all since the scope was last known good and within one
\* window: what the deque has dropped, mixed up or failed to drop shows here.
AlarmIsEarned ==
  \A s \in Scopes :
    open[s] /\ ~opening[s].sure =>
      Cardinality(InWindow(opening[s].log, opening[s].at)) >= Threshold

\* The start of the outage, from which the notice computes its length, is the
\* oldest failure in the window that led to the incident.
StartIsOldestCounted ==
  \A s \in Scopes :
    open[s] => firstAt[s] = opening[s].log[Min(InWindow(opening[s].log, opening[s].at))]

\* An alarm states what happened.
AlarmIsSound == AlarmIsEarned /\ StartIsOldestCounted

\* A burst is never forgotten: when a window holds enough failures, the scope
\* has an incident, unless its report raised and no line came since.
BurstRaisesAlarm ==
  \A s \in Scopes : Len(failures[s]) >= Threshold => open[s] \/ s \in unreported

=============================================================================
