---------------------------- MODULE DailyReport ----------------------------
(***************************************************************************)
(* Token usage: a chat plugin reports each call of the model to the        *)
(* webhook, now or later, once or again; the table keeps one row for each  *)
(* request; and a worker mails the usage of the day before, once the       *)
(* report time has passed (services/token_usage_reporter.py).              *)
(*                                                                         *)
(* A day has two halves, before and after the report time.  Rows are       *)
(* compared as text, so a time stated with the local offset may fall into  *)
(* the next day.                                                           *)
(***************************************************************************)
EXTENDS Integers

CONSTANTS
  Requests,    \* calls of the model
  LastHalf     \* bound: the clock stops there

ASSUME ClockAssumption == LastHalf \in Nat

VARIABLES
  now,         \* half days
  filed,       \* day under which usage_by_group finds a request, or -1
  rows,        \* token_usage: rows of a request
  late,        \* history: requests first stored after their report's time
  rAt,         \* where the reporter is
  today,       \* the day of scheduled_today
  groups,      \* what usage_by_group returned: rows of each request
  wake,        \* next_run
  reports,     \* the mail queued for a day: rows of each request, or none
  excused      \* history: days after which the reporter never came to rest

usageVars    == <<filed, rows, late>>
reporterVars == <<rAt, today, groups, wake>>
reportVars   == <<now, usageVars, reporterVars, reports, excused>>

Days == 0 .. LastHalf
Day(half) == half \div 2
ReportTime(day) == 2 * day + 1

NoRows == [r \in Requests |-> 0]

\* A member calls the model.  The plugin states the time in UTC, or else with
\* another offset: then the row may fall into the next day.
Call(r) ==
  /\ filed[r] = -1
  /\ \E day \in {Day(now), Day(now) + 1} : filed' = [filed EXCEPT ![r] = day]
  /\ UNCHANGED <<now, rows, late, reporterVars, reports, excused>>

\* Mutation: no unique index.
RecordAgain(r) ==
  /\ filed[r] >= 0 /\ rows[r] < 2
  /\ rows' = [rows EXCEPT ![r] = @ + 1]
  /\ late' = IF rows[r] = 0 /\ now >= ReportTime(filed[r] + 1) THEN late \cup {r} ELSE late
  /\ UNCHANGED <<now, filed, reporterVars, reports, excused>>

\* record(): INSERT OR IGNORE under provider and request_id.
Record(r) ==
  /\ filed[r] >= 0
  /\ rows' = [rows EXCEPT ![r] = 1]
  /\ late' = IF rows[r] = 0 /\ now >= ReportTime(filed[r] + 1) THEN late \cup {r} ELSE late
  /\ UNCHANGED <<now, filed, reporterVars, reports, excused>>

-----------------------------------------------------------------------------
(* run() and publish_for().                                                *)

Rest(half) == rAt' = "sleep" /\ wake' = half

\* Mutation: a worker started after the report time waits for tomorrow's.
CheckTimeTomorrow ==
  /\ rAt = "check"
  /\ today' = Day(now)
  /\ IF now < ReportTime(Day(now)) THEN Rest(ReportTime(Day(now)))
     ELSE IF wake > 0 THEN rAt' = "query" /\ UNCHANGED wake
     ELSE Rest(ReportTime(Day(now) + 1))
  /\ UNCHANGED <<now, usageVars, groups, reports, excused>>

\* The report time has passed: publish for yesterday; else sleep until then.
CheckTime ==
  /\ rAt = "check"
  /\ today' = Day(now)
  /\ IF now >= ReportTime(Day(now))
     THEN rAt' = "query" /\ UNCHANGED wake
     ELSE Rest(ReportTime(Day(now)))
  /\ UNCHANGED <<now, usageVars, groups, reports, excused>>

\* usage_by_group; nothing is mailed for a day without usage.
Query ==
  /\ rAt = "query"
  /\ groups' = [r \in Requests |-> IF filed[r] = today - 1 THEN rows[r] ELSE 0]
  /\ IF groups' = NoRows THEN Rest(ReportTime(today + 1)) ELSE rAt' = "publish" /\ UNCHANGED wake
  /\ UNCHANGED <<now, usageVars, today, reports, excused>>

\* The key names the day, and the first mail under it stays.
Keep == reports' = IF reports[today - 1] = NoRows THEN [reports EXCEPT ![today - 1] = groups] ELSE reports

PublishReport ==
  /\ rAt = "publish"
  /\ Keep
  /\ groups' = NoRows
  /\ Rest(ReportTime(today + 1))
  /\ UNCHANGED <<now, usageVars, today, excused>>

\* wait_for(stop.wait(), delay) ran out.
WakeUp ==
  /\ rAt = "sleep" /\ now >= wake
  /\ rAt' = "check"
  /\ UNCHANGED <<now, usageVars, today, groups, wake, reports, excused>>

ReporterStep == CheckTime \/ Query \/ PublishReport \/ WakeUp

-----------------------------------------------------------------------------
Settled == rAt = "sleep" /\ wake > now

\* Half a day goes by.  Whoever is still at work then, or not running, may miss
\* the report whose half it was.
PassHalf ==
  /\ now < LastHalf
  /\ now' = now + 1
  /\ excused' = IF now = ReportTime(Day(now)) /\ ~Settled THEN excused \cup {Day(now) - 1} ELSE excused
  /\ UNCHANGED <<usageVars, reporterVars, reports>>

ReportInit ==
  /\ now = 0
  /\ filed = [r \in Requests |-> -1] /\ rows = NoRows /\ late = {}
  /\ rAt = "check" /\ today = 0 /\ groups = NoRows /\ wake = 0
  /\ reports = [d \in Days |-> NoRows] /\ excused = {}

-----------------------------------------------------------------------------
Counts == [Requests -> Nat]

ReportTypeOK ==
  /\ now \in 0 .. LastHalf
  /\ filed \in [Requests -> Days \cup {-1, LastHalf + 1}]
  /\ rows \in Counts
  /\ late \subseteq Requests
  /\ rAt \in {"off", "check", "query", "publish", "sleep"}
  /\ today \in Days
  /\ groups \in Counts
  /\ wake \in Nat
  /\ reports \in [Days -> Counts]
  /\ excused \subseteq Days \cup {-1}

\* Every call of the model is mailed at most once, however often it was pushed
\* and however often the reporter was started, in the report of the day it is
\* found under, made after the end of that day.
CountedOnce ==
  \A d \in Days : \A r \in Requests :
    reports[d][r] > 0 =>
      /\ reports[d][r] = 1
      /\ now >= ReportTime(d + 1)
      /\ d = filed[r]
      /\ \A e \in Days \ {d} : reports[e][r] = 0

Mailed(r) == filed[r] \in Days /\ reports[filed[r]][r] > 0

\* Usage that was stored by the report time is in the mail of its day, whenever
\* the service was started or restarted: unless the whole of the half in which
\* the mail was due went by without the reporter coming to rest.
NoDayIsSkipped ==
  \A r \in Requests :
    rows[r] > 0 /\ r \notin late /\ filed[r] \notin excused /\ now > ReportTime(filed[r] + 1) =>
      Mailed(r)

=============================================================================
