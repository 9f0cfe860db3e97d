---------------------------- MODULE Diagnostics ----------------------------
(***************************************************************************)
(* Diagnostics (services/diagnostics.py over adapters/diagnostic_store.py). *)
(* Probes, log lines and send evidence ask for a capture of their scope;   *)
(* DiagnosticsService.run completes the reports that are due and watches   *)
(* the samples the resource agent writes.  All of them are tasks of one    *)
(* event loop that meet at asyncio's lock and in the table of reports.     *)
(*                                                                         *)
(* A report is numbered in the order of its created_at, which is read      *)
(* under the lock; what it has collected is left out.                      *)
(***************************************************************************)
EXTENDS Naturals, FiniteSets, FiniteSetsExt

CONSTANTS
  Tasks,        \* health monitors, journal monitors and relays
  Loop,         \* the task of DiagnosticsService.run
  NoTask,
  Targets,      \* scopes of monitored targets and connections
  Server,       \* the scope "server"
  NoTime,
  EmailReports, \* diagnostics.email_reports, and a mail policy that lets warnings through
  After,        \* after_seconds, in units of Tick like all times below
  Cooldown,     \* capture_cooldown_seconds
  Stale,        \* 20 s: a sample older than this is missing
  Gap,          \* 180 s: how long sampling is missing before the alarm
  OomEvery,     \* 900 s between OOM mails of a target
  Sustained,    \* consecutive samples under pressure (3)
  MaxReports, Retention, \* max_reports, report_retention_days
  PendingLimit, \* reports read in one pass (100)
  MaxTime, MaxFaults \* bounds: of time, of errors and kills together

Callers == Tasks \cup {Loop}
Scopes == Targets \cup {Server}

ASSUME NamesAssumption ==
  /\ Loop \notin Tasks /\ NoTask \notin Callers /\ Server \notin Targets
  /\ NoTime \notin Nat
ASSUME NumbersAssumption ==
  /\ EmailReports \in BOOLEAN
  /\ {After, Cooldown, Gap, OomEvery, MaxReports, PendingLimit, Sustained} \subseteq Nat \ {0}
  /\ {Stale, Retention, MaxTime, MaxFaults} \subseteq Nat

VARIABLES
  clock,
  rows,      \* the table reports
  made,      \* reports created so far
  lock,      \* holder of self._lock, or NoTask
  call,      \* Callers -> the capture it is in
  mailed,    \* stored reports whose mail is queued, by dedup_key
  step,      \* where run is
  batch,     \* due reports it has read and not yet completed
  missing,   \* self._sampling_missing_since
  gapTold,   \* self._sampling_gap_notified
  gapMails,  \* history: alarms queued in this outage by this process
  lastRead,  \* self._last_resource_at
  oomTodo,   \* targets with a kill in the sample that is being looked at
  pressed,   \* that sample shows pressure
  pressure,  \* self._pressure_count
  oomMail,   \* self._last_oom_mail
  oomTold,   \* history: when a target's kills were last mailed by this process
  sample,    \* the agent: its newest sample, at = NoTime before the first
  faults

storeVars == <<rows, made, mailed>>
callVars  == <<lock, call>>
loopVars  == <<step, batch>>
gapVars   == <<missing, gapTold, gapMails>>
oomVars   == <<lastRead, oomTodo, pressed, pressure, oomMail, oomTold>>
worldVars == <<clock, sample, faults>>
vars == <<storeVars, callVars, loopVars, gapVars, oomVars, worldVars>>

NoCall ==
  [pc |-> "idle", scope |-> Server, trigger |-> "", at |-> 0, created |-> 0, id |-> 0]

Newest(R, n) == {r \in R : Cardinality({s \in R : s.id > r.id}) < n}

\* save_report: insert or complete, then the two deletions.
Saved(row) ==
  LET old == {r \in rows : r.id = row.id}
      all == (rows \ old) \cup {row}
  IN  Newest({r \in all : r.created + Retention >= clock}, MaxReports)

Collecting == {r \in rows : r.state = "collecting"}

-----------------------------------------------------------------------------
(* capture(scope, trigger, at), by any task. *)

Asking(scope, trigger, at) ==
  [pc |-> "waiting", scope |-> scope, trigger |-> trigger, at |-> at, created |-> 0,
   id |-> 0]

\* A failure is observed now, or was stamped a moment ago by the journal.
Ask(c, scope, at) ==
  /\ call[c].pc = "idle" /\ at <= clock /\ clock <= at + 1
  /\ call' = [call EXCEPT ![c] = Asking(scope, "evidence", at)]
  /\ UNCHANGED <<storeVars, lock, loopVars, gapVars, oomVars, worldVars>>

\* last_capture(scope) and the cooldown that follows it.
Cooling(scope, trigger, at) ==
  /\ trigger # "oom"
  /\ \E r \in rows : r.scope = scope /\ at < r.created + Cooldown

\* run looks at what its capture returned; the other tasks do not.
Returned(c) == IF c = Loop THEN [call[c] EXCEPT !.pc = "done"] ELSE NoCall

CoolDown(c) ==
  /\ call[c].pc = "waiting" /\ lock = NoTask
  /\ Cooling(call[c].scope, call[c].trigger, call[c].at)
  /\ call' = [call EXCEPT ![c] = Returned(c)]
  /\ UNCHANGED <<storeVars, lock, loopVars, gapVars, oomVars, worldVars>>

\* Mutation: captures do not exclude each other.
EnterUnlocked(c) ==
  /\ call[c].pc = "waiting"
  /\ ~Cooling(call[c].scope, call[c].trigger, call[c].at)
  /\ lock' = c
  /\ made' = made + 1
  /\ call' = [call EXCEPT ![c].pc = "holding", ![c].created = clock,
                             ![c].id = made']
  /\ UNCHANGED <<rows, mailed, loopVars, gapVars, oomVars, worldVars>>

\* From here the inputs are awaited, with the lock held.
Enter(c) ==
  /\ call[c].pc = "waiting" /\ lock = NoTask
  /\ ~Cooling(call[c].scope, call[c].trigger, call[c].at)
  /\ lock' = c
  /\ made' = made + 1
  /\ call' = [call EXCEPT ![c].pc = "holding", ![c].created = clock,
                             ![c].id = made']
  /\ UNCHANGED <<rows, mailed, loopVars, gapVars, oomVars, worldVars>>

\* The clock stops at MaxTime, so nothing may be due later.
DueAt(created) == Min({created + After, MaxTime})

Save(c) ==
  /\ call[c].pc = "holding"
  /\ rows' = Saved([id |-> call[c].id, scope |-> call[c].scope,
                    trigger |-> call[c].trigger, created |-> call[c].created,
                    due |-> DueAt(call[c].created), state |-> "collecting"])
  /\ lock' = NoTask
  /\ call' = [call EXCEPT ![c] = Returned(c)]
  /\ UNCHANGED <<made, mailed, loopVars, gapVars, oomVars, worldVars>>

\* A read or the save raises into the monitor that observes the failure.
CallFails(c) ==
  /\ c \in Tasks /\ faults < MaxFaults
  /\ call[c].pc # "idle"
  /\ call' = [call EXCEPT ![c] = NoCall]
  /\ lock' = IF lock = c THEN NoTask ELSE lock
  /\ faults' = faults + 1
  /\ UNCHANGED <<storeVars, loopVars, gapVars, oomVars, clock, sample>>

-----------------------------------------------------------------------------
(* run: _finish_reports *)

\* Mutation: the limit is taken before the state is looked at.
StartPassNewest ==
  /\ step = "idle"
  /\ step' = "finish"
  /\ batch' = {r \in Newest(rows, PendingLimit) \cap Collecting : r.due <= clock}
  /\ UNCHANGED <<storeVars, callVars, gapVars, oomVars, worldVars>>

StartPass ==
  /\ step = "idle"
  /\ step' = "finish"
  /\ batch' = {r \in Newest(Collecting, PendingLimit) : r.due <= clock}
  /\ UNCHANGED <<storeVars, callVars, gapVars, oomVars, worldVars>>

Current == CHOOSE r \in batch : r \in Newest(batch, 1)

MailReport ==
  /\ step = "finish" /\ batch # {}
  /\ step' = "save"
  /\ mailed' = IF EmailReports
                 THEN (mailed \cap {r.id : r \in rows}) \cup {Current.id}
                 ELSE mailed
  /\ UNCHANGED <<rows, made, callVars, batch, gapVars, oomVars, worldVars>>

\* The row may have been deleted by a capture meanwhile: it is inserted again,
\* and the deletions decide anew.
SaveReport ==
  /\ step = "save"
  /\ rows' = Saved([Current EXCEPT !.state = "complete"])
  /\ batch' = batch \ {Current}
  /\ step' = "finish"
  /\ UNCHANGED <<made, mailed, callVars, gapVars, oomVars, worldVars>>

ReportsDone ==
  /\ step = "finish" /\ batch = {}
  /\ step' = "sample"
  /\ UNCHANGED <<storeVars, callVars, batch, gapVars, oomVars, worldVars>>

-----------------------------------------------------------------------------
(* run: _resource_alert *)

Fresh == sample.at # NoTime /\ clock <= sample.at + Stale

Since == IF missing = NoTime THEN clock ELSE missing

\* Mutation: the outage is marked as told before anything was told.
SampleMissingTooEarly ==
  /\ step = "sample" /\ ~Fresh
  /\ missing' = Since
  /\ IF clock >= Since + Gap /\ ~gapTold
       THEN /\ step' = "gap" /\ gapTold' = TRUE
            /\ call' = [call EXCEPT ![Loop] = Asking(Server, "gap", clock)]
       ELSE /\ step' = "idle"
            /\ UNCHANGED <<call, gapTold>>
  /\ UNCHANGED <<storeVars, lock, batch, gapMails, oomVars, worldVars>>

SampleMissing ==
  /\ step = "sample" /\ ~Fresh
  /\ missing' = Since
  /\ IF clock >= Since + Gap /\ ~gapTold
       THEN /\ step' = "gap"
            /\ call' = [call EXCEPT ![Loop] = Asking(Server, "gap", clock)]
       ELSE /\ step' = "idle"
            /\ UNCHANGED call
  /\ UNCHANGED <<storeVars, lock, batch, gapTold, gapMails, oomVars, worldVars>>

\* Mutation: the outage is not marked as told.
MailGapAgain ==
  /\ step = "gap" /\ call[Loop].pc = "done"
  /\ gapMails' = gapMails + 1
  /\ call' = [call EXCEPT ![Loop] = NoCall]
  /\ step' = "idle"
  /\ UNCHANGED <<storeVars, lock, batch, missing, gapTold, oomVars, worldVars>>

\* The dedup_key is the report's id or, in a cooldown, a new one: the mail is
\* always queued.
MailGap ==
  /\ step = "gap" /\ call[Loop].pc = "done"
  /\ gapTold' = TRUE
  /\ gapMails' = gapMails + 1
  /\ call' = [call EXCEPT ![Loop] = NoCall]
  /\ step' = "idle"
  /\ UNCHANGED <<storeVars, lock, batch, missing, oomVars, worldVars>>

\* A sample that was read before ends the outage and nothing more.
SampleKnown ==
  /\ step = "sample" /\ Fresh /\ sample.at = lastRead
  /\ step' = "idle"
  /\ missing' = NoTime /\ gapTold' = FALSE /\ gapMails' = 0
  /\ UNCHANGED <<storeVars, callVars, batch, oomVars, worldVars>>

SampleNew ==
  /\ step = "sample" /\ Fresh /\ sample.at # lastRead
  /\ step' = "oom"
  /\ missing' = NoTime /\ gapTold' = FALSE /\ gapMails' = 0
  /\ lastRead' = sample.at
  /\ oomTodo' = sample.oom /\ pressed' = sample.pressed
  /\ UNCHANGED <<storeVars, callVars, batch, pressure, oomMail, oomTold, worldVars>>

AskOom(t) ==
  /\ step = "oom" /\ t \in oomTodo /\ call[Loop].pc = "idle"
  /\ call' = [call EXCEPT ![Loop] = Asking(t, "oom", clock)]
  /\ oomTodo' = oomTodo \ {t}
  /\ step' = "mail"
  /\ UNCHANGED <<storeVars, lock, batch, gapVars, lastRead, pressed, pressure,
                 oomMail, oomTold, worldVars>>

Quiet(t) == oomMail[t] = NoTime \/ clock >= oomMail[t] + OomEvery

\* Mutation: the silence runs from the last kill, not from the last mail.
MailOomPostponing ==
  LET t == call[Loop].scope IN
  /\ step = "mail" /\ call[Loop].pc = "done"
  /\ oomMail' = [oomMail EXCEPT ![t] = clock]
  /\ oomTold' = IF Quiet(t) THEN [oomTold EXCEPT ![t] = clock] ELSE oomTold
  /\ call' = [call EXCEPT ![Loop] = NoCall]
  /\ step' = "oom"
  /\ UNCHANGED <<storeVars, lock, batch, gapVars, lastRead, oomTodo, pressed,
                 pressure, worldVars>>

\* _last_oom_mail is set when a mail is queued, else the mail is left out.
MailOom ==
  LET t == call[Loop].scope IN
  /\ step = "mail" /\ call[Loop].pc = "done"
  /\ oomMail' = IF Quiet(t) THEN [oomMail EXCEPT ![t] = clock] ELSE oomMail
  /\ oomTold' = IF Quiet(t) THEN [oomTold EXCEPT ![t] = clock] ELSE oomTold
  /\ call' = [call EXCEPT ![Loop] = NoCall]
  /\ step' = "oom"
  /\ UNCHANGED <<storeVars, lock, batch, gapVars, lastRead, oomTodo, pressed,
                 pressure, worldVars>>

Pressure == IF pressed THEN Min({pressure + 1, Sustained}) ELSE 0

OomDone ==
  /\ step = "oom" /\ oomTodo = {} /\ call[Loop].pc = "idle"
  /\ pressure' = Pressure
  /\ IF Pressure >= Sustained
       THEN /\ call' = [call EXCEPT ![Loop] = Asking(Server, "pressure", clock)]
            /\ step' = "pressure"
       ELSE step' = "idle" /\ UNCHANGED call
  /\ UNCHANGED <<storeVars, lock, batch, gapVars, lastRead, oomTodo, pressed,
                 oomMail, oomTold, worldVars>>

EndPass ==
  /\ step = "pressure" /\ call[Loop].pc = "done"
  /\ call' = [call EXCEPT ![Loop] = NoCall]
  /\ step' = "idle"
  /\ UNCHANGED <<storeVars, lock, batch, gapVars, oomVars, worldVars>>

\* An OSError or sqlite error anywhere in the pass: what is left of it is
\* skipped.
PassFails ==
  /\ step # "idle" /\ faults < MaxFaults
  /\ step' = "idle"
  /\ batch' = {} /\ oomTodo' = {} /\ pressed' = FALSE
  /\ call' = [call EXCEPT ![Loop] = NoCall]
  /\ lock' = IF lock = Loop THEN NoTask ELSE lock
  /\ faults' = faults + 1
  /\ UNCHANGED <<storeVars, gapVars, lastRead, pressure, oomMail, oomTold, clock, sample>>

-----------------------------------------------------------------------------
(* The process, the resource agent and time. *)

Memory ==
  /\ lock' = NoTask /\ call' = [c \in Callers |-> NoCall]
  /\ step' = "idle" /\ batch' = {}
  /\ missing' = NoTime /\ gapTold' = FALSE /\ gapMails' = 0
  /\ lastRead' = NoTime /\ oomTodo' = {} /\ pressed' = FALSE /\ pressure' = 0
  /\ oomMail' = [t \in Targets |-> NoTime] /\ oomTold' = [t \in Targets |-> NoTime]

\* Killed and started again: the reports and the queued mail are left.
Crash ==
  /\ faults < MaxFaults
  /\ faults' = faults + 1
  /\ Memory
  /\ UNCHANGED <<storeVars, clock, sample>>

\* resource_agent.py writes a sample, a quiet one or, after a busy interval,
\* one with pressure and the targets in which a process was killed.
Sample(oom) ==
  /\ sample.at # clock
  /\ sample' = [at |-> clock, oom |-> oom, pressed |-> oom # {}]
  /\ UNCHANGED <<storeVars, callVars, loopVars, gapVars, oomVars, clock, faults>>

Tick ==
  /\ clock < MaxTime
  /\ clock' = clock + 1
  /\ UNCHANGED <<storeVars, callVars, loopVars, gapVars, oomVars, sample, faults>>

Init ==
  /\ clock = 0 /\ rows = {} /\ made = 0 /\ mailed = {}
  /\ lock = NoTask /\ call = [c \in Callers |-> NoCall]
  /\ step = "idle" /\ batch = {}
  /\ missing = NoTime /\ gapTold = FALSE /\ gapMails = 0
  /\ lastRead = NoTime /\ oomTodo = {} /\ pressed = FALSE /\ pressure = 0
  /\ oomMail = [t \in Targets |-> NoTime] /\ oomTold = [t \in Targets |-> NoTime]
  /\ sample = [at |-> NoTime, oom |-> {}, pressed |-> FALSE]
  /\ faults = 0

CaptureStep(c) == CoolDown(c) \/ Enter(c) \/ Save(c)

LoopStep ==
  \/ StartPass \/ MailReport \/ SaveReport \/ ReportsDone
  \/ SampleMissing \/ MailGap \/ SampleKnown \/ SampleNew
  \/ (\E t \in Targets : AskOom(t)) \/ MailOom \/ OomDone \/ EndPass

Next ==
  \/ \E c \in Tasks, s \in Targets, at \in 0 .. MaxTime : Ask(c, s, at)
  \/ \E c \in Callers : CaptureStep(c) \/ CallFails(c)
  \/ LoopStep
  \/ PassFails
  \/ Crash
  \/ \E oom \in SUBSET Targets : Sample(oom)
  \/ Tick

Spec == Init /\ [][Next]_vars

-----------------------------------------------------------------------------
Rows == [id : 1 .. made, scope : Scopes, trigger : {"evidence", "gap", "oom", "pressure"},
         created : 0 .. clock, due : 0 .. MaxTime,
         state : {"collecting", "complete"}]

\* Types, with the limits of the store, the lock's holder in a capture, and at
\* most one alarm in an outage.
TypeOK ==
  /\ rows \subseteq Rows /\ Cardinality(rows) <= MaxReports
  /\ mailed \subseteq 1 .. made
  /\ \A c \in Callers : call[c].pc = "holding" <=> lock = c
  /\ lock \in Callers \cup {NoTask}
  /\ step \in {"idle", "finish", "save", "sample", "gap", "oom", "mail", "pressure"}
  /\ batch \subseteq Rows
  /\ missing \in 0 .. clock \cup {NoTime}
  /\ gapMails \in 0 .. 1 /\ gapTold \in BOOLEAN
  /\ oomTodo \subseteq Targets /\ pressure \in 0 .. Sustained

\* However many tasks see a connection fail at once, and whatever times they
\* stamp, the reports kept of it are a cooldown apart; only an OOM kill is
\* recorded whenever it is seen.
OneReportPerCooldown ==
  \A r, s \in rows :
    r.scope = s.scope /\ r.id < s.id /\ s.trigger # "oom"
      => s.created >= r.created + Cooldown

\* A report is stored as complete only when its mail is queued: no kill or
\* error between the two leaves a finished report that nobody is told of.
CompleteMeansMailed ==
  EmailReports => \A r \in rows : r.state = "complete" => r.id \in mailed

\* The table of reports: not too many, and none complete without its mail.
ReportBooks == OneReportPerCooldown /\ CompleteMeansMailed

\* A target's kills are being looked at; it was mailed of within the silence.
OomDue(t) == t \in oomTodo \/ (call[Loop].trigger = "oom" /\ call[Loop].scope = t)
Told(t) == oomTold[t] # NoTime /\ clock < oomTold[t] + OomEvery

\* A kill in the sample that was read is mailed, or comes within the time of
\* silence after a mail about its target, however often processes are killed
\* and whatever capture holds the lock: unless an error or a kill of the service
\* comes between, for the sample already counts as read.
OomIsMailed ==
  [][faults' = faults => \A t \in Targets : OomDue(t) /\ ~OomDue(t)' => Told(t)']_vars

-----------------------------------------------------------------------------
(* Liveness: the loop and the tasks run, and asyncio's lock is granted in the *)
(* order in which it was asked for.                                           *)

Fairness ==
  /\ WF_vars(LoopStep) /\ WF_vars(Tick)
  /\ SF_vars(CaptureStep(Loop)) /\ \A c \in Tasks : WF_vars(CaptureStep(c))
FairSpec == Spec /\ Fairness

\* Again and again no report that is due is left waiting, also none whose
\* completion was interrupted or that newer ones kept out of a pass.
EveryReportCompletes ==
  []<>(\A r \in Collecting : r.due > clock)

\* An outage of sampling that lasts is told to the owner even if the first
\* attempt fails, unless samples come back or the process starts again.
GapReachesOwner ==
  (missing # NoTime /\ clock >= missing + Gap) ~> (gapMails > 0 \/ missing = NoTime)

=============================================================================
