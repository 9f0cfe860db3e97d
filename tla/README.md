# SealDice Sentinel in TLA+

SealDice Sentinel is one Python process on asyncio that watches a dice bot
(SealDice), the QQ implementation it talks to (Milky, OneBot) and the server
under both, and tells the owner by mail or by QQ. This directory models the
parts of it whose correctness depends on the order of steps: what is durable,
what is retried, who else runs at an `await`, and where a kill may fall. With it
come the gateway and the two root-owned scripts that log a QQ account in and
move it between SealDice's connections. TLC checks small instances; TLAPS proves
every safety property of the passing runs for all values of the constants.

Paths are relative to the repository; `S/` is `src/sealdice_sentinel/`, `W/` is
`integrations/snowluma-web/`.

## The system

| Part | State | Operations | Talks to |
|---|---|---|---|
| Outbox (`S/adapters/sqlite.py`, `S/services/notification_service.py`) | table `notification_outbox`: status, attempts, next_attempt_at per dedup key | publish (policy, INSERT OR IGNORE), pending, mark_sent, mark_failed, mark_suppressed | every service that tells the owner something |
| Mail worker (`S/services/mail_worker.py`) | the batch it has read, the row in its hand | drain, send, mark, QQ fallback | outbox; SMTP and Milky |
| Incidents (`S/services/incident_service.py`) | table `incidents`, one open row per service and instance | report_down, report_healthy | outbox (queue, withdraw), diagnostics (context) |
| Health monitor (`S/services/health_monitor.py`) | failure counter, first failure | process_sample | incidents, diagnostics |
| Event intake (`S/adapters/webhook.py`, `S/services/event_processor.py`) | table `events` with fingerprints | record, process | outbox, incidents |
| Reconciliation (`S/services/reconciliation.py`) | snapshots of requests, friends, groups | reconcile_once | Milky, outbox, incidents, event intake |
| Journal monitor (`S/services/sealdice_log_monitor.py`) | record buffer; deque of failures per scope | _consume, process_line | journalctl, incidents, diagnostics |
| OneBot relay (`S/adapters/onebot.py`) | tracked requests per echo, evidence queue | request, response, expire, emit | SealDice, OneBot, diagnostics |
| Diagnostics (`S/services/diagnostics.py`, `S/adapters/diagnostic_store.py`) | table `reports`, lock, alarm flags | capture, _finish_reports, _resource_alert | all monitors, resource agent, outbox |
| Updater (`S/updater.py`) | release directories with `.complete`, links `current` and `previous` | install, activate, rollback, restart_and_verify | GitHub, systemd |
| Resource agent (`S/resource_agent.py`) | resource samples, counters of the last one | collect, append | diagnostics |
| Token usage and daily report (`S/services/token_usage_reporter.py`) | table `token_usage`, the worker's next run | record, usage_by_group, publish_for | webhook, outbox |
| Supervision (`S/app.py`) | tasks, stop event | supervise, finish_workers, signal handlers | all |
| Configuration (`S/config.py`, `S/configure.py`) | files with backups; login throttle | load, apply | Milky's and Sentinel's files |
| SnowLuma gateway (`W/gateway.py`) | account in memory, sessions, prepare lock, code cache | login, prepare, qr, action, proxy | the units below, OneBot, SealDice |
| Login unit (`W/prepare_login.py`) | the account in Sentinel's, the gateway's and supervisord's files | check, reuse or replace the client | started by the gateway through systemd |
| Cutover unit (`W/connect_dice1.py`) | endpoints of SealDice, Sentinel's file, a snapshot of both | switch from Milky to SL, undo on error | SealDice, OneBot, systemd |

What is hard in it:

- every service is a task of one event loop and every database call runs in a
  thread, so each `await` is a point where the others go on;
- incident and notice, snapshot and notice, mail and report are *separate*
  transactions, and the process may be killed between them;
- deliveries and pushed events are repeated, lost or late, replies come in any
  order, probes report the past;
- queues, batches and tables have limits;
- two helpers, or a helper and a kill, meet in the file system;
- the gateway looks at its state, awaits another process, and goes on; the
  process it waits for may outlive the wait, and the request;
- a cutover changes three systems with no transaction around them, and a call
  whose answer is lost may have been carried out.

For each part, what makes it correct: a notice is never lost and duplicated
only after a delivery that could not be recorded (outbox); one incident at a
time, announced, closed once and not silent (incidents); every stored event is
announced once and polling makes up for lost pushes (intake); an alarm is raised
exactly when the window holds enough failures, and ends (journal monitor); every
request has one verdict (relay); one report per cooldown, each completed, and a
lasting outage and every OOM kill told (diagnostics); the links lead to whole
releases, and a bad one is undone (updater); usage is counted once, in one
day's report, and no day is skipped (usage); a worker that raises comes back
(supervision); the gateway remembers the account its configuration names, and
keeps no login code of a client that was replaced (gateway); an account is never
connected twice, and after a failed cutover its old connection and Sentinel's
configuration are back (units).

## Modules

| Module | Models | Composition |
|---|---|---|
| `DeliveryPromise` | what a publisher may rely on | abstract specification |
| `Outbox` | outbox, publishers, worker, transports | implements `DeliveryPromise` (`KeepsPromise`) |
| `TimedOutbox` | how long the worker takes between two readings | EXTENDS `Outbox`; adds a timer to its steps and forbids none |
| `Incidents` | health monitor, webhook handlers and reconciliation as reporters; incidents | EXTENDS `Outbox`; `UsesOutbox` shows it only takes steps `OutboxSpec` allows |
| `EventIntake` | webhook, event processor, reconciliation | its notices end at the outbox's INSERT |
| `LinkMonitor` | windows and reports of the journal monitor | a report is one step; its inside is `Incidents` |
| `JournalReader` | framing of journalctl's output | hands records to what `LinkMonitor` models; part of `Service` |
| `DailyReport` | usage rows and the worker that reports them | part of `Service` |
| `Service` | supervise, shutdown, kills and starts | EXTENDS `DailyReport` and `JournalReader`, its two workers |
| `PrepareUnit` | what the gateway may rely on when it starts the login unit | abstract specification |
| `LoginUnits` | both units, SealDice's endpoints, the web UI behind the gateway's guard | implements `PrepareUnit` (`KeepsContract`) |
| `Gateway` | sessions, preparation, capture of the code | EXTENDS `PrepareUnit` |
| `SendRelay` | tracker, evidence queue and connections | |
| `Diagnostics` | captures, completion of reports, resource alerts | mail ends at the INSERT |
| `Updater` | install, switch, verify, rollback | |
| `MCOutbox`, `MCIncidents` | instances for TLC | give `Keys` its value |
| `IncidentsProofs`, `EventIntakeProofs`, `UpdaterProofs`, `GatewayProofs`, `LoginUnitsProofs`, `SendRelayProofs`, `ServiceProofs`, `DiagnosticsProofs` | theorems | each EXTENDS the module it is about; `IncidentsProofs` is also about `Outbox`, `ServiceProofs` also about `LinkMonitor` |

How they read:

- A step is what runs between two awaits that others can observe: one database
  transaction, one exchange with a transport, one file operation. A method of
  several transactions is a series of actions over a place variable (`at`,
  `pc`, `step`), each named for its statement or method.
- A crash (`Restart`, `Crash`) resets what lives in memory and keeps what is in
  a table or on disk. An sqlite error that a loop swallows is `AbortDrain`,
  `AbortPass`, `AbortCall`, `PassFails`, wherever the code catches it.
- A definition whose comment starts with *Mutation* is not part of the model.
  It is a variant of the action after it with a plausible bug, used to see that
  a property fails when the code is wrong.
- Variables marked *history* or *the world* are not the program's state: they
  count or remember what the properties speak of, or are QQ, GitHub, the clock.

### Outbox

`status`, `attempts` and `wait` are a row's columns (`wait` is next_attempt_at
minus now); `batch` is what `pending()` returned, `current` the row in the
worker's hand with its result. `Publish` looks at the policy, then inserts
unless the key exists; `Poll` takes the due rows, at most `BatchLimit`;
`TakeNext`, `Accept`/`Refuse`/`LoseReply`, `MarkSent`/`MarkFailed` and
`EnqueueFallback` are the drain loop. The policy may change at a restart, as
the configuration may. `birth` orders the rows by age, as `created_at` does.
`TimedOutbox` adds the time since the worker last read the table, for the liveness
properties: a batch of failing rows keeps younger ones out for ever if they are
due again before the worker comes back.

### Incidents

Each reporter walks through `report_down` (record the sample, select the open
incident, insert, await the diagnostic context, queue the alarm) or
`report_healthy` (select, close, withdraw the alarm, queue the recovery). The
health monitor's counter, its threshold and its treatment of timeouts are in
front of it. `dropped` marks notices that a kill or an error kept from the
outbox, `early` what a recovery inside the hold found.

### EventIntake

Handlers and the loop share the fingerprints of `record_event`; pushed and
polled payloads differ, so the same request has two fingerprints and one notice
key. `StoreRequests`, `StoreFriends` and `StoreGroups` are one transaction
each; the notices of the differences follow one by one.

### LinkMonitor, JournalReader

`FailureLine`, `RecoveryLine` and `ReplyCompleted` are the kinds of line
`classify_log_line` returns. The deque is a sequence of times. Names of
`LinkMonitor` that `Service` has too carry `Link` in front, so that one module can
be about both. `Callbacks` says whether the plugin writes `reply_api_completed`
lines, as plugins before 0.7.1 did and the one in `scripts/` does not.
`JournalReader` counts bytes: pieces of a chunk, the buffer, discarding.

### SendRelay, Diagnostics, Updater

`SendRelay` numbers requests; a reply carries an echo only. `Diagnostics` has one
lock for all captures; `save_report` inserts or completes, then applies both
deletions. A report's number stands for created_at, which is read under the lock
and therefore rises with it; the clock stops at its bound, and what would be due
later is due then. Errors between the steps of a pass skip the rest of the pass.
`EmailReports` is `email_reports` together with a mail policy that lets warnings
through, since `publish` drops the mail of a report otherwise. In `Updater` every
link and directory operation is a step and a release is a directory that is
missing, present or complete.

### DailyReport, Service

A day has two halves, before and after the report time, and the clock counts
halves; the report of a day is due in the second half of the next. `filed` is
the day under which `usage_by_group` finds a row. `CheckTime`, `Query`,
`PublishReport` and `WakeUp` are the reporter's loop between its awaits. In
`Service` a worker is running, resting (the five seconds of `supervise`) or
done. `Terminate` sets the stop event, `SeesStop` is a worker that looks at it,
`Cancel` is `finish_workers` after its grace period: the coroutine ends, but a
statement already handed to a thread goes on. `ThreadEnds` is its end, with the
mail queued or not, and `Stopped` waits for it, because `asyncio.run` joins the
threads of its executor before the process exits. The reporter and the journal
reader stand for all workers, one that sleeps on the event and one that reads.

### Gateway, PrepareUnit, LoginUnits

`Gateway` takes `prepare()` apart at its awaits: the call of SealDice's core
(`Ask` to `CoreAllows`), the lock (`Acquire`), the wait for systemctl (`Confirm`,
`Unconfirmed`, `Timeout`), and `qr()` at its lock and at the capture. The unit
itself is `PrepareUnit`: one instance at a time, which writes the gateway's file
at most with the account it was started for, replaces the QQ client (`client`,
what supervisord runs) only after that, and succeeds only when the file names its
account. Its success says nothing of the client, see below. `systemctl start` on a
running unit waits for it and starts nothing. A capture takes the window of the
client that runs (`LoginWindow`), not of the account in the file.

`LoginUnits` has `prepare_login.py` and `connect_dice1.py` statement by statement,
in processes of their own (`pAt`, `cAt`). A call to SealDice or systemctl is
answered, refused, or carried out while its answer is lost; the three outcomes
of `Try` and `Undo` are the next statement, the `except` clause, and, inside the
`except` clause, the end of the undoing. `RestoreSync` is a `systemctl enable`
whose failure nobody looks at and whose timeout ends the clause. `clean` tells
that nobody else has changed an endpoint or Sentinel's file since the cutover
started, and that its undoing was carried out, with an answer wherever a lost one
ends it; `initial` is what it found.

## Runs

All passing runs finish within a few minutes on two workers.

| Run | Question | Bounds and why they are enough |
|---|---|---|
| `Outbox` | Does the worker keep its books through duplicates, withdrawals, lost answers, failed fallbacks and restarts, does it implement the promise, does mail settle, does a QQ notice reach the owner even if QQ is dead? | a QQ key, its fallback and a critical mail: every kind of row; a batch of one, so a row that fails and comes due again can keep the others out; two backoff steps, so the exponent's cap is reached; one restart and one lost answer; no hold, which is for `Incidents` |
| `Incidents` | Two reporters at once over one service and the real outbox, with a kill and a failing call | three samples or events: open, close and open again, or two of them in flight at once; threshold 2, so the counter matters; a hold of one unit and a clock of two: both sides of the hold; a batch of two, so that a row is withdrawn while it waits in the snapshot |
| `EventIntake` | Two handlers and the loop over one request and one group | each event pushed up to twice; two moves, so a group is won and lost again; one fault |
| `LinkMonitor` | Windows, reports that raise, kills, recoveries | threshold 3, window 2, clock 4: lines inside, at and beyond the window's edge, and one more line than the threshold; with the callbacks of older plugins, whose behaviours include those without any |
| `SendRelay` | Replies in any order, reused echoes, overflow, expiry, closes | three requests for a tracker of two and a queue of one |
| `Diagnostics` | A monitor and the loop over one table | two reports kept, one read per pass, cooldown 2: deletion, hiding and cooldown all happen; captures for OOM kills ignore the cooldown and make the second writer on the monitor's scope; two units of silence between OOM mails on a clock of two: a kill before, in and after it |
| `Updater` | One helper, commands, failures and kills everywhere | three releases, the middle one faulty; four commands: apply, apply, rollback, rollback; two kills |
| `LoginUnits` | Both units at once, a change in the web UI, calls refused or lost everywhere | two accounts, one of them the Milky account; one preparation, two cutovers and a change: the second cutover starts from what the first left, possibly for the other account; what a second preparation does after a failed one is left to the proof and to `Gateway` |
| `Gateway` | Preparations and captures of two browsers, a unit that hangs or fails before it has replaced the client, restarts | two accounts, two browsers, three preparations: two at the lock at once, one more that joins the unit of an earlier request or follows a failed one; one restart |
| `Service` | Two days of usage, an error, shutdowns, kills and starts | one call of the model, halves 0 to 5, so two reports fall due and the call may belong to either; one error, one start after the first; limit 1, chunk 2, records of up to 3 bytes: below, at and above the limit, across chunks, and one after an oversized one |

Deadlock is not checked where the bounds stop the system: `Incidents`,
`Diagnostics`, `Updater`, `Service` (a process that is down and not started again)
and the runs derived from them.

What the properties mean, in the order of the runs:

- **Outbox.** `OutboxBooks`: what was delivered was marked or will be, the worker
  holds only unsent rows, each once, a row read as due is not put off while the
  snapshot ages, and mail about a QQ notice comes only after QQ failed.
  `DuplicatesAreExcused`: a second delivery only after one that could not be
  recorded. `KeepsPromise`: refinement. `EveryMailSettles`,
  `QQNoticeReachesOwner`: liveness, unless the worker keeps taking as long for a
  batch as the longest backoff (`Slow`).
- **Incidents.** `OneAtATime`: at most one incident of a service is open, and each
  recovery is announced by one call. `NoSilentIncident`,
  `WithdrawnIsNeverDelivered`, `UsesOutbox`.
- **EventIntake.** `EventBooks`: copies of an event are processed once, and what
  the tables say was seen was announced, is about to be, or was dropped by a
  fault. `GroupBooks`: snapshots and notices add up over joins and leaves.
  `UnseenRequestIsAnnounced`: polling replaces lost pushes.
- **LinkMonitor.** `AlarmIsSound`: an incident means enough failures within one
  window and starts at the oldest of them. `BurstRaisesAlarm`: a full window
  never stands without an incident, except from a report that raised to the next
  line. That an incident of a connection ends is not claimed: see below.
- **SendRelay.** `VerdictsAreSound`: one verdict for each request, and success only
  with a reply to its echo. `EvidenceAddsUp`: what the full queue lost is told as
  a gap. `EveryRequestIsJudged`.
- **Diagnostics.** `ReportBooks`: reports of a scope are a cooldown apart, and
  complete ones are mailed. `OomIsMailed`: a kill that was read is mailed or was
  preceded by a mail within the time of silence, unless an error comes between.
  `EveryReportCompletes`, `GapReachesOwner`.
- **Updater.** `LinksAreInstalled`, `FailureRestoresLinks` (after a failed check the
  old release is current again), `FailedApplyRecovers`.
- **LoginUnits.** `UnitsInv`: after a failed cutover that was alone and whose
  undoing was carried out (`clean`), the Milky endpoint is enabled exactly if it
  was, Sentinel's file is the one it found, the SL endpoint is off unless it was
  on, and the synchronisation is on if it was; at whatever call it failed and
  whatever became of that call. It does not say that an SL endpoint that was on is
  on again, or that a synchronisation that was off stays off: neither is true.
  `UnitsNeverDouble`: the cutover alone never enables both endpoints of an
  account. `KeepsContract`: refinement of `PrepareUnit`.
- **Gateway.** `MemoryIsSound`: outside a preparation the account in memory is the
  configuration's, unless the last preparation was answered with an error.
  `CachedCodeIsOfClient`: no code of a client that was replaced since is kept,
  unless its capture fell into a preparation, or the last one failed. Whose the
  client is, it does not say.
  `EveryPrepareAnswers`, also when the unit hangs.
- **Service.** `UsageBooks`: a call is mailed at most once, in the report of its
  day and after it. `NoDayIsSkipped`: usage stored in time is in a report, unless
  the service was down, or at work, for the whole half in which it was due.
  `ShortRecordsAreHandedOn`: exactly the journal records that fit, over restarts
  of the reader. `DueReportIsMailed`.

## Where code and documents part

Two runs end in a violation. Each checks one property a document states.

| Run | What happens |
|---|---|
| `Incidents_stale` | a probe that began before a `bot_offline` and answered after it closes the newer incident, with a recovery before its start (`docs/requirements-analysis.md:284`) |
| `Updater_two_helpers` | the second helper removes the directory the first has checked and is about to switch to (`docs/user-guide.md:377`) |

Other behaviours the models show and the passing properties allow for:

- `report_down` awaits the diagnostic context between the incident and its notice;
  a recovery in that window has nothing to withdraw, and the alarm is sent after
  it, where `docs/diagnostics.md:34-35` says an early recovery withdraws it.
- Since plugin 0.7.1 no line closes a connection's own incident (`README.md:97-99`),
  so later alarms of it are suppressed; `docs/user-guide.md:499-500` says each
  recovery ends its own cycle. With older plugins the next callback ended it.
- Killed between an incident's row and its notice, the program never announces
  that incident: later reports find it open (`dropped` in `NoSilentIncident`).
- A hundred old rows that fail keep younger ones out of the batch as long as they
  take longer than their backoff; with more than a hundred, or a longer timeout
  per mail server command, that need not end.
- A reconciliation pass that fails after its snapshot was committed never
  announces the difference (`GroupBooks` counts it as dropped).
- A friend whose request was announced is announced again as one without a
  request when `get_friend_requests` failed in that pass or the request is old.
- Killed between its two links, a rollback leaves both on one release, and a
  second rollback changes nothing.
- After two requests with one echo, the late reply to the first completes a
  third with that echo.
- `_resource_alert` reads the newest sample only and marks it as read first: a
  sample skipped by a slow pass, or an error while its OOM kill is captured,
  loses that alarm.
- Usage whose time carries another offset than UTC is stored as it comes and
  compared as text, so it may be reported under the next day (`Call`).
- The report of a day is made on the next day only: a service that is down from
  the report time to midnight never mails it (`excused`).
- A cutover that fails before the end disables the SL endpoint also when it had
  been connected before the attempt, where `W/README.md:92` says a failed attempt
  restores the old connection: the second cutover of an account that is on SL
  leaves it with no connection when it fails.
- A second failing cutover of the Milky account enables the synchronisation that
  the first, successful one had ended.
- A cutover and a preparation may run at once: the cutover's undoing then writes
  back Sentinel's configuration as it was before the preparation.
- A preparation that ends between Sentinel's file and the gateway's leaves them
  naming different accounts; one that ends between supervisord's file and the
  update leaves the old client, and the next preparation reuses it and answers ok
  (`LoginUnits`). The gateway then names one account and shows the login code of
  another (`Gateway`).
- A failed `systemctl enable` in a cutover's undoing is not noticed, and the
  synchronisation stays off.
- A shutdown cancels its workers after three seconds, but the process lasts as
  long as a statement that a worker had handed to a thread.
- Two preparations within the core's answer both queue at the gateway's lock, and
  the second switches the account the first has just confirmed.
- A capture that overlaps a preparation fills the cache after the preparation has
  emptied it; the code of the earlier account may be served for five seconds.

## Fairness

- `TimedOutbox`: the worker's loop goes on (`supervise` starts it again after an
  error) and time passes; every mail that is tried again and again is at some
  point accepted (strong fairness of `Accept` for mail). QQ is never assumed to
  work. With its defaults the worker reads a hundred rows, a send that fails does
  so within fifteen (QQ) or about thirty seconds (mail), and the longest backoff
  is an hour: a batch is back in time. Until the backoff has grown to that,
  younger rows may wait.
- `EventIntake`: the loop goes on, and `get_friend_requests` is not refused for
  ever.
- `SendRelay`: time passes and the expiry task runs.
- `Diagnostics`: the loop and a capture that can go on do so, time passes, and
  asyncio's lock, which serves its waiters in order, comes to the loop (strong
  fairness).
- `Updater`: a helper that is not killed goes on.
- `Gateway`: the core's answer has a limit of five seconds and systemctl one of
  ninety, and a lock is handed on. Nothing is assumed of the unit.
- `Service`: timers run out, and while the service is up a statement of the
  database ends, if only by its busy timeout. The clock, the usage, the journal
  and a shutdown owe nothing.
- `LoginUnits` and `LinkMonitor` state no liveness: a script that hangs is systemd's
  affair, and nothing makes a connection write the line that ends its incident.

Errors and kills are bounded in number, never excluded.

## Proofs

Assumptions are only those the modules name: constants of the right type,
positive limits, distinct names. One of them is needed and easily missed:
`OomEvery`, 900 seconds in the code, is positive. With a silence of length zero a
kill in the second of a mail would be told by none.

- **Outbox.** `OutboxTypeCorrect`, `OutboxInvariant`, `NoUnexcusedDuplicate`,
  `OutboxKeepsPromise`. `DuplicatesAreExcused` is not inductive: it needs that a
  row in the worker's hand is unsent and that `delivered` is what was recorded
  plus what was lost, which is `OutboxInv`. Under it every step is a step of
  `DeliveryPromise` or a stutter.
- **Incidents.** `TypeCorrect`, `OneIncidentIsOpen`, `OneRecoveryNotice`,
  `NoIncidentIsSilent`, `WithdrawnStaysWithdrawn`, `IncidentsUseOutbox`. They
  share one inductive invariant. `IncidentInv` adds what none of them says:
  incidents are numbered in order of insertion, a call past its INSERT or
  UPDATE holds an incident of the right kind, and an alarm whose hold has not
  run out is out of the worker's reach. Steps of the worker are taken over from
  the lemmas about `Outbox`.
- **EventIntake.** `EventInvariant`, `EventsAreBooked`, `GroupsAreBooked`. The
  strengthening: what was handled has its fingerprint, so that of several copies
  in service only one finds it missing; before the first list there is neither
  snapshot nor baseline; and what the loop has in hand has the type of its place.
- **Updater.** `UpdaterTypeCorrect`, `LinkedReleasesAreInstalled`,
  `FailuresAreUndone`; the last two for one helper at a time, which they assume:
  `Updater_two_helpers` is why. `WayBack` says, place by place, where the links
  are compared to what the command found.
- **Gateway.** `GatewayInvariant`, `MemoryStaysSound`, `CodesAreOfClient`. The
  invariant adds the lock's line (only its head is at the unit, and who waits is in
  it), that no unit is at work while nobody holds the lock and no error is
  pending, so that nobody can change the file or the client, and that a capture
  which overlaps the lock is marked as such.
- **LoginUnits.** `LoginInvariant`, `FailedCutoverIsUndone`, `NeverDoubleAlone`,
  `PreparationKeepsContract`. The invariant says, for each place of the cutover and
  as long as `clean` holds, what it has changed so far; the undoing then follows
  place by place (`Undone`, and `SyncInv` for the synchronisation). `KeepsContract`
  rests on `PrepareInv`: past its write to the gateway's file, the preparation finds
  its account there.
- **SendRelay.** `RelayInvariant`, `VerdictsStaySound`, `EvidenceAlwaysAddsUp`,
  for any echoes, limits and number of requests. The strengthening is `EchoInv`: a
  tracked request is found under its own echo, hence under one echo only, so that
  finishing an echo finishes its request; and that a tracked request has no
  verdict yet.
- **Service.** About its reader alone: `ShortRecordsArrive`, `BufferIsBounded`, for
  every limit and chunk size; `BufferIsTheRecord` (the buffer is the record in
  the pipe, or nothing of one already too long) is the strengthening. About the
  whole: `ServiceInvariant`, `UsageIsCountedOnce`, `ReportsSkipNoDay`,
  `ServiceHostsReader`, `HostedRecordsArrive`. The invariant says what each place
  of the reporter knows: what it has in hand are the rows of the day before, and
  when it sleeps past today's report time, today's report is done. `FirstMailInv`
  is why the outbox may drop a second mail under the same key: the first has all
  of the day's timely rows. `ServiceHostsReader` shows that a step of the process
  is a step of `JournalReader` or leaves it alone, so the reader's theorems hold
  in the process.
- **LinkMonitor.** `LinkInvariant`, `LinkTypeCorrect`, `AlarmsAreSound`,
  `BurstsRaiseAlarms`, for any connections, threshold, window and number of lines.
  `AlarmIsSound` judges an incident by the history of failures (`log`), the code
  decides by the deque, so the invariant ties the two: the deque is the end of
  the log (`DequeIsWindow`), the log is in order of time (`LogInOrder`), and what
  the deque lacks is older than the window. `PruneEffect` is the lemma about
  `Prune`: it drops exactly the entries before the cutoff, since they come first.
- **Diagnostics.** `DiagInvariant`, `DiagnosticsTypeCorrect`, `ReportBooksHold`,
  `OomKillsAreMailed`, `OutagesAreToldByMail`, `DeletionsAreFinal`, for any tasks,
  scopes, limits, times, errors and kills. `ReportBooks` is not inductive, for two
  reasons. A capture checks the cooldown, awaits its inputs and stores its row
  later, so `HolderOK` says that its check still holds then: it is the newest
  report, and only run, which never adds a scope or a time, has stored rows since.
  And run completes what it read before captures deleted it: `BatchOK` says that a
  report of the batch is in the table or `Gone`, that is, too old or older than
  all of a full table. `SavedEffect` works out what one `save_report` leaves, the
  lemmas on `Newest` under it say which row a limit drops, and
  `CompletionEffect` concludes that run's late save replaces a row or does
  nothing. `Numbered` (numbers rise with `created_at`) makes "newest" agree with
  "last". `LoopCall` (run is in the capture its place waits for) and
  `oomTold = oomMail` carry `OomIsMailed`; `GapOnce` carries the alarm of an
  outage. `DeletionsAreFinal` and `OutagesAreToldByMail` are stated in
  `DiagnosticsProofs` and only there.

These invariants were model-checked before they were proved; the library's
`FS_` theorems carry the cardinalities, and `MinOfNats` (a set of numbers has a
least one) comes from the well-foundedness of `<`.

Only model-checked: liveness, since it rests on fairness and `ENABLED`, which are
beyond the prover: `EveryMailSettles`, `QQNoticeReachesOwner`,
`UnseenRequestIsAnnounced`, `FailedApplyRecovers`, `EveryRequestIsJudged`,
`EveryReportCompletes`, `GapReachesOwner`, `EveryPrepareAnswers`,
`DueReportIsMailed`. Every other property of a passing run is a theorem.

## Not modelled

- Parsing, wording and configuration (`S/config.py`, `S/diagnostic_view.py`): pure
  functions of a file or a table.
- The configuration editor (`S/configure.py`): a form over files that one person
  edits; its writes are single replacements with a backup each.
- HTTP probes, SMTP, Milky and GitHub clients, except for what they answer.
- The contents of diagnostic reports; the resource agent's counters: samples are
  an input of `Diagnostics`.
- In the gateway: the paused mode, a gateway without `prepare_unit`, the status
  page, assets, the websocket and its limit of sockets, an unwritable request
  file.
- `W/connect_main.py`, whose `cutover_main.py` the repository does not hold;
  `W/qr_capture.py`, which reads pixels; `W/patch_webui.py`, which edits a file at
  deployment.
- The plugin, which SealDice runs; systemd, except for its answers. A reboot of the
  server and a restart of QQ are taken to bring the same client back.

## Plan

Done, in this order: outbox and promise; incidents over it; event intake;
journal monitor and reader; updater; relay; diagnostics; login and cutover
units; gateway over the login unit's contract; daily report and the process.

The proofs followed: first the outbox and the incidents, last the journal
monitor and diagnostics.

Next: proofs of what the liveness properties rest on, as action properties (what
a step may not take back on the way to a settled mail, an answered preparation,
a mailed day), as `OutagesAreToldByMail` is one for `GapReachesOwner`; and the
configuration editor's pair of files, which must agree on one token.
