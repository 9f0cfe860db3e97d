------------------------------ MODULE Service ------------------------------
(***************************************************************************)
(* The process (app.py): two of its workers, the daily report and the      *)
(* journal reader, under supervise, the webhook that stores usage, and the *)
(* shutdown.  A worker that raises rests for five seconds and is started   *)
(* from its beginning.  SIGTERM sets stop; the webhook is closed, workers  *)
(* have three seconds to see it and are cancelled after that; a statement  *)
(* of the database that is under way in a thread is not, and the process   *)
(* waits for it.  It may also be killed, and is started again by systemd.  *)
(***************************************************************************)
EXTENDS DailyReport, JournalReader

CONSTANTS
  MaxFaults,   \* bound: exceptions in a worker
  MaxStarts    \* bound: starts of the process after the first

ASSUME FaultsAssumption == MaxFaults \in Nat /\ MaxStarts \in Nat

VARIABLES
  life,        \* up, closing (finish_workers), down
  stop,        \* the event
  worker,      \* of each worker: running, resting, done
  left         \* what the bounds leave: faults, starts

Workers == {"reporter", "reader"}
processVars == <<life, stop, worker, left>>
vars == <<reportVars, journalVars, processVars>>

Spend(what) == left[what] > 0 /\ left' = [left EXCEPT ![what] = @ - 1]
Become(w, state) == worker' = [worker EXCEPT ![w] = state]

-----------------------------------------------------------------------------
(* The world: usage is pushed while the webhook listens; journalctl writes *)
(* while it runs.                                                          *)

UsageStep ==
  /\ \E r \in Requests : Call(r) \/ (life = "up" /\ Record(r))
  /\ UNCHANGED <<journalVars, processVars>>

ReaderStep ==
  /\ worker["reader"] = "running" /\ ~stop
  /\ ReaderNext
  /\ UNCHANGED <<reportVars, processVars>>

TimePasses == PassHalf /\ UNCHANGED <<journalVars, processVars>>

-----------------------------------------------------------------------------
(* The reporter.  Its awaits on the database may take any time.            *)

\* The reporter has a statement in a thread.
InThread == rAt \in {"query", "publish"}

ReporterWorks ==
  /\ worker["reporter"] = "running"
  /\ stop => InThread
  /\ ReporterStep
  /\ UNCHANGED <<journalVars, processVars>>

NoReporter == rAt' = "off" /\ today' = 0 /\ groups' = NoRows /\ wake' = 0

\* The database is locked or the disk full.
ReporterRaises ==
  /\ worker["reporter"] = "running" /\ InThread
  /\ Become("reporter", "resting")
  /\ NoReporter
  /\ Spend("faults")
  /\ UNCHANGED <<now, usageVars, reports, excused, journalVars, life, stop>>

\* Mutation: supervise lets go of a worker that raised.
ResumeNever == worker["reporter"] = "gone" /\ UNCHANGED vars

\* supervise: five seconds after an exception.
Resume ==
  /\ worker["reporter"] = "resting" /\ ~stop
  /\ Become("reporter", "running")
  /\ rAt' = "check"
  /\ UNCHANGED <<now, usageVars, today, groups, wake, reports, excused, journalVars, life, stop, left>>

-----------------------------------------------------------------------------
(* Shutdown and restart.                                                   *)

\* The signal handler; run() goes on to its finally clause.
Terminate ==
  /\ life = "up" /\ ~stop
  /\ stop' = TRUE
  /\ life' = "closing"
  /\ UNCHANGED <<reportVars, journalVars, worker, left>>

\* A worker waits on stop or looks at it in its loop.
SeesStop(w) ==
  /\ stop /\ worker[w] # "done"
  /\ w = "reporter" => ~InThread
  /\ Become(w, "done")
  /\ IF w = "reporter" THEN NoReporter /\ UNCHANGED journalVars
                       ELSE ReaderRestart /\ UNCHANGED reporterVars
  /\ UNCHANGED <<now, usageVars, reports, excused, life, stop, left>>

\* finish_workers after the grace period.  The coroutine ends; what it handed
\* to a thread goes on.
Cancel(w) ==
  /\ life = "closing" /\ worker[w] # "done"
  /\ Become(w, "done")
  /\ CASE w = "reader"                -> ReaderRestart /\ UNCHANGED reporterVars
       [] w = "reporter" /\ InThread  -> UNCHANGED <<journalVars, reporterVars>>
       [] OTHER                       -> NoReporter /\ UNCHANGED journalVars
  /\ UNCHANGED <<now, usageVars, reports, excused, life, stop, left>>

\* The thread of a cancelled reporter ends, with its statement done or refused.
ThreadEnds ==
  /\ worker["reporter"] = "done" /\ InThread
  /\ UNCHANGED reports \/ (rAt = "publish" /\ Keep)
  /\ NoReporter
  /\ UNCHANGED <<now, usageVars, excused, journalVars, processVars>>

\* asyncio.run joins the threads of its executor before the process ends.
Stopped ==
  /\ life = "closing" /\ \A w \in Workers : worker[w] = "done"
  /\ rAt = "off"
  /\ life' = "down"
  /\ stop' = FALSE
  /\ UNCHANGED <<reportVars, journalVars, worker, left>>

Kill ==
  /\ life # "down"
  /\ life' = "down" /\ stop' = FALSE
  /\ worker' = [w \in Workers |-> "done"]
  /\ NoReporter
  /\ ReaderRestart
  /\ UNCHANGED <<now, usageVars, reports, excused, left>>

Start ==
  /\ life = "down"
  /\ Spend("starts")
  /\ life' = "up"
  /\ worker' = [w \in Workers |-> "running"]
  /\ rAt' = "check"
  /\ UNCHANGED <<now, usageVars, today, groups, wake, reports, excused, journalVars, stop>>

-----------------------------------------------------------------------------
Init ==
  /\ ReportInit /\ ReaderInit
  /\ life = "up" /\ stop = FALSE
  /\ worker = [w \in Workers |-> "running"]
  /\ left = [faults |-> MaxFaults, starts |-> MaxStarts]

Next ==
  \/ UsageStep \/ ReaderStep \/ TimePasses
  \/ ReporterWorks \/ ReporterRaises \/ Resume
  \/ Terminate \/ ThreadEnds \/ Stopped \/ Kill \/ Start
  \/ \E w \in Workers : SeesStop(w) \/ Cancel(w)

Spec == Init /\ [][Next]_vars

\* Timers run out, and while the service is up a statement of the database ends,
\* if only by SQLite's busy timeout.  Nothing is assumed of the clock, of the
\* usage that comes and of a shutdown.
Fairness ==
  /\ WF_vars(Resume)
  /\ WF_vars(life = "up" /\ ReporterWorks)

FairSpec == Spec /\ Fairness

-----------------------------------------------------------------------------
TypeOK ==
  /\ ReportTypeOK /\ ReaderTypeOK
  /\ life \in {"up", "closing", "down"}
  /\ stop \in BOOLEAN
  /\ worker \in [Workers -> {"running", "resting", "done"}]
  /\ left \in [{"faults", "starts"} -> Nat]
  /\ stop <=> life = "closing"

\* The table of usage and the reports agree.
UsageBooks == TypeOK /\ CountedOnce

\* Once the report time is there, usage stored before it is mailed, though the
\* database fails in between: unless the service is stopped, or the rest of the
\* day goes by meanwhile.
DueReportIsMailed ==
  \A r \in Requests :
    /\ life = "up" /\ rows[r] > 0 /\ r \notin late
    /\ now = ReportTime(filed[r] + 1)
    ~>
    life # "up" \/ Mailed(r) \/ filed[r] \in excused

=============================================================================
