------------------------------ MODULE Updater ------------------------------
(***************************************************************************)
(* The update helper (updater.py): releases installed side by side, the    *)
(* links current and previous, the switch, the check that the service runs *)
(* afterwards, and the way back.                                           *)
(*                                                                         *)
(* Every file operation that others may see is a step; the helper may be   *)
(* killed between any two.  Several helpers may run at once: the six-hour  *)
(* timer's and those of an administrator.  Removing a directory tree and   *)
(* the whole of venv, pip and import check are one step each.              *)
(***************************************************************************)
EXTENDS Naturals

CONSTANTS
  Updaters,     \* helper processes
  Versions,     \* releases, in version order
  Faulty,       \* releases whose service does not stay up
  None,         \* no link; the service is down
  MaxAttempts,  \* attempts of _download
  MaxCommands,  \* bound: commands given
  MaxCrashes    \* bound: helpers killed

ASSUME VersionsAssumption ==
  Versions \subseteq Nat \ {0} /\ Faulty \subseteq Versions /\ None \notin Versions
ASSUME NumbersAssumption ==
  MaxAttempts \in Nat \ {0} /\ MaxCommands \in Nat /\ MaxCrashes \in Nat

VARIABLES
  latest,             \* Versions or None: the newest release on GitHub
  content,            \* Versions -> "none" | "partial" | "full": the directory
  marked,             \* Versions -> BOOLEAN: .complete exists
  current, previous,  \* targets of the links
  running,            \* release the service runs, or None
  pc, command,
  restart,            \* Updaters -> BOOLEAN: --restart was given
  target,             \* Updaters -> release to install
  fresh,              \* Updaters -> BOOLEAN: install() builds the directory
  attempt,            \* Updaters -> attempt of _download
  link1, link2,       \* Updaters -> links as read: old current, old previous
  commands, crashes,  \* bounds
  before              \* history: Updaters -> current when the command began

diskVars  == <<content, marked, current, previous>>
localVars == <<pc, command, restart, target, fresh, attempt, link1, link2>>
vars == <<latest, diskVars, running, localVars, commands, crashes, before>>

GoTo(p, place) == pc' = [pc EXCEPT ![p] = place]

Good(v) == v # None /\ v \notin Faulty /\ content[v] = "full"

-----------------------------------------------------------------------------
(* Commands. *)

Publish(v) ==
  /\ IF latest = None THEN TRUE ELSE v > latest
  /\ latest' = v
  /\ UNCHANGED <<diskVars, running, localVars, commands, crashes, before>>

Give(p, place, name) ==
  /\ pc[p] = "idle"
  /\ commands < MaxCommands
  /\ commands' = commands + 1
  /\ GoTo(p, place)
  /\ command' = [command EXCEPT ![p] = name]
  /\ \E verify \in BOOLEAN : restart' = [restart EXCEPT ![p] = verify]
  /\ before' = [before EXCEPT ![p] = current]
  /\ UNCHANGED <<latest, diskVars, running, link1, link2, crashes>>

\* apply: only a release newer than the current one.
Apply(p) ==
  /\ latest # None
  /\ IF current = None THEN TRUE ELSE latest > current
  /\ Give(p, "inspect", "apply")
  /\ target' = [target EXCEPT ![p] = latest]
  /\ fresh' = [fresh EXCEPT ![p] = FALSE]
  /\ attempt' = [attempt EXCEPT ![p] = 1]

Rollback(p) ==
  /\ Give(p, "read rollback", "rollback")
  /\ UNCHANGED <<target, fresh, attempt>>

-----------------------------------------------------------------------------
(* install *)

\* Mutation: a directory that is there is taken to be installed.
InspectByDirectory(p) ==
  LET v == target[p]
  IN  /\ pc[p] = "inspect"
      /\ IF content[v] # "none"
         THEN GoTo(p, "read links") /\ UNCHANGED fresh
         ELSE /\ GoTo(p, "mkdir")
              /\ fresh' = [fresh EXCEPT ![p] = TRUE]
      /\ UNCHANGED <<latest, diskVars, running, command, restart, target, attempt, link1, link2,
                     commands, crashes, before>>

\* A release marked complete is activated as it is; anything else left there
\* is removed first.
Inspect(p) ==
  LET v == target[p]
  IN  /\ pc[p] = "inspect"
      /\ IF marked[v]
         THEN GoTo(p, "read links") /\ UNCHANGED fresh
         ELSE /\ GoTo(p, IF content[v] = "none" THEN "mkdir" ELSE "clear")
              /\ fresh' = [fresh EXCEPT ![p] = TRUE]
      /\ UNCHANGED <<latest, diskVars, running, command, restart, target, attempt, link1, link2,
                     commands, crashes, before>>

Remove(v) ==
  /\ content' = [content EXCEPT ![v] = "none"]
  /\ marked' = [marked EXCEPT ![v] = FALSE]
  /\ UNCHANGED <<current, previous>>

\* rmtree raises when the directory is gone.
Clear(p) ==
  /\ pc[p] = "clear"
  /\ GoTo(p, IF content[target[p]] = "none" THEN "idle" ELSE "mkdir")
  /\ Remove(target[p])
  /\ UNCHANGED <<latest, running, command, restart, target, fresh, attempt, link1, link2,
                 commands, crashes, before>>

\* mkdir raises when there is a directory, outside the try of install.
MakeDirectory(p) ==
  LET v == target[p]
  IN  /\ pc[p] = "mkdir"
      /\ IF content[v] = "none"
         THEN GoTo(p, "download") /\ content' = [content EXCEPT ![v] = "partial"]
         ELSE GoTo(p, "idle") /\ UNCHANGED content
      /\ UNCHANGED <<latest, marked, current, previous, running, command, restart, target, fresh,
                     attempt, link1, link2, commands, crashes, before>>

\* _download: a wheel of the published digest.
Download(p) ==
  /\ pc[p] = "download"
  /\ GoTo(p, "build")
  /\ UNCHANGED <<latest, diskVars, running, command, restart, target, fresh, attempt, link1,
                 link2, commands, crashes, before>>

\* Mutation: retried without a limit.
DownloadFailsForever(p, retried) ==
  /\ pc[p] = "download"
  /\ IF retried
     THEN attempt' = [attempt EXCEPT ![p] = @ + 1] /\ UNCHANGED pc
     ELSE GoTo(p, "cleanup") /\ UNCHANGED attempt
  /\ UNCHANGED <<latest, diskVars, running, command, restart, target, fresh, link1, link2,
                 commands, crashes, before>>

\* Network errors and wrong digests are retried; other errors are not.
DownloadFails(p, retried) ==
  /\ pc[p] = "download"
  /\ IF retried /\ attempt[p] < MaxAttempts
     THEN attempt' = [attempt EXCEPT ![p] = @ + 1] /\ UNCHANGED pc
     ELSE GoTo(p, "cleanup") /\ UNCHANGED attempt
  /\ UNCHANGED <<latest, diskVars, running, command, restart, target, fresh, link1, link2,
                 commands, crashes, before>>

\* venv, pip install and import, in the directory as it then is.
Build(p) ==
  LET v == target[p]
  IN  /\ pc[p] = "build"
      /\ content[v] # "none"
      /\ content' = [content EXCEPT ![v] = "full"]
      /\ GoTo(p, "mark")
      /\ UNCHANGED <<latest, marked, current, previous, running, command, restart, target, fresh,
                     attempt, link1, link2, commands, crashes, before>>

BuildFails(p) ==
  /\ pc[p] = "build"
  /\ GoTo(p, "cleanup")
  /\ UNCHANGED <<latest, diskVars, running, command, restart, target, fresh, attempt, link1,
                 link2, commands, crashes, before>>

\* VERSION and .complete; without the directory writing them raises.
Mark(p) ==
  LET v == target[p]
  IN  /\ pc[p] = "mark"
      /\ IF content[v] = "none"
         THEN GoTo(p, "cleanup") /\ UNCHANGED marked
         ELSE GoTo(p, "read links") /\ marked' = [marked EXCEPT ![v] = TRUE]
      /\ UNCHANGED <<latest, content, current, previous, running, command, restart, target, fresh,
                     attempt, link1, link2, commands, crashes, before>>

\* except Exception: rmtree(target, ignore_errors=True); raise
Cleanup(p) ==
  /\ pc[p] = "cleanup"
  /\ Remove(target[p])
  /\ GoTo(p, "idle")
  /\ UNCHANGED <<latest, running, command, restart, target, fresh, attempt, link1, link2,
                 commands, crashes, before>>

-----------------------------------------------------------------------------
(* activate *)

Activated(p) == IF restart[p] THEN "restart" ELSE "idle"

\* Where an exception in activate leads: the try of install covers only the
\* call for a release it has built.
Undone(p) == IF fresh[p] THEN "cleanup" ELSE "idle"

ReadLinks(p) ==
  /\ pc[p] = "read links"
  /\ link1' = [link1 EXCEPT ![p] = current]
  /\ GoTo(p, IF content[target[p]] = "none" THEN Undone(p)
             ELSE IF current = target[p] THEN Activated(p)
             ELSE IF current = None THEN "link current" ELSE "link previous")
  /\ UNCHANGED <<latest, diskVars, running, command, restart, target, fresh, attempt, link2,
                 commands, crashes, before>>

\* Mutation: previous is made once and then left alone.
LinkPreviousOnce(p) ==
  /\ pc[p] = "link previous"
  /\ previous' = IF previous = None THEN link1[p] ELSE previous
  /\ GoTo(p, "link current")
  /\ UNCHANGED <<latest, content, marked, current, running, command, restart, target, fresh,
                 attempt, link1, link2, commands, crashes, before>>

LinkPrevious(p) ==
  /\ pc[p] = "link previous"
  /\ previous' = link1[p]
  /\ GoTo(p, "link current")
  /\ UNCHANGED <<latest, content, marked, current, running, command, restart, target, fresh,
                 attempt, link1, link2, commands, crashes, before>>

LinkCurrent(p) ==
  /\ pc[p] = "link current"
  /\ current' = target[p]
  /\ GoTo(p, Activated(p))
  /\ UNCHANGED <<latest, content, marked, previous, running, command, restart, target, fresh,
                 attempt, link1, link2, commands, crashes, before>>

\* A link cannot be made.
ActivateRaises(p) ==
  /\ pc[p] \in {"link previous", "link current"}
  /\ GoTo(p, Undone(p))
  /\ UNCHANGED <<latest, diskVars, running, command, restart, target, fresh, attempt, link1,
                 link2, commands, crashes, before>>

-----------------------------------------------------------------------------
(* restart_and_verify, and the way back. *)

Start == running' = IF Good(current) THEN current ELSE None

\* A good release may still be too slow for the health check.
RestartAndVerify(p, inTime) ==
  /\ pc[p] = "restart"
  /\ Start
  /\ IF Good(current) /\ inTime
     THEN GoTo(p, "idle") /\ UNCHANGED command
     ELSE IF command[p] = "apply"
     THEN /\ GoTo(p, IF before[p] = None THEN "idle" ELSE "read rollback")
          /\ command' = [command EXCEPT ![p] = "restore"]
     ELSE /\ GoTo(p, "read rollback")
          /\ command' = [command EXCEPT ![p] = "undo"]
  /\ UNCHANGED <<latest, diskVars, restart, target, fresh, attempt, link1, link2,
                 commands, crashes, before>>

\* rollback: raises unless there are both links.
ReadRollback(p) ==
  /\ pc[p] = "read rollback"
  /\ link1' = [link1 EXCEPT ![p] = current]
  /\ link2' = [link2 EXCEPT ![p] = previous]
  /\ GoTo(p, IF current = None \/ previous = None THEN "idle" ELSE "swap current")
  /\ UNCHANGED <<latest, diskVars, running, command, restart, target, fresh, attempt,
                 commands, crashes, before>>

SwapCurrent(p) ==
  /\ pc[p] = "swap current"
  /\ current' = link2[p]
  /\ GoTo(p, "swap previous")
  /\ UNCHANGED <<latest, content, marked, previous, running, command, restart, target, fresh,
                 attempt, link1, link2, commands, crashes, before>>

\* Mutation: the service is not started again.
SwapPreviousOnly(p) ==
  /\ pc[p] = "swap previous"
  /\ previous' = link1[p]
  /\ GoTo(p, IF command[p] = "rollback" THEN Activated(p) ELSE "idle")
  /\ UNCHANGED <<latest, content, marked, current, running, command, restart, target, fresh,
                 attempt, link1, link2, commands, crashes, before>>

SwapPrevious(p) ==
  /\ pc[p] = "swap previous"
  /\ previous' = link1[p]
  /\ GoTo(p, CASE command[p] = "rollback" -> Activated(p)
               [] command[p] = "restore"  -> "restart old"
               [] OTHER                   -> "idle")
  /\ UNCHANGED <<latest, content, marked, current, running, command, restart, target, fresh,
                 attempt, link1, link2, commands, crashes, before>>

\* systemctl restart without a check, after a failed apply.
RestartOld(p) ==
  /\ pc[p] = "restart old"
  /\ Start
  /\ GoTo(p, "idle")
  /\ UNCHANGED <<latest, diskVars, command, restart, target, fresh, attempt, link1, link2,
                 commands, crashes, before>>

Crash(p) ==
  /\ pc[p] # "idle"
  /\ crashes < MaxCrashes
  /\ crashes' = crashes + 1
  /\ GoTo(p, "idle")
  /\ UNCHANGED <<latest, diskVars, running, command, restart, target, fresh, attempt, link1,
                 link2, commands, before>>

-----------------------------------------------------------------------------
\* scripts/install.sh has left one complete release, or nothing.
Init ==
  /\ \E v \in Versions \cup {None} :
       /\ latest = v /\ current = v /\ running = IF v \in Faulty THEN None ELSE v
       /\ content = [w \in Versions |-> IF w = v THEN "full" ELSE "none"]
       /\ marked = [w \in Versions |-> w = v]
  /\ previous = None
  /\ pc = [p \in Updaters |-> "idle"]
  /\ command = [p \in Updaters |-> "apply"]
  /\ restart = [p \in Updaters |-> FALSE]
  /\ target = [p \in Updaters |-> None]
  /\ fresh = [p \in Updaters |-> FALSE]
  /\ attempt = [p \in Updaters |-> 1]
  /\ link1 = [p \in Updaters |-> None]
  /\ link2 = [p \in Updaters |-> None]
  /\ before = [p \in Updaters |-> None]
  /\ commands = 0 /\ crashes = 0

Work(p) ==
  \/ Inspect(p) \/ Clear(p) \/ MakeDirectory(p) \/ Download(p)
  \/ \E retried \in BOOLEAN : DownloadFails(p, retried)
  \/ Build(p) \/ BuildFails(p) \/ Mark(p) \/ Cleanup(p)
  \/ ReadLinks(p) \/ LinkPrevious(p) \/ LinkCurrent(p) \/ ActivateRaises(p)
  \/ \E inTime \in BOOLEAN : RestartAndVerify(p, inTime)
  \/ ReadRollback(p) \/ SwapCurrent(p) \/ SwapPrevious(p) \/ RestartOld(p)

Next ==
  \/ \E v \in Versions : Publish(v)
  \/ \E p \in Updaters : Apply(p) \/ Rollback(p) \/ Work(p) \/ Crash(p)

Spec == Init /\ [][Next]_vars

-----------------------------------------------------------------------------
Places == {"idle", "inspect", "clear", "mkdir", "download", "build", "mark", "cleanup",
           "read links", "link previous", "link current", "restart", "read rollback",
           "swap current", "swap previous", "restart old"}
Links == Versions \cup {None}

TypeOK ==
  /\ latest \in Links
  /\ content \in [Versions -> {"none", "partial", "full"}]
  /\ marked \in [Versions -> BOOLEAN]
  /\ current \in Links /\ previous \in Links /\ running \in Links
  /\ pc \in [Updaters -> Places]
  /\ command \in [Updaters -> {"apply", "rollback", "restore", "undo"}]
  /\ restart \in [Updaters -> BOOLEAN]
  /\ target \in [Updaters -> Links]
  /\ \A p \in Updaters :
       pc[p] \notin {"idle", "restart", "read rollback", "swap current", "swap previous",
                    "restart old"}
         => target[p] \in Versions
  /\ fresh \in [Updaters -> BOOLEAN]
  /\ attempt \in [Updaters -> 1 .. MaxAttempts]
  /\ link1 \in [Updaters -> Links] /\ link2 \in [Updaters -> Links]
  /\ before \in [Updaters -> Links]
  /\ commands \in Nat /\ crashes \in Nat

\* A link leads to a release that was installed whole and marked so, wherever
\* the helper was killed and whatever failed: what install() removes or has
\* not finished is never linked.  With one helper at a time.
Installed(v) == v # None => content[v] = "full" /\ marked[v]
LinksAreInstalled == Installed(current) /\ Installed(previous)

\* After a failed check the links are what the command found: apply is back
\* at the old release with the new one as previous, and a failed rollback has
\* swapped twice.  With one helper at a time.
FailureRestoresLinks ==
  \A p \in Updaters :
    /\ pc[p] = "restart old" => current = before[p] /\ previous = target[p]
    /\ pc[p] = "swap previous" /\ command[p] = "undo" => current = before[p]

-----------------------------------------------------------------------------
(* Liveness: a helper that is not killed goes on; each of its commands has   *)
(* time limits.                                                              *)

FairSpec == Spec /\ \A p \in Updaters : WF_vars(Work(p))

\* AC-08: when the new release does not stay up, the service runs the old one
\* again, if that one is good.
FailedApplyRecovers ==
  \A p \in Updaters : \A v \in Versions \ Faulty :
    pc[p] = "read rollback" /\ command[p] = "restore" /\ before[p] = v
      ~> running = v \/ crashes > 0

-----------------------------------------------------------------------------
(* What the documents say and a second helper refutes. *)

\* docs/user-guide.md: only what was installed and imported is switched to.
SwitchedOnlyWhenChecked == current # None => content[current] = "full"

=============================================================================
