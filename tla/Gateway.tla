------------------------------ MODULE Gateway ------------------------------
(***************************************************************************)
(* The SnowLuma gateway (gateway.py): the preparation of a login for an    *)
(* account and the capture of the QR code, as aiohttp runs them, each up   *)
(* to its next await.  The preparation itself is the unit of PrepareUnit,  *)
(* which goes on whatever becomes of the gateway; prepare_login.py         *)
(* implements it (LoginUnits).                                             *)
(*                                                                         *)
(* A session has one preparation and one request for a code at work at a   *)
(* time.  The gateway may be restarted at any await.                       *)
(***************************************************************************)
EXTENDS PrepareUnit, Naturals, Sequences

CONSTANTS
  Sessions,    \* browsers
  NoOne,       \* stands for no browser
  MaxPrepares, \* bound: preparations asked for
  MaxRestarts  \* bound: restarts of the gateway

ASSUME BrowsersAssumption ==
  /\ Nobody \notin Accounts
  /\ NoOne \notin Sessions
  /\ MaxPrepares \in Nat /\ MaxRestarts \in Nat

VARIABLES
  account,     \* config["account"] in the gateway's memory
  at,          \* where a browser's preparation is
  want,        \* the account it asks for
  line,        \* prepare_lock: its holder and those waiting for it
  recent,      \* last_prepare or last_action was less than 20 seconds ago
  started,     \* sessions with qq_started
  refresh,     \* sessions with qr_refresh_once
  viewing,     \* browsers waiting for qr_lock, and its holder
  capture,     \* the holder's capture of the screen
  cache,       \* qr_cache
  unsure,      \* history: a preparation ended unconfirmed and none since did
  left         \* what the bounds leave: preparations, restarts

prepareVars == <<at, want, line>>
codeVars    == <<refresh, viewing, capture, cache>>
vars == <<unitVars, account, prepareVars, recent, started, codeVars, unsure, left>>

NoCapture == [by |-> NoOne, of |-> Nobody, during |-> FALSE]
NoCode == [of |-> Nobody, during |-> FALSE]
Spend(what) == left[what] > 0 /\ left' = [left EXCEPT ![what] = @ - 1]

-----------------------------------------------------------------------------
\* login(): the browser's session, gone or not, gives way to a new one.
Login(s) ==
  /\ at[s] = "idle" /\ s \notin viewing /\ capture.by # s
  /\ started' = started \ {s} /\ refresh' = refresh \ {s}
  /\ UNCHANGED <<unitVars, account, prepareVars, recent, viewing, capture, cache, unsure, left>>

-----------------------------------------------------------------------------
(* The preparation of a login.                                             *)

Locked == \E s \in Sessions : at[s] = "unit"

\* prepare() up to its call of the core.
Ask(s, a) ==
  /\ at[s] = "idle"
  /\ ~Locked /\ ~recent
  /\ at' = [at EXCEPT ![s] = "core"]
  /\ want' = [want EXCEPT ![s] = a]
  /\ Spend("prepares")
  /\ UNCHANGED <<unitVars, account, line, recent, started, codeVars, unsure>>

\* No other account is enabled: queue at the lock, without another look.
CoreAllows(s) ==
  /\ at[s] = "core"
  /\ at' = [at EXCEPT ![s] = "queued"]
  /\ line' = Append(line, s)
  /\ UNCHANGED <<unitVars, account, want, recent, started, codeVars, unsure, left>>

CoreForbids(s) ==
  /\ at[s] = "core"
  /\ at' = [at EXCEPT ![s] = "idle"]
  /\ want' = [want EXCEPT ![s] = Nobody]
  /\ UNCHANGED <<unitVars, account, line, recent, started, codeVars, unsure, left>>

\* The request is written and systemctl start called: a unit that is still at
\* work for an earlier request is waited for, and no new one started.
Acquire(s) ==
  /\ at[s] = "queued" /\ s = Head(line)
  /\ at' = [at EXCEPT ![s] = "unit"]
  /\ recent' = TRUE
  /\ Start(want[s]) \/ (unit # Nobody /\ UNCHANGED unitVars)
  /\ capture' = IF capture = NoCapture THEN capture ELSE [capture EXCEPT !.during = TRUE]
  /\ UNCHANGED <<account, want, line, started, refresh, viewing, cache, unsure, left>>

Release(s) == at' = [at EXCEPT ![s] = "idle"] /\ line' = Tail(line) /\ want' = [want EXCEPT ![s] = Nobody]

\* Mutation: the configuration is not read again.
ConfirmUnread(s) ==
  /\ at[s] = "unit" /\ unit = Nobody /\ answer = "ok"
  /\ Release(s)
  /\ account' = want[s]
  /\ cache' = NoCode
  /\ started' = started \cup {s}
  /\ refresh' = refresh \cup {s}
  /\ unsure' = FALSE
  /\ UNCHANGED <<unitVars, recent, viewing, capture, left>>

\* Mutation: the last code is kept for its five seconds.
ConfirmKeepingCode(s) ==
  /\ at[s] = "unit" /\ unit = Nobody /\ answer = "ok"
  /\ file = want[s]
  /\ Release(s)
  /\ account' = want[s]
  /\ started' = started \cup {s}
  /\ refresh' = refresh \cup {s}
  /\ unsure' = FALSE
  /\ UNCHANGED <<unitVars, recent, viewing, capture, cache, left>>

\* The unit succeeded and the configuration names the account that was asked for.
Confirm(s) ==
  /\ at[s] = "unit" /\ unit = Nobody /\ answer = "ok"
  /\ file = want[s]
  /\ Release(s)
  /\ account' = want[s]
  /\ cache' = NoCode
  /\ started' = started \cup {s}
  /\ refresh' = refresh \cup {s}
  /\ unsure' = FALSE
  /\ UNCHANGED <<unitVars, recent, viewing, capture, left>>

\* systemctl failed, or the unit that succeeded was another account's.
Unconfirmed(s) ==
  /\ at[s] = "unit" /\ unit = Nobody
  /\ answer # "ok" \/ file # want[s]
  /\ Release(s)
  /\ unsure' = TRUE
  /\ UNCHANGED <<unitVars, account, recent, started, codeVars, left>>

\* Mutation: systemctl is waited for as long as it takes.
TimeoutNever(s) == at[s] = "gone" /\ UNCHANGED vars

\* wait_for(..., 90): systemctl is ended, the unit is not.
Timeout(s) ==
  /\ at[s] = "unit" /\ unit # Nobody
  /\ Release(s)
  /\ unsure' = TRUE
  /\ UNCHANGED <<unitVars, account, recent, started, codeVars, left>>

Prepare(s) ==
  \/ \E a \in Accounts : Ask(s, a)
  \/ CoreAllows(s) \/ CoreForbids(s) \/ Acquire(s)
  \/ Confirm(s) \/ Unconfirmed(s) \/ Timeout(s)

-----------------------------------------------------------------------------
(* The code on the screen.                                                 *)

\* qr() up to qr_lock.
View(s) ==
  /\ s \in started /\ s \notin viewing
  /\ ~Locked
  /\ viewing' = viewing \cup {s}
  /\ UNCHANGED <<unitVars, account, prepareVars, recent, started, refresh, capture, cache, unsure, left>>

\* The holder of qr_lock answers from the cache, which a session that waits for
\* its refresh does not get.
ServeCached(s) ==
  /\ s \in viewing /\ capture = NoCapture
  /\ cache # NoCode /\ s \notin refresh
  /\ viewing' = viewing \ {s}
  /\ UNCHANGED <<unitVars, account, prepareVars, recent, started, refresh, capture, cache, unsure, left>>

\* login_window finds the window of the client that supervisord runs, whomever
\* the configuration names.
LoginWindow == client

\* A refresh may be asked for at any time.
BeginCapture(s) ==
  /\ s \in viewing /\ capture = NoCapture
  /\ capture' = [by |-> s, of |-> LoginWindow, during |-> Locked \/ unit # Nobody]
  /\ viewing' = viewing \ {s}
  /\ UNCHANGED <<unitVars, account, prepareVars, recent, started, refresh, cache, unsure, left>>

\* The code is kept, and the refresh of the session that asked is done.
EndCapture ==
  /\ capture # NoCapture
  /\ cache' = [of |-> capture.of, during |-> capture.during]
  /\ capture' = NoCapture
  /\ refresh' = refresh \ {capture.by}
  /\ UNCHANGED <<unitVars, account, prepareVars, recent, started, viewing, unsure, left>>

\* No code found, or twelve seconds are over.
CaptureFails ==
  /\ capture # NoCapture
  /\ capture' = NoCapture
  /\ UNCHANGED <<unitVars, account, prepareVars, recent, started, refresh, viewing, cache, unsure, left>>

-----------------------------------------------------------------------------
(* The cutover or the restart of the client is started, another unit.  It  *)
(* asks only for the last action, and that before it awaits OneBot, so a   *)
(* second one may come as well.                                            *)

Action ==
  /\ recent' = TRUE
  /\ UNCHANGED <<unitVars, account, prepareVars, started, codeVars, unsure, left>>

-----------------------------------------------------------------------------
\* Twenty seconds since the last preparation or action, or five since the code.
CooldownOver ==
  /\ recent
  /\ recent' = FALSE
  /\ UNCHANGED <<unitVars, account, prepareVars, started, codeVars, unsure, left>>

CodeExpires ==
  /\ cache # NoCode
  /\ cache' = NoCode
  /\ UNCHANGED <<unitVars, account, prepareVars, recent, started, refresh, viewing, capture, unsure, left>>

\* The unit's own steps.
UnitStep ==
  /\ WriteFile \/ ReplaceClient \/ Succeed \/ Fail
  /\ UNCHANGED <<account, prepareVars, recent, started, codeVars, unsure, left>>

\* The gateway reads its configuration anew; a unit at work may yet change it.
Restart ==
  /\ Spend("restarts")
  /\ account' = file
  /\ unsure' = (unit # Nobody)
  /\ started' = {}
  /\ at' = [s \in Sessions |-> "idle"] /\ line' = <<>>
  /\ recent' = FALSE
  /\ refresh' = {} /\ viewing' = {} /\ capture' = NoCapture /\ cache' = NoCode
  /\ want' = [s \in Sessions |-> Nobody]
  /\ UNCHANGED unitVars

Init ==
  /\ UnitInit
  /\ started = {}
  /\ account = file
  /\ at = [s \in Sessions |-> "idle"] /\ want = [s \in Sessions |-> Nobody] /\ line = <<>>
  /\ recent = FALSE
  /\ refresh = {} /\ viewing = {} /\ capture = NoCapture /\ cache = NoCode
  /\ unsure = FALSE
  /\ left = [prepares |-> MaxPrepares, restarts |-> MaxRestarts]

Browser(s) ==
  \/ Login(s) \/ Prepare(s)
  \/ View(s) \/ ServeCached(s) \/ BeginCapture(s)

Next ==
  \/ \E s \in Sessions : Browser(s)
  \/ EndCapture \/ CaptureFails \/ Action \/ CooldownOver \/ CodeExpires \/ UnitStep \/ Restart

Spec == Init /\ [][Next]_vars

\* The core's answer has a limit of five seconds, systemctl one of ninety; the
\* lock is handed on.  Of the unit nothing is assumed.
Fairness ==
  \A s \in Sessions :
    /\ WF_vars(CoreAllows(s) \/ CoreForbids(s))
    /\ WF_vars(Acquire(s))
    /\ WF_vars(Confirm(s) \/ Unconfirmed(s) \/ Timeout(s))

FairSpec == Spec /\ Fairness

-----------------------------------------------------------------------------
Codes == [of : Accounts, during : BOOLEAN] \cup {NoCode}

TypeOK ==
  /\ unit \in Accounts \cup {Nobody} /\ file \in Accounts /\ client \in Accounts
  /\ answer \in {"none", "ok", "failed"}
  /\ account \in Accounts
  /\ at \in [Sessions -> {"idle", "core", "queued", "unit"}]
  /\ want \in [Sessions -> Accounts \cup {Nobody}]
  /\ line \in Seq(Sessions)
  /\ recent \in BOOLEAN
  /\ started \subseteq Sessions /\ refresh \subseteq Sessions /\ viewing \subseteq Sessions
  /\ capture \in [by : Sessions, of : Accounts, during : BOOLEAN] \cup {NoCapture}
  /\ cache \in Codes
  /\ unsure \in BOOLEAN
  /\ left \in [{"prepares", "restarts"} -> Nat]

\* The account the gateway shows, asks OneBot for and compares logins with is
\* that of the configuration, which the cutover works from: unless a preparation
\* holds the lock, or the last one was answered with an error and may have
\* changed, or yet change, the file all the same.
MemoryFollowsFile == account = file \/ Locked \/ unsure

\* What the gateway remembers is what its configuration says.
MemoryIsSound == TypeOK /\ MemoryFollowsFile

\* A code kept for the next request is that of the client that runs, whatever
\* was prepared since: a code that a preparation has made worthless is not handed
\* out as the new client's.  Excused are a capture that fell into a preparation, a
\* preparation still at work, and one answered with an error, which keeps the
\* cache.  That the client is the one of the gateway's account is not promised.
CachedCodeIsOfClient ==
  cache # NoCode => cache.of = client \/ cache.during \/ Locked \/ unsure

\* Every preparation is answered, though the unit may hang and another may hold
\* the lock.
EveryPrepareAnswers ==
  \A s \in Sessions : at[s] # "idle" ~> at[s] = "idle"

=============================================================================
