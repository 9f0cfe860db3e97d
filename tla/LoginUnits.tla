----------------------------- MODULE LoginUnits -----------------------------
(***************************************************************************)
(* The two root-owned units behind the SnowLuma gateway and what they      *)
(* change: prepare_login.py, which gives the shared QQ client to an        *)
(* account, and connect_dice1.py, which moves an account from its Milky    *)
(* endpoint to the SL endpoint and undoes that on an error.  systemd runs  *)
(* each of them once at a time but both at once; somebody works in         *)
(* SealDice's web UI through the gateway meanwhile.                        *)
(*                                                                         *)
(* A step is one call to SealDice, one file or one systemctl.  A call is   *)
(* answered, refused, or carried out while its answer is lost; SIGTERM     *)
(* raises InterruptedError, which is a lost or refused call of the step it *)
(* falls into.  A file that is read and written again within milliseconds  *)
(* is one step.                                                            *)
(***************************************************************************)
EXTENDS Naturals

CONSTANTS
  Accounts,    \* QQ accounts
  Main,        \* milky.expected_user_id
  Nobody,      \* nobody is logged in
  MaxChanges,  \* bound: changes in the web UI
  MaxPrepares, \* bound: runs of the preparation
  MaxCutovers  \* bound: runs of the cutover

ASSUME AccountsAssumption == Main \in Accounts /\ Nobody \notin Accounts
ASSUME BoundsAssumption == MaxChanges \in Nat /\ MaxPrepares \in Nat /\ MaxCutovers \in Nat

VARIABLES
  \* SealDice's endpoints
  made,        \* accounts that have an SL endpoint
  sl,          \* accounts whose SL endpoint is enabled
  milky,       \* accounts whose Milky endpoint is enabled
  asked,       \* a change the gateway's guard let pass, not yet forwarded
  \* the QQ client
  login,       \* who is logged in
  client,      \* whose profile it runs with
  \* files and units
  gw,          \* account in the gateway's configuration
  profile,     \* in supervisord.conf: whose, and whether prepare_login made it
  sentinel,    \* Sentinel's configuration of the SL connection and of Milky
  sync,        \* the endpoint synchronisation is enabled
  \* prepare_login.py
  pAt, pAcct, pAnswer,
  \* connect_dice1.py
  cAt, cAcct,
  initial,     \* the endpoints as listed at first; history: sync at that time
  snapshot,    \* copy of Sentinel's configuration
  newKnown,    \* new_id is set
  outcome,     \* history: running, rejected (before the try), failed, complete
  clean,       \* history: nobody interfered and the undoing was carried out
  left         \* what the bounds leave: changes, preparations, cutovers

coreVars    == <<made, sl, milky>>
clientVars  == <<login, client>>
fileVars    == <<gw, profile, sentinel, sync>>
prepareVars == <<pAt, pAcct, pAnswer>>
connectVars == <<cAt, cAcct, initial, snapshot, newKnown, outcome, clean>>
vars == <<coreVars, asked, clientVars, fileVars, prepareVars, connectVars, left>>

Replies  == {"ok", "refused", "lost"}
Spend(what) == left[what] > 0 /\ left' = [left EXCEPT ![what] = @ - 1]

Done(reply) == reply # "refused"

NoChange == [kind |-> "none", account |-> Nobody, enable |-> FALSE]
Changes  == [kind : {"sl", "milky"}, account : Accounts, enable : BOOLEAN]

-----------------------------------------------------------------------------
(* SealDice's web UI, through the gateway.                                 *)

\* guard_duplicate: while a managed account is enabled, its Milky endpoint may
\* not be enabled too.
Blocked(c) == c.kind = "milky" /\ c.enable /\ c.account \in sl

PassGuard(c) ==
  /\ asked = NoChange
  /\ c.kind = "sl" => c.account \in made
  /\ ~Blocked(c)
  /\ asked' = c
  /\ Spend("changes")
  /\ UNCHANGED <<coreVars, clientVars, fileVars, prepareVars, connectVars>>

With(S, a, on) == IF on THEN S \cup {a} ELSE S \ {a}

\* proxy() sends on what it has checked.
Forward ==
  /\ asked # NoChange
  /\ sl' = IF asked.kind = "sl" THEN With(sl, asked.account, asked.enable) ELSE sl
  /\ milky' = IF asked.kind = "milky" THEN With(milky, asked.account, asked.enable) ELSE milky
  /\ asked' = NoChange
  /\ clean' = FALSE
  /\ UNCHANGED <<made, clientVars, fileVars, prepareVars,
                 cAt, cAcct, initial, snapshot, newKnown, outcome, left>>

-----------------------------------------------------------------------------
(* The QQ client: somebody scans the code with any account, or logs out.   *)

ScanOrLeave ==
  /\ login' \in Accounts \cup {Nobody}
  /\ UNCHANGED <<coreVars, asked, client, fileVars, prepareVars, connectVars, left>>

-----------------------------------------------------------------------------
(* prepare_login.py                                                        *)

PreparePc(from, to) == pAt = from /\ pAt' = to
EndPrepare(result) == pAt' = "idle" /\ pAnswer' = result /\ UNCHANGED pAcct

\* The unit reads the account from the request file.
PrepareStart(a) ==
  /\ PreparePc("idle", "core")
  /\ pAcct' = a /\ pAnswer' = "none"
  /\ Spend("prepares")
  /\ UNCHANGED <<coreVars, asked, clientVars, fileVars, connectVars>>

\* assert not any(... another SL account enabled)
CheckCore ==
  /\ sl \subseteq {pAcct}
  /\ PreparePc("core", "probe")
  /\ UNCHANGED <<pAcct, pAnswer, coreVars, asked, clientVars, fileVars, connectVars, left>>

\* get_login_info answers only with the token of the account in gw.
LoggedIn ==
  /\ pAt = "probe"
  /\ login = pAcct /\ gw = pAcct
  /\ EndPrepare("ok")
  /\ UNCHANGED <<coreVars, asked, clientVars, fileVars, connectVars, left>>

Pending == profile = [account |-> pAcct, ours |-> TRUE]

\* A probe that fails is no logout: the client of this account is kept.
Reuse ==
  /\ pAt = "probe"
  /\ gw = pAcct /\ Pending
  /\ EndPrepare("ok")
  /\ UNCHANGED <<coreVars, asked, clientVars, fileVars, connectVars, left>>

\* Somebody else's client, or supervisorctl does not say that it runs; then
\* the backups, the secrets and the account's OneBot file.
Replace ==
  /\ PreparePc("probe", "sentinel")
  /\ gw = pAcct /\ Pending => login = Nobody
  /\ UNCHANGED <<pAcct, pAnswer, coreVars, asked, clientVars, fileVars, connectVars, left>>

WriteSentinel ==
  /\ PreparePc("sentinel", "gateway")
  /\ sentinel' = [sentinel EXCEPT !.account = pAcct, !.watched = FALSE]
  /\ clean' = FALSE
  /\ UNCHANGED <<pAcct, pAnswer, coreVars, asked, clientVars, gw, profile, sync,
                 cAt, cAcct, initial, snapshot, newKnown, outcome, left>>

\* Mutation: the gateway's file is left to the restart.
WriteGatewayLater ==
  /\ PreparePc("gateway", "profile")
  /\ UNCHANGED <<pAcct, pAnswer, coreVars, asked, clientVars, fileVars, connectVars, left>>

WriteGateway ==
  /\ PreparePc("gateway", "profile")
  /\ gw' = pAcct
  /\ UNCHANGED <<pAcct, pAnswer, coreVars, asked, clientVars, profile, sentinel, sync, connectVars, left>>

WriteSupervisor ==
  /\ PreparePc("profile", "update")
  /\ profile' = [account |-> pAcct, ours |-> TRUE]
  /\ UNCHANGED <<pAcct, pAnswer, coreVars, asked, clientVars, gw, sentinel, sync, connectVars, left>>

\* supervisorctl reread and update replace the client; then Sentinel's restart.
UpdateClient ==
  /\ PreparePc("update", "code")
  /\ client' = pAcct
  /\ login' = Nobody
  /\ UNCHANGED <<pAcct, pAnswer, coreVars, asked, fileVars, connectVars, left>>

\* One of ten captures shows a code.
CodeShows ==
  /\ pAt = "code"
  /\ EndPrepare("ok")
  /\ UNCHANGED <<coreVars, asked, clientVars, fileVars, connectVars, left>>

\* An assertion, a failing command, a full disk, a kill: nothing is undone.
PrepareFails ==
  /\ pAt # "idle"
  /\ EndPrepare("failed")
  /\ UNCHANGED <<coreVars, asked, clientVars, fileVars, connectVars, left>>

Prepare ==
  \/ \E a \in Accounts : PrepareStart(a)
  \/ CheckCore \/ LoggedIn \/ Reuse \/ Replace
  \/ WriteSentinel \/ WriteGateway \/ WriteSupervisor \/ UpdateClient
  \/ CodeShows \/ PrepareFails

-----------------------------------------------------------------------------
(* connect_dice1.py                                                        *)

ConnectPc(from, to) == cAt = from /\ cAt' = to

\* The next statement of the try, or the except clause.
Try(from, reply, to) == ConnectPc(from, IF reply = "ok" THEN to ELSE "disableNew")

EndConnect(result) == cAt' = "idle" /\ outcome' = result

\* configure(): the account is read from the gateway's configuration.
ConnectStart ==
  /\ ConnectPc("idle", "verify")
  /\ cAcct' = gw
  /\ outcome' = "running"
  /\ clean' = TRUE
  /\ Spend("cutovers")
  /\ UNCHANGED <<coreVars, asked, clientVars, fileVars, prepareVars, initial, snapshot, newKnown>>

VerifyLogin ==
  /\ login = cAcct
  /\ ConnectPc("verify", "list")
  /\ UNCHANGED <<coreVars, asked, clientVars, fileVars, prepareVars,
                 cAcct, initial, snapshot, newKnown, outcome, clean, left>>

ReadCore ==
  /\ ConnectPc("list", "copy")
  /\ initial' = [made |-> made, sl |-> sl, milky |-> milky, sync |-> sync]
  /\ newKnown' = (cAcct \in made)
  /\ UNCHANGED <<coreVars, asked, clientVars, fileVars, prepareVars,
                 cAcct, snapshot, outcome, clean, left>>

CopyConfig ==
  /\ ConnectPc("copy", "sync")
  /\ snapshot' = sentinel
  /\ UNCHANGED <<coreVars, asked, clientVars, fileVars, prepareVars,
                 cAcct, initial, newKnown, outcome, clean, left>>

\* An error before the try: nothing was changed.
Reject ==
  /\ cAt \in {"verify", "list", "copy"}
  /\ EndConnect("rejected")
  /\ UNCHANGED <<coreVars, asked, clientVars, fileVars, prepareVars,
                 cAcct, initial, snapshot, newKnown, clean, left>>

\* primary_cutover: the endpoint synchronisation of the Milky account ends.
StopSync ==
  \E reply \in Replies :
    /\ Try("sync", reply, "disableOld")
    /\ sync' = (sync /\ ~(cAcct = Main /\ Done(reply)))
    /\ UNCHANGED <<coreVars, asked, clientVars, gw, profile, sentinel, prepareVars,
                   cAcct, initial, snapshot, newKnown, outcome, clean, left>>

OldEnabled == cAcct \in initial.milky

\* Mutation: the old endpoint is left for the end.
DisableOldLater ==
  /\ ConnectPc("disableOld", "config")
  /\ UNCHANGED <<coreVars, asked, clientVars, fileVars, prepareVars,
                 cAcct, initial, snapshot, newKnown, outcome, clean, left>>

DisableOld ==
  \E reply \in Replies :
    /\ Try("disableOld", reply, "config")
    /\ milky' = IF OldEnabled /\ Done(reply) THEN milky \ {cAcct} ELSE milky
    /\ UNCHANGED <<made, sl, asked, clientVars, fileVars, prepareVars,
                   cAcct, initial, snapshot, newKnown, outcome, clean, left>>

\* next(... expected_user_id == account) raises when the file names another.
SwitchMonitoring ==
  \E reply \in Replies :
    /\ sentinel.account # cAcct => reply = "refused"
    /\ Try("config", reply, "reload")
    /\ sentinel' = IF ~Done(reply) THEN sentinel
                   ELSE [sentinel EXCEPT !.watched = TRUE, !.milky = @ /\ cAcct # Main]
    /\ UNCHANGED <<coreVars, asked, clientVars, gw, profile, sync, prepareVars,
                   cAcct, initial, snapshot, newKnown, outcome, clean, left>>

\* systemctl restart of Sentinel and its resource agent.
Reload ==
  \E reply \in Replies :
    /\ Try("reload", reply, "create")
    /\ UNCHANGED <<coreVars, asked, clientVars, fileVars, prepareVars,
                   cAcct, initial, snapshot, newKnown, outcome, clean, left>>

\* addGocqSeparate creates the endpoint disabled; its id is in the answer.
CreateNew ==
  \E reply \in Replies :
    /\ Try("create", reply, "enableNew")
    /\ made' = IF ~newKnown /\ Done(reply) THEN made \cup {cAcct} ELSE made
    /\ newKnown' = (newKnown \/ reply = "ok")
    /\ UNCHANGED <<sl, milky, asked, clientVars, fileVars, prepareVars,
                   cAcct, initial, snapshot, outcome, clean, left>>

EnableNew ==
  \E reply \in Replies :
    /\ Try("enableNew", reply, "poll")
    /\ sl' = IF Done(reply) THEN sl \cup {cAcct} ELSE sl
    /\ UNCHANGED <<made, milky, asked, clientVars, fileVars, prepareVars,
                   cAcct, initial, snapshot, newKnown, outcome, clean, left>>

\* Endpoints that were there at first, but for the two of this account.
OthersUnchanged ==
  /\ (sl \cap initial.made) \ {cAcct} = initial.sl \ {cAcct}
  /\ milky \ {cAcct} = initial.milky \ {cAcct}

\* The new endpoint is connected in the list that is compared at the end, or
\* twenty polls go by.
Poll ==
  \E reply \in {"ok", "refused"} :
    /\ reply = "ok" => cAcct \in sl /\ OthersUnchanged
    /\ Try("poll", reply, "confirm")
    /\ UNCHANGED <<coreVars, asked, clientVars, fileVars, prepareVars,
                   cAcct, initial, snapshot, newKnown, outcome, clean, left>>

Confirmed ==
  /\ cAt = "confirm" /\ login = cAcct
  /\ EndConnect("complete")
  /\ UNCHANGED <<coreVars, asked, clientVars, fileVars, prepareVars,
                 cAcct, initial, snapshot, newKnown, clean, left>>

NotConfirmed ==
  /\ ConnectPc("confirm", "disableNew")
  /\ UNCHANGED <<coreVars, asked, clientVars, fileVars, prepareVars,
                 cAcct, initial, snapshot, newKnown, outcome, clean, left>>

\* except: a refused or unanswered disabling is only printed.
DisableNew ==
  \E reply \in Replies :
    /\ ConnectPc("disableNew", "rewrite")
    /\ sl' = IF newKnown /\ Done(reply) THEN sl \ {cAcct} ELSE sl
    /\ clean' = (clean /\ (newKnown => Done(reply)))
    /\ UNCHANGED <<made, milky, asked, clientVars, fileVars, prepareVars,
                   cAcct, initial, snapshot, newKnown, outcome, left>>

\* The result file cannot be written: nothing is undone.
RestoreUnwritten ==
  /\ cAt = "disableNew"
  /\ EndConnect("failed")
  /\ clean' = FALSE
  /\ UNCHANGED <<coreVars, asked, clientVars, fileVars, prepareVars,
                 cAcct, initial, snapshot, newKnown, left>>

\* From here on an error leaves the rest undone.
Undo(from, reply, to) ==
  IF reply = "ok"
  THEN ConnectPc(from, to) /\ UNCHANGED <<outcome, clean>>
  ELSE cAt = from /\ EndConnect("failed") /\ clean' = FALSE

RestoreConfig ==
  \E reply \in Replies :
    /\ Undo("rewrite", reply, "enableOld")
    /\ sentinel' = IF Done(reply) THEN snapshot ELSE sentinel
    /\ UNCHANGED <<coreVars, asked, clientVars, gw, profile, sync, prepareVars,
                   cAcct, initial, snapshot, newKnown, left>>

\* Mutation: enabled whatever it was at first.
RestoreOldAlways ==
  \E reply \in Replies :
    /\ Undo("enableOld", reply, "resync")
    /\ milky' = IF Done(reply) THEN milky \cup {cAcct} ELSE milky
    /\ UNCHANGED <<made, sl, asked, clientVars, fileVars, prepareVars,
                   cAcct, initial, snapshot, newKnown, left>>

RestoreOld ==
  \E reply \in Replies :
    /\ Undo("enableOld", reply, "resync")
    /\ milky' = IF Done(reply) THEN With(milky, cAcct, OldEnabled) ELSE milky
    /\ UNCHANGED <<made, sl, asked, clientVars, fileVars, prepareVars,
                   cAcct, initial, snapshot, newKnown, left>>

\* systemctl enable for the Milky account, whose failure nobody looks at and whose
\* timeout ends the clause, and Sentinel's restart.
RestoreSync ==
  \E reply \in Replies :
    /\ cAt = "resync"
    /\ EndConnect("failed")
    /\ sync' = (sync \/ (cAcct = Main /\ Done(reply)))
    /\ clean' = (clean /\ (cAcct = Main => Done(reply)))
    /\ UNCHANGED <<coreVars, asked, clientVars, gw, profile, sentinel, prepareVars,
                   cAcct, initial, snapshot, newKnown, left>>

\* Killed outright; the result file keeps saying running.
Killed ==
  /\ cAt # "idle"
  /\ cAt' = "idle"
  /\ UNCHANGED <<coreVars, asked, clientVars, fileVars, prepareVars,
                 cAcct, initial, snapshot, newKnown, outcome, clean, left>>

Connect ==
  \/ ConnectStart \/ VerifyLogin \/ ReadCore \/ CopyConfig \/ Reject
  \/ StopSync \/ DisableOld \/ SwitchMonitoring \/ Reload \/ CreateNew \/ EnableNew
  \/ Poll \/ Confirmed \/ NotConfirmed
  \/ DisableNew \/ RestoreUnwritten \/ RestoreConfig \/ RestoreOld \/ RestoreSync \/ Killed

-----------------------------------------------------------------------------
\* The main account is on Milky; its client was set up by hand or prepared.
Init ==
  /\ made = {} /\ sl = {} /\ milky = {Main} /\ asked = NoChange
  /\ gw = Main /\ client = Main /\ login = Nobody
  /\ profile \in [account : {Main}, ours : BOOLEAN]
  /\ sentinel = [account |-> Main, watched |-> FALSE, milky |-> TRUE]
  /\ sync = TRUE
  /\ pAt = "idle" /\ pAcct = Main /\ pAnswer = "none"
  /\ cAt = "idle" /\ cAcct = Main /\ newKnown = FALSE
  /\ initial = [made |-> made, sl |-> sl, milky |-> milky, sync |-> sync]
  /\ snapshot = sentinel
  /\ outcome = "none" /\ clean = TRUE
  /\ left = [changes |-> MaxChanges, prepares |-> MaxPrepares, cutovers |-> MaxCutovers]

Next ==
  \/ \E c \in Changes : PassGuard(c)
  \/ Forward \/ ScanOrLeave \/ Prepare \/ Connect

Spec == Init /\ [][Next]_vars

-----------------------------------------------------------------------------
EndpointState ==
  [made : SUBSET Accounts, sl : SUBSET Accounts, milky : SUBSET Accounts, sync : BOOLEAN]
SentinelState == [account : Accounts, watched : BOOLEAN, milky : BOOLEAN]

CoreTypes ==
  /\ made \subseteq Accounts /\ sl \subseteq Accounts /\ milky \subseteq Accounts
  /\ asked \in Changes \cup {NoChange}
  /\ login \in Accounts \cup {Nobody} /\ client \in Accounts

FileTypes ==
  /\ gw \in Accounts
  /\ profile \in [account : Accounts, ours : BOOLEAN]
  /\ sentinel \in SentinelState
  /\ sync \in BOOLEAN

PrepareTypes ==
  /\ pAt \in {"idle", "core", "probe", "sentinel", "gateway", "profile", "update", "code"}
  /\ pAcct \in Accounts
  /\ pAnswer \in {"none", "ok", "failed"}

ConnectTypes ==
  /\ cAt \in {"idle", "verify", "list", "copy", "sync", "disableOld", "config", "reload",
              "create", "enableNew", "poll", "confirm",
              "disableNew", "rewrite", "enableOld", "resync"}
  /\ cAcct \in Accounts
  /\ initial \in EndpointState
  /\ snapshot \in SentinelState
  /\ newKnown \in BOOLEAN
  /\ outcome \in {"none", "running", "rejected", "failed", "complete"}
  /\ clean \in BOOLEAN

TypeOK ==
  /\ CoreTypes /\ FileTypes /\ PrepareTypes /\ ConnectTypes
  /\ left \in [{"changes", "prepares", "cutovers"} -> Nat]

\* A cutover that failed, with nobody else at work and every call of its undoing
\* carried out, whatever call it failed at and whatever became of that call: the
\* Milky endpoint and Sentinel's configuration are as they were at first, the SL
\* endpoint is off unless it was on at first, and the synchronisation is on if it
\* was.  The code does not put back an SL endpoint that was on, and enables a
\* synchronisation that was off; see the README.
CutoverUndone ==
  outcome = "failed" /\ clean =>
    /\ cAcct \in milky <=> OldEnabled
    /\ cAcct \in sl => cAcct \in initial.sl
    /\ sentinel = snapshot
    /\ initial.sync => sync

\* What a failed cutover leaves behind.
UnitsInv == TypeOK /\ CutoverUndone

Double(a) == a \in sl /\ a \in milky

\* The cutover never connects one account twice on its own: when its two
\* endpoints come to be enabled together, somebody changed one in the web UI
\* since it listed them, or the disabling of the new one was not confirmed.
UnitsNeverDouble ==
  [][\A a \in Accounts : Double(a)' /\ ~Double(a) => ~clean']_vars

\* The preparation keeps the gateway's contract.
Contract == INSTANCE PrepareUnit WITH
  unit <- IF pAt = "idle" THEN Nobody ELSE pAcct,
  file <- gw,
  client <- client,
  answer <- pAnswer

KeepsContract == Contract!UnitSpec

=============================================================================
