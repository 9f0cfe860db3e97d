-------------------------- MODULE LoginUnitsProofs --------------------------
(***************************************************************************)
(* Proofs about LoginUnits for any accounts and bounds: its types, how far *)
(* a cutover that failed is undone, that the cutover connects no account   *)
(* twice on its own, and that prepare_login.py keeps the contract the      *)
(* gateway is built upon.                                                  *)
(***************************************************************************)
EXTENDS LoginUnits, TLAPS

\* Only endpoints that were made are enabled, and a change on its way is of one.
MadeInv ==
  /\ sl \subseteq made
  /\ asked.kind = "sl" => asked.account \in made

Listed == {"copy", "sync", "disableOld", "config", "reload", "create", "enableNew", "poll",
           "confirm", "disableNew"}
Switched == {"config", "reload", "create", "enableNew", "poll", "confirm"}
Disabled == {"rewrite", "enableOld", "resync"}

\* What the except clause has reached when it ends undisturbed: the SL endpoint
\* is off, whatever it was.
Undone ==
  outcome = "failed" /\ clean =>
    /\ cAcct \in milky <=> OldEnabled
    /\ cAcct \notin sl
    /\ sentinel = snapshot

\* Only a cutover of the main account ends the synchronisation, and only the
\* last call of its except clause can fail to put it back.
SyncInv ==
  /\ cAt \in Listed \cup Disabled /\ cAcct # Main => (initial.sync => sync)
  /\ outcome = "failed" /\ clean => (initial.sync => sync)

\* How far a cutover has come, or has undone itself, with nobody else at work.
CutoverInv ==
  /\ cAt # "idle" => outcome = "running"
  /\ cAt \in {"enableNew", "poll", "confirm"} => newKnown
  /\ cAt \in Listed /\ newKnown => cAcct \in made
  /\ clean =>
       /\ cAt \in Listed /\ ~newKnown => cAcct \notin sl
       /\ cAt \in {"copy", "sync", "disableOld"} => (cAcct \in milky <=> OldEnabled)
       /\ cAt \in Switched => cAcct \notin milky
       /\ cAt \in Disabled => cAcct \notin sl
       /\ cAt \in {"enableOld", "resync"} => sentinel = snapshot
       /\ cAt = "resync" => (cAcct \in milky <=> OldEnabled)
  /\ Undone

\* Once the preparation has written the gateway's file it names its account.
PrepareInv == pAt \in {"profile", "update", "code"} => gw = pAcct

LoginInv == TypeOK /\ MadeInv /\ CutoverInv /\ PrepareInv

-----------------------------------------------------------------------------
(* The web UI and the QQ client.                                           *)

\* A change through the web UI ends the claim that nobody interfered.
LEMMA BrowserKeeps ==
  ASSUME LoginInv, (\E c \in Changes : PassGuard(c)) \/ Forward \/ ScanOrLeave
  PROVE  LoginInv'
<1> USE AccountsAssumption
<1>1. ASSUME NEW c \in Changes, PassGuard(c)
      PROVE  LoginInv'
  <2>1. TypeOK'
    <3>1. CoreTypes'
      BY <1>1 DEF PassGuard, Spend, coreVars, clientVars, fileVars, prepareVars, connectVars,
         LoginInv, TypeOK, CoreTypes
    <3>2. FileTypes'
      BY <1>1 DEF PassGuard, Spend, coreVars, clientVars, fileVars, prepareVars, connectVars,
         LoginInv, TypeOK, FileTypes
    <3>3. PrepareTypes'
      BY <1>1 DEF PassGuard, Spend, coreVars, clientVars, fileVars, prepareVars, connectVars,
         LoginInv, TypeOK, PrepareTypes
    <3>4. ConnectTypes'
      BY <1>1 DEF PassGuard, Spend, coreVars, clientVars, fileVars, prepareVars, connectVars,
         LoginInv, TypeOK, ConnectTypes
    <3>5. left' \in [{"changes", "prepares", "cutovers"} -> Nat]
      BY <1>1 DEF PassGuard, Spend, coreVars, clientVars, fileVars, prepareVars, connectVars,
         LoginInv, TypeOK
    <3> QED
      BY <3>1, <3>2, <3>3, <3>4, <3>5 DEF TypeOK
  <2> QED
    BY <1>1, <2>1
    DEF PassGuard, LoginInv, MadeInv, CutoverInv, Undone, OldEnabled, PrepareInv, coreVars,
        clientVars, fileVars, prepareVars, connectVars
<1>2. CASE Forward
  <2>1. asked \in Changes /\ asked'.kind # "sl"
    BY <1>2 DEF Forward, LoginInv, TypeOK, CoreTypes, NoChange
  <2>2. sl' \subseteq made /\ sl' \subseteq Accounts /\ milky' \subseteq Accounts
    BY <1>2, <2>1 DEF Forward, With, LoginInv, TypeOK, CoreTypes, MadeInv, Changes
  <2>3. TypeOK'
    <3>1. CoreTypes'
      BY <1>2, <2>2 DEF Forward, clientVars, fileVars, prepareVars, LoginInv, TypeOK, CoreTypes
    <3>2. FileTypes'
      BY <1>2, <2>2 DEF Forward, clientVars, fileVars, prepareVars, LoginInv, TypeOK, FileTypes
    <3>3. PrepareTypes'
      BY <1>2, <2>2 DEF Forward, clientVars, fileVars, prepareVars, LoginInv, TypeOK, PrepareTypes
    <3>4. ConnectTypes'
      BY <1>2, <2>2 DEF Forward, clientVars, fileVars, prepareVars, LoginInv, TypeOK, ConnectTypes
    <3>5. left' \in [{"changes", "prepares", "cutovers"} -> Nat]
      BY <1>2, <2>2 DEF Forward, clientVars, fileVars, prepareVars, LoginInv, TypeOK
    <3> QED
      BY <3>1, <3>2, <3>3, <3>4, <3>5 DEF TypeOK
  <2> QED
    BY <1>2, <2>1, <2>2, <2>3
    DEF Forward, LoginInv, MadeInv, CutoverInv, Undone, PrepareInv, fileVars, prepareVars
<1>3. CASE ScanOrLeave
  <2>1. TypeOK'
    <3>1. CoreTypes'
      BY <1>3 DEF ScanOrLeave, coreVars, fileVars, prepareVars, connectVars, LoginInv, TypeOK,
         CoreTypes
    <3>2. FileTypes'
      BY <1>3 DEF ScanOrLeave, coreVars, fileVars, prepareVars, connectVars, LoginInv, TypeOK,
         FileTypes
    <3>3. PrepareTypes'
      BY <1>3 DEF ScanOrLeave, coreVars, fileVars, prepareVars, connectVars, LoginInv, TypeOK,
         PrepareTypes
    <3>4. ConnectTypes'
      BY <1>3 DEF ScanOrLeave, coreVars, fileVars, prepareVars, connectVars, LoginInv, TypeOK,
         ConnectTypes
    <3>5. left' \in [{"changes", "prepares", "cutovers"} -> Nat]
      BY <1>3 DEF ScanOrLeave, coreVars, fileVars, prepareVars, connectVars, LoginInv, TypeOK
    <3> QED
      BY <3>1, <3>2, <3>3, <3>4, <3>5 DEF TypeOK
  <2> QED
    BY <1>3, <2>1
    DEF ScanOrLeave, LoginInv, MadeInv, CutoverInv, Undone, OldEnabled, PrepareInv, coreVars,
        fileVars, prepareVars, connectVars
<1> QED
  BY <1>1, <1>2, <1>3

-----------------------------------------------------------------------------
(* The preparation.                                                        *)

\* A step that leaves the endpoints, Sentinel's file and the cutover alone.
LEMMA CutoverUntouched ==
  ASSUME MadeInv, CutoverInv, UNCHANGED <<coreVars, asked, sentinel, connectVars>>
  PROVE  MadeInv' /\ CutoverInv'
BY DEF MadeInv, CutoverInv, Undone, OldEnabled, coreVars, connectVars

\* Every step of the preparation keeps the invariant.
LEMMA PrepareKeeps ==
  ASSUME LoginInv, Prepare
  PROVE  LoginInv'
<1> USE AccountsAssumption
<1>1. ASSUME NEW a \in Accounts, PrepareStart(a)
      PROVE  LoginInv'
  <2>1. TypeOK' /\ PrepareInv'
    <3>1. CoreTypes'
      BY <1>1 DEF PrepareStart, PreparePc, Spend, coreVars, clientVars, fileVars, connectVars,
         LoginInv, TypeOK, CoreTypes
    <3>2. FileTypes'
      BY <1>1 DEF PrepareStart, PreparePc, Spend, coreVars, clientVars, fileVars, connectVars,
         LoginInv, TypeOK, FileTypes
    <3>3. PrepareTypes'
      BY <1>1 DEF PrepareStart, PreparePc, Spend, coreVars, clientVars, fileVars, connectVars,
         LoginInv, TypeOK, PrepareTypes
    <3>4. ConnectTypes'
      BY <1>1 DEF PrepareStart, PreparePc, Spend, coreVars, clientVars, fileVars, connectVars,
         LoginInv, TypeOK, ConnectTypes
    <3>5. left' \in [{"changes", "prepares", "cutovers"} -> Nat]
      BY <1>1 DEF PrepareStart, PreparePc, Spend, coreVars, clientVars, fileVars, connectVars,
         LoginInv, TypeOK
    <3>6. PrepareInv'
      BY <1>1 DEF PrepareStart, PreparePc, Spend, coreVars, clientVars, fileVars, connectVars,
         LoginInv, PrepareInv
    <3> QED
      BY <3>1, <3>2, <3>3, <3>4, <3>5, <3>6 DEF TypeOK
  <2> QED
    BY <1>1, <2>1, CutoverUntouched DEF PrepareStart, LoginInv, fileVars
<1>2. CASE CheckCore \/ Replace
  <2>1. TypeOK' /\ PrepareInv'
    <3>1. CoreTypes'
      BY <1>2 DEF CheckCore, Replace, PreparePc, coreVars, clientVars, fileVars, connectVars,
         LoginInv, TypeOK, CoreTypes
    <3>2. FileTypes'
      BY <1>2 DEF CheckCore, Replace, PreparePc, coreVars, clientVars, fileVars, connectVars,
         LoginInv, TypeOK, FileTypes
    <3>3. PrepareTypes'
      BY <1>2 DEF CheckCore, Replace, PreparePc, coreVars, clientVars, fileVars, connectVars,
         LoginInv, TypeOK, PrepareTypes
    <3>4. ConnectTypes'
      BY <1>2 DEF CheckCore, Replace, PreparePc, coreVars, clientVars, fileVars, connectVars,
         LoginInv, TypeOK, ConnectTypes
    <3>5. left' \in [{"changes", "prepares", "cutovers"} -> Nat]
      BY <1>2 DEF CheckCore, Replace, PreparePc, coreVars, clientVars, fileVars, connectVars,
         LoginInv, TypeOK
    <3>6. PrepareInv'
      BY <1>2 DEF CheckCore, Replace, PreparePc, coreVars, clientVars, fileVars, connectVars,
         LoginInv, PrepareInv
    <3> QED
      BY <3>1, <3>2, <3>3, <3>4, <3>5, <3>6 DEF TypeOK
  <2> QED
    BY <1>2, <2>1, CutoverUntouched DEF CheckCore, Replace, LoginInv, fileVars
<1>3. CASE LoggedIn \/ Reuse \/ CodeShows \/ PrepareFails
  <2>1. TypeOK' /\ PrepareInv'
    <3>1. CoreTypes'
      BY <1>3 DEF LoggedIn, Reuse, CodeShows, PrepareFails, EndPrepare, coreVars, clientVars,
         fileVars, connectVars, LoginInv, TypeOK, CoreTypes
    <3>2. FileTypes'
      BY <1>3 DEF LoggedIn, Reuse, CodeShows, PrepareFails, EndPrepare, coreVars, clientVars,
         fileVars, connectVars, LoginInv, TypeOK, FileTypes
    <3>3. PrepareTypes'
      BY <1>3 DEF LoggedIn, Reuse, CodeShows, PrepareFails, EndPrepare, coreVars, clientVars,
         fileVars, connectVars, LoginInv, TypeOK, PrepareTypes
    <3>4. ConnectTypes'
      BY <1>3 DEF LoggedIn, Reuse, CodeShows, PrepareFails, EndPrepare, coreVars, clientVars,
         fileVars, connectVars, LoginInv, TypeOK, ConnectTypes
    <3>5. left' \in [{"changes", "prepares", "cutovers"} -> Nat]
      BY <1>3 DEF LoggedIn, Reuse, CodeShows, PrepareFails, EndPrepare, coreVars, clientVars,
         fileVars, connectVars, LoginInv, TypeOK
    <3>6. PrepareInv'
      BY <1>3 DEF LoggedIn, Reuse, CodeShows, PrepareFails, EndPrepare, coreVars, clientVars,
         fileVars, connectVars, LoginInv, PrepareInv
    <3> QED
      BY <3>1, <3>2, <3>3, <3>4, <3>5, <3>6 DEF TypeOK
  <2> QED
    BY <1>3, <2>1, CutoverUntouched DEF LoggedIn, Reuse, CodeShows, PrepareFails, LoginInv, fileVars
<1>4. CASE WriteSentinel
  <2>1. sentinel' \in SentinelState
    BY <1>4 DEF WriteSentinel, LoginInv, TypeOK, FileTypes, SentinelState, PrepareTypes
  <2>2. TypeOK' /\ PrepareInv'
    <3>1. CoreTypes'
      BY <1>4, <2>1 DEF WriteSentinel, PreparePc, coreVars, clientVars, LoginInv, TypeOK, CoreTypes
    <3>2. FileTypes'
      BY <1>4, <2>1 DEF WriteSentinel, PreparePc, coreVars, clientVars, LoginInv, TypeOK, FileTypes
    <3>3. PrepareTypes'
      BY <1>4, <2>1 DEF WriteSentinel, PreparePc, coreVars, clientVars, LoginInv, TypeOK,
         PrepareTypes
    <3>4. ConnectTypes'
      BY <1>4, <2>1 DEF WriteSentinel, PreparePc, coreVars, clientVars, LoginInv, TypeOK,
         ConnectTypes
    <3>5. left' \in [{"changes", "prepares", "cutovers"} -> Nat]
      BY <1>4, <2>1 DEF WriteSentinel, PreparePc, coreVars, clientVars, LoginInv, TypeOK
    <3>6. PrepareInv'
      BY <1>4, <2>1 DEF WriteSentinel, PreparePc, coreVars, clientVars, LoginInv, PrepareInv
    <3> QED
      BY <3>1, <3>2, <3>3, <3>4, <3>5, <3>6 DEF TypeOK
  <2>3. MadeInv' /\ CutoverInv'
    BY <1>4 DEF WriteSentinel, LoginInv, MadeInv, CutoverInv, Undone, coreVars
  <2> QED
    BY <2>2, <2>3 DEF LoginInv
<1>5. CASE WriteGateway \/ WriteSupervisor \/ UpdateClient
  <2>1. TypeOK' /\ PrepareInv'
    <3>1. CoreTypes'
      BY <1>5 DEF WriteGateway, WriteSupervisor, UpdateClient, PreparePc, coreVars, clientVars,
         fileVars, connectVars, LoginInv, TypeOK, CoreTypes, PrepareTypes
    <3>2. FileTypes'
      <4>1. pAcct \in Accounts /\ FileTypes
        BY DEF LoginInv, TypeOK, PrepareTypes
      <4>2. CASE WriteGateway \/ UpdateClient
        BY <4>1, <4>2 DEF WriteGateway, UpdateClient, fileVars, FileTypes
      <4>3. CASE WriteSupervisor
        <5>1. profile' \in [account : Accounts, ours : BOOLEAN]
          BY <4>1, <4>3 DEF WriteSupervisor
        <5> QED
          BY <4>1, <4>3, <5>1 DEF WriteSupervisor, FileTypes
      <4> QED
        BY <1>5, <4>2, <4>3
    <3>3. PrepareTypes'
      BY <1>5 DEF WriteGateway, WriteSupervisor, UpdateClient, PreparePc, coreVars, clientVars,
         fileVars, connectVars, LoginInv, TypeOK, PrepareTypes
    <3>4. ConnectTypes'
      BY <1>5 DEF WriteGateway, WriteSupervisor, UpdateClient, PreparePc, coreVars, clientVars,
         fileVars, connectVars, LoginInv, TypeOK, ConnectTypes
    <3>5. left' \in [{"changes", "prepares", "cutovers"} -> Nat]
      BY <1>5 DEF WriteGateway, WriteSupervisor, UpdateClient, PreparePc, coreVars, clientVars,
         fileVars, connectVars, LoginInv, TypeOK
    <3>6. PrepareInv'
      BY <1>5 DEF WriteGateway, WriteSupervisor, UpdateClient, PreparePc, coreVars, clientVars,
         fileVars, connectVars, LoginInv, PrepareInv
    <3> QED
      BY <3>1, <3>2, <3>3, <3>4, <3>5, <3>6 DEF TypeOK
  <2> QED
    BY <1>5, <2>1, CutoverUntouched DEF WriteGateway, WriteSupervisor, UpdateClient, LoginInv, fileVars
<1> QED
  BY <1>1, <1>2, <1>3, <1>4, <1>5 DEF Prepare

-----------------------------------------------------------------------------
(* The cutover.                                                            *)

\* Starting, checking and reading change nothing; the list tells whether there
\* is an endpoint of the account to be enabled.
LEMMA CutoverStartKeeps ==
  ASSUME LoginInv, ConnectStart \/ VerifyLogin \/ ReadCore \/ CopyConfig \/ Reject \/ Killed
  PROVE  LoginInv'
<1>1. UNCHANGED <<coreVars, asked, clientVars, fileVars, prepareVars>>
  BY DEF ConnectStart, VerifyLogin, ReadCore, CopyConfig, Reject, Killed
<1>2. MadeInv' /\ PrepareInv'
  BY <1>1 DEF LoginInv, MadeInv, PrepareInv, coreVars, fileVars, prepareVars
<1>3. TypeOK'
  <2>1. CASE ConnectStart
    BY <1>1, <2>1 DEF ConnectStart, ConnectPc, Spend, LoginInv, TypeOK, coreVars, clientVars, fileVars,
                      prepareVars, CoreTypes, FileTypes, PrepareTypes, ConnectTypes
  <2>2. CASE VerifyLogin \/ CopyConfig \/ Reject \/ Killed
    BY <1>1, <2>2 DEF VerifyLogin, CopyConfig, Reject, Killed, EndConnect, ConnectPc, LoginInv, TypeOK,
                      coreVars, clientVars, fileVars, prepareVars, CoreTypes, FileTypes, PrepareTypes, ConnectTypes
  <2>3. CASE ReadCore
    <3>1. made \subseteq Accounts /\ sl \subseteq Accounts /\ milky \subseteq Accounts /\ sync \in BOOLEAN
      BY DEF LoginInv, TypeOK, CoreTypes, FileTypes
    <3>2. [made |-> made, sl |-> sl, milky |-> milky, sync |-> sync] \in EndpointState
      BY <3>1 DEF EndpointState
    <3>3. initial' \in EndpointState /\ newKnown' \in BOOLEAN
      BY <2>3, <3>2 DEF ReadCore
    <3> QED
      BY <1>1, <2>3, <3>3 DEF ReadCore, ConnectPc, LoginInv, TypeOK, coreVars, clientVars, fileVars,
                              prepareVars, CoreTypes, FileTypes, PrepareTypes, ConnectTypes
  <2> QED
    BY <2>1, <2>2, <2>3
<1>4. CutoverInv'
  <2>1. CASE ConnectStart \/ VerifyLogin
    BY <1>1, <2>1 DEF ConnectStart, VerifyLogin, ConnectPc, LoginInv, CutoverInv, Undone,
                      Listed, Switched, Disabled
  <2>2. CASE ReadCore
    BY <1>1, <2>2 DEF ReadCore, ConnectPc, LoginInv, MadeInv, CutoverInv, Undone, Listed,
                      Switched, Disabled, coreVars, OldEnabled
  <2>3. CASE CopyConfig
    BY <1>1, <2>3 DEF CopyConfig, ConnectPc, LoginInv, CutoverInv, Undone, Listed, Switched,
                      Disabled, coreVars, OldEnabled
  <2>4. CASE Reject \/ Killed
    BY <1>1, <2>4 DEF Reject, Killed, EndConnect, LoginInv, CutoverInv, Undone, Listed,
                      Switched, Disabled
  <2> QED
    BY <2>1, <2>2, <2>3, <2>4
<1> QED
  BY <1>2, <1>3, <1>4 DEF LoginInv

\* The statements of the try, each with any of its outcomes.
LEMMA CutoverForwardKeeps ==
  ASSUME LoginInv,
         StopSync \/ DisableOld \/ SwitchMonitoring \/ Reload \/ CreateNew \/ EnableNew \/ Poll
           \/ Confirmed \/ NotConfirmed
  PROVE  LoginInv'
<1> USE AccountsAssumption DEF Replies, Done
<1>1. CASE StopSync \/ Reload \/ Poll
  <2>1. TypeOK'
    <3>1. CoreTypes'
      BY <1>1 DEF StopSync, Reload, Poll, Try, ConnectPc, coreVars, clientVars, fileVars,
         prepareVars, LoginInv, TypeOK, CoreTypes
    <3>2. FileTypes'
      BY <1>1 DEF StopSync, Reload, Poll, Try, ConnectPc, coreVars, clientVars, fileVars,
         prepareVars, LoginInv, TypeOK, FileTypes
    <3>3. PrepareTypes'
      BY <1>1 DEF StopSync, Reload, Poll, Try, ConnectPc, coreVars, clientVars, fileVars,
         prepareVars, LoginInv, TypeOK, PrepareTypes
    <3>4. ConnectTypes'
      BY <1>1 DEF StopSync, Reload, Poll, Try, ConnectPc, coreVars, clientVars, fileVars,
         prepareVars, LoginInv, TypeOK, ConnectTypes
    <3>5. left' \in [{"changes", "prepares", "cutovers"} -> Nat]
      BY <1>1 DEF StopSync, Reload, Poll, Try, ConnectPc, coreVars, clientVars, fileVars,
         prepareVars, LoginInv, TypeOK
    <3> QED
      BY <3>1, <3>2, <3>3, <3>4, <3>5 DEF TypeOK
  <2>2. CutoverInv'
    BY <1>1 DEF StopSync, Reload, Poll, Try, ConnectPc, LoginInv, CutoverInv, Undone, Listed,
                Switched, Disabled, coreVars, fileVars, OldEnabled
  <2> QED
    BY <1>1, <2>1, <2>2 DEF StopSync, Reload, Poll, LoginInv, MadeInv, PrepareInv, coreVars, fileVars,
                            prepareVars
<1>2. CASE DisableOld
  <2>1. TypeOK'
    <3>1. CoreTypes'
      BY <1>2 DEF DisableOld, Try, ConnectPc, clientVars, fileVars, prepareVars, LoginInv, TypeOK,
         CoreTypes
    <3>2. FileTypes'
      BY <1>2 DEF DisableOld, Try, ConnectPc, clientVars, fileVars, prepareVars, LoginInv, TypeOK,
         FileTypes
    <3>3. PrepareTypes'
      BY <1>2 DEF DisableOld, Try, ConnectPc, clientVars, fileVars, prepareVars, LoginInv, TypeOK,
         PrepareTypes
    <3>4. ConnectTypes'
      BY <1>2 DEF DisableOld, Try, ConnectPc, clientVars, fileVars, prepareVars, LoginInv, TypeOK,
         ConnectTypes
    <3>5. left' \in [{"changes", "prepares", "cutovers"} -> Nat]
      BY <1>2 DEF DisableOld, Try, ConnectPc, clientVars, fileVars, prepareVars, LoginInv, TypeOK
    <3> QED
      BY <3>1, <3>2, <3>3, <3>4, <3>5 DEF TypeOK
  <2>2. cAt = "disableOld" /\ cAt' \in {"config", "disableNew"}
    BY <1>2 DEF DisableOld, Try, ConnectPc
  <2>3. UNCHANGED <<cAcct, sl, made, clean, newKnown, outcome>>
    BY <1>2 DEF DisableOld
  <2>4. cAt' = "config" /\ clean => cAcct \notin milky'
    BY <1>2 DEF DisableOld, Try, ConnectPc, OldEnabled, LoginInv, CutoverInv
  <2>5. CutoverInv'
    BY <2>2, <2>3, <2>4 DEF LoginInv, CutoverInv, Undone, Listed, Switched, Disabled
  <2> QED
    BY <1>2, <2>1, <2>5 DEF DisableOld, LoginInv, MadeInv, PrepareInv, fileVars, prepareVars
<1>3. CASE SwitchMonitoring
  <2>1. sentinel' \in SentinelState
    BY <1>3 DEF SwitchMonitoring, LoginInv, TypeOK, FileTypes, SentinelState
  <2>2. TypeOK'
    <3>1. CoreTypes'
      BY <1>3, <2>1 DEF SwitchMonitoring, Try, ConnectPc, coreVars, clientVars, prepareVars,
         LoginInv, TypeOK, CoreTypes
    <3>2. FileTypes'
      BY <1>3, <2>1 DEF SwitchMonitoring, Try, ConnectPc, coreVars, clientVars, prepareVars,
         LoginInv, TypeOK, FileTypes
    <3>3. PrepareTypes'
      BY <1>3, <2>1 DEF SwitchMonitoring, Try, ConnectPc, coreVars, clientVars, prepareVars,
         LoginInv, TypeOK, PrepareTypes
    <3>4. ConnectTypes'
      BY <1>3, <2>1 DEF SwitchMonitoring, Try, ConnectPc, coreVars, clientVars, prepareVars,
         LoginInv, TypeOK, ConnectTypes
    <3>5. left' \in [{"changes", "prepares", "cutovers"} -> Nat]
      BY <1>3, <2>1 DEF SwitchMonitoring, Try, ConnectPc, coreVars, clientVars, prepareVars,
         LoginInv, TypeOK
    <3> QED
      BY <3>1, <3>2, <3>3, <3>4, <3>5 DEF TypeOK
  <2>3. CutoverInv'
    BY <1>3 DEF SwitchMonitoring, Try, ConnectPc, LoginInv, CutoverInv, Undone, Listed, Switched,
                Disabled, coreVars
  <2> QED
    BY <1>3, <2>2, <2>3 DEF SwitchMonitoring, LoginInv, MadeInv, PrepareInv, coreVars, prepareVars
<1>4. CASE CreateNew
  <2>1. TypeOK'
    <3>1. CoreTypes'
      BY <1>4 DEF CreateNew, Try, ConnectPc, clientVars, fileVars, prepareVars, LoginInv, TypeOK,
         CoreTypes, ConnectTypes
    <3>2. FileTypes'
      BY <1>4 DEF CreateNew, Try, ConnectPc, clientVars, fileVars, prepareVars, LoginInv, TypeOK,
         FileTypes
    <3>3. PrepareTypes'
      BY <1>4 DEF CreateNew, Try, ConnectPc, clientVars, fileVars, prepareVars, LoginInv, TypeOK,
         PrepareTypes
    <3>4. ConnectTypes'
      BY <1>4 DEF CreateNew, Try, ConnectPc, clientVars, fileVars, prepareVars, LoginInv, TypeOK,
         ConnectTypes
    <3>5. left' \in [{"changes", "prepares", "cutovers"} -> Nat]
      BY <1>4 DEF CreateNew, Try, ConnectPc, clientVars, fileVars, prepareVars, LoginInv, TypeOK
    <3> QED
      BY <3>1, <3>2, <3>3, <3>4, <3>5 DEF TypeOK
  <2>2. PICK reply \in Replies :
          /\ Try("create", reply, "enableNew")
          /\ made' = IF ~newKnown /\ Done(reply) THEN made \cup {cAcct} ELSE made
          /\ newKnown' = (newKnown \/ reply = "ok")
    BY <1>4 DEF CreateNew
  <2>3. UNCHANGED <<sl, milky, sentinel, cAcct, initial, snapshot, outcome, clean>>
    BY <1>4 DEF CreateNew, fileVars
  <2>4. /\ cAt = "create" /\ cAt' \in {"enableNew", "disableNew"}
        /\ cAt' = "enableNew" => reply = "ok"
    BY <2>2 DEF Try, ConnectPc
  <2>5. newKnown' => cAcct \in made'
    BY <2>2, <2>4 DEF LoginInv, CutoverInv, Listed
  <2>6. newKnown => newKnown'
    BY <2>2
  <2>7. cAt' = "enableNew" => newKnown'
    BY <2>2, <2>4
  <2>8. CutoverInv'
    BY <2>3, <2>4, <2>5, <2>6, <2>7
    DEF LoginInv, CutoverInv, Undone, OldEnabled, Listed, Switched, Disabled
  <2> QED
    BY <1>4, <2>1, <2>2, <2>8 DEF CreateNew, LoginInv, MadeInv, PrepareInv, fileVars, prepareVars
<1>5. CASE EnableNew
  <2>1. TypeOK'
    <3>1. CoreTypes'
      BY <1>5 DEF EnableNew, Try, ConnectPc, clientVars, fileVars, prepareVars, LoginInv, TypeOK,
         CoreTypes, ConnectTypes
    <3>2. FileTypes'
      BY <1>5 DEF EnableNew, Try, ConnectPc, clientVars, fileVars, prepareVars, LoginInv, TypeOK,
         FileTypes
    <3>3. PrepareTypes'
      BY <1>5 DEF EnableNew, Try, ConnectPc, clientVars, fileVars, prepareVars, LoginInv, TypeOK,
         PrepareTypes
    <3>4. ConnectTypes'
      BY <1>5 DEF EnableNew, Try, ConnectPc, clientVars, fileVars, prepareVars, LoginInv, TypeOK,
         ConnectTypes
    <3>5. left' \in [{"changes", "prepares", "cutovers"} -> Nat]
      BY <1>5 DEF EnableNew, Try, ConnectPc, clientVars, fileVars, prepareVars, LoginInv, TypeOK
    <3> QED
      BY <3>1, <3>2, <3>3, <3>4, <3>5 DEF TypeOK
  <2>2. CutoverInv'
    BY <1>5 DEF EnableNew, Try, ConnectPc, LoginInv, CutoverInv, Undone, Listed, Switched,
                Disabled, fileVars
  <2>3. MadeInv'
    BY <1>5 DEF EnableNew, Try, ConnectPc, LoginInv, MadeInv, CutoverInv, Listed
  <2> QED
    BY <1>5, <2>1, <2>2, <2>3 DEF EnableNew, LoginInv, PrepareInv, fileVars, prepareVars
<1>6. CASE Confirmed \/ NotConfirmed
  <2>1. TypeOK'
    <3>1. CoreTypes'
      BY <1>6 DEF Confirmed, NotConfirmed, EndConnect, ConnectPc, coreVars, clientVars, fileVars,
         prepareVars, LoginInv, TypeOK, CoreTypes
    <3>2. FileTypes'
      BY <1>6 DEF Confirmed, NotConfirmed, EndConnect, ConnectPc, coreVars, clientVars, fileVars,
         prepareVars, LoginInv, TypeOK, FileTypes
    <3>3. PrepareTypes'
      BY <1>6 DEF Confirmed, NotConfirmed, EndConnect, ConnectPc, coreVars, clientVars, fileVars,
         prepareVars, LoginInv, TypeOK, PrepareTypes
    <3>4. ConnectTypes'
      BY <1>6 DEF Confirmed, NotConfirmed, EndConnect, ConnectPc, coreVars, clientVars, fileVars,
         prepareVars, LoginInv, TypeOK, ConnectTypes
    <3>5. left' \in [{"changes", "prepares", "cutovers"} -> Nat]
      BY <1>6 DEF Confirmed, NotConfirmed, EndConnect, ConnectPc, coreVars, clientVars, fileVars,
         prepareVars, LoginInv, TypeOK
    <3> QED
      BY <3>1, <3>2, <3>3, <3>4, <3>5 DEF TypeOK
  <2>2. CutoverInv'
    BY <1>6 DEF Confirmed, NotConfirmed, EndConnect, ConnectPc, LoginInv, CutoverInv, Undone,
                Listed, Switched, Disabled, coreVars
  <2> QED
    BY <1>6, <2>1, <2>2 DEF Confirmed, NotConfirmed, LoginInv, MadeInv, PrepareInv, coreVars, fileVars,
                            prepareVars
<1> QED
  BY <1>1, <1>2, <1>3, <1>4, <1>5, <1>6

\* The except clause.
LEMMA CutoverUndoKeeps ==
  ASSUME LoginInv,
         DisableNew \/ RestoreUnwritten \/ RestoreConfig \/ RestoreOld \/ RestoreSync
  PROVE  LoginInv'
<1> USE AccountsAssumption DEF Replies, Done
<1>1. CASE DisableNew
  <2>1. TypeOK'
    <3>1. CoreTypes'
      BY <1>1 DEF DisableNew, ConnectPc, clientVars, fileVars, prepareVars, LoginInv, TypeOK,
         CoreTypes
    <3>2. FileTypes'
      BY <1>1 DEF DisableNew, ConnectPc, clientVars, fileVars, prepareVars, LoginInv, TypeOK,
         FileTypes
    <3>3. PrepareTypes'
      BY <1>1 DEF DisableNew, ConnectPc, clientVars, fileVars, prepareVars, LoginInv, TypeOK,
         PrepareTypes
    <3>4. ConnectTypes'
      BY <1>1 DEF DisableNew, ConnectPc, clientVars, fileVars, prepareVars, LoginInv, TypeOK,
         ConnectTypes
    <3>5. left' \in [{"changes", "prepares", "cutovers"} -> Nat]
      BY <1>1 DEF DisableNew, ConnectPc, clientVars, fileVars, prepareVars, LoginInv, TypeOK
    <3> QED
      BY <3>1, <3>2, <3>3, <3>4, <3>5 DEF TypeOK
  <2>2. CutoverInv'
    BY <1>1 DEF DisableNew, ConnectPc, LoginInv, CutoverInv, Undone, Listed, Switched, Disabled
  <2> QED
    BY <1>1, <2>1, <2>2 DEF DisableNew, LoginInv, MadeInv, PrepareInv, fileVars, prepareVars
<1>2. CASE RestoreUnwritten
  <2>1. TypeOK'
    <3>1. CoreTypes'
      BY <1>2 DEF RestoreUnwritten, EndConnect, coreVars, clientVars, fileVars, prepareVars,
         LoginInv, TypeOK, CoreTypes
    <3>2. FileTypes'
      BY <1>2 DEF RestoreUnwritten, EndConnect, coreVars, clientVars, fileVars, prepareVars,
         LoginInv, TypeOK, FileTypes
    <3>3. PrepareTypes'
      BY <1>2 DEF RestoreUnwritten, EndConnect, coreVars, clientVars, fileVars, prepareVars,
         LoginInv, TypeOK, PrepareTypes
    <3>4. ConnectTypes'
      BY <1>2 DEF RestoreUnwritten, EndConnect, coreVars, clientVars, fileVars, prepareVars,
         LoginInv, TypeOK, ConnectTypes
    <3>5. left' \in [{"changes", "prepares", "cutovers"} -> Nat]
      BY <1>2 DEF RestoreUnwritten, EndConnect, coreVars, clientVars, fileVars, prepareVars,
         LoginInv, TypeOK
    <3> QED
      BY <3>1, <3>2, <3>3, <3>4, <3>5 DEF TypeOK
  <2> QED
    BY <1>2, <2>1 DEF RestoreUnwritten, EndConnect, LoginInv, MadeInv, PrepareInv, CutoverInv,
                      Undone, coreVars, fileVars, prepareVars, OldEnabled, Listed, Switched, Disabled
<1>3. CASE RestoreConfig
  <2>1. TypeOK'
    <3>1. CoreTypes'
      BY <1>3 DEF RestoreConfig, Undo, EndConnect, ConnectPc, coreVars, clientVars, prepareVars,
         LoginInv, TypeOK, CoreTypes
    <3>2. FileTypes'
      BY <1>3 DEF RestoreConfig, Undo, EndConnect, ConnectPc, coreVars, clientVars, prepareVars,
         LoginInv, TypeOK, FileTypes, ConnectTypes
    <3>3. PrepareTypes'
      BY <1>3 DEF RestoreConfig, Undo, EndConnect, ConnectPc, coreVars, clientVars, prepareVars,
         LoginInv, TypeOK, PrepareTypes
    <3>4. ConnectTypes'
      BY <1>3 DEF RestoreConfig, Undo, EndConnect, ConnectPc, coreVars, clientVars, prepareVars,
         LoginInv, TypeOK, ConnectTypes
    <3>5. left' \in [{"changes", "prepares", "cutovers"} -> Nat]
      BY <1>3 DEF RestoreConfig, Undo, EndConnect, ConnectPc, coreVars, clientVars, prepareVars,
         LoginInv, TypeOK
    <3> QED
      BY <3>1, <3>2, <3>3, <3>4, <3>5 DEF TypeOK
  <2>2. CutoverInv'
    BY <1>3 DEF RestoreConfig, Undo, EndConnect, ConnectPc, LoginInv, CutoverInv, Undone, Listed,
                Switched, Disabled, coreVars
  <2> QED
    BY <1>3, <2>1, <2>2 DEF RestoreConfig, LoginInv, MadeInv, PrepareInv, coreVars, prepareVars
<1>4. CASE RestoreOld
  <2>1. TypeOK'
    <3>1. CoreTypes'
      BY <1>4 DEF RestoreOld, Undo, EndConnect, ConnectPc, With, clientVars, fileVars, prepareVars,
         LoginInv, TypeOK, CoreTypes, ConnectTypes
    <3>2. FileTypes'
      BY <1>4 DEF RestoreOld, Undo, EndConnect, ConnectPc, With, clientVars, fileVars, prepareVars,
         LoginInv, TypeOK, FileTypes
    <3>3. PrepareTypes'
      BY <1>4 DEF RestoreOld, Undo, EndConnect, ConnectPc, With, clientVars, fileVars, prepareVars,
         LoginInv, TypeOK, PrepareTypes
    <3>4. ConnectTypes'
      BY <1>4 DEF RestoreOld, Undo, EndConnect, ConnectPc, With, clientVars, fileVars, prepareVars,
         LoginInv, TypeOK, ConnectTypes
    <3>5. left' \in [{"changes", "prepares", "cutovers"} -> Nat]
      BY <1>4 DEF RestoreOld, Undo, EndConnect, ConnectPc, With, clientVars, fileVars, prepareVars,
         LoginInv, TypeOK
    <3> QED
      BY <3>1, <3>2, <3>3, <3>4, <3>5 DEF TypeOK
  <2>2. CutoverInv'
    BY <1>4 DEF RestoreOld, Undo, EndConnect, ConnectPc, With, OldEnabled, LoginInv, CutoverInv,
                Undone, Listed, Switched, Disabled, fileVars
  <2> QED
    BY <1>4, <2>1, <2>2 DEF RestoreOld, LoginInv, MadeInv, PrepareInv, fileVars, prepareVars
<1>5. CASE RestoreSync
  <2>1. TypeOK'
    <3>1. CoreTypes'
      BY <1>5 DEF RestoreSync, EndConnect, coreVars, clientVars, prepareVars, LoginInv, TypeOK,
         CoreTypes
    <3>2. FileTypes'
      BY <1>5 DEF RestoreSync, EndConnect, coreVars, clientVars, prepareVars, LoginInv, TypeOK,
         FileTypes
    <3>3. PrepareTypes'
      BY <1>5 DEF RestoreSync, EndConnect, coreVars, clientVars, prepareVars, LoginInv, TypeOK,
         PrepareTypes
    <3>4. ConnectTypes'
      BY <1>5 DEF RestoreSync, EndConnect, coreVars, clientVars, prepareVars, LoginInv, TypeOK,
         ConnectTypes
    <3>5. left' \in [{"changes", "prepares", "cutovers"} -> Nat]
      BY <1>5 DEF RestoreSync, EndConnect, coreVars, clientVars, prepareVars, LoginInv, TypeOK
    <3> QED
      BY <3>1, <3>2, <3>3, <3>4, <3>5 DEF TypeOK
  <2>2. CutoverInv'
    BY <1>5 DEF RestoreSync, EndConnect, OldEnabled, LoginInv, CutoverInv, Undone, Listed,
                Switched, Disabled, coreVars
  <2> QED
    BY <1>5, <2>1, <2>2 DEF RestoreSync, LoginInv, MadeInv, PrepareInv, coreVars, prepareVars
<1> QED
  BY <1>1, <1>2, <1>3, <1>4, <1>5

-----------------------------------------------------------------------------
\* Every step keeps the invariant.
LEMMA LoginStep == LoginInv /\ [Next]_vars => LoginInv'
<1> SUFFICES ASSUME LoginInv, [Next]_vars
             PROVE  LoginInv'
  OBVIOUS
<1>1. CASE UNCHANGED vars
  BY <1>1 DEF vars, coreVars, clientVars, fileVars, prepareVars, connectVars, LoginInv, TypeOK, CoreTypes,
              FileTypes, PrepareTypes, ConnectTypes, MadeInv,
              CutoverInv, Undone, OldEnabled, PrepareInv
<1> QED
  BY <1>1, BrowserKeeps, PrepareKeeps, CutoverStartKeeps, CutoverForwardKeeps, CutoverUndoKeeps
  DEF Next, Connect

\* Every step keeps what is known of the synchronisation.
LEMMA SyncStep == LoginInv /\ SyncInv /\ [Next]_vars => SyncInv'
<1> SUFFICES ASSUME LoginInv, SyncInv, [Next]_vars
             PROVE  SyncInv'
  OBVIOUS
<1> USE DEF Listed, Disabled
<1>1. ASSUME UNCHANGED <<cAt, cAcct, initial, sync, outcome>>, clean' => clean
      PROVE  SyncInv'
  BY <1>1 DEF SyncInv
<1>2. CASE (\E c \in Changes : PassGuard(c)) \/ Forward \/ ScanOrLeave \/ Prepare \/ UNCHANGED vars
  BY <1>1, <1>2 DEF PassGuard, Forward, ScanOrLeave, Prepare, PrepareStart, CheckCore, LoggedIn, Reuse,
                    Replace, WriteSentinel, WriteGateway, WriteSupervisor, UpdateClient, CodeShows,
                    PrepareFails, vars, fileVars, connectVars
<1>3. CASE ConnectStart \/ VerifyLogin
  BY <1>3 DEF ConnectStart, VerifyLogin, ConnectPc, LoginInv, CutoverInv, SyncInv
<1>4. CASE ReadCore
  BY <1>4 DEF ReadCore, ConnectPc, fileVars, LoginInv, CutoverInv, SyncInv
<1>5. CASE Reject \/ Killed
  BY <1>5 DEF Reject, Killed, EndConnect, fileVars, LoginInv, CutoverInv, SyncInv
<1>6. CASE StopSync
  <2>1. /\ cAt = "sync" /\ cAt' \in {"disableOld", "disableNew"}
        /\ cAcct # Main => (sync' <=> sync)
        /\ UNCHANGED <<cAcct, initial, outcome, clean>>
    BY <1>6 DEF StopSync, Try, ConnectPc, LoginInv, TypeOK, FileTypes
  <2> QED
    BY <2>1 DEF LoginInv, CutoverInv, SyncInv
<1>7. CASE CopyConfig \/ DisableOld \/ SwitchMonitoring \/ Reload \/ CreateNew \/ EnableNew \/ Poll
           \/ NotConfirmed \/ DisableNew
  <2>1. /\ cAt \in Listed /\ UNCHANGED <<cAcct, initial, sync, outcome>>
        /\ cAt # "idle"
    BY <1>7 DEF CopyConfig, DisableOld, SwitchMonitoring, Reload, CreateNew, EnableNew, Poll,
                NotConfirmed, DisableNew, Try, ConnectPc, fileVars
  <2> QED
    BY <2>1 DEF LoginInv, CutoverInv, SyncInv
<1>8. CASE Confirmed
  BY <1>8 DEF Confirmed, EndConnect, LoginInv, CutoverInv, SyncInv
<1>9. CASE RestoreUnwritten
  BY <1>9 DEF RestoreUnwritten, EndConnect, SyncInv
<1>10. CASE RestoreConfig \/ RestoreOld
  <2>1. /\ cAt \in {"rewrite", "enableOld"} /\ UNCHANGED <<cAcct, initial, sync>>
        /\ (outcome' = outcome \/ (cAt' = "idle" /\ ~clean'))
    BY <1>10 DEF RestoreConfig, RestoreOld, Undo, EndConnect, ConnectPc, fileVars
  <2> QED
    BY <2>1 DEF LoginInv, CutoverInv, SyncInv
<1>11. CASE RestoreSync
  <2>1. PICK reply \in Replies :
          /\ cAt = "resync" /\ cAt' = "idle"
          /\ sync' = (sync \/ (cAcct = Main /\ Done(reply)))
          /\ clean' = (clean /\ (cAcct = Main => Done(reply)))
          /\ UNCHANGED <<cAcct, initial>>
    BY <1>11 DEF RestoreSync, EndConnect
  <2>2. clean' => (initial.sync => sync')
    BY <2>1 DEF SyncInv
  <2> QED
    BY <2>1, <2>2 DEF SyncInv
<1> QED
  BY <1>2, <1>3, <1>4, <1>5, <1>6, <1>7, <1>8, <1>9, <1>10, <1>11 DEF Next, Connect

\* The invariant holds in every state.
THEOREM LoginInvariant == Spec => [](LoginInv /\ SyncInv)
<1>1. Init => LoginInv /\ SyncInv
  <2> SUFFICES ASSUME Init
               PROVE  LoginInv /\ SyncInv
    OBVIOUS
  <2> USE AccountsAssumption
  <2>1. left \in [{"changes", "prepares", "cutovers"} -> Nat]
    BY BoundsAssumption DEF Init
  <2>2. /\ initial \in EndpointState /\ sentinel \in SentinelState /\ snapshot \in SentinelState
    BY DEF Init, EndpointState, SentinelState
  <2>6. SyncInv
    BY DEF Init, SyncInv, Listed, Disabled
  <2>3. profile \in [account : Accounts, ours : BOOLEAN]
    BY DEF Init
  <2>4. TypeOK
    BY <2>1, <2>2, <2>3 DEF Init, TypeOK, CoreTypes, FileTypes, PrepareTypes, ConnectTypes
  <2>5. MadeInv /\ CutoverInv /\ PrepareInv
    BY DEF Init, MadeInv, CutoverInv, Undone, PrepareInv, NoChange, Listed, Switched, Disabled
  <2> QED
    BY <2>4, <2>5, <2>6 DEF LoginInv
<1> QED
  BY <1>1, LoginStep, SyncStep, PTL DEF Spec

\* A cutover that failed, with nobody else at work and its undoing carried out,
\* leaves Milky endpoint and Sentinel's configuration as they were, no SL endpoint
\* on that was off, and no synchronisation off that was on, whatever call it
\* failed at and for any number of cutovers before it.  Not that an SL endpoint
\* that was on is on again, nor that a synchronisation that was off stays off.
THEOREM FailedCutoverIsUndone == Spec => []UnitsInv
<1>1. LoginInv /\ SyncInv => UnitsInv
  BY DEF LoginInv, CutoverInv, Undone, SyncInv, UnitsInv, CutoverUndone
<1> QED
  BY <1>1, LoginInvariant, PTL

-----------------------------------------------------------------------------
\* A step after which an account is connected twice was no step of a cutover
\* that nobody interfered with.
LEMMA DoubleStep ==
  ASSUME LoginInv, [Next]_vars, NEW a \in Accounts, Double(a)', ~Double(a)
  PROVE  ~clean'
<1> USE DEF Double
<1>1. CASE UNCHANGED <<sl, milky>>
  BY <1>1
<1>2. CASE Forward
  BY <1>2 DEF Forward
<1>3. CASE DisableOld \/ DisableNew
  BY <1>3 DEF DisableOld, DisableNew
<1>4. CASE EnableNew
  BY <1>4 DEF EnableNew, Try, ConnectPc, LoginInv, CutoverInv, Switched
<1>5. CASE RestoreOld
  BY <1>5 DEF RestoreOld, Undo, EndConnect, ConnectPc, With, LoginInv, CutoverInv, Disabled
<1>6. CASE (\E c \in Changes : PassGuard(c)) \/ ScanOrLeave \/ Prepare \/ UNCHANGED vars
  BY <1>1, <1>6 DEF PassGuard, ScanOrLeave, Prepare, PrepareStart, CheckCore, LoggedIn, Reuse, Replace,
                    WriteSentinel, WriteGateway, WriteSupervisor, UpdateClient, CodeShows, PrepareFails,
                    coreVars, vars
<1>7. CASE ConnectStart \/ VerifyLogin \/ ReadCore \/ CopyConfig \/ Reject \/ StopSync
           \/ SwitchMonitoring \/ Reload \/ CreateNew \/ Poll \/ Confirmed \/ NotConfirmed
           \/ RestoreUnwritten \/ RestoreConfig \/ RestoreSync \/ Killed
  BY <1>1, <1>7 DEF ConnectStart, VerifyLogin, ReadCore, CopyConfig, Reject, StopSync,
                    SwitchMonitoring, Reload, CreateNew, Poll, Confirmed, NotConfirmed,
                    RestoreUnwritten, RestoreConfig, RestoreSync, Killed, coreVars
<1> QED
  BY <1>2, <1>3, <1>4, <1>5, <1>6, <1>7 DEF Next, Connect

\* No account comes to be connected by both of its endpoints through the
\* cutover alone.
THEOREM NeverDoubleAlone == Spec => UnitsNeverDouble
<1>1. ASSUME LoginInv, [Next]_vars
      PROVE  [\A a \in Accounts : Double(a)' /\ ~Double(a) => ~clean']_vars
  BY <1>1, DoubleStep
<1> QED
  BY <1>1, LoginInvariant, PTL DEF Spec, UnitsNeverDouble

-----------------------------------------------------------------------------
\* Every step is a step of the contract or none.
LEMMA ContractStep ==
  ASSUME LoginInv, [Next]_vars
  PROVE  [Contract!UnitNext]_(Contract!unitVars)
<1> USE AccountsAssumption DEF Contract!unitVars
<1>1. pAcct \in Accounts /\ pAcct # Nobody
  BY DEF LoginInv, TypeOK, CoreTypes, FileTypes, PrepareTypes, ConnectTypes
<1>2. CASE UNCHANGED <<prepareVars, gw, client>>
  BY <1>2 DEF prepareVars
<1>3. ASSUME NEW a \in Accounts, PrepareStart(a)
      PROVE  Contract!UnitNext
  BY <1>3 DEF PrepareStart, PreparePc, clientVars, fileVars, Contract!UnitNext, Contract!Start
<1>4. CASE CheckCore \/ Replace \/ WriteSentinel \/ WriteSupervisor
  BY <1>4 DEF CheckCore, Replace, WriteSentinel, WriteSupervisor, PreparePc, clientVars, fileVars
<1>5. CASE WriteGateway
  BY <1>1, <1>5 DEF WriteGateway, PreparePc, clientVars, Contract!UnitNext, Contract!WriteFile
<1>10. CASE UpdateClient
  <2>1. gw = pAcct
    BY <1>10 DEF UpdateClient, PreparePc, LoginInv, PrepareInv
  <2> QED
    BY <1>1, <1>10, <2>1 DEF UpdateClient, PreparePc, fileVars, Contract!UnitNext,
                             Contract!ReplaceClient
<1>6. CASE LoggedIn \/ Reuse \/ CodeShows
  <2>1. pAt # "idle" /\ gw = pAcct
    BY <1>6 DEF LoggedIn, Reuse, CodeShows, LoginInv, PrepareInv
  <2> QED
    BY <1>1, <1>6, <2>1 DEF LoggedIn, Reuse, CodeShows, EndPrepare, clientVars, fileVars, Contract!UnitNext,
                            Contract!Succeed
<1>7. CASE PrepareFails
  BY <1>1, <1>7 DEF PrepareFails, EndPrepare, clientVars, fileVars, Contract!UnitNext, Contract!Fail
<1>8. CASE (\E c \in Changes : PassGuard(c)) \/ Forward \/ ScanOrLeave \/ UNCHANGED vars
  BY <1>2, <1>8 DEF PassGuard, Forward, ScanOrLeave, vars, clientVars, fileVars
<1>9. CASE Connect
  BY <1>2, <1>9 DEF Connect, ConnectStart, VerifyLogin, ReadCore, CopyConfig, Reject, StopSync,
                    DisableOld, SwitchMonitoring, Reload, CreateNew, EnableNew, Poll, Confirmed,
                    NotConfirmed, DisableNew, RestoreUnwritten, RestoreConfig, RestoreOld, RestoreSync,
                    Killed, clientVars, fileVars
<1> QED
  BY <1>3, <1>4, <1>5, <1>6, <1>7, <1>8, <1>9, <1>10 DEF Next, Prepare

\* prepare_login.py keeps the contract the gateway is built upon, however many
\* preparations came before: it answers ok only when the gateway's file names the
\* account it worked for, and replaces the client by none but that account's.
THEOREM PreparationKeepsContract == Spec => KeepsContract
<1>1. Init => Contract!UnitInit
  BY AccountsAssumption DEF Init, Contract!UnitInit
<1> QED
  BY <1>1, ContractStep, LoginInvariant, PTL DEF Spec, KeepsContract, Contract!UnitSpec

=============================================================================
