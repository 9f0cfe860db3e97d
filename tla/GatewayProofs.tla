---------------------------- MODULE GatewayProofs ----------------------------
(***************************************************************************)
(* Proofs about Gateway for any accounts, browsers and bounds: its types,  *)
(* that its memory follows the configuration file, and that the code it    *)
(* keeps is of the client that runs.                                       *)
(***************************************************************************)
EXTENDS Gateway, TLAPS

\* Who prepares stands first in line, and who waits stands in it.
LineInv ==
  \A s \in Sessions :
    /\ at[s] = "unit" => line # <<>> /\ s = Head(line)
    /\ at[s] = "queued" => \E i \in 1 .. Len(line) : line[i] = s

\* While nobody holds the lock and no error is pending, no unit is at work: it
\* is the file's writer, so memory and file agree.
MemoryInv == Locked \/ unsure \/ (unit = Nobody /\ account = file)

\* A capture that overlaps a preparation is marked, and the others show the
\* client that runs: it is replaced only by a unit, so while the lock is held or
\* after an error.
CaptureInv ==
  capture # NoCapture =>
    /\ Locked => capture.during
    /\ capture.of = client \/ capture.during \/ unsure

GatewayInv == TypeOK /\ LineInv /\ MemoryInv /\ CaptureInv /\ CachedCodeIsOfClient

-----------------------------------------------------------------------------
(* Steps of the preparation.                                               *)

\* Joining the line moves nobody in it.
LEMMA JoinKeepsLine ==
  ASSUME GatewayInv, NEW s \in Sessions, CoreAllows(s)
  PROVE  LineInv'
<1>1. /\ at' = [at EXCEPT ![s] = "queued"] /\ line' = Append(line, s)
      /\ line \in Seq(Sessions) /\ at \in [Sessions -> {"idle", "core", "queued", "unit"}]
  BY DEF GatewayInv, TypeOK, CoreAllows
<1>2. /\ line' \in Seq(Sessions) /\ Len(line') = Len(line) + 1
      /\ line'[Len(line) + 1] = s
      /\ \A i \in 1 .. Len(line) : line'[i] = line[i]
  BY <1>1
<1>3. ASSUME NEW t \in Sessions, at'[t] = "unit"
      PROVE  line' # <<>> /\ t = Head(line')
  <2>1. t # s /\ at[t] = "unit"
    BY <1>1, <1>3
  <2>2. line # <<>> /\ t = Head(line)
    BY <2>1 DEF GatewayInv, LineInv
  <2> QED
    BY <1>1, <1>2, <2>2
<1>4. ASSUME NEW t \in Sessions, at'[t] = "queued"
      PROVE  \E i \in 1 .. Len(line') : line'[i] = t
  <2>1. CASE t = s
    BY <1>1, <1>2, <2>1
  <2>2. CASE t # s
    <3>1. PICK i \in 1 .. Len(line) : line[i] = t
      BY <1>1, <1>4, <2>2 DEF GatewayInv, LineInv
    <3> QED
      BY <1>1, <1>2, <3>1
  <2> QED
    BY <2>1, <2>2
<1> QED
  BY <1>3, <1>4 DEF LineInv

\* The first in line leaves it; the lock is then free.
LEMMA LeaveKeepsLine ==
  ASSUME GatewayInv, NEW s \in Sessions, at[s] = "unit", Release(s)
  PROVE  /\ LineInv'
         /\ line' \in Seq(Sessions)
         /\ at' \in [Sessions -> {"idle", "core", "queued", "unit"}]
         /\ want' \in [Sessions -> Accounts \cup {Nobody}]
         /\ \A t \in Sessions : at'[t] # "unit"
<1>1. /\ at' = [at EXCEPT ![s] = "idle"] /\ line' = Tail(line)
      /\ want' = [want EXCEPT ![s] = Nobody]
      /\ line \in Seq(Sessions) /\ at \in [Sessions -> {"idle", "core", "queued", "unit"}]
      /\ want \in [Sessions -> Accounts \cup {Nobody}]
  BY DEF GatewayInv, TypeOK, Release
<1>2. line # <<>> /\ s = Head(line)
  BY DEF GatewayInv, LineInv
<1>3. /\ line' \in Seq(Sessions) /\ Len(line') = Len(line) - 1 /\ s = line[1]
      /\ \A i \in 1 .. Len(line') : line'[i] = line[i + 1]
  BY <1>1, <1>2
<1>4. \A t \in Sessions : at'[t] # "unit"
  BY <1>1, <1>2 DEF GatewayInv, LineInv
<1>5. ASSUME NEW t \in Sessions, at'[t] = "queued"
      PROVE  \E i \in 1 .. Len(line') : line'[i] = t
  <2>1. t # s /\ at[t] = "queued"
    BY <1>1, <1>5
  <2>2. PICK i \in 1 .. Len(line) : line[i] = t
    BY <2>1 DEF GatewayInv, LineInv
  <2>3. i - 1 \in 1 .. Len(line') /\ (i - 1) + 1 = i
    BY <1>1, <1>3, <2>1, <2>2
  <2> QED
    BY <1>3, <2>2, <2>3
<1> QED
  BY <1>1, <1>3, <1>4, <1>5 DEF LineInv

\* A step by which nobody comes to or leaves the lock and the line stays.
LEMMA LineUntouched ==
  ASSUME LineInv, at \in [Sessions -> {"idle", "core", "queued", "unit"}],
         NEW s \in Sessions, NEW to \in {"idle", "core"},
         at[s] \in {"idle", "core"}, at' = [at EXCEPT ![s] = to], UNCHANGED line
  PROVE  LineInv' /\ (Locked' <=> Locked)
<1>1. \A t \in Sessions : at'[t] = (IF t = s THEN to ELSE at[t])
  OBVIOUS
<1> QED
  BY <1>1 DEF LineInv, Locked

\* Every step of a preparation keeps the invariant.
LEMMA PrepareKeeps ==
  ASSUME GatewayInv, NEW s \in Sessions, Prepare(s)
  PROVE  GatewayInv'
<1> USE BrowsersAssumption
<1>1. ASSUME NEW a \in Accounts, Ask(s, a)
      PROVE  GatewayInv'
  <2>1. LineInv' /\ (Locked' <=> Locked)
    BY <1>1, LineUntouched DEF Ask, GatewayInv, TypeOK
  <2>2. TypeOK'
    BY <1>1 DEF Ask, GatewayInv, TypeOK, Spend, unitVars, codeVars
  <2> QED
    BY <1>1, <2>1, <2>2
    DEF Ask, GatewayInv, MemoryInv, CaptureInv, CachedCodeIsOfClient, unitVars, codeVars
<1>2. CASE CoreAllows(s)
  <2>1. LineInv'
    BY <1>2, JoinKeepsLine
  <2>2. TypeOK'
    BY <1>2 DEF CoreAllows, GatewayInv, TypeOK, unitVars, codeVars
  <2>3. Locked' <=> Locked
    BY <1>2 DEF CoreAllows, GatewayInv, TypeOK, Locked
  <2> QED
    BY <1>2, <2>1, <2>2, <2>3
    DEF CoreAllows, GatewayInv, MemoryInv, CaptureInv, CachedCodeIsOfClient, unitVars, codeVars
<1>3. CASE CoreForbids(s)
  <2>1. LineInv' /\ (Locked' <=> Locked)
    BY <1>3, LineUntouched DEF CoreForbids, GatewayInv, TypeOK
  <2>2. TypeOK'
    BY <1>3 DEF CoreForbids, GatewayInv, TypeOK, unitVars, codeVars
  <2> QED
    BY <1>3, <2>1, <2>2
    DEF CoreForbids, GatewayInv, MemoryInv, CaptureInv, CachedCodeIsOfClient, unitVars, codeVars
<1>4. CASE Acquire(s)
  <2>1. /\ at' = [at EXCEPT ![s] = "unit"] /\ at \in [Sessions -> {"idle", "core", "queued", "unit"}]
        /\ at[s] = "queued" /\ s = Head(line) /\ UNCHANGED line
    BY <1>4 DEF Acquire, GatewayInv, TypeOK
  <2>2. line # <<>>
    BY <2>1 DEF GatewayInv, LineInv, TypeOK
  <2>3. LineInv' /\ Locked'
    BY <2>1, <2>2 DEF GatewayInv, LineInv, Locked
  <2>4. /\ unit' \in Accounts \cup {Nobody} /\ UNCHANGED <<file, client>>
        /\ answer' \in {"none", "ok", "failed"}
    BY <1>4 DEF Acquire, Start, unitVars, GatewayInv, TypeOK
  <2>5. capture' \in [by : Sessions, of : Accounts, during : BOOLEAN] \cup {NoCapture}
    BY <1>4 DEF Acquire, GatewayInv, TypeOK
  <2>6. TypeOK'
    BY <1>4, <2>1, <2>4, <2>5 DEF Acquire, GatewayInv, TypeOK
  <2>7. capture' # NoCapture => capture'.during
    BY <1>4 DEF Acquire, GatewayInv, TypeOK
  <2> QED
    BY <1>4, <2>3, <2>6, <2>7
    DEF Acquire, GatewayInv, MemoryInv, CaptureInv, CachedCodeIsOfClient
<1>5. CASE Confirm(s)
  <2>1. at[s] = "unit" /\ Release(s)
    BY <1>5 DEF Confirm
  <2>2. Locked /\ ~Locked'
    BY <2>1, LeaveKeepsLine DEF Locked
  <2>3. /\ account' = file' /\ unit' = Nobody /\ file' \in Accounts
        /\ UNCHANGED <<capture, client>> /\ cache' = NoCode
    BY <1>5 DEF Confirm, unitVars, GatewayInv, TypeOK
  <2>4. started' \subseteq Sessions /\ refresh' \subseteq Sessions /\ unsure' \in BOOLEAN
    BY <1>5 DEF Confirm, GatewayInv, TypeOK
  <2>5. TypeOK'
    BY <1>5, <2>1, <2>3, <2>4, LeaveKeepsLine DEF Confirm, unitVars, GatewayInv, TypeOK, Codes
  <2>6. CaptureInv'
    BY <2>2, <2>3 DEF GatewayInv, CaptureInv
  <2> QED
    BY <2>1, <2>3, <2>5, <2>6, LeaveKeepsLine DEF GatewayInv, MemoryInv, CachedCodeIsOfClient
<1>6. CASE Unconfirmed(s) \/ Timeout(s)
  <2>1. at[s] = "unit" /\ Release(s) /\ unsure'
    BY <1>6 DEF Unconfirmed, Timeout
  <2>2. ~Locked'
    BY <2>1, LeaveKeepsLine DEF Locked
  <2>3. TypeOK'
    BY <1>6, <2>1, LeaveKeepsLine DEF Unconfirmed, Timeout, unitVars, codeVars, GatewayInv, TypeOK
  <2> QED
    BY <2>1, <2>2, <2>3, LeaveKeepsLine DEF GatewayInv, MemoryInv, CaptureInv, CachedCodeIsOfClient
<1> QED
  BY <1>1, <1>2, <1>3, <1>4, <1>5, <1>6 DEF Prepare

-----------------------------------------------------------------------------
(* The other steps.                                                        *)

\* What is not about a preparation leaves lock, line, memory and file alone.
LEMMA OthersKeep ==
  ASSUME GatewayInv,
         \/ \E s \in Sessions : Login(s) \/ View(s) \/ ServeCached(s) \/ BeginCapture(s)
         \/ EndCapture \/ CaptureFails \/ Action \/ CooldownOver \/ CodeExpires
  PROVE  GatewayInv'
<1> USE BrowsersAssumption
<1>1. UNCHANGED <<unitVars, account, prepareVars, unsure, left>>
  BY DEF Login, View, ServeCached, BeginCapture, EndCapture, CaptureFails, Action, CooldownOver,
         CodeExpires
<1>2. LineInv' /\ MemoryInv' /\ (Locked' <=> Locked)
  BY <1>1 DEF GatewayInv, LineInv, MemoryInv, Locked, unitVars, prepareVars
<1>3. ASSUME NEW s \in Sessions, BeginCapture(s)
      PROVE  GatewayInv'
  <2>1. capture' = [by |-> s, of |-> client, during |-> Locked \/ unit # Nobody]
    BY <1>3 DEF BeginCapture, LoginWindow
  <2>2. client \in Accounts /\ (Locked \/ unit # Nobody) \in BOOLEAN
    BY DEF GatewayInv, TypeOK, Locked
  <2>3. capture' \in [by : Sessions, of : Accounts, during : BOOLEAN]
    BY <2>1, <2>2
  <2>4. TypeOK'
    BY <1>1, <1>3, <2>3 DEF BeginCapture, GatewayInv, TypeOK, unitVars, prepareVars
  <2>5. /\ Locked => capture'.during
        /\ capture'.of = client
    BY <2>1
  <2> QED
    BY <1>1, <1>2, <1>3, <2>4, <2>5
    DEF BeginCapture, GatewayInv, CaptureInv, CachedCodeIsOfClient, unitVars
<1>4. CASE EndCapture
  <2>1. capture \in [by : Sessions, of : Accounts, during : BOOLEAN] /\ capture # NoCapture
    BY <1>4 DEF EndCapture, GatewayInv, TypeOK
  <2>2. /\ cache' = [of |-> capture.of, during |-> capture.during]
        /\ capture' = NoCapture /\ refresh' \subseteq refresh
    BY <1>4 DEF EndCapture
  <2>3. cache' \in Codes
    BY <2>1, <2>2 DEF Codes
  <2>4. TypeOK'
    BY <1>1, <1>4, <2>2, <2>3 DEF EndCapture, GatewayInv, TypeOK, unitVars, prepareVars
  <2>5. cache'.of = client \/ cache'.during \/ unsure
    BY <2>1, <2>2 DEF GatewayInv, CaptureInv
  <2> QED
    BY <1>1, <1>2, <2>2, <2>4, <2>5 DEF GatewayInv, CaptureInv, CachedCodeIsOfClient, unitVars
<1>5. ASSUME UNCHANGED <<capture, cache>> \/ (capture' = NoCapture /\ UNCHANGED cache)
             \/ (cache' = NoCode /\ UNCHANGED capture),
             started' \subseteq Sessions, refresh' \subseteq Sessions, viewing' \subseteq Sessions,
             recent' \in BOOLEAN
      PROVE  GatewayInv'
  <2>1. TypeOK'
    BY <1>1, <1>5 DEF GatewayInv, TypeOK, Codes, unitVars, prepareVars
  <2> QED
    BY <1>1, <1>2, <1>5, <2>1 DEF GatewayInv, CaptureInv, CachedCodeIsOfClient, unitVars
<1>6. ASSUME NEW s \in Sessions, Login(s) \/ View(s) \/ ServeCached(s)
      PROVE  GatewayInv'
  BY <1>5, <1>6 DEF Login, View, ServeCached, GatewayInv, TypeOK, codeVars
<1>7. CASE CaptureFails \/ Action \/ CooldownOver \/ CodeExpires
  BY <1>5, <1>7 DEF CaptureFails, Action, CooldownOver, CodeExpires, GatewayInv, TypeOK, codeVars
<1> QED
  BY <1>3, <1>4, <1>6, <1>7

\* The unit writes only while somebody waits for it, or after an error.
LEMMA UnitKeeps ==
  ASSUME GatewayInv, UnitStep
  PROVE  GatewayInv'
<1> USE BrowsersAssumption
<1>1. /\ unit # Nobody /\ unit' \in {unit, Nobody} /\ file' \in {file, unit}
      /\ client' \in {client, unit} /\ answer' \in {"none", "ok", "failed"}
  BY DEF UnitStep, WriteFile, ReplaceClient, Succeed, Fail, GatewayInv, TypeOK
<1>2. UNCHANGED <<account, prepareVars, recent, started, codeVars, unsure, left>>
  BY DEF UnitStep
<1>3. Locked \/ unsure
  BY <1>1 DEF GatewayInv, MemoryInv
<1>4. TypeOK'
  BY <1>1, <1>2 DEF GatewayInv, TypeOK, prepareVars, codeVars
<1>5. LineInv' /\ MemoryInv' /\ CaptureInv' /\ CachedCodeIsOfClient'
  BY <1>2, <1>3
  DEF GatewayInv, LineInv, MemoryInv, CaptureInv, CachedCodeIsOfClient, Locked, prepareVars, codeVars
<1> QED
  BY <1>4, <1>5 DEF GatewayInv

\* A restart reads the file; a unit at work is remembered as a doubt.
LEMMA RestartKeeps ==
  ASSUME GatewayInv, Restart
  PROVE  GatewayInv'
<1> USE BrowsersAssumption
<1>1. unsure' = (unit # Nobody) /\ unsure' \in BOOLEAN
  BY DEF Restart
<1>2. <<>> \in Seq(Sessions)
  OBVIOUS
<1>3. TypeOK'
  <2>1. left' \in [{"prepares", "restarts"} -> Nat]
    BY DEF Restart, Spend, GatewayInv, TypeOK
  <2>2. /\ at' \in [Sessions -> {"idle", "core", "queued", "unit"}]
        /\ want' \in [Sessions -> Accounts \cup {Nobody}]
        /\ line' \in Seq(Sessions) /\ recent' \in BOOLEAN
        /\ started' \subseteq Sessions /\ refresh' \subseteq Sessions /\ viewing' \subseteq Sessions
    BY <1>2 DEF Restart
  <2>3. capture' = NoCapture /\ cache' = NoCode /\ account' = file /\ UNCHANGED unitVars
    BY DEF Restart
  <2> QED
    BY <1>1, <2>1, <2>2, <2>3 DEF GatewayInv, TypeOK, unitVars, Codes
<1>4. ~Locked' /\ LineInv'
  BY DEF Restart, Locked, LineInv
<1>5. MemoryInv' /\ CaptureInv' /\ CachedCodeIsOfClient'
  BY <1>1 DEF Restart, MemoryInv, CaptureInv, CachedCodeIsOfClient, unitVars
<1> QED
  BY <1>3, <1>4, <1>5 DEF GatewayInv

\* Every step keeps the invariant.
LEMMA GatewayStep == GatewayInv /\ [Next]_vars => GatewayInv'
<1> SUFFICES ASSUME GatewayInv, [Next]_vars
             PROVE  GatewayInv'
  OBVIOUS
<1>1. CASE UNCHANGED vars
  BY <1>1 DEF vars, unitVars, prepareVars, codeVars, GatewayInv, TypeOK, LineInv, MemoryInv,
              CaptureInv, CachedCodeIsOfClient, Locked
<1> QED
  BY <1>1, PrepareKeeps, OthersKeep, UnitKeeps, RestartKeeps DEF Next, Browser

\* The gateway's invariant holds in every state.
THEOREM GatewayInvariant == Spec => []GatewayInv
<1>1. Init => GatewayInv
  <2> SUFFICES ASSUME Init
               PROVE  GatewayInv
    OBVIOUS
  <2> USE BrowsersAssumption
  <2>1. <<>> \in Seq(Sessions)
    OBVIOUS
  <2>2. left \in [{"prepares", "restarts"} -> Nat]
    BY DEF Init
  <2>3. /\ at \in [Sessions -> {"idle", "core", "queued", "unit"}]
        /\ want \in [Sessions -> Accounts \cup {Nobody}]
    BY DEF Init
  <2>4. TypeOK
    BY <2>1, <2>2, <2>3 DEF Init, UnitInit, TypeOK, Codes
  <2>5. LineInv /\ MemoryInv /\ CaptureInv /\ CachedCodeIsOfClient
    BY DEF Init, UnitInit, LineInv, MemoryInv, CaptureInv, CachedCodeIsOfClient, Locked
  <2> QED
    BY <2>4, <2>5 DEF GatewayInv
<1> QED
  BY <1>1, GatewayStep, PTL DEF Spec

\* The account in memory is the one in the configuration, whatever browsers,
\* units and restarts do at once: unless the lock is held, or an error is not
\* yet followed by a success.
THEOREM MemoryStaysSound == Spec => []MemoryIsSound
<1>1. GatewayInv => MemoryIsSound
  BY DEF GatewayInv, MemoryInv, MemoryIsSound, MemoryFollowsFile
<1> QED
  BY <1>1, GatewayInvariant, PTL

\* The code kept for the next request is of the client that runs, unless it was
\* captured during a preparation, one holds the lock, or an error is not yet
\* followed by a success.
THEOREM CodesAreOfClient == Spec => []CachedCodeIsOfClient
<1>1. GatewayInv => CachedCodeIsOfClient
  BY DEF GatewayInv
<1> QED
  BY <1>1, GatewayInvariant, PTL

=============================================================================
