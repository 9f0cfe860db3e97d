----------------------------- MODULE SendRelay -----------------------------
(***************************************************************************)
(* The OneBot relay (adapters/onebot.py): SealDice's WebSocket is passed   *)
(* through to the OneBot implementation frame by frame, and SendTracker    *)
(* times the send requests it sees by the echo that request and reply have *)
(* in common.                                                              *)
(*                                                                         *)
(* Requests are numbered as they are seen.  Replies may come in any order, *)
(* late or never; what they carry is their echo alone.  Evidence goes      *)
(* through a bounded queue to an observer that may fail.                   *)
(***************************************************************************)
EXTENDS Naturals, Sequences, FiniteSets

CONSTANTS
  Echoes,       \* echo values SealDice uses
  NoEcho,       \* a request without a usable echo
  Maximum,      \* maximum of SendTracker
  Timeout,      \* its timeout, in units of Tick
  QueueSize,    \* maxsize of the evidence queue
  MaxRequests   \* bound: send requests

Ids == 1 .. MaxRequests

ASSUME NamesAssumption == NoEcho \notin Echoes
ASSUME NumbersAssumption ==
  /\ Maximum \in Nat \ {0} /\ Timeout \in Nat \ {0} /\ QueueSize \in Nat \ {0}
  /\ MaxRequests \in Nat

VARIABLES
  active,     \* a connection is being relayed
  pending,    \* Echoes -> request tracked under it, or 0
  age,        \* Echoes -> time since it was seen
  waiting,    \* the world: requests the implementation may still answer
  echo,       \* Ids -> echo of the request
  seen,       \* requests seen so far
  queue,      \* evidence not yet observed
  dropped,    \* self.dropped
  verdicts,   \* history: Ids -> set of verdicts emitted on it
  answeredBy, \* history: Ids -> request whose reply completed it, or 0
  emitted,    \* history: payloads given to emit
  observed, marked, failed
              \* history: payloads the observer took, drops it was told of,
              \* and both where it raised

trackerVars == <<pending, age>>
worldVars   == <<waiting, echo, seen>>
queueVars   == <<queue, dropped>>
countVars   == <<observed, marked, failed>>
historyVars == <<verdicts, answeredBy, emitted, countVars>>
vars == <<active, trackerVars, worldVars, queueVars, historyVars>>

\* Echoes that are tracked.
Tracked == {e \in Echoes : pending[e] # 0}

\* emit, n times: what does not fit into the queue is counted.
Emit(n) ==
  LET free == QueueSize - Len(queue)
      put  == IF n < free THEN n ELSE free
  IN  /\ queue' = queue \o [i \in 1 .. put |-> "evidence"]
      /\ dropped' = dropped + (n - put)
      /\ emitted' = emitted + n

\* finish on the requests tracked under the echoes of S.
Finish(S, verdict) ==
  /\ pending' = [e \in Echoes |-> IF e \in S THEN 0 ELSE pending[e]]
  /\ age' = [e \in Echoes |-> IF e \in S THEN 0 ELSE age[e]]
  /\ verdicts' = [i \in Ids |-> IF \E e \in S : pending[e] = i
                                 THEN verdicts[i] \cup {verdict} ELSE verdicts[i]]

-----------------------------------------------------------------------------
(* The connection. *)

\* A second client is refused while one is served.
Connect ==
  /\ ~active
  /\ active' = TRUE
  /\ UNCHANGED <<trackerVars, worldVars, queueVars, historyVars>>

\* Mutation: the table is cleared without a word on what was in it.
CloseForgets ==
  /\ active
  /\ active' = FALSE
  /\ pending' = [e \in Echoes |-> 0]
  /\ age' = [e \in Echoes |-> 0]
  /\ waiting' = {}
  /\ UNCHANGED <<echo, seen, queueVars, historyVars>>

\* Either side ends: everything still tracked is unconfirmed, and replies of
\* the old connection never reach a new one.
Close ==
  /\ active
  /\ active' = FALSE
  /\ Finish(Tracked, "unobserved")
  /\ Emit(Cardinality(Tracked))
  /\ waiting' = {}
  /\ UNCHANGED <<echo, seen, answeredBy, countVars>>

-----------------------------------------------------------------------------
(* SendTracker *)

Sees(e) ==
  /\ active
  /\ seen < MaxRequests
  /\ seen' = seen + 1
  /\ echo' = [echo EXCEPT ![seen'] = e]
  /\ waiting' = waiting \cup {seen'}

\* Mutation: a request takes the place of the one tracked under its echo.
RequestOverwriting(e) ==
  /\ Sees(e)
  /\ IF e # NoEcho /\ (e \in Tracked \/ Cardinality(Tracked) < Maximum)
     THEN /\ pending' = [pending EXCEPT ![e] = seen']
          /\ age' = [age EXCEPT ![e] = 0]
          /\ UNCHANGED <<queueVars, emitted, verdicts>>
     ELSE /\ verdicts' = [verdicts EXCEPT ![seen'] = @ \cup {"unobserved"}]
          /\ Emit(1)
          /\ UNCHANGED trackerVars
  /\ UNCHANGED <<active, answeredBy, countVars>>

\* A send request is tracked if its echo is usable and free and there is room.
\* If its echo is taken, neither request can be told from the other any more.
Request(e) ==
  /\ Sees(e)
  /\ IF e # NoEcho /\ e \notin Tracked /\ Cardinality(Tracked) < Maximum
     THEN /\ pending' = [pending EXCEPT ![e] = seen']
          /\ age' = [age EXCEPT ![e] = 0]
          /\ UNCHANGED <<queueVars, emitted, verdicts>>
     ELSE LET taken == {e} \cap Tracked
          IN  /\ pending' = [x \in Echoes |-> IF x \in taken THEN 0 ELSE pending[x]]
              /\ age' = [x \in Echoes |-> IF x \in taken THEN 0 ELSE age[x]]
              /\ verdicts' = [i \in Ids |->
                   IF i = seen' \/ \E x \in taken : pending[x] = i
                   THEN verdicts[i] \cup {"unobserved"} ELSE verdicts[i]]
              /\ Emit(1 + Cardinality(taken))
  /\ UNCHANGED <<active, answeredBy, countVars>>

\* The reply to request i, matched by its echo.
Response(i, result) ==
  /\ i \in waiting
  /\ waiting' = waiting \ {i}
  /\ IF echo[i] \in Tracked
     THEN /\ Finish({echo[i]}, CASE result = "ok"    -> "completed"
                                 [] result = "async" -> "unobserved"
                                 [] OTHER            -> "failed")
          /\ answeredBy' = IF result = "ok" THEN [answeredBy EXCEPT ![pending[echo[i]]] = i]
                           ELSE answeredBy
          /\ Emit(1)
     ELSE UNCHANGED <<trackerVars, queueVars, verdicts, emitted, answeredBy>>
  /\ UNCHANGED <<active, echo, seen, countVars>>

Overdue == {e \in Tracked : age[e] >= Timeout}

\* expire, every second of a connection.
Expire ==
  /\ Overdue # {}
  /\ Finish(Overdue, "unobserved")
  /\ Emit(Cardinality(Overdue))
  /\ UNCHANGED <<active, worldVars, answeredBy, countVars>>

\* Time stops at the timeout, from where on nothing distinguishes ages.
Tick ==
  /\ \E e \in Tracked : age[e] < Timeout
  /\ age' = [e \in Echoes |-> IF e \in Tracked /\ age[e] < Timeout THEN age[e] + 1 ELSE age[e]]
  /\ UNCHANGED <<active, pending, worldVars, queueVars, historyVars>>

-----------------------------------------------------------------------------
(* run(): one payload at a time, with the drops since the last one. *)

\* Mutation: the gap is forgotten when a payload is delivered.
ObserveWithoutGap(ok) ==
  /\ queue # <<>>
  /\ queue' = Tail(queue)
  /\ dropped' = 0
  /\ IF ok
     THEN observed' = observed + 1 /\ UNCHANGED failed
     ELSE failed' = failed + 1 /\ UNCHANGED observed
  /\ UNCHANGED <<active, trackerVars, worldVars, verdicts, answeredBy, emitted, marked>>

Observe(ok) ==
  /\ queue # <<>>
  /\ queue' = Tail(queue)
  /\ dropped' = 0
  /\ IF ok
     THEN /\ observed' = observed + 1
          /\ marked' = marked + dropped
          /\ UNCHANGED failed
     ELSE /\ failed' = failed + 1 + dropped
          /\ UNCHANGED <<observed, marked>>
  /\ UNCHANGED <<active, trackerVars, worldVars, verdicts, answeredBy, emitted>>

-----------------------------------------------------------------------------
Init ==
  /\ active = FALSE
  /\ pending = [e \in Echoes |-> 0] /\ age = [e \in Echoes |-> 0]
  /\ waiting = {} /\ echo = [i \in Ids |-> NoEcho] /\ seen = 0
  /\ queue = <<>> /\ dropped = 0
  /\ verdicts = [i \in Ids |-> {}] /\ answeredBy = [i \in Ids |-> 0]
  /\ emitted = 0 /\ observed = 0 /\ marked = 0 /\ failed = 0

Next ==
  \/ Connect \/ Close
  \/ \E e \in Echoes \cup {NoEcho} : Request(e)
  \/ \E i \in Ids, result \in {"ok", "async", "error"} : Response(i, result)
  \/ Expire
  \/ Tick
  \/ \E ok \in BOOLEAN : Observe(ok)

Spec == Init /\ [][Next]_vars

-----------------------------------------------------------------------------
TypeOK ==
  /\ active \in BOOLEAN
  /\ pending \in [Echoes -> 0 .. seen]
  /\ Cardinality(Tracked) <= Maximum
  /\ Tracked # {} => active
  /\ age \in [Echoes -> 0 .. Timeout]
  /\ seen \in 0 .. MaxRequests
  /\ waiting \subseteq 1 .. seen
  /\ echo \in [Ids -> Echoes \cup {NoEcho}]
  /\ queue \in Seq({"evidence"}) /\ Len(queue) <= QueueSize
  /\ dropped \in Nat
  /\ verdicts \in [Ids -> SUBSET {"completed", "unobserved", "failed"}]
  /\ answeredBy \in [Ids -> Ids \cup {0}]

\* Every send request seen has one verdict or is tracked, never both, never
\* neither, through duplicates, overflow, expiry and the end of connections.
OneVerdictEach ==
  \A i \in 1 .. seen :
    Cardinality(verdicts[i]) = IF \E e \in Echoes : pending[e] = i THEN 0 ELSE 1

\* A success is reported only where a reply with the request's own echo said
\* so.
SuccessHasItsEcho ==
  \A i \in 1 .. seen :
    "completed" \in verdicts[i] => answeredBy[i] # 0 /\ echo[answeredBy[i]] = echo[i]

\* The relay judges each request once and by its own reply.
VerdictsAreSound == TypeOK /\ OneVerdictEach /\ SuccessHasItsEcho

\* No evidence vanishes unnoticed: what was emitted was observed, is queued,
\* or is a drop that was told of, waits to be told of, or was lost with an
\* observer that raised.
EvidenceAddsUp ==
  emitted = observed + Len(queue) + marked + dropped + failed

-----------------------------------------------------------------------------
(* Liveness: time passes and the expiry task runs every second.              *)

Fairness == WF_vars(Tick) /\ WF_vars(Expire)
FairSpec == Spec /\ Fairness

\* No request stays tracked: an answer that never comes frees its place.
EveryRequestIsJudged == \A i \in Ids : i = seen ~> verdicts[i] # {}

=============================================================================
