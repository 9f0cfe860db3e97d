-------------------------- MODULE SendRelayProofs --------------------------
(***************************************************************************)
(* Proofs about SendRelay for any echoes and limits: every request has one *)
(* verdict, a success has its reply, and evidence adds up.                 *)
(***************************************************************************)
EXTENDS SendRelay, FiniteSetTheorems, TLAPS

Verdicts == {"completed", "unobserved", "failed"}

\* A request is tracked under its own echo, hence under one echo only.
EchoInv == \A e \in Echoes : pending[e] # 0 => echo[pending[e]] = e

IsTracked(i) == \E e \in Echoes : pending[e] = i

\* Which verdicts a request has, before it is seen, while it is tracked, after.
VerdictInv ==
  \A i \in Ids :
    /\ i > seen \/ IsTracked(i) => verdicts[i] = {}
    /\ i <= seen /\ ~IsTracked(i) => \E v \in Verdicts : verdicts[i] = {v}

\* Replies come from requests that were seen, and say what they were taken for.
AnswerInv ==
  /\ answeredBy \in [Ids -> 0 .. seen]
  /\ \A i \in Ids : "completed" \in verdicts[i] =>
       answeredBy[i] # 0 /\ echo[answeredBy[i]] = echo[i]

\* The queue and the counts of evidence.
EvidenceInv ==
  /\ queue \in Seq({"evidence"}) /\ Len(queue) <= QueueSize
  /\ dropped \in Nat
  /\ emitted \in Nat /\ observed \in Nat /\ marked \in Nat /\ failed \in Nat
  /\ EvidenceAddsUp

\* What is tracked, and for how long.
TrackInv ==
  /\ pending \in [Echoes -> 0 .. seen]
  /\ age \in [Echoes -> 0 .. Timeout]
  /\ IsFiniteSet(Tracked) /\ Cardinality(Tracked) <= Maximum
  /\ Tracked # {} => active
  /\ EchoInv

\* Requests as SealDice sends them.
WorldInv ==
  /\ active \in BOOLEAN
  /\ seen \in 0 .. MaxRequests
  /\ waiting \subseteq 1 .. seen
  /\ echo \in [Ids -> Echoes \cup {NoEcho}]
  /\ verdicts \in [Ids -> SUBSET Verdicts]

RelayInv == WorldInv /\ TrackInv /\ VerdictInv /\ AnswerInv /\ EvidenceInv

-----------------------------------------------------------------------------
(* Evidence.                                                               *)

\* Whatever the queue cannot take is counted.
LEMMA EmitAddsUp ==
  ASSUME EvidenceInv, NEW n \in Nat, Emit(n), UNCHANGED countVars
  PROVE  EvidenceInv'
<1> DEFINE free == QueueSize - Len(queue)
           put == IF n < free THEN n ELSE free
<1>1. /\ QueueSize \in Nat /\ Len(queue) \in Nat /\ Len(queue) <= QueueSize
      /\ queue \in Seq({"evidence"})
  BY NumbersAssumption DEF EvidenceInv
<1>2. put \in Nat /\ put <= n /\ Len(queue) + put <= QueueSize
  BY <1>1
<1>3. [i \in 1 .. put |-> "evidence"] \in Seq({"evidence"})
      /\ Len([i \in 1 .. put |-> "evidence"]) = put
  BY <1>2
<1> HIDE DEF put
<1>4. queue' = queue \o [i \in 1 .. put |-> "evidence"]
      /\ dropped' = dropped + (n - put) /\ emitted' = emitted + n
  BY DEF Emit, put
<1>5. queue' \in Seq({"evidence"}) /\ Len(queue') = Len(queue) + put
  BY <1>1, <1>2, <1>3, <1>4
<1>6. /\ emitted \in Nat /\ observed \in Nat /\ marked \in Nat /\ failed \in Nat
      /\ dropped \in Nat /\ emitted = observed + Len(queue) + marked + dropped + failed
  BY DEF EvidenceInv, EvidenceAddsUp
<1>7. observed' = observed /\ marked' = marked /\ failed' = failed
  BY DEF countVars
<1>8. EvidenceAddsUp' /\ dropped' \in Nat /\ emitted' \in Nat
  BY <1>1, <1>2, <1>4, <1>5, <1>6, <1>7 DEF EvidenceAddsUp
<1> QED
  BY <1>1, <1>2, <1>5, <1>6, <1>7, <1>8 DEF EvidenceInv

\* The observer takes one payload and is told of what was dropped.
LEMMA ObserveAddsUp ==
  ASSUME EvidenceInv, NEW ok \in BOOLEAN, Observe(ok)
  PROVE  EvidenceInv'
<1>1. /\ queue' \in Seq({"evidence"}) /\ Len(queue') = Len(queue) - 1
      /\ Len(queue) \in Nat /\ Len(queue) > 0
  BY DEF EvidenceInv, Observe
<1>2. QueueSize \in Nat
  BY NumbersAssumption
<1>3. CASE ok
  BY <1>1, <1>2, <1>3 DEF EvidenceInv, EvidenceAddsUp, Observe
<1>4. CASE ~ok
  BY <1>1, <1>2, <1>4 DEF EvidenceInv, EvidenceAddsUp, Observe
<1> QED
  BY <1>3, <1>4

-----------------------------------------------------------------------------
(* Verdicts.                                                               *)

\* finish frees the places of its requests and gives each its verdict.
LEMMA FinishJudges ==
  ASSUME WorldInv, TrackInv, VerdictInv,
         NEW S \in SUBSET Tracked, NEW v \in Verdicts, Finish(S, v),
         UNCHANGED <<echo, seen>>
  PROVE  /\ pending' \in [Echoes -> 0 .. seen']
         /\ age' \in [Echoes -> 0 .. Timeout]
         /\ IsFiniteSet(Tracked') /\ Cardinality(Tracked') <= Maximum
         /\ Tracked' \subseteq Tracked
         /\ EchoInv'
         /\ verdicts' \in [Ids -> SUBSET Verdicts]
         /\ VerdictInv'
         /\ \A i \in Ids : verdicts'[i] # verdicts[i] =>
              verdicts'[i] = {v} /\ \E e \in S : pending[e] = i
<1>1. /\ pending' = [e \in Echoes |-> IF e \in S THEN 0 ELSE pending[e]]
      /\ age' = [e \in Echoes |-> IF e \in S THEN 0 ELSE age[e]]
      /\ verdicts' = [i \in Ids |-> IF \E e \in S : pending[e] = i
                                     THEN verdicts[i] \cup {v} ELSE verdicts[i]]
      /\ pending \in [Echoes -> 0 .. seen] /\ age \in [Echoes -> 0 .. Timeout]
      /\ verdicts \in [Ids -> SUBSET Verdicts] /\ seen \in 0 .. MaxRequests
      /\ seen' = seen /\ echo' = echo
  BY DEF Finish, WorldInv, TrackInv
<1>2. S \subseteq Echoes /\ \A e \in S : pending[e] # 0
  BY DEF Tracked
<1>3. pending' \in [Echoes -> 0 .. seen'] /\ age' \in [Echoes -> 0 .. Timeout]
  BY <1>1, NumbersAssumption
<1>4. Tracked' \subseteq Tracked
  BY <1>1 DEF Tracked
<1>5. IsFiniteSet(Tracked') /\ Cardinality(Tracked') <= Maximum
  <2>1. IsFiniteSet(Tracked) /\ Cardinality(Tracked) <= Maximum
    BY DEF TrackInv
  <2>2. IsFiniteSet(Tracked') /\ Cardinality(Tracked') <= Cardinality(Tracked)
    BY <1>4, <2>1, FS_Subset
  <2>3. Cardinality(Tracked) \in Nat /\ Cardinality(Tracked') \in Nat /\ Maximum \in Nat
    BY <2>1, <2>2, FS_CardinalityType, NumbersAssumption
  <2> QED
    BY <2>1, <2>2, <2>3
<1>6. EchoInv'
  BY <1>1 DEF EchoInv, TrackInv
<1>7. ASSUME NEW i \in Ids, NEW e \in S, pending[e] = i
      PROVE  verdicts[i] = {} /\ verdicts'[i] = {v} /\ ~IsTracked(i)' /\ i <= seen
  <2>1. IsTracked(i) /\ i \in 1 .. seen
    BY <1>1, <1>2, <1>7 DEF IsTracked, Ids
  <2>2. verdicts[i] = {}
    BY <2>1 DEF VerdictInv
  <2>3. verdicts'[i] = {v}
    BY <1>1, <1>7, <2>2
  <2>4. ASSUME NEW f \in Echoes, pending'[f] = i
        PROVE  FALSE
    <3>1. f \notin S /\ pending[f] = i
      BY <1>1, <2>1, <2>4
    <3>2. f = echo[i] /\ e = echo[i]
      BY <1>2, <1>7, <2>1, <3>1 DEF EchoInv, TrackInv
    <3> QED
      BY <3>1, <3>2
  <2> QED
    BY <1>1, <2>1, <2>2, <2>3, <2>4 DEF IsTracked
<1>8. ASSUME NEW i \in Ids, ~\E e \in S : pending[e] = i
      PROVE  verdicts'[i] = verdicts[i] /\ (IsTracked(i)' <=> IsTracked(i))
  <2>1. verdicts'[i] = verdicts[i]
    BY <1>1, <1>8
  <2>2. \A e \in Echoes : pending'[e] = i <=> pending[e] = i
    <3>1. i # 0
      BY DEF Ids
    <3> QED
      BY <1>1, <1>8, <3>1
  <2> QED
    BY <2>1, <2>2 DEF IsTracked
<1>9. verdicts' \in [Ids -> SUBSET Verdicts]
  BY <1>1
<1>10. VerdictInv'
  <2> SUFFICES ASSUME NEW i \in Ids
               PROVE  /\ i > seen' \/ IsTracked(i)' => verdicts'[i] = {}
                      /\ i <= seen' /\ ~IsTracked(i)' => \E w \in Verdicts : verdicts'[i] = {w}
    BY DEF VerdictInv
  <2>1. CASE \E e \in S : pending[e] = i
    <3>1. verdicts'[i] = {v} /\ ~IsTracked(i)' /\ i <= seen'
      BY <1>1, <1>7, <2>1
    <3>2. i \in Nat /\ seen' \in Nat
      BY <1>1, NumbersAssumption DEF Ids
    <3> QED
      BY <3>1, <3>2
  <2>2. CASE ~\E e \in S : pending[e] = i
    BY <1>1, <1>8, <2>2 DEF VerdictInv
  <2> QED
    BY <2>1, <2>2
<1>11. \A i \in Ids : verdicts'[i] # verdicts[i] =>
         verdicts'[i] = {v} /\ \E e \in S : pending[e] = i
  BY <1>7, <1>8
<1> QED
  BY <1>3, <1>4, <1>5, <1>6, <1>9, <1>10, <1>11

-----------------------------------------------------------------------------
(* One lemma for each action.                                              *)

\* A new connection finds nothing tracked and changes no verdict.
LEMMA ConnectStep == RelayInv /\ Connect => RelayInv'
<1> SUFFICES ASSUME RelayInv, Connect PROVE RelayInv'
  OBVIOUS
<1> USE DEF Connect, trackerVars, worldVars, queueVars, historyVars, countVars
<1>1. WorldInv' /\ AnswerInv' /\ EvidenceInv'
  BY DEF RelayInv, WorldInv, AnswerInv, EvidenceInv, EvidenceAddsUp
<1>2. TrackInv' /\ VerdictInv'
  BY DEF RelayInv, TrackInv, EchoInv, VerdictInv, IsTracked, Tracked
<1> QED
  BY <1>1, <1>2 DEF RelayInv

\* What Close and Expire have in common.
LEMMA UnobservedStep ==
  ASSUME RelayInv, NEW S \in SUBSET Tracked, Finish(S, "unobserved"), Emit(Cardinality(S)),
         UNCHANGED <<echo, seen, answeredBy, countVars>>
  PROVE  /\ pending' \in [Echoes -> 0 .. seen'] /\ age' \in [Echoes -> 0 .. Timeout]
         /\ IsFiniteSet(Tracked') /\ Cardinality(Tracked') <= Maximum
         /\ Tracked' \subseteq Tracked
         /\ EchoInv' /\ VerdictInv' /\ AnswerInv' /\ EvidenceInv'
         /\ verdicts' \in [Ids -> SUBSET Verdicts]
<1>1. WorldInv /\ TrackInv /\ VerdictInv /\ AnswerInv /\ EvidenceInv
  BY DEF RelayInv
<1>2. "unobserved" \in Verdicts
  BY DEF Verdicts
<1>3. /\ pending' \in [Echoes -> 0 .. seen'] /\ age' \in [Echoes -> 0 .. Timeout]
      /\ IsFiniteSet(Tracked') /\ Cardinality(Tracked') <= Maximum
      /\ Tracked' \subseteq Tracked
      /\ EchoInv' /\ VerdictInv'
      /\ verdicts' \in [Ids -> SUBSET Verdicts]
      /\ \A i \in Ids : verdicts'[i] # verdicts[i] => verdicts'[i] = {"unobserved"}
  BY <1>1, <1>2, FinishJudges
<1>4. AnswerInv'
  <2>1. seen' = seen /\ echo' = echo /\ answeredBy' = answeredBy
    OBVIOUS
  <2> QED
    BY <1>1, <1>3, <2>1 DEF AnswerInv
<1>5. Cardinality(S) \in Nat
  <2>1. IsFiniteSet(S)
    BY <1>1, FS_Subset DEF TrackInv
  <2> QED
    BY <2>1, FS_CardinalityType
<1>6. EvidenceInv'
  BY <1>1, <1>5, EmitAddsUp
<1> QED
  BY <1>3, <1>4, <1>6

\* The end of a connection judges everything that is still tracked.
LEMMA CloseStep == RelayInv /\ Close => RelayInv'
<1> SUFFICES ASSUME RelayInv, Close PROVE RelayInv'
  OBVIOUS
<1>1. /\ active' = FALSE /\ waiting' = {} /\ Finish(Tracked, "unobserved")
      /\ Emit(Cardinality(Tracked)) /\ UNCHANGED <<echo, seen, answeredBy, countVars>>
  BY DEF Close
<1>2. /\ pending' \in [Echoes -> 0 .. seen'] /\ age' \in [Echoes -> 0 .. Timeout]
      /\ IsFiniteSet(Tracked') /\ Cardinality(Tracked') <= Maximum
      /\ EchoInv' /\ VerdictInv' /\ AnswerInv' /\ EvidenceInv'
      /\ verdicts' \in [Ids -> SUBSET Verdicts]
  BY <1>1, UnobservedStep
<1>3. Tracked' = {}
  BY <1>1 DEF Finish, Tracked
<1>4. WorldInv'
  BY <1>1, <1>2 DEF RelayInv, WorldInv
<1> QED
  BY <1>2, <1>3, <1>4 DEF RelayInv, TrackInv

\* expire judges the requests that are overdue and no others.
LEMMA ExpireStep == RelayInv /\ Expire => RelayInv'
<1> SUFFICES ASSUME RelayInv, Expire PROVE RelayInv'
  OBVIOUS
<1>1. /\ Overdue \in SUBSET Tracked /\ Finish(Overdue, "unobserved")
      /\ Emit(Cardinality(Overdue)) /\ UNCHANGED <<active, waiting, echo, seen, answeredBy, countVars>>
  BY DEF Expire, Overdue, worldVars
<1>2. /\ pending' \in [Echoes -> 0 .. seen'] /\ age' \in [Echoes -> 0 .. Timeout]
      /\ IsFiniteSet(Tracked') /\ Cardinality(Tracked') <= Maximum
      /\ Tracked' \subseteq Tracked
      /\ EchoInv' /\ VerdictInv' /\ AnswerInv' /\ EvidenceInv'
      /\ verdicts' \in [Ids -> SUBSET Verdicts]
  BY <1>1, UnobservedStep
<1>3. WorldInv' /\ (Tracked' # {} => active')
  BY <1>1, <1>2 DEF RelayInv, WorldInv, TrackInv
<1> QED
  BY <1>2, <1>3 DEF RelayInv, TrackInv

\* Time alone judges nothing.
LEMMA TickStep == RelayInv /\ Tick => RelayInv'
<1> SUFFICES ASSUME RelayInv, Tick PROVE RelayInv'
  OBVIOUS
<1>1. /\ age' \in [Echoes -> 0 .. Timeout]
      /\ UNCHANGED <<active, pending, worldVars, queueVars, historyVars>>
  <2>1. age \in [Echoes -> 0 .. Timeout] /\ Timeout \in Nat
    BY NumbersAssumption DEF RelayInv, TrackInv
  <2> QED
    BY <2>1 DEF Tick
<1> USE DEF worldVars, queueVars, historyVars, countVars
<1>2. WorldInv' /\ AnswerInv' /\ EvidenceInv'
  BY <1>1 DEF RelayInv, WorldInv, AnswerInv, EvidenceInv, EvidenceAddsUp
<1>3. TrackInv' /\ VerdictInv'
  BY <1>1 DEF RelayInv, TrackInv, EchoInv, VerdictInv, IsTracked, Tracked
<1> QED
  BY <1>2, <1>3 DEF RelayInv

\* The observer touches evidence only.
LEMMA ObserveStep ==
  ASSUME RelayInv, NEW ok \in BOOLEAN, Observe(ok)
  PROVE  RelayInv'
<1>1. UNCHANGED <<active, trackerVars, worldVars, verdicts, answeredBy>>
  BY DEF Observe
<1> USE DEF trackerVars, worldVars
<1>2. WorldInv' /\ AnswerInv'
  BY <1>1 DEF RelayInv, WorldInv, AnswerInv
<1>3. TrackInv' /\ VerdictInv'
  BY <1>1 DEF RelayInv, TrackInv, EchoInv, VerdictInv, IsTracked, Tracked
<1>4. EvidenceInv'
  BY ObserveAddsUp DEF RelayInv
<1> QED
  BY <1>2, <1>3, <1>4 DEF RelayInv

\* A request that is seen has the next number; what was seen keeps its echo.
LEMMA SeesStep ==
  ASSUME WorldInv, NEW e \in Echoes \cup {NoEcho}, Sees(e)
  PROVE  /\ seen \in Nat /\ seen' = seen + 1 /\ seen' \in Ids
         /\ echo' \in [Ids -> Echoes \cup {NoEcho}] /\ echo'[seen'] = e
         /\ \A i \in Ids : i # seen' => echo'[i] = echo[i]
         /\ seen' \in 0 .. MaxRequests /\ waiting' \subseteq 1 .. seen'
         /\ active
<1>1. /\ seen \in Nat /\ seen <= MaxRequests /\ MaxRequests \in Nat /\ seen < MaxRequests
      /\ seen' = seen + 1 /\ waiting' = waiting \cup {seen'} /\ waiting \subseteq 1 .. seen
      /\ echo' = [echo EXCEPT ![seen'] = e] /\ echo \in [Ids -> Echoes \cup {NoEcho}]
  BY NumbersAssumption DEF WorldInv, Sees
<1>2. seen' \in Ids /\ seen' \in 0 .. MaxRequests
  BY <1>1 DEF Ids
<1>3. waiting' \subseteq 1 .. seen'
  BY <1>1
<1>4. /\ echo' \in [Ids -> Echoes \cup {NoEcho}] /\ echo'[seen'] = e
      /\ \A i \in Ids : i # seen' => echo'[i] = echo[i]
  BY <1>1, <1>2
<1> QED
  BY <1>1, <1>2, <1>3, <1>4 DEF Sees

\* A request is seen: no reply is attributed anew.
LEMMA SeesAnswers ==
  ASSUME RelayInv, NEW e \in Echoes \cup {NoEcho}, Sees(e), UNCHANGED answeredBy,
         \A i \in Ids : "completed" \in verdicts'[i] => "completed" \in verdicts[i]
  PROVE  AnswerInv'
<1>1. /\ seen \in Nat /\ seen' = seen + 1 /\ seen' \in Ids
      /\ \A i \in Ids : i # seen' => echo'[i] = echo[i]
  BY SeesStep DEF RelayInv
<1>2. AnswerInv /\ VerdictInv /\ answeredBy' = answeredBy
  BY DEF RelayInv
<1>3. answeredBy' \in [Ids -> 0 .. seen']
  BY <1>1, <1>2 DEF AnswerInv
<1>4. ASSUME NEW i \in Ids, "completed" \in verdicts'[i]
      PROVE  answeredBy'[i] # 0 /\ echo'[answeredBy'[i]] = echo'[i]
  <2>1. "completed" \in verdicts[i]
    BY <1>4
  <2>2. answeredBy[i] # 0 /\ answeredBy[i] \in 0 .. seen /\ echo[answeredBy[i]] = echo[i]
    BY <1>2, <2>1 DEF AnswerInv
  <2>3. ~(i > seen)
    BY <1>2, <2>1 DEF VerdictInv
  <2>4. i # seen' /\ answeredBy[i] # seen' /\ answeredBy[i] \in Ids
    <3>1. seen \in Nat /\ seen' = seen + 1 /\ seen' <= MaxRequests /\ i \in Nat
      BY <1>1, NumbersAssumption DEF Ids
    <3> QED
      BY <2>2, <2>3, <3>1, NumbersAssumption DEF Ids
  <2> QED
    BY <1>1, <1>2, <2>2, <2>4
<1> QED
  BY <1>3, <1>4 DEF AnswerInv

\* A request takes a free place, or is judged at once with the one it is
\* confused with.
LEMMA RequestStep ==
  ASSUME RelayInv, NEW e \in Echoes \cup {NoEcho}, Request(e)
  PROVE  RelayInv'
<1>1. /\ WorldInv /\ TrackInv /\ VerdictInv /\ AnswerInv /\ EvidenceInv
      /\ Sees(e) /\ UNCHANGED <<active, answeredBy, countVars>>
  BY DEF RelayInv, Request
<1>2. /\ seen \in Nat /\ seen' = seen + 1 /\ seen' \in Ids
      /\ echo' \in [Ids -> Echoes \cup {NoEcho}] /\ echo'[seen'] = e
      /\ \A i \in Ids : i # seen' => echo'[i] = echo[i]
      /\ seen' \in 0 .. MaxRequests /\ waiting' \subseteq 1 .. seen'
      /\ active /\ active' = active
  BY <1>1, SeesStep
<1>3. /\ pending \in [Echoes -> 0 .. seen] /\ age \in [Echoes -> 0 .. Timeout]
      /\ verdicts \in [Ids -> SUBSET Verdicts] /\ Timeout \in Nat /\ MaxRequests \in Nat
      /\ active \in BOOLEAN
  BY <1>1, NumbersAssumption DEF TrackInv, WorldInv
<1>4. \A f \in Echoes : pending[f] # seen'
  BY <1>2, <1>3
<1>5. verdicts[seen'] = {}
  BY <1>1, <1>2 DEF VerdictInv
<1>6. CASE e # NoEcho /\ e \notin Tracked /\ Cardinality(Tracked) < Maximum
  <2>1. /\ e \in Echoes /\ pending[e] = 0
        /\ pending' = [pending EXCEPT ![e] = seen'] /\ age' = [age EXCEPT ![e] = 0]
        /\ queue' = queue /\ dropped' = dropped /\ emitted' = emitted /\ verdicts' = verdicts
    BY <1>6 DEF Request, Tracked, queueVars
  <2>2. /\ pending' \in [Echoes -> 0 .. seen'] /\ age' \in [Echoes -> 0 .. Timeout]
        /\ pending'[e] = seen' /\ \A f \in Echoes : f # e => pending'[f] = pending[f]
    BY <1>2, <1>3, <2>1
  <2>3. IsFiniteSet(Tracked') /\ Cardinality(Tracked') <= Maximum
    <3>1. Tracked' = Tracked \cup {e}
      BY <1>2, <2>1, <2>2 DEF Tracked
    <3>2. IsFiniteSet(Tracked) /\ Cardinality(Tracked) \in Nat
      BY <1>1, FS_CardinalityType DEF TrackInv
    <3>3. IsFiniteSet(Tracked') /\ Cardinality(Tracked') = Cardinality(Tracked) + 1
      BY <1>6, <3>1, <3>2, FS_AddElement
    <3> QED
      BY <1>6, <3>2, <3>3, NumbersAssumption
  <2>4. EchoInv'
    <3> SUFFICES ASSUME NEW f \in Echoes, pending'[f] # 0
                 PROVE  echo'[pending'[f]] = f
      BY DEF EchoInv
    <3>1. CASE f = e
      BY <1>2, <2>2, <3>1
    <3>2. CASE f # e
      <4>1. pending'[f] = pending[f] /\ pending[f] # 0 /\ pending[f] \in Ids /\ pending[f] # seen'
        BY <1>2, <1>3, <1>4, <2>2, <3>2 DEF Ids
      <4>2. echo[pending[f]] = f
        BY <1>1, <4>1 DEF TrackInv, EchoInv
      <4> QED
        BY <1>2, <4>1, <4>2
    <3> QED
      BY <3>1, <3>2
  <2>5. TrackInv'
    BY <1>2, <2>2, <2>3, <2>4 DEF TrackInv
  <2>6. WorldInv'
    BY <1>2, <1>3, <2>1 DEF WorldInv
  <2>7. VerdictInv'
    <3> SUFFICES ASSUME NEW i \in Ids
                 PROVE  /\ i > seen' \/ IsTracked(i)' => verdicts'[i] = {}
                        /\ i <= seen' /\ ~IsTracked(i)' => \E w \in Verdicts : verdicts'[i] = {w}
      BY DEF VerdictInv
    <3>1. CASE i = seen'
      BY <1>5, <2>1, <2>2, <3>1 DEF IsTracked
    <3>2. CASE i # seen'
      <4>1. i # 0 /\ i \in Nat
        BY DEF Ids
      <4>2. IsTracked(i)' <=> IsTracked(i)
        BY <2>1, <2>2, <3>2, <4>1 DEF IsTracked
      <4>3. (i > seen' => i > seen) /\ (i <= seen' => i <= seen)
        BY <1>2, <3>2, <4>1
      <4> QED
        BY <1>1, <2>1, <4>2, <4>3 DEF VerdictInv
    <3> QED
      BY <3>1, <3>2
  <2>8. AnswerInv'
    BY <1>1, <2>1, SeesAnswers
  <2>9. EvidenceInv'
    BY <1>1, <2>1 DEF EvidenceInv, EvidenceAddsUp, countVars
  <2> QED
    BY <2>5, <2>6, <2>7, <2>8, <2>9 DEF RelayInv
<1>7. CASE ~(e # NoEcho /\ e \notin Tracked /\ Cardinality(Tracked) < Maximum)
  <2> DEFINE taken == {e} \cap Tracked
  <2>1. /\ pending' = [x \in Echoes |-> IF x \in taken THEN 0 ELSE pending[x]]
        /\ age' = [x \in Echoes |-> IF x \in taken THEN 0 ELSE age[x]]
        /\ verdicts' = [i \in Ids |-> IF i = seen' \/ \E x \in taken : pending[x] = i
                                      THEN verdicts[i] \cup {"unobserved"} ELSE verdicts[i]]
        /\ Emit(1 + Cardinality(taken))
    BY <1>7 DEF Request
  <2>2. /\ taken \subseteq Tracked /\ taken \subseteq Echoes
        /\ \A x \in taken : x = e /\ pending[x] # 0
    BY DEF Tracked
  <2>3. IsFiniteSet(taken) /\ Cardinality(taken) \in Nat
    BY <1>1, <2>2, FS_Subset, FS_CardinalityType DEF TrackInv
  <2> HIDE DEF taken
  <2>4. /\ pending' \in [Echoes -> 0 .. seen'] /\ age' \in [Echoes -> 0 .. Timeout]
        /\ \A f \in Echoes : pending'[f] # 0 => pending'[f] = pending[f]
    <3>1. \A f \in Echoes : pending'[f] = 0 \/ pending'[f] = pending[f]
      BY <2>1
    <3>2. \A f \in Echoes : pending[f] \in 0 .. seen'
      BY <1>2, <1>3
    <3>3. pending' \in [Echoes -> 0 .. seen']
      BY <1>2, <2>1, <3>2
    <3> QED
      BY <1>3, <2>1, <3>1, <3>3
  <2>5. Tracked' \subseteq Tracked
    BY <2>4 DEF Tracked
  <2>6. IsFiniteSet(Tracked') /\ Cardinality(Tracked') <= Maximum
    <3>1. IsFiniteSet(Tracked) /\ Cardinality(Tracked) <= Maximum
      BY <1>1 DEF TrackInv
    <3>2. IsFiniteSet(Tracked') /\ Cardinality(Tracked') <= Cardinality(Tracked)
      BY <2>5, <3>1, FS_Subset
    <3>3. Cardinality(Tracked) \in Nat /\ Cardinality(Tracked') \in Nat /\ Maximum \in Nat
      BY <3>1, <3>2, FS_CardinalityType, NumbersAssumption
    <3> QED
      BY <3>1, <3>2, <3>3
  <2>7. EchoInv'
    <3> SUFFICES ASSUME NEW f \in Echoes, pending'[f] # 0
                 PROVE  echo'[pending'[f]] = f
      BY DEF EchoInv
    <3>1. pending'[f] = pending[f] /\ pending[f] # 0 /\ pending[f] \in Ids /\ pending[f] # seen'
      BY <1>2, <1>3, <1>4, <2>4 DEF Ids
    <3>2. echo[pending[f]] = f
      BY <1>1, <3>1 DEF TrackInv, EchoInv
    <3> QED
      BY <1>2, <3>1, <3>2
  <2>8. TrackInv'
    BY <1>2, <2>4, <2>6, <2>7 DEF TrackInv
  <2>9. "unobserved" \in Verdicts /\ "unobserved" # "completed"
    BY DEF Verdicts
  <2>10. WorldInv'
    <3>1. verdicts' \in [Ids -> SUBSET Verdicts]
      BY <1>3, <2>1, <2>9
    <3> QED
      BY <1>2, <1>3, <3>1 DEF WorldInv
  <2>11. VerdictInv'
    <3> SUFFICES ASSUME NEW i \in Ids
                 PROVE  /\ i > seen' \/ IsTracked(i)' => verdicts'[i] = {}
                        /\ i <= seen' /\ ~IsTracked(i)' => \E w \in Verdicts : verdicts'[i] = {w}
      BY DEF VerdictInv
    <3>1. i # 0 /\ i \in Nat
      BY DEF Ids
    <3>2. CASE i = seen'
      <4>1. verdicts'[i] = {"unobserved"}
        BY <1>5, <2>1, <3>2
      <4>2. ~IsTracked(i)'
        BY <1>4, <2>4, <3>1, <3>2 DEF IsTracked
      <4> QED
        BY <1>2, <2>9, <3>2, <4>1, <4>2
    <3>3. CASE i # seen' /\ \E x \in taken : pending[x] = i
      <4>1. PICK x \in taken : pending[x] = i
        BY <3>3
      <4>2. x \in Echoes /\ IsTracked(i) /\ i <= seen
        BY <1>3, <2>2, <4>1 DEF IsTracked
      <4>3. verdicts[i] = {}
        BY <1>1, <4>2 DEF VerdictInv
      <4>4. verdicts'[i] = {"unobserved"}
        BY <2>1, <3>3, <4>3
      <4>5. ASSUME NEW f \in Echoes, pending'[f] = i PROVE FALSE
        <5>1. f \notin taken /\ pending[f] = i
          BY <2>1, <3>1, <4>5
        <5>2. f = echo[i] /\ x = echo[i]
          BY <1>1, <3>1, <4>1, <4>2, <5>1 DEF TrackInv, EchoInv
        <5> QED
          BY <5>1, <5>2
      <4>6. ~IsTracked(i)'
        BY <4>5 DEF IsTracked
      <4> QED
        BY <1>2, <2>9, <3>1, <4>2, <4>4, <4>6
    <3>4. CASE i # seen' /\ ~\E x \in taken : pending[x] = i
      <4>1. verdicts'[i] = verdicts[i]
        BY <2>1, <3>4
      <4>2. \A f \in Echoes : pending'[f] = i <=> pending[f] = i
        BY <2>1, <3>1, <3>4
      <4>3. IsTracked(i)' <=> IsTracked(i)
        BY <4>2 DEF IsTracked
      <4>4. (i > seen' => i > seen) /\ (i <= seen' => i <= seen)
        BY <1>2, <3>1, <3>4
      <4> QED
        BY <1>1, <4>1, <4>3, <4>4 DEF VerdictInv
    <3> QED
      BY <3>2, <3>3, <3>4
  <2>12. AnswerInv'
    <3>1. \A i \in Ids : "completed" \in verdicts'[i] => "completed" \in verdicts[i]
      BY <2>1, <2>9
    <3> QED
      BY <1>1, <3>1, SeesAnswers
  <2>13. EvidenceInv'
    <3>1. 1 + Cardinality(taken) \in Nat
      BY <2>3
    <3> QED
      BY <1>1, <2>1, <3>1, EmitAddsUp
  <2> QED
    BY <2>8, <2>10, <2>11, <2>12, <2>13 DEF RelayInv
<1> QED
  BY <1>6, <1>7

\* A reply judges the request tracked under its echo, if any; a success
\* remembers whose reply it was.
LEMMA ResponseStep ==
  ASSUME RelayInv, NEW i \in Ids, NEW result \in {"ok", "async", "error"}, Response(i, result)
  PROVE  RelayInv'
<1>1. /\ WorldInv /\ TrackInv /\ VerdictInv /\ AnswerInv /\ EvidenceInv
      /\ i \in waiting /\ waiting' = waiting \ {i}
      /\ active' = active /\ echo' = echo /\ seen' = seen /\ UNCHANGED countVars
  BY DEF RelayInv, Response
<1>2. i \in 1 .. seen /\ seen \in Nat
  BY <1>1, NumbersAssumption DEF WorldInv
<1>3. CASE echo[i] \in Tracked
  <2> DEFINE v == CASE result = "ok"    -> "completed"
                    [] result = "async" -> "unobserved"
                    [] OTHER            -> "failed"
             S == {echo[i]}
             j == pending[echo[i]]
  <2>1. /\ Finish(S, v) /\ Emit(1)
        /\ answeredBy' = IF result = "ok" THEN [answeredBy EXCEPT ![j] = i] ELSE answeredBy
    BY <1>3 DEF Response
  <2>2. v \in Verdicts /\ (v = "completed" => result = "ok")
    BY DEF Verdicts
  <2>3. S \in SUBSET Tracked
    BY <1>3
  <2>4. echo[i] \in Echoes /\ j \in Ids /\ echo[j] = echo[i]
    BY <1>1, <1>3, NumbersAssumption DEF Tracked, TrackInv, EchoInv, WorldInv, Ids
  <2> HIDE DEF v
  <2>5. /\ pending' \in [Echoes -> 0 .. seen'] /\ age' \in [Echoes -> 0 .. Timeout]
        /\ IsFiniteSet(Tracked') /\ Cardinality(Tracked') <= Maximum
        /\ Tracked' \subseteq Tracked
        /\ EchoInv' /\ VerdictInv'
        /\ verdicts' \in [Ids -> SUBSET Verdicts]
        /\ \A k \in Ids : verdicts'[k] # verdicts[k] =>
             verdicts'[k] = {v} /\ \E e \in S : pending[e] = k
    BY <1>1, <2>1, <2>2, <2>3, FinishJudges
  <2>6. TrackInv'
    BY <1>1, <2>5 DEF TrackInv
  <2>7. WorldInv'
    BY <1>1, <2>5 DEF WorldInv
  <2>8. AnswerInv'
    <3>1. answeredBy \in [Ids -> 0 .. seen] /\ i \in 0 .. seen /\ i # 0
      BY <1>1, <1>2 DEF AnswerInv
    <3>2. answeredBy' \in [Ids -> 0 .. seen']
      BY <1>1, <2>1, <2>4, <3>1
    <3>3. ASSUME NEW k \in Ids, "completed" \in verdicts'[k]
          PROVE  answeredBy'[k] # 0 /\ echo'[answeredBy'[k]] = echo'[k]
      <4>1. CASE verdicts'[k] = verdicts[k]
        <5>1. answeredBy[k] # 0 /\ echo[answeredBy[k]] = echo[k]
          BY <1>1, <3>3, <4>1 DEF AnswerInv
        <5>2. answeredBy'[k] = answeredBy[k] \/ (k = j /\ answeredBy'[k] = i)
          BY <2>1, <2>4, <3>1
        <5> QED
          BY <1>1, <2>4, <3>1, <5>1, <5>2
      <4>2. CASE verdicts'[k] # verdicts[k]
        <5>1. v = "completed" /\ k = j
          BY <2>5, <3>3, <4>2
        <5>2. answeredBy'[k] = i
          BY <2>1, <2>2, <2>4, <3>1, <5>1
        <5> QED
          BY <1>1, <2>4, <3>1, <5>1, <5>2
      <4> QED
        BY <4>1, <4>2
    <3> QED
      BY <3>2, <3>3 DEF AnswerInv
  <2>9. EvidenceInv'
    BY <1>1, <2>1, EmitAddsUp
  <2> QED
    BY <2>5, <2>6, <2>7, <2>8, <2>9 DEF RelayInv
<1>4. CASE echo[i] \notin Tracked
  <2> USE DEF trackerVars, queueVars, countVars
  <2>1. UNCHANGED <<trackerVars, queueVars, verdicts, emitted, answeredBy>>
    BY <1>4 DEF Response
  <2>2. WorldInv' /\ AnswerInv' /\ EvidenceInv'
    BY <1>1, <2>1 DEF WorldInv, AnswerInv, EvidenceInv, EvidenceAddsUp
  <2>3. TrackInv' /\ VerdictInv'
    BY <1>1, <2>1 DEF TrackInv, EchoInv, VerdictInv, IsTracked, Tracked
  <2> QED
    BY <2>2, <2>3 DEF RelayInv
<1> QED
  BY <1>3, <1>4

-----------------------------------------------------------------------------
(* The theorems.                                                           *)

\* The relay starts with nothing seen, tracked or judged.
LEMMA InitStep == Init => RelayInv
<1> SUFFICES ASSUME Init PROVE RelayInv
  OBVIOUS
<1>1. Tracked = {} /\ IsFiniteSet(Tracked) /\ Cardinality(Tracked) = 0
  <2>1. Tracked = {}
    BY DEF Init, Tracked
  <2> QED
    BY <2>1, FS_EmptySet
<1>2. WorldInv
  <2>1. /\ active \in BOOLEAN /\ seen = 0 /\ waiting = {}
        /\ echo = [i \in Ids |-> NoEcho] /\ verdicts = [i \in Ids |-> {}]
    BY DEF Init
  <2>2. echo \in [Ids -> Echoes \cup {NoEcho}] /\ verdicts \in [Ids -> SUBSET Verdicts]
    BY <2>1
  <2>3. seen \in 0 .. MaxRequests /\ waiting \subseteq 1 .. seen
    BY <2>1, NumbersAssumption
  <2> QED
    BY <2>1, <2>2, <2>3 DEF WorldInv
<1>3. TrackInv
  BY <1>1, NumbersAssumption DEF Init, TrackInv, EchoInv
<1>4. VerdictInv
  BY NumbersAssumption DEF Init, VerdictInv, Ids
<1>5. AnswerInv
  BY NumbersAssumption DEF Init, AnswerInv
<1>6. EvidenceInv
  BY NumbersAssumption DEF Init, EvidenceInv, EvidenceAddsUp
<1> QED
  BY <1>2, <1>3, <1>4, <1>5, <1>6 DEF RelayInv

\* Every step of the relay keeps the invariant.
LEMMA NextStep == RelayInv /\ [Next]_vars => RelayInv'
<1> SUFFICES ASSUME RelayInv, [Next]_vars PROVE RelayInv'
  OBVIOUS
<1>1. CASE Connect
  BY <1>1, ConnectStep
<1>2. CASE Close
  BY <1>2, CloseStep
<1>3. CASE \E e \in Echoes \cup {NoEcho} : Request(e)
  BY <1>3, RequestStep
<1>4. CASE \E i \in Ids, result \in {"ok", "async", "error"} : Response(i, result)
  BY <1>4, ResponseStep
<1>5. CASE Expire
  BY <1>5, ExpireStep
<1>6. CASE Tick
  BY <1>6, TickStep
<1>7. CASE \E ok \in BOOLEAN : Observe(ok)
  BY <1>7, ObserveStep
<1>8. CASE UNCHANGED vars
  <2> USE <1>8 DEF vars, trackerVars, worldVars, queueVars, historyVars, countVars
  <2>1. WorldInv' /\ AnswerInv' /\ EvidenceInv'
    BY DEF RelayInv, WorldInv, AnswerInv, EvidenceInv, EvidenceAddsUp
  <2>2. TrackInv' /\ VerdictInv'
    BY DEF RelayInv, TrackInv, EchoInv, VerdictInv, IsTracked, Tracked
  <2> QED
    BY <2>1, <2>2 DEF RelayInv
<1> QED
  BY <1>1, <1>2, <1>3, <1>4, <1>5, <1>6, <1>7, <1>8 DEF Next

\* The relay's books stay in order for any echoes, limits and number of
\* requests: what is tracked has no verdict, what was tracked has one.
THEOREM RelayInvariant == Spec => []RelayInv
<1> QED
  BY InitStep, NextStep, PTL DEF Spec

\* What the invariant says about verdicts.
LEMMA SoundnessFollows == RelayInv => VerdictsAreSound
<1> SUFFICES ASSUME RelayInv PROVE VerdictsAreSound
  OBVIOUS
<1> USE NumbersAssumption
<1>1. WorldInv /\ TrackInv /\ VerdictInv /\ AnswerInv /\ EvidenceInv
  BY DEF RelayInv
<1>2. seen \in Nat /\ seen <= MaxRequests /\ \A i \in 1 .. seen : i \in Ids /\ i <= seen /\ i \in Nat
  BY <1>1 DEF WorldInv, Ids
<1>3. answeredBy \in [Ids -> Ids \cup {0}]
  <2>1. \A x \in 0 .. seen : x \in Ids \cup {0}
    BY <1>2
  <2> QED
    BY <1>1, <2>1 DEF AnswerInv
<1>4. TypeOK
  BY <1>1, <1>3 DEF TypeOK, WorldInv, TrackInv, EvidenceInv, Verdicts
<1>5. OneVerdictEach
  <2> SUFFICES ASSUME NEW i \in 1 .. seen
               PROVE  Cardinality(verdicts[i]) = IF \E e \in Echoes : pending[e] = i THEN 0 ELSE 1
    BY DEF OneVerdictEach
  <2>1. i \in Ids /\ i <= seen
    BY <1>2
  <2>2. CASE IsTracked(i)
    <3>1. verdicts[i] = {} /\ \E e \in Echoes : pending[e] = i
      BY <1>1, <2>1, <2>2 DEF VerdictInv, IsTracked
    <3> QED
      BY <3>1, FS_EmptySet
  <2>3. CASE ~IsTracked(i)
    <3>1. PICK w \in Verdicts : verdicts[i] = {w}
      BY <1>1, <2>1, <2>3 DEF VerdictInv
    <3>2. Cardinality(verdicts[i]) = 1
      BY <3>1, FS_Singleton
    <3> QED
      BY <2>3, <3>2 DEF IsTracked
  <2> QED
    BY <2>2, <2>3
<1>6. SuccessHasItsEcho
  BY <1>1, <1>2 DEF SuccessHasItsEcho, AnswerInv
<1> QED
  BY <1>4, <1>5, <1>6 DEF VerdictsAreSound

\* Through duplicate echoes, a full tracker, timeouts and lost connections
\* every request gets one verdict and success only by a reply with its echo.
THEOREM VerdictsStaySound == Spec => []VerdictsAreSound
<1> QED
  BY RelayInvariant, SoundnessFollows, PTL

\* However full the queue gets and however often the observer fails, what was
\* emitted is accounted for.
THEOREM EvidenceAlwaysAddsUp == Spec => []EvidenceAddsUp
<1>1. RelayInv => EvidenceAddsUp
  BY DEF RelayInv, EvidenceInv
<1> QED
  BY <1>1, RelayInvariant, PTL

=============================================================================
