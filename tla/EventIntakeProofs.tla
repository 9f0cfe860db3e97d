------------------------- MODULE EventIntakeProofs -------------------------
(***************************************************************************)
(* Proofs about EventIntake for any users, groups, handlers and bounds:    *)
(* each pushed event is handled once and announced, and the notices about  *)
(* groups account for the snapshot.                                        *)
(***************************************************************************)
EXTENDS EventIntake, TLAPS

\* What the loop has in hand at each of its places.
LoopInv ==
  /\ pc \in {"store requests", "store friends"} => read \subseteq Users
  /\ pc = "store groups" => read \subseteq Groups
  /\ pc \in {"each request", "process request", "each friend"} => todo \subseteq Users
  /\ pc = "each group" => todo \subseteq Groups /\ gone \subseteq Groups

\* Before the first list of groups there is no snapshot.
SnapInv == "groups" \notin initialized => groupSnap = {} /\ baseline = {}

\* What was handled has its fingerprint.
RecordInv == HandledOnce /\ \A p \in Payloads : handled[p] > 0 => p \in raw

EventInv == TypeOK /\ LoopInv /\ SnapInv /\ RecordInv /\ StoredIsAnnounced /\ GroupBooks

\* The variables fall into groups, most of which a step leaves alone.
WorldType ==
  /\ requested \subseteq Users /\ recent \subseteq requested /\ friends \subseteq Users
  /\ members \subseteq Groups /\ pushes \in [Events -> Nat] /\ moves \in Nat
HandlerType ==
  /\ stage \in [Handlers -> {"idle", "record", "process"}]
  /\ serving \in [Handlers -> Events \cup {NoOne}]
  /\ \A h \in Handlers : serving[h] = NoOne <=> stage[h] = "idle"
LoopType ==
  /\ pc \in Places /\ recentRead \subseteq Users
  /\ IF pc = "process request" THEN current \in todo ELSE current = NoOne
  /\ LoopInv
StoreType ==
  /\ raw \subseteq Payloads /\ seen \subseteq Users
  /\ friendSnap \subseteq Users /\ groupSnap \subseteq Groups
  /\ initialized \subseteq {"requests", "friends", "groups"}
NoticeType ==
  /\ announced \subseteq Events /\ friendAdded \in [Users -> Nat]
  /\ groupAdded \in [Groups -> Nat] /\ groupRemoved \in [Groups -> Nat]
HistoryType ==
  /\ faults \in Nat /\ handled \in [Payloads -> Nat] /\ baseline \subseteq Groups
  /\ lost \subseteq Events /\ lostAdded \in [Groups -> Nat] /\ lostRemoved \in [Groups -> Nat]

Typed == WorldType /\ HandlerType /\ LoopType /\ StoreType /\ NoticeType /\ HistoryType

\* The groups of variables make up the type invariant.
LEMMA TypedIsTypeOK == Typed <=> TypeOK /\ LoopInv
BY DEF Typed, WorldType, HandlerType, LoopType, StoreType, NoticeType, HistoryType, TypeOK

\* Groups of variables that a step leaves alone keep their types.
LEMMA Untouched ==
  ASSUME Typed
  PROVE  /\ UNCHANGED worldVars => WorldType'
         /\ UNCHANGED handlerVars => HandlerType'
         /\ UNCHANGED loopVars => LoopType'
         /\ UNCHANGED storeVars => StoreType'
         /\ UNCHANGED noticeVars => NoticeType'
         /\ UNCHANGED historyVars => HistoryType'
BY DEF Typed, worldVars, handlerVars, loopVars, storeVars, noticeVars, historyVars, WorldType,
       HandlerType, LoopType, LoopInv, StoreType, NoticeType, HistoryType

-----------------------------------------------------------------------------
(* Types.                                                                  *)

\* A count goes up by one.
LEMMA OneMore ==
  ASSUME NEW S, NEW f \in [S -> Nat], NEW x \in S
  PROVE  [f EXCEPT ![x] = @ + 1] \in [S -> Nat]
OBVIOUS

\* Friends and groups come and go.
LEMMA WorldTyped == Typed /\ World => Typed'
<1> SUFFICES ASSUME Typed, World PROVE Typed'
  OBVIOUS
<1>1. UNCHANGED <<handlerVars, loopVars, storeVars, noticeVars, historyVars>>
  BY DEF World, Request, Age, Befriend, Move
<1>2. WorldType'
  <2>1. ASSUME NEW u \in Users, Request(u) \/ Age(u) PROVE WorldType'
    BY <2>1 DEF Typed, WorldType, Request, Age
  <2>2. ASSUME NEW u \in Users, Befriend(u) PROVE WorldType'
    BY <2>2 DEF Typed, WorldType, Befriend
  <2>3. ASSUME NEW g \in Groups, Move(g) PROVE WorldType'
    BY <2>3 DEF Typed, WorldType, Move
  <2> QED
    BY <2>1, <2>2, <2>3 DEF World
<1> QED
  BY <1>1, <1>2, Untouched DEF Typed

\* A handler takes a push and lets go of it.
LEMMA HandlerTyped ==
  ASSUME Typed, NEW h \in Handlers, Handler(h)
  PROVE  Typed'
<1>1. HandlerType /\ StoreType /\ NoticeType /\ HistoryType
  BY DEF Typed
<1>2. Respond(h) => HandlerType'
  BY <1>1 DEF HandlerType, Respond
<1>3. stage[h] # "idle" => serving[h] \in Events
  BY <1>1 DEF HandlerType
<1>4. ASSUME NEW e \in Events, Push(h, e) PROVE Typed'
  <2>1. UNCHANGED <<requested, recent, friends, members, moves, loopVars, storeVars, noticeVars,
                    historyVars>>
    BY <1>4 DEF Push
  <2>2. pushes' = [pushes EXCEPT ![e] = @ + 1] /\ pushes \in [Events -> Nat]
    BY <1>4 DEF Push, Typed, WorldType
  <2>3. WorldType'
    BY <2>1, <2>2 DEF Typed, WorldType
  <2>4. HandlerType'
    BY <1>1, <1>4, NamesAssumption DEF Push, HandlerType
  <2> QED
    BY <2>1, <2>3, <2>4, Untouched DEF Typed
<1>5. CASE HandleRecord(h)
  <2> DEFINE p == <<"push", serving[h]>>
  <2>1. p \in Payloads
    BY <1>3, <1>5 DEF HandleRecord, Payloads
  <2>2. /\ stage[h] = "record" /\ raw' = raw \cup {p}
        /\ \/ Respond(h) /\ handled' = handled
           \/ /\ stage' = [stage EXCEPT ![h] = "process"]
              /\ handled' = [handled EXCEPT ![p] = @ + 1] /\ serving' = serving
        /\ UNCHANGED <<worldVars, loopVars, seen, friendSnap, groupSnap, initialized, noticeVars,
                       faults, baseline, lost, lostAdded, lostRemoved>>
    BY <1>5 DEF HandleRecord, RecordEvent
  <2> HIDE DEF p
  <2>3. HandlerType'
    BY <1>1, <1>2, <2>2 DEF HandlerType
  <2>4. StoreType'
    BY <1>1, <2>1, <2>2 DEF StoreType
  <2>5. HistoryType'
    BY <1>1, <2>1, <2>2 DEF HistoryType
  <2> QED
    BY <2>2, <2>3, <2>4, <2>5, Untouched DEF Typed
<1>6. CASE HandleProcess(h)
  <2>1. NoticeType'
    BY <1>1, <1>3, <1>6 DEF HandleProcess, Announce, NoticeType
  <2> QED
    BY <1>2, <1>6, <2>1, Untouched DEF HandleProcess, Typed
<1>7. CASE AbortHandler(h)
  <2>1. HistoryType'
    BY <1>1, <1>3, <1>7 DEF AbortHandler, HistoryType
  <2> QED
    BY <1>2, <1>7, <2>1, Untouched DEF AbortHandler, Typed
<1> QED
  BY <1>4, <1>5, <1>6, <1>7 DEF Handler

\* The loop's steps that only move on or read.
LEMMA MoveTyped ==
  ASSUME Typed,
         \/ StartPass \/ GetRequests \/ RequestsFail \/ RequestsDone \/ GetFriends \/ FriendsFail
         \/ FriendsDone \/ GetGroups \/ EndPass
  PROVE  Typed'
<1>1. UNCHANGED <<worldVars, handlerVars, storeVars, noticeVars, historyVars>>
  BY DEF StartPass, GetRequests, RequestsFail, RequestsDone, GetFriends, FriendsFail, FriendsDone,
         GetGroups, EndPass
<1>2. LoopType'
  BY DEF Typed, WorldType, LoopType, LoopInv, Places, GoTo, StartPass, GetRequests, RequestsFail,
         RequestsDone, GetFriends, FriendsFail, FriendsDone, GetGroups, EndPass
<1> QED
  BY <1>1, <1>2, Untouched DEF Typed

\* The loop's steps that write.
LEMMA WriteTyped ==
  ASSUME Typed,
         \/ StoreRequests \/ StoreFriends \/ StoreGroups
         \/ \E u \in Users : RecordRequest(u) \/ ProcessRequest(u) \/ NotifyFriend(u)
         \/ \E g \in Groups : NotifyGroup(g)
  PROVE  Typed'
<1>1. LoopType /\ StoreType /\ NoticeType /\ HistoryType
  BY DEF Typed
<1>2. CASE StoreRequests
  <2>1. LoopType' /\ StoreType'
    BY <1>1, <1>2 DEF StoreRequests, NewRows, StoreType, GoTo, Places, LoopType, LoopInv
  <2> QED
    BY <1>2, <2>1, Untouched DEF StoreRequests, Typed
<1>3. CASE StoreFriends
  <2>1. LoopType' /\ StoreType'
    BY <1>1, <1>3 DEF StoreFriends, NewRows, Merged, GoneRows, StoreType, GoTo, Places, LoopType, LoopInv
  <2> QED
    BY <1>3, <2>1, Untouched DEF StoreFriends, Typed
<1>4. CASE StoreGroups
  <2>1. LoopType' /\ StoreType'
    BY <1>1, <1>4 DEF StoreGroups, NewRows, Merged, GoneRows, StoreType, GoTo, Places, LoopType, LoopInv
  <2>2. HistoryType'
    <3>1. read \subseteq Groups
      BY <1>1, <1>4 DEF StoreGroups, LoopType, LoopInv
    <3>2. baseline' \subseteq Groups
      BY <1>1, <1>4, <3>1 DEF StoreGroups, HistoryType
    <3> QED
      BY <1>1, <1>4, <3>2 DEF StoreGroups, HistoryType
  <2> QED
    BY <1>4, <2>1, <2>2, Untouched DEF StoreGroups, Typed
<1>5. ASSUME NEW u \in Users, RecordRequest(u) PROVE Typed'
  <2> DEFINE p == <<"poll", u>>
  <2>1. p \in Payloads
    BY DEF Payloads
  <2>2. /\ pc = "each request" /\ u \in todo /\ raw' = raw \cup {p}
        /\ \/ todo' = todo \ {u} /\ UNCHANGED <<pc, handled, current>>
           \/ /\ handled' = [handled EXCEPT ![p] = @ + 1] /\ pc' = "process request"
              /\ current' = u /\ todo' = todo
        /\ UNCHANGED <<worldVars, handlerVars, gone, read, recentRead, seen, friendSnap, groupSnap,
                       initialized, noticeVars, faults, baseline, lost, lostAdded, lostRemoved>>
    BY <1>5 DEF RecordRequest, RecordEvent, GoTo
  <2> HIDE DEF p
  <2>3. LoopType'
    BY <1>1, <2>2 DEF GoTo, Places, LoopType, LoopInv
  <2>4. StoreType'
    BY <1>1, <2>1, <2>2 DEF StoreType
  <2>5. HistoryType'
    <3>1. handled' \in [Payloads -> Nat]
      <4>1. handled \in [Payloads -> Nat]
        BY <1>1 DEF HistoryType
      <4>2. handled' = handled \/ handled' = [handled EXCEPT ![p] = @ + 1]
        BY <2>2
      <4> QED
        BY <2>1, <4>1, <4>2, OneMore
    <3> QED
      BY <1>1, <2>2, <3>1 DEF HistoryType
  <2> QED
    BY <2>2, <2>3, <2>4, <2>5, Untouched DEF Typed
<1>6. ASSUME NEW u \in Users, ProcessRequest(u) PROVE Typed'
  <2>1. LoopType' /\ NoticeType'
    BY <1>1, <1>6 DEF ProcessRequest, Announce, NoticeType, Events, GoTo, Places, LoopType, LoopInv
  <2> QED
    BY <1>6, <2>1, Untouched DEF ProcessRequest, Typed
<1>7. ASSUME NEW u \in Users, NotifyFriend(u) PROVE Typed'
  <2>1. LoopType'
    BY <1>1, <1>7 DEF NotifyFriend, GoTo, Places, LoopType, LoopInv
  <2>2. NoticeType'
    <3>1. friendAdded' = friendAdded \/ friendAdded' = [friendAdded EXCEPT ![u] = @ + 1]
      BY <1>7 DEF NotifyFriend
    <3>2. friendAdded' \in [Users -> Nat]
      BY <1>1, <3>1, OneMore DEF NoticeType
    <3> QED
      BY <1>1, <1>7, <3>2 DEF NotifyFriend, NoticeType
  <2> QED
    BY <1>7, <2>1, <2>2, Untouched DEF NotifyFriend, Typed
<1>8. ASSUME NEW g \in Groups, NotifyGroup(g) PROVE Typed'
  <2>1. LoopType'
    BY <1>1, <1>8 DEF NotifyGroup, GoTo, Places, LoopType, LoopInv
  <2>2. NoticeType'
    <3>1. /\ groupAdded' = groupAdded \/ groupAdded' = [groupAdded EXCEPT ![g] = @ + 1]
          /\ groupRemoved' = groupRemoved \/ groupRemoved' = [groupRemoved EXCEPT ![g] = @ + 1]
      BY <1>8 DEF NotifyGroup
    <3>2. groupAdded' \in [Groups -> Nat] /\ groupRemoved' \in [Groups -> Nat]
      BY <1>1, <3>1, OneMore DEF NoticeType
    <3> QED
      BY <1>1, <1>8, <3>2 DEF NotifyGroup, NoticeType
  <2> QED
    BY <1>8, <2>1, <2>2, Untouched DEF NotifyGroup, Typed
<1> QED
  BY <1>2, <1>3, <1>4, <1>5, <1>6, <1>7, <1>8

\* A fault ends a pass, a handler or everything.
LEMMA FaultTyped == Typed /\ (AbortPass \/ Crash) => Typed'
<1> SUFFICES ASSUME Typed, AbortPass \/ Crash PROVE Typed'
  OBVIOUS
<1>1. LoopType /\ HandlerType /\ HistoryType
  BY DEF Typed
<1>2. DropPass /\ faults' = faults + 1 /\ UNCHANGED <<read, recentRead, handled, baseline>>
      /\ UNCHANGED <<worldVars, storeVars, noticeVars>>
  BY DEF AbortPass, Crash
<1>3. LoopType'
  BY <1>1, <1>2 DEF DropPass, LoopType, LoopInv, Places
<1>4. HandlerType'
  <2>1. CASE AbortPass
    BY <2>1, Untouched DEF AbortPass
  <2>2. CASE Crash
    BY <1>1, <2>2 DEF Crash, HandlerType
  <2> QED
    BY <2>1, <2>2
<1>5. lost' \subseteq Events
  <2>1. DroppedRequests \subseteq Events
    BY <1>1 DEF DroppedRequests, LoopType, LoopInv, Events
  <2>2. \A h \in Handlers : stage[h] = "process" => serving[h] \in Events
    BY <1>1 DEF HandlerType
  <2> QED
    BY <1>1, <2>1, <2>2 DEF AbortPass, Crash, HistoryType
<1>6. lostAdded' \in [Groups -> Nat] /\ lostRemoved' \in [Groups -> Nat]
  <2>1. \A g \in Groups : Pending(g, todo) \in Nat /\ Pending(g, gone) \in Nat
    BY DEF Pending, Count
  <2>2. \A g \in Groups : lostAdded[g] \in Nat /\ lostRemoved[g] \in Nat
    BY <1>1 DEF HistoryType
  <2> QED
    BY <1>2, <2>1, <2>2 DEF DropPass
<1>7. HistoryType'
  BY <1>1, <1>2, <1>5, <1>6 DEF HistoryType
<1> QED
  BY <1>2, <1>3, <1>4, <1>7, Untouched DEF Typed

\* Every step keeps the types.
LEMMA TypeStep == Typed /\ [Next]_vars => Typed'
<1> SUFFICES ASSUME Typed, [Next]_vars PROVE Typed'
  OBVIOUS
<1>1. UNCHANGED vars => Typed'
  BY Untouched DEF vars, Typed
<1>2. LoopStep => Typed'
  BY MoveTyped, WriteTyped DEF LoopStep
<1> QED
  BY <1>1, <1>2, WorldTyped, HandlerTyped, FaultTyped DEF Next

-----------------------------------------------------------------------------
(* Events.                                                                 *)

\* An event that has its notice, or lost it, or is in a handler's hand.
Accounted(e) ==
  \/ e \in announced \cup lost
  \/ \E h \in Handlers : stage[h] = "process" /\ serving[h] = e

\* What a step has to show that records no event.
LEMMA NothingRecorded ==
  ASSUME RecordInv, StoredIsAnnounced, UNCHANGED <<raw, handled>>,
         announced \subseteq announced', lost \subseteq lost',
         \A h \in Handlers : stage[h] = "process" =>
           \/ stage'[h] = "process" /\ serving'[h] = serving[h]
           \/ serving[h] \in announced' \cup lost'
  PROVE  RecordInv' /\ StoredIsAnnounced'
<1>1. RecordInv'
  BY DEF RecordInv, HandledOnce
<1>2. \A e \in Events : Accounted(e) => Accounted(e)'
  BY DEF Accounted
<1> QED
  BY <1>1, <1>2 DEF StoredIsAnnounced, Accounted

\* Handlers record an event before they process it.
LEMMA HandlerEvents ==
  ASSUME Typed, RecordInv, StoredIsAnnounced, NEW h \in Handlers, Handler(h)
  PROVE  RecordInv' /\ StoredIsAnnounced'
<1>1. /\ stage \in [Handlers -> {"idle", "record", "process"}]
      /\ serving \in [Handlers -> Events \cup {NoOne}]
      /\ stage[h] # "idle" => serving[h] \in Events
      /\ handled \in [Payloads -> Nat]
  BY DEF Typed, HandlerType, HistoryType
<1>2. Respond(h) => \A k \in Handlers : k # h => stage'[k] = stage[k] /\ serving'[k] = serving[k]
  BY <1>1 DEF Respond
<1>3. ASSUME NEW e \in Events, Push(h, e) PROVE RecordInv' /\ StoredIsAnnounced'
  <2>1. UNCHANGED <<raw, handled, announced, lost>>
    BY <1>3 DEF Push, storeVars, noticeVars, historyVars
  <2>2. \A k \in Handlers : stage[k] = "process" => stage'[k] = "process" /\ serving'[k] = serving[k]
    BY <1>1, <1>3 DEF Push
  <2> QED
    BY <2>1, <2>2, NothingRecorded
<1>4. CASE HandleRecord(h)
  <2> DEFINE p == <<"push", serving[h]>>
  <2>1. serving[h] \in Events /\ p \in Payloads /\ stage[h] = "record"
    BY <1>1, <1>4 DEF HandleRecord, Payloads
  <2>2. announced' = announced /\ lost' = lost /\ raw' = raw \cup {p}
    BY <1>4 DEF HandleRecord, RecordEvent, noticeVars
  <2>3. CASE p \in raw
    <3>1. raw' = raw /\ handled' = handled /\ Respond(h)
      BY <1>4, <2>2, <2>3 DEF HandleRecord, Recorded
    <3>2. \A k \in Handlers : stage[k] = "process" => stage'[k] = "process" /\ serving'[k] = serving[k]
      BY <1>2, <2>1, <3>1
    <3> QED
      BY <2>2, <3>1, <3>2, NothingRecorded
  <2>4. CASE p \notin raw
    <3>1. /\ stage' = [stage EXCEPT ![h] = "process"] /\ serving' = serving
          /\ handled' = [handled EXCEPT ![p] = @ + 1]
      BY <1>4, <2>4 DEF HandleRecord, Recorded
    <3>2. handled[p] = 0
      <4>1. handled[p] \in Nat /\ ~(handled[p] > 0)
        BY <1>1, <2>1, <2>4 DEF RecordInv
      <4> QED
        BY <4>1
    <3>3. handled'[p] = 1 /\ \A q \in Payloads : q # p => handled'[q] = handled[q]
      BY <1>1, <2>1, <3>1, <3>2
    <3>4. RecordInv'
      BY <2>2, <3>3 DEF RecordInv, HandledOnce
    <3>5. stage'[h] = "process" /\ \A k \in Handlers : stage[k] = "process" => stage'[k] = "process"
      BY <1>1, <3>1
    <3>6. \A e \in Events : Accounted(e) => Accounted(e)'
      BY <2>2, <3>1, <3>5 DEF Accounted
    <3>7. ASSUME NEW e \in Events, handled'[<<"push", e>>] = 1 PROVE Accounted(e)'
      <4>1. CASE e = serving[h]
        BY <3>1, <3>5, <4>1 DEF Accounted
      <4>2. CASE e # serving[h]
        <5>1. <<"push", e>> # p /\ <<"push", e>> \in Payloads
          BY <4>2 DEF Payloads
        <5>2. handled[<<"push", e>>] = 1
          BY <3>3, <3>7, <5>1
        <5> QED
          BY <3>6, <5>2 DEF StoredIsAnnounced, Accounted
      <4> QED
        BY <4>1, <4>2
    <3> QED
      BY <3>4, <3>7 DEF StoredIsAnnounced, Accounted
  <2> QED
    BY <2>3, <2>4
<1>5. CASE HandleProcess(h)
  <2>1. /\ announced' = announced \cup {serving[h]} /\ Respond(h)
        /\ raw' = raw /\ handled' = handled /\ lost' = lost
    BY <1>5 DEF HandleProcess, Announce, storeVars, historyVars
  <2> QED
    BY <1>2, <2>1, NothingRecorded
<1>6. CASE AbortHandler(h)
  <2>1. /\ lost' = IF stage[h] = "process" THEN lost \cup {serving[h]} ELSE lost
        /\ Respond(h) /\ raw' = raw /\ handled' = handled /\ announced' = announced
    BY <1>6 DEF AbortHandler, storeVars, noticeVars
  <2> QED
    BY <1>2, <2>1, NothingRecorded
<1> QED
  BY <1>3, <1>4, <1>5, <1>6 DEF Handler

\* The loop takes no event from a handler.
LEMMA LoopEvents ==
  ASSUME Typed, RecordInv, StoredIsAnnounced, LoopStep
  PROVE  RecordInv' /\ StoredIsAnnounced'
<1>1. UNCHANGED <<stage, serving, lost>>
  BY DEF LoopStep, handlerVars, historyVars, StartPass, GetRequests, RequestsFail, StoreRequests,
         RequestsDone, RecordRequest, ProcessRequest, NotifyFriend, GetFriends, FriendsFail,
         StoreFriends, FriendsDone, GetGroups, StoreGroups, EndPass, NotifyGroup
<1>2. ASSUME NEW u \in Users, RecordRequest(u) PROVE RecordInv' /\ StoredIsAnnounced'
  <2> DEFINE p == <<"poll", u>>
  <2>1. p \in Payloads /\ \A e \in Events : <<"push", e>> # p /\ <<"push", e>> \in Payloads
    BY DEF Payloads
  <2>2. raw' = raw \cup {p} /\ announced' = announced /\ handled \in [Payloads -> Nat]
    BY <1>2 DEF RecordRequest, RecordEvent, noticeVars, Typed, HistoryType
  <2>3. handled' = handled \/ (p \notin raw /\ handled' = [handled EXCEPT ![p] = @ + 1])
    BY <1>2 DEF RecordRequest, Recorded
  <2>4. /\ \A q \in Payloads : q # p => handled'[q] = handled[q]
        /\ handled'[p] = handled[p] \/ (handled[p] = 0 /\ handled'[p] = 1)
    <3>1. p \notin raw => handled[p] = 0
      <4>1. handled[p] \in Nat /\ (p \notin raw => ~(handled[p] > 0))
        BY <2>1, <2>2 DEF RecordInv
      <4> QED
        BY <4>1
    <3> QED
      BY <2>1, <2>2, <2>3, <3>1
  <2> HIDE DEF p
  <2>5. RecordInv'
    BY <2>2, <2>4 DEF RecordInv, HandledOnce
  <2>6. \A e \in Events : handled'[<<"push", e>>] = handled[<<"push", e>>]
    BY <2>1, <2>4
  <2> QED
    BY <1>1, <2>2, <2>5, <2>6 DEF StoredIsAnnounced
<1>3. CASE ~\E u \in Users : RecordRequest(u)
  <2>1. UNCHANGED <<raw, handled>>
    BY <1>3 DEF LoopStep, storeVars, historyVars, StartPass, GetRequests, RequestsFail,
       StoreRequests, RequestsDone, ProcessRequest, NotifyFriend, GetFriends, FriendsFail,
       StoreFriends, FriendsDone, GetGroups, StoreGroups, EndPass, NotifyGroup
  <2>2. announced \subseteq announced'
    BY <1>3 DEF LoopStep, noticeVars, Announce, StartPass, GetRequests, RequestsFail,
       StoreRequests, RequestsDone, ProcessRequest, NotifyFriend, GetFriends, FriendsFail,
       StoreFriends, FriendsDone, GetGroups, StoreGroups, EndPass, NotifyGroup
  <2> QED
    BY <1>1, <2>1, <2>2, NothingRecorded
<1> QED
  BY <1>2, <1>3

\* Every step keeps account of the events that were recorded.
LEMMA EventStep ==
  ASSUME Typed, RecordInv, StoredIsAnnounced, [Next]_vars
  PROVE  RecordInv' /\ StoredIsAnnounced'
<1>1. CASE World \/ UNCHANGED vars
  <2>1. UNCHANGED <<raw, handled, announced, lost, stage, serving>>
    BY <1>1 DEF World, Request, Age, Befriend, Move, vars, storeVars, noticeVars, historyVars,
                handlerVars
  <2> QED
    BY <2>1, NothingRecorded
<1>2. CASE AbortPass
  <2>1. UNCHANGED <<raw, handled, announced, stage, serving>> /\ lost \subseteq lost'
    BY <1>2 DEF AbortPass, storeVars, noticeVars, handlerVars
  <2> QED
    BY <2>1, NothingRecorded
<1>3. CASE Crash
  <2>1. /\ UNCHANGED <<raw, handled, announced>> /\ lost \subseteq lost'
        /\ \A h \in Handlers : stage[h] = "process" => serving[h] \in lost'
    BY <1>3 DEF Crash, storeVars, noticeVars
  <2> QED
    BY <2>1, NothingRecorded
<1> QED
  BY <1>1, <1>2, <1>3, HandlerEvents, LoopEvents DEF Next

-----------------------------------------------------------------------------
(* Groups.                                                                 *)

countVars == <<groupAdded, groupRemoved, lostAdded, lostRemoved>>

\* Steps that neither count nor change what is about to be counted.
LEMMA BooksUntouched ==
  ASSUME GroupBooks, UNCHANGED <<groupSnap, baseline, countVars>>,
         \/ pc' = pc /\ todo' = todo /\ gone' = gone
         \/ pc # "each group" /\ pc' # "each group"
         \/ todo = {} /\ gone = {} /\ pc' # "each group"
  PROVE  GroupBooks'
<1>1. \A g \in Groups : /\ Pending(g, todo)' = Pending(g, todo)
                        /\ Pending(g, gone)' = Pending(g, gone)
  BY DEF Pending, Count
<1> QED
  BY <1>1 DEF GroupBooks, Count, countVars

\* The counts are numbers.
LEMMA BookNumbers ==
  ASSUME Typed, NEW g \in Groups
  PROVE  /\ groupAdded[g] \in Nat /\ groupRemoved[g] \in Nat
         /\ lostAdded[g] \in Nat /\ lostRemoved[g] \in Nat
BY DEF Typed, NoticeType, HistoryType

\* A list becomes the snapshot: what is new and what is gone is the difference.
LEMMA StoreGroupsBooks ==
  ASSUME Typed, SnapInv, GroupBooks, StoreGroups
  PROVE  SnapInv' /\ GroupBooks'
<1>1. /\ pc = "store groups" /\ pc' = "each group"
      /\ todo' = NewRows(groupSnap, read, "groups") /\ gone' = GoneRows(groupSnap, read, "groups")
      /\ groupSnap' = Merged(groupSnap, read, "groups")
      /\ baseline' = IF "groups" \in initialized THEN baseline ELSE read
      /\ initialized' = initialized \cup {"groups"}
      /\ UNCHANGED <<groupAdded, groupRemoved, lostAdded, lostRemoved>>
  BY DEF StoreGroups, GoTo, noticeVars
<1>2. ASSUME NEW g \in Groups
      PROVE  Count(g \in baseline)' + groupAdded[g] + lostAdded[g] + Pending(g, todo)'
               = Count(g \in groupSnap)' + groupRemoved[g] + lostRemoved[g] + Pending(g, gone)'
  <2>1. Count(g \in baseline) + groupAdded[g] + lostAdded[g]
          = Count(g \in groupSnap) + groupRemoved[g] + lostRemoved[g]
    <3>1. Pending(g, todo) = 0 /\ Pending(g, gone) = 0
      BY <1>1 DEF Pending, Count
    <3>2. Count(g \in baseline) \in Nat /\ Count(g \in groupSnap) \in Nat
      BY DEF Count
    <3> QED
      BY <3>1, <3>2, BookNumbers DEF GroupBooks
  <2>2. CASE "groups" \in initialized
    <3>1. /\ Count(g \in baseline)' = Count(g \in baseline)
          /\ Pending(g, todo)' = Count(g \in read \ groupSnap)
          /\ Pending(g, gone)' = Count(g \in groupSnap \ read)
          /\ Count(g \in groupSnap)' = Count(g \in read)
      BY <1>1, <2>2 DEF Pending, NewRows, GoneRows, Merged, Count
    <3>2. Count(g \in groupSnap) + Count(g \in read \ groupSnap)
            = Count(g \in read) + Count(g \in groupSnap \ read)
      BY DEF Count
    <3>3. /\ Count(g \in groupSnap) \in Nat /\ Count(g \in read \ groupSnap) \in Nat
          /\ Count(g \in read) \in Nat /\ Count(g \in groupSnap \ read) \in Nat
          /\ Count(g \in baseline) \in Nat
      BY DEF Count
    <3> HIDE DEF Count
    <3> QED
      BY <2>1, <3>1, <3>2, <3>3, BookNumbers
  <2>3. CASE "groups" \notin initialized
    <3>1. groupSnap = {} /\ baseline = {}
      BY <2>3 DEF SnapInv
    <3>2. Count(g \in baseline) = 0 /\ Count(g \in groupSnap) = 0
      BY <3>1 DEF Count
    <3>3. /\ Count(g \in baseline)' = Count(g \in read) /\ Count(g \in groupSnap)' = Count(g \in read)
          /\ Pending(g, todo)' = 0 /\ Pending(g, gone)' = 0 /\ Count(g \in read) \in Nat
      BY <1>1, <2>3, <3>1 DEF Pending, NewRows, GoneRows, Merged, Count
    <3> QED
      BY <2>1, <3>2, <3>3, BookNumbers
  <2> QED
    BY <2>2, <2>3
<1> QED
  BY <1>1, <1>2 DEF GroupBooks, SnapInv

\* A notice counts what was about to be counted.
LEMMA NotifyGroupBooks ==
  ASSUME Typed, GroupBooks, NEW x \in Groups, NotifyGroup(x)
  PROVE  GroupBooks'
<1>1. /\ pc = "each group" /\ pc' = pc
      /\ UNCHANGED <<groupSnap, baseline, lostAdded, lostRemoved>>
      /\ groupAdded \in [Groups -> Nat] /\ groupRemoved \in [Groups -> Nat]
  BY DEF NotifyGroup, storeVars, historyVars, Typed, NoticeType
<1> SUFFICES ASSUME NEW g \in Groups
             PROVE  Count(g \in baseline) + groupAdded'[g] + lostAdded[g] + Pending(g, todo)'
                      = Count(g \in groupSnap) + groupRemoved'[g] + lostRemoved[g] + Pending(g, gone)'
  BY <1>1 DEF GroupBooks, Count
<1>2. Count(g \in baseline) + groupAdded[g] + lostAdded[g] + Pending(g, todo)
        = Count(g \in groupSnap) + groupRemoved[g] + lostRemoved[g] + Pending(g, gone)
  BY DEF GroupBooks
<1>3. /\ Count(g \in baseline) \in Nat /\ Count(g \in groupSnap) \in Nat
      /\ Pending(g, todo) \in Nat /\ Pending(g, gone) \in Nat
  BY DEF Pending, Count
<1>4. CASE todo # {}
  <2>1. /\ x \in todo /\ todo' = todo \ {x} /\ gone' = gone /\ groupRemoved' = groupRemoved
        /\ groupAdded' = [groupAdded EXCEPT ![x] = @ + 1]
    BY <1>4 DEF NotifyGroup
  <2>2. Pending(g, gone)' = Pending(g, gone)
    BY <1>1, <2>1 DEF Pending, Count
  <2>3. groupAdded'[g] + Pending(g, todo)' = groupAdded[g] + Pending(g, todo)
        /\ groupAdded'[g] \in Nat /\ Pending(g, todo)' \in Nat
    <3>1. CASE g = x
      <4>1. groupAdded'[g] = groupAdded[g] + 1
        BY <1>1, <2>1, <3>1
      <4>2. Pending(g, todo)' = 0 /\ Pending(g, todo) = 1
        BY <1>1, <2>1, <3>1 DEF Pending, Count
      <4> QED
        BY <4>1, <4>2, BookNumbers
    <3>2. CASE g # x
      <4>1. groupAdded'[g] = groupAdded[g]
        BY <1>1, <2>1, <3>2
      <4>2. Pending(g, todo)' = Pending(g, todo)
        BY <1>1, <2>1, <3>2 DEF Pending, Count
      <4> QED
        BY <1>3, <4>1, <4>2, BookNumbers
    <3> QED
      BY <3>1, <3>2
  <2> QED
    BY <1>2, <1>3, <2>1, <2>2, <2>3, BookNumbers
<1>5. CASE todo = {}
  <2>1. /\ x \in gone /\ gone' = gone \ {x} /\ todo' = todo /\ groupAdded' = groupAdded
        /\ groupRemoved' = [groupRemoved EXCEPT ![x] = @ + 1]
    BY <1>5 DEF NotifyGroup
  <2>2. Pending(g, todo)' = Pending(g, todo)
    BY <1>1, <2>1 DEF Pending, Count
  <2>3. groupRemoved'[g] + Pending(g, gone)' = groupRemoved[g] + Pending(g, gone)
        /\ groupRemoved'[g] \in Nat /\ Pending(g, gone)' \in Nat
    <3>1. CASE g = x
      <4>1. groupRemoved'[g] = groupRemoved[g] + 1
        BY <1>1, <2>1, <3>1
      <4>2. Pending(g, gone)' = 0 /\ Pending(g, gone) = 1
        BY <1>1, <2>1, <3>1 DEF Pending, Count
      <4> QED
        BY <4>1, <4>2, BookNumbers
    <3>2. CASE g # x
      <4>1. groupRemoved'[g] = groupRemoved[g]
        BY <1>1, <2>1, <3>2
      <4>2. Pending(g, gone)' = Pending(g, gone)
        BY <1>1, <2>1, <3>2 DEF Pending, Count
      <4> QED
        BY <1>3, <4>1, <4>2, BookNumbers
    <3> QED
      BY <3>1, <3>2
  <2> QED
    BY <1>2, <1>3, <2>1, <2>2, <2>3, BookNumbers
<1> QED
  BY <1>4, <1>5

\* A fault loses what was about to be counted, and the books say so.
LEMMA DropPassBooks ==
  ASSUME Typed, GroupBooks, DropPass, UNCHANGED <<groupSnap, baseline, groupAdded, groupRemoved>>
  PROVE  GroupBooks'
<1> SUFFICES ASSUME NEW g \in Groups
             PROVE  Count(g \in baseline) + groupAdded[g] + lostAdded'[g] + Pending(g, todo)'
                      = Count(g \in groupSnap) + groupRemoved[g] + lostRemoved'[g] + Pending(g, gone)'
  BY DEF GroupBooks, Count
<1>1. Count(g \in baseline) + groupAdded[g] + lostAdded[g] + Pending(g, todo)
        = Count(g \in groupSnap) + groupRemoved[g] + lostRemoved[g] + Pending(g, gone)
  BY DEF GroupBooks
<1>2. /\ lostAdded'[g] = lostAdded[g] + Pending(g, todo)
      /\ lostRemoved'[g] = lostRemoved[g] + Pending(g, gone)
  BY DEF DropPass
<1>3. Pending(g, todo)' = 0 /\ Pending(g, gone)' = 0
  BY DEF DropPass, Pending, Count
<1>4. /\ Count(g \in baseline) \in Nat /\ Count(g \in groupSnap) \in Nat
      /\ Pending(g, todo) \in Nat /\ Pending(g, gone) \in Nat
  BY DEF Pending, Count
<1> QED
  BY <1>1, <1>2, <1>3, <1>4, BookNumbers

\* Every step keeps the books of the groups.
LEMMA BooksStep ==
  ASSUME Typed, SnapInv, GroupBooks, [Next]_vars
  PROVE  SnapInv' /\ GroupBooks'
<1>1. ASSUME UNCHANGED <<groupSnap, baseline>>, initialized \subseteq initialized'
      PROVE  SnapInv'
  BY <1>1 DEF SnapInv
<1>2. CASE World \/ (\E h \in Handlers : Handler(h)) \/ UNCHANGED vars
  <2>1. UNCHANGED <<groupSnap, baseline, countVars, initialized, pc, todo, gone>>
    BY <1>2 DEF World, Request, Age, Befriend, Move, Handler, Push, HandleRecord, HandleProcess,
       AbortHandler, vars, loopVars, storeVars, noticeVars, historyVars, countVars
  <2> QED
    BY <1>1, <2>1, BooksUntouched
<1>3. CASE \/ StartPass \/ GetRequests \/ RequestsFail \/ StoreRequests \/ RequestsDone
           \/ \E u \in Users : RecordRequest(u) \/ ProcessRequest(u) \/ NotifyFriend(u)
           \/ GetFriends \/ FriendsFail \/ StoreFriends \/ FriendsDone \/ GetGroups \/ EndPass
  <2>1. UNCHANGED <<groupSnap, baseline, countVars>> /\ initialized \subseteq initialized'
    BY <1>3 DEF StartPass, GetRequests, RequestsFail, StoreRequests, RequestsDone, RecordRequest,
       ProcessRequest, NotifyFriend, GetFriends, FriendsFail, StoreFriends, FriendsDone, GetGroups,
       EndPass, storeVars, noticeVars, historyVars, countVars
  <2>2. \/ pc # "each group" /\ pc' # "each group"
        \/ todo = {} /\ gone = {} /\ pc' # "each group"
    BY <1>3 DEF StartPass, GetRequests, RequestsFail, StoreRequests, RequestsDone, RecordRequest,
       ProcessRequest, NotifyFriend, GetFriends, FriendsFail, StoreFriends, FriendsDone, GetGroups,
       EndPass, GoTo
  <2> QED
    BY <1>1, <2>1, <2>2, BooksUntouched
<1>4. CASE StoreGroups
  BY <1>4, StoreGroupsBooks
<1>5. ASSUME NEW g \in Groups, NotifyGroup(g) PROVE SnapInv' /\ GroupBooks'
  <2>1. UNCHANGED <<groupSnap, baseline, initialized>>
    BY <1>5 DEF NotifyGroup, storeVars, historyVars
  <2> QED
    BY <1>1, <1>5, <2>1, NotifyGroupBooks
<1>6. CASE AbortPass \/ Crash
  <2>1. DropPass /\ UNCHANGED <<groupSnap, baseline, initialized, groupAdded, groupRemoved>>
    BY <1>6 DEF AbortPass, Crash, storeVars, noticeVars
  <2> QED
    BY <1>1, <2>1, DropPassBooks
<1> QED
  BY <1>2, <1>3, <1>4, <1>5, <1>6 DEF Next, LoopStep

-----------------------------------------------------------------------------
(* The theorems.                                                           *)

\* Nothing has been requested, stored or announced.
LEMMA InitEvents == Init => EventInv
<1> SUFFICES ASSUME Init PROVE EventInv
  OBVIOUS
<1>1. \A S : Zero(S) \in [S -> Nat] /\ \A x \in S : Zero(S)[x] = 0
  BY DEF Zero
<1>2. Typed
  <2>1. WorldType /\ HandlerType
    BY <1>1, NamesAssumption DEF Init, WorldType, HandlerType
  <2>2. LoopType /\ StoreType
    BY DEF Init, LoopType, LoopInv, StoreType, Places
  <2>3. NoticeType /\ HistoryType
    BY <1>1 DEF Init, NoticeType, HistoryType
  <2> QED
    BY <2>1, <2>2, <2>3 DEF Typed
<1>3. SnapInv
  BY DEF Init, SnapInv
<1>4. \A p \in Payloads : handled[p] = 0
  BY <1>1 DEF Init
<1>5. RecordInv
  BY <1>4 DEF RecordInv, HandledOnce
<1>6. StoredIsAnnounced
  <2>1. \A e \in Events : <<"push", e>> \in Payloads
    BY DEF Payloads
  <2> QED
    BY <1>4, <2>1 DEF StoredIsAnnounced
<1>7. GroupBooks
  <2>1. \A g \in Groups : /\ groupAdded[g] = 0 /\ lostAdded[g] = 0
                          /\ groupRemoved[g] = 0 /\ lostRemoved[g] = 0
    BY <1>1 DEF Init
  <2>2. pc = "idle" /\ baseline = {} /\ groupSnap = {}
    BY DEF Init
  <2> QED
    BY <2>1, <2>2 DEF GroupBooks, Pending, Count
<1> QED
  BY <1>2, <1>3, <1>5, <1>6, <1>7, TypedIsTypeOK DEF EventInv

\* The intake keeps its invariant for any users, groups, handlers and bounds.
THEOREM EventInvariant == Spec => []EventInv
<1>1. EventInv /\ [Next]_vars => EventInv'
  <2> SUFFICES ASSUME EventInv, [Next]_vars PROVE EventInv'
    OBVIOUS
  <2>1. Typed
    BY TypedIsTypeOK DEF EventInv
  <2>2. Typed' /\ RecordInv' /\ StoredIsAnnounced' /\ SnapInv' /\ GroupBooks'
    BY <2>1, TypeStep, EventStep, BooksStep DEF EventInv
  <2>3. TypeOK' /\ LoopInv'
    BY <2>2 DEF Typed, WorldType, HandlerType, LoopType, StoreType, NoticeType, HistoryType, TypeOK
  <2> QED
    BY <2>2, <2>3 DEF EventInv
<1> QED
  BY <1>1, InitEvents, PTL DEF Spec

\* A pushed event is handled once, however many of its copies are served at the
\* same time, and has its notice, unless a fault ended its processing.
THEOREM EventsAreBooked == Spec => []EventBooks
<1>1. EventInv => EventBooks
  BY DEF EventInv, RecordInv, EventBooks
<1> QED
  BY <1>1, EventInvariant, PTL

\* The notices about groups, and those lost to faults, account for the
\* snapshot from the silent first list on.
THEOREM GroupsAreBooked == Spec => []GroupBooks
<1>1. EventInv => GroupBooks
  BY DEF EventInv
<1> QED
  BY <1>1, EventInvariant, PTL

=============================================================================
