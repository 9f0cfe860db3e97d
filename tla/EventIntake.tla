---------------------------- MODULE EventIntake ----------------------------
(***************************************************************************)
(* How QQ business events become notices: webhook handlers                 *)
(* (adapters/webhook.py, services/event_processor.py) and the              *)
(* reconciliation loop (services/reconciliation.py) over the snapshots and *)
(* fingerprints of adapters/sqlite.py.                                     *)
(*                                                                         *)
(* Milky pushes an event any number of times or never; the loop polls the  *)
(* same friend requests and compares the friend and group lists with what  *)
(* it saw last.  Every await is a step.  What these reports say about the  *)
(* QQ session itself is in Incidents; what becomes of a notice once its    *)
(* row is in the outbox is in Outbox.                                      *)
(***************************************************************************)
EXTENDS Naturals, FiniteSets

CONSTANTS
  Users,        \* each may send one friend request and become a friend
  Invitations,  \* group invitations: pushed, never polled
  Groups,
  Handlers,     \* webhook requests being served at the same time
  NoOne,
  MaxPushes,    \* bound: deliveries of one event
  MaxMoves,     \* bound: friends and groups won or lost
  MaxFaults     \* bound: crashes and aborted calls

Events == Users \cup Invitations

\* What the fingerprint of record_event tells apart: the pushed payload lacks
\* the state and is_filtered fields that _process_friend_request always adds.
Payloads == {<<"push", e>> : e \in Events} \cup {<<"poll", u>> : u \in Users}

ASSUME NamesAssumption ==
  /\ Users \cap Invitations = {}
  /\ NoOne \notin Events \cup Groups
ASSUME BoundsAssumption ==
  MaxPushes \in Nat /\ MaxMoves \in Nat /\ MaxFaults \in Nat

VARIABLES
  \* The world behind Milky.
  requested,    \* friend requests that exist
  recent,       \* those younger than the cutoff of a pass
  friends,
  members,      \* groups the bot is in
  pushes,       \* Events -> copies pushed so far
  moves,        \* friends and groups won or lost so far (bound)
  \* The webhook handlers.
  serving,      \* Handlers -> event of the request, or NoOne
  stage,        \* Handlers -> "idle" | "record" | "process"
  \* The reconciliation loop.
  pc,
  todo, gone,   \* new items, and groups removed, still to notify
  current,      \* the request being processed
  read,         \* answer of the last API call
  recentRead,   \* recent_request_initiators
  \* The store.
  raw,          \* fingerprints in raw_events
  seen,         \* seen_friend_requests
  friendSnap, groupSnap,  \* current_friends, current_groups
  initialized,  \* the *_initialized keys of monitor_metadata
  \* The outbox: notices whose key names an event, and counts of the others,
  \* whose key ends in the second of the pass.
  announced,    \* events with a row
  friendAdded, groupAdded, groupRemoved,
  \* History.
  faults,
  handled,      \* Payloads -> times it reached the processor
  baseline,     \* groups in the first snapshot
  lost,         \* events whose processing a fault ended
  lostAdded, lostRemoved  \* Groups -> notices a fault ended

worldVars   == <<requested, recent, friends, members, pushes, moves>>
handlerVars == <<serving, stage>>
loopVars    == <<pc, todo, gone, current, read, recentRead>>
storeVars   == <<raw, seen, friendSnap, groupSnap, initialized>>
noticeVars  == <<announced, friendAdded, groupAdded, groupRemoved>>
historyVars == <<faults, handled, baseline, lost, lostAdded, lostRemoved>>
vars == <<worldVars, handlerVars, loopVars, storeVars, noticeVars, historyVars>>

-----------------------------------------------------------------------------
(* The world (Milky and QQ, external). *)

Request(u) ==
  /\ u \notin requested
  /\ requested' = requested \cup {u}
  /\ recent' = recent \cup {u}
  /\ UNCHANGED <<friends, members, pushes, moves, handlerVars, loopVars, storeVars, noticeVars,
                 historyVars>>

\* Ten minutes, or two intervals, pass.
Age(u) ==
  /\ u \in recent
  /\ recent' = recent \ {u}
  /\ UNCHANGED <<requested, friends, members, pushes, moves, handlerVars, loopVars, storeVars,
                 noticeVars, historyVars>>

\* With or without a request that Milky knows of; or the friend is removed.
Befriend(u) ==
  /\ moves < MaxMoves
  /\ moves' = moves + 1
  /\ friends' = IF u \in friends THEN friends \ {u} ELSE friends \cup {u}
  /\ UNCHANGED <<requested, recent, members, pushes, handlerVars, loopVars, storeVars, noticeVars,
                 historyVars>>

Move(g) ==
  /\ moves < MaxMoves
  /\ moves' = moves + 1
  /\ members' = IF g \in members THEN members \ {g} ELSE members \cup {g}
  /\ UNCHANGED <<requested, recent, friends, pushes, handlerVars, loopVars, storeVars, noticeVars,
                 historyVars>>

-----------------------------------------------------------------------------
(* The store. *)

\* record_event: INSERT OR IGNORE on the fingerprint.
Recorded(p) == p \in raw
RecordEvent(p) == raw' = raw \cup {p}

\* The rows of a snapshot table after a successful read of the list.
NewRows(snap, list, key) == IF key \in initialized THEN list \ snap ELSE {}
GoneRows(snap, list, key) == IF key \in initialized THEN snap \ list ELSE {}
Merged(snap, list, key) == (snap \cup list) \ GoneRows(snap, list, key)

\* _friend_request and _group_invitation: one row for an event, whichever
\* payload told of it.
Announce(e) == announced' = announced \cup {e}

-----------------------------------------------------------------------------
(* Webhook handlers. *)

Push(h, e) ==
  /\ stage[h] = "idle"
  /\ e \in requested \cup Invitations
  /\ pushes[e] < MaxPushes
  /\ pushes' = [pushes EXCEPT ![e] = @ + 1]
  /\ serving' = [serving EXCEPT ![h] = e]
  /\ stage' = [stage EXCEPT ![h] = "record"]
  /\ UNCHANGED <<requested, recent, friends, members, moves, loopVars, storeVars, noticeVars,
                 historyVars>>

Respond(h) ==
  /\ serving' = [serving EXCEPT ![h] = NoOne]
  /\ stage' = [stage EXCEPT ![h] = "idle"]

\* Mutation: a SELECT first and the INSERT after it.  Both of two copies find
\* nothing when the SELECT of one ran before the INSERT of the other, which is
\* still being processed.
HandleRecordInTwoSteps(h) ==
  LET p == <<"push", serving[h]>>
      overlapped == \E x \in Handlers : stage[x] = "process" /\ serving[x] = serving[h]
  IN  /\ stage[h] = "record"
      /\ RecordEvent(p)
      /\ IF Recorded(p) /\ ~overlapped
         THEN Respond(h) /\ UNCHANGED handled
         ELSE /\ stage' = [stage EXCEPT ![h] = "process"]
              /\ handled' = [handled EXCEPT ![p] = @ + 1]
              /\ UNCHANGED serving
      /\ UNCHANGED <<worldVars, loopVars, seen, friendSnap, groupSnap, initialized, noticeVars,
                     faults, baseline, lost, lostAdded, lostRemoved>>

\* Only the copy that is stored first is processed.
HandleRecord(h) ==
  LET p == <<"push", serving[h]>>
  IN  /\ stage[h] = "record"
      /\ RecordEvent(p)
      /\ IF Recorded(p)
         THEN Respond(h) /\ UNCHANGED handled
         ELSE /\ stage' = [stage EXCEPT ![h] = "process"]
              /\ handled' = [handled EXCEPT ![p] = @ + 1]
              /\ UNCHANGED serving
      /\ UNCHANGED <<worldVars, loopVars, seen, friendSnap, groupSnap, initialized, noticeVars,
                     faults, baseline, lost, lostAdded, lostRemoved>>

HandleProcess(h) ==
  /\ stage[h] = "process"
  /\ Announce(serving[h])
  /\ Respond(h)
  /\ UNCHANGED <<worldVars, loopVars, storeVars, friendAdded, groupAdded, groupRemoved,
                 historyVars>>

-----------------------------------------------------------------------------
(* One pass of the reconciliation loop. *)

GoTo(place) == pc' = place

StartPass ==
  /\ pc = "idle"
  /\ GoTo("get requests")
  /\ recentRead' = {}
  /\ UNCHANGED <<worldVars, handlerVars, current, todo, gone, read, storeVars, noticeVars,
                 historyVars>>

\* get_friend_requests answers, or fails and leaves recentRead empty.
GetRequests ==
  /\ pc = "get requests"
  /\ read' = requested
  /\ recentRead' = recent
  /\ GoTo("store requests")
  /\ UNCHANGED <<worldVars, handlerVars, current, todo, gone, storeVars, noticeVars, historyVars>>

RequestsFail ==
  /\ pc = "get requests"
  /\ GoTo("get friends")
  /\ UNCHANGED <<worldVars, handlerVars, current, todo, gone, read, recentRead, storeVars,
                 noticeVars, historyVars>>

\* Mutation: a request that is polled is recorded and left at that.
RecordRequestSilently(u) ==
  /\ pc = "each request"
  /\ u \in todo
  /\ RecordEvent(<<"poll", u>>)
  /\ todo' = todo \ {u}
  /\ UNCHANGED <<pc, handled, current>>
  /\ UNCHANGED <<worldVars, handlerVars, gone, read, recentRead, seen, friendSnap, groupSnap,
                 initialized, noticeVars, faults, baseline, lost, lostAdded, lostRemoved>>

\* reconcile_friend_requests: rows are never removed.
StoreRequests ==
  /\ pc = "store requests"
  /\ todo' = NewRows(seen, read, "requests")
  /\ seen' = seen \cup read
  /\ initialized' = initialized \cup {"requests"}
  /\ GoTo("each request")
  /\ UNCHANGED <<worldVars, handlerVars, current, gone, read, recentRead, raw, friendSnap,
                 groupSnap, noticeVars, historyVars>>

\* _process_friend_request up to the answer of record_event.
RecordRequest(u) ==
  LET p == <<"poll", u>>
  IN  /\ pc = "each request"
      /\ u \in todo
      /\ RecordEvent(p)
      /\ IF Recorded(p)
         THEN todo' = todo \ {u} /\ UNCHANGED <<pc, handled, current>>
         ELSE /\ handled' = [handled EXCEPT ![p] = @ + 1]
              /\ GoTo("process request")
              /\ current' = u
              /\ UNCHANGED todo
      /\ UNCHANGED <<worldVars, handlerVars, gone, read, recentRead, seen, friendSnap, groupSnap,
                     initialized, noticeVars, faults, baseline, lost, lostAdded, lostRemoved>>

\* process(event, confirms_live_session=False).
ProcessRequest(u) ==
  /\ pc = "process request"
  /\ current = u
  /\ Announce(u)
  /\ todo' = todo \ {u}
  /\ current' = NoOne
  /\ GoTo("each request")
  /\ UNCHANGED <<worldVars, handlerVars, gone, read, recentRead, storeVars, friendAdded,
                 groupAdded, groupRemoved, historyVars>>

RequestsDone ==
  /\ pc = "each request"
  /\ todo = {}
  /\ GoTo("get friends")
  /\ UNCHANGED <<worldVars, handlerVars, current, todo, gone, read, recentRead, storeVars,
                 noticeVars, historyVars>>

GetFriends ==
  /\ pc = "get friends"
  /\ read' = friends
  /\ GoTo("store friends")
  /\ UNCHANGED <<worldVars, handlerVars, current, todo, gone, recentRead, storeVars, noticeVars,
                 historyVars>>

FriendsFail ==
  /\ pc = "get friends"
  /\ GoTo("get groups")
  /\ UNCHANGED <<worldVars, handlerVars, current, todo, gone, read, recentRead, storeVars,
                 noticeVars, historyVars>>

StoreFriends ==
  /\ pc = "store friends"
  /\ todo' = NewRows(friendSnap, read, "friends")
  /\ friendSnap' = Merged(friendSnap, read, "friends")
  /\ initialized' = initialized \cup {"friends"}
  /\ GoTo("each friend")
  /\ UNCHANGED <<worldVars, handlerVars, current, gone, read, recentRead, raw, seen, groupSnap,
                 noticeVars, historyVars>>

\* A friend whose request was read in this pass and is recent is passed over.
NotifyFriend(u) ==
  /\ pc = "each friend"
  /\ u \in todo
  /\ todo' = todo \ {u}
  /\ friendAdded' = IF u \in recentRead THEN friendAdded ELSE [friendAdded EXCEPT ![u] = @ + 1]
  /\ UNCHANGED <<worldVars, handlerVars, current, pc, gone, read, recentRead, storeVars,
                 announced, groupAdded, groupRemoved, historyVars>>

FriendsDone ==
  /\ pc = "each friend"
  /\ todo = {}
  /\ GoTo("get groups")
  /\ UNCHANGED <<worldVars, handlerVars, current, todo, gone, read, recentRead, storeVars,
                 noticeVars, historyVars>>

\* get_group_list answers and QQ is reported healthy.
GetGroups ==
  /\ pc = "get groups"
  /\ read' = members
  /\ GoTo("store groups")
  /\ UNCHANGED <<worldVars, handlerVars, current, todo, gone, recentRead, storeVars, noticeVars,
                 historyVars>>

\* Mutation: the first list is announced like any other.
StoreGroupsNoBaseline ==
  /\ pc = "store groups"
  /\ todo' = read \ groupSnap
  /\ gone' = groupSnap \ read
  /\ groupSnap' = read
  /\ baseline' = IF "groups" \in initialized THEN baseline ELSE read
  /\ initialized' = initialized \cup {"groups"}
  /\ GoTo("each group")
  /\ UNCHANGED <<worldVars, handlerVars, current, read, recentRead, raw, seen, friendSnap,
                 noticeVars, faults, handled, lost, lostAdded, lostRemoved>>

\* reconcile_groups: what is new and what is gone, and the new snapshot, in
\* one transaction.
StoreGroups ==
  /\ pc = "store groups"
  /\ todo' = NewRows(groupSnap, read, "groups")
  /\ gone' = GoneRows(groupSnap, read, "groups")
  /\ groupSnap' = Merged(groupSnap, read, "groups")
  /\ baseline' = IF "groups" \in initialized THEN baseline ELSE read
  /\ initialized' = initialized \cup {"groups"}
  /\ GoTo("each group")
  /\ UNCHANGED <<worldVars, handlerVars, current, read, recentRead, raw, seen, friendSnap,
                 noticeVars, faults, handled, lost, lostAdded, lostRemoved>>

\* All new groups first, then those gone.
NotifyGroup(g) ==
  /\ pc = "each group"
  /\ IF todo # {}
     THEN /\ g \in todo
          /\ todo' = todo \ {g}
          /\ groupAdded' = [groupAdded EXCEPT ![g] = @ + 1]
          /\ UNCHANGED <<gone, groupRemoved>>
     ELSE /\ g \in gone
          /\ gone' = gone \ {g}
          /\ groupRemoved' = [groupRemoved EXCEPT ![g] = @ + 1]
          /\ UNCHANGED <<todo, groupAdded>>
  /\ UNCHANGED <<worldVars, handlerVars, current, pc, read, recentRead, storeVars, announced,
                 friendAdded, historyVars>>

EndPass ==
  /\ pc = "each group"
  /\ todo \cup gone = {}
  /\ GoTo("idle")
  /\ UNCHANGED <<worldVars, handlerVars, current, todo, gone, read, recentRead, storeVars,
                 noticeVars, historyVars>>

-----------------------------------------------------------------------------
(* Faults. *)

Count(b) == IF b THEN 1 ELSE 0
Pending(g, items) == Count(pc = "each group" /\ g \in items)

\* The pass ends here, by an exception or with the process; what it had
\* committed to the snapshots but not yet announced is not found again.
DropPass ==
  /\ lostAdded' = [g \in Groups |-> lostAdded[g] + Pending(g, todo)]
  /\ lostRemoved' = [g \in Groups |-> lostRemoved[g] + Pending(g, gone)]
  /\ pc' = "idle" /\ todo' = {} /\ gone' = {} /\ current' = NoOne

DroppedRequests == IF pc \in {"each request", "process request"} THEN todo ELSE {}

\* get_group_list fails, or sqlite does: run() logs it and waits.
AbortPass ==
  /\ pc # "idle"
  /\ faults < MaxFaults
  /\ faults' = faults + 1
  /\ DropPass
  /\ lost' = lost \cup DroppedRequests
  /\ UNCHANGED <<worldVars, handlerVars, read, recentRead, storeVars, noticeVars, handled,
                 baseline>>

\* sqlite fails under a handler: it answers 500.
AbortHandler(h) ==
  /\ stage[h] # "idle"
  /\ faults < MaxFaults
  /\ faults' = faults + 1
  /\ lost' = IF stage[h] = "process" THEN lost \cup {serving[h]} ELSE lost
  /\ Respond(h)
  /\ UNCHANGED <<worldVars, loopVars, storeVars, noticeVars, handled, baseline, lostAdded,
                 lostRemoved>>

Crash ==
  /\ faults < MaxFaults
  /\ faults' = faults + 1
  /\ DropPass
  /\ lost' = lost \cup DroppedRequests
                  \cup {serving[h] : h \in {x \in Handlers : stage[x] = "process"}}
  /\ serving' = [h \in Handlers |-> NoOne]
  /\ stage' = [h \in Handlers |-> "idle"]
  /\ UNCHANGED <<worldVars, read, recentRead, storeVars, noticeVars, handled, baseline>>

-----------------------------------------------------------------------------
Zero(S) == [x \in S |-> 0]

Init ==
  /\ requested = {} /\ recent = {} /\ friends = {} /\ members \in SUBSET Groups
  /\ pushes = Zero(Events) /\ moves = 0
  /\ serving = [h \in Handlers |-> NoOne] /\ stage = [h \in Handlers |-> "idle"]
  /\ pc = "idle" /\ todo = {} /\ gone = {} /\ current = NoOne
  /\ read = {} /\ recentRead = {}
  /\ raw = {} /\ seen = {} /\ friendSnap = {} /\ groupSnap = {} /\ initialized = {}
  /\ announced = {} /\ friendAdded = Zero(Users)
  /\ groupAdded = Zero(Groups) /\ groupRemoved = Zero(Groups)
  /\ faults = 0 /\ handled = Zero(Payloads) /\ baseline = {} /\ lost = {}
  /\ lostAdded = Zero(Groups) /\ lostRemoved = Zero(Groups)

World ==
  \/ \E u \in Users : Request(u) \/ Age(u) \/ Befriend(u)
  \/ \E g \in Groups : Move(g)

Handler(h) ==
  \/ \E e \in Events : Push(h, e)
  \/ HandleRecord(h) \/ HandleProcess(h) \/ AbortHandler(h)

LoopStep ==
  \/ StartPass
  \/ GetRequests \/ RequestsFail \/ StoreRequests \/ RequestsDone
  \/ \E u \in Users : RecordRequest(u) \/ ProcessRequest(u) \/ NotifyFriend(u)
  \/ GetFriends \/ FriendsFail \/ StoreFriends \/ FriendsDone
  \/ GetGroups \/ StoreGroups \/ EndPass
  \/ \E g \in Groups : NotifyGroup(g)

Next ==
  \/ World
  \/ \E h \in Handlers : Handler(h)
  \/ LoopStep
  \/ AbortPass
  \/ Crash

Spec == Init /\ [][Next]_vars

-----------------------------------------------------------------------------
Places == {"idle", "get requests", "store requests", "each request", "process request",
           "get friends", "store friends", "each friend", "get groups", "store groups",
           "each group"}

TypeOK ==
  /\ requested \subseteq Users /\ recent \subseteq requested /\ friends \subseteq Users
  /\ members \subseteq Groups
  /\ pushes \in [Events -> Nat] /\ moves \in Nat /\ faults \in Nat
  /\ stage \in [Handlers -> {"idle", "record", "process"}]
  /\ serving \in [Handlers -> Events \cup {NoOne}]
  /\ \A h \in Handlers : serving[h] = NoOne <=> stage[h] = "idle"
  /\ pc \in Places
  /\ recentRead \subseteq Users
  /\ IF pc = "process request" THEN current \in todo ELSE current = NoOne
  /\ raw \subseteq Payloads /\ seen \subseteq Users
  /\ friendSnap \subseteq Users /\ groupSnap \subseteq Groups
  /\ initialized \subseteq {"requests", "friends", "groups"}
  /\ announced \subseteq Events
  /\ friendAdded \in [Users -> Nat]
  /\ groupAdded \in [Groups -> Nat] /\ groupRemoved \in [Groups -> Nat]
  /\ handled \in [Payloads -> Nat]
  /\ baseline \subseteq Groups
  /\ lost \subseteq Events
  /\ lostAdded \in [Groups -> Nat] /\ lostRemoved \in [Groups -> Nat]

\* A payload reaches the processor once, however many copies of it are being
\* served at the same time.
HandledOnce == \A p \in Payloads : handled[p] <= 1

\* The group notices account for the snapshot: from the silent first list on,
\* each group's joins and leaves, announced, about to be, or lost to a fault,
\* add up to whether it is in the snapshot.
GroupBooks ==
  \A g \in Groups :
    Count(g \in baseline) + groupAdded[g] + lostAdded[g] + Pending(g, todo)
      = Count(g \in groupSnap) + groupRemoved[g] + lostRemoved[g] + Pending(g, gone)

\* A friend request or invitation that is in the database has its notice, or
\* is about to get it, unless a fault ended its processing.
StoredIsAnnounced ==
  \A e \in Events :
    handled[<<"push", e>>] = 1 =>
      \/ e \in announced \cup lost
      \/ \E h \in Handlers : stage[h] = "process" /\ serving[h] = e

\* Of each pushed event: recorded once, handled once, announced.
EventBooks == TypeOK /\ HandledOnce /\ StoredIsAnnounced

-----------------------------------------------------------------------------
(* Liveness: run() comes back every interval, and a call answers or fails.   *)
(* get_friend_requests fails intermittently (the comment in reconcile_once), *)
(* so it is taken to answer again and again.                                 *)

Fairness ==
  /\ WF_vars(LoopStep)
  /\ SF_vars(GetRequests)

FairSpec == Spec /\ Fairness

\* Polling makes up for pushes that never come and for handlers that were cut
\* off: a request the loop has not seen by its first list is announced in the
\* end, unless a fault hits the very pass that stores it.
UnseenRequestIsAnnounced ==
  \A u \in Users :
    "requests" \in initialized /\ u \in requested \ seen ~> u \in announced \cup lost

=============================================================================
