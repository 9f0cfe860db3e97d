--------------------------- MODULE UpdaterProofs ---------------------------
(* Proofs about Updater: for any releases, commands and kills, one helper  *)
(* at a time never links a release that is not installed, and goes back to *)
(* where it began when a check fails.                                      *)
EXTENDS Updater, TLAPS

\* The timer's helper and those of administrators never overlap.
OneHelper == \A p, q \in Updaters : p = q

Building == {"clear", "mkdir", "download", "build", "mark", "cleanup"}
Activating == {"read links", "link previous", "link current"}

\* A release marked complete is whole.
MarkersAreTrue == \A v \in Versions : marked[v] => content[v] = "full"

\* What the helper may still remove is not linked; what it is about to link
\* is installed.
HelperInOrder(p) ==
  /\ pc[p] = "inspect" => ~fresh[p]
  /\ pc[p] \in Building => target[p] # current /\ target[p] # previous
  /\ pc[p] = "mark" => content[target[p]] = "full"
  /\ pc[p] \in Activating =>
       /\ Installed(target[p])
       /\ fresh[p] => target[p] # current /\ target[p] # previous
  /\ pc[p] = "link previous" => link1[p] = current /\ current # target[p]
  /\ pc[p] = "swap current" => link1[p] = current /\ link2[p] = previous
  /\ pc[p] = "swap previous" => Installed(link1[p])

LinkInv == TypeOK /\ LinksAreInstalled /\ MarkersAreTrue /\ \A p \in Updaters : HelperInOrder(p)

\* The initial state is well typed.
LEMMA TypeInit == Init => TypeOK
BY VersionsAssumption, NumbersAssumption DEF Init, TypeOK, Links, Places

\* Numbers have successors.
LEMMA NextNumber == \A n \in Nat : n + 1 \in Nat
OBVIOUS

\* A retry is within the limit.
LEMMA NextAttempt ==
  ASSUME NEW n \in 1 .. MaxAttempts, n < MaxAttempts
  PROVE  n + 1 \in 1 .. MaxAttempts
BY NumbersAssumption

\* The helper's own steps keep the types.
LEMMA TypeWork ==
  ASSUME TypeOK, NEW p \in Updaters, Work(p)
  PROVE  TypeOK'
<1> USE DEF TypeOK, Links, Places, GoTo, Remove, Activated, Undone
<1>1. CASE Inspect(p) BY <1>1 DEF Inspect, diskVars
<1>2. CASE Clear(p) BY <1>2 DEF Clear
<1>3. CASE MakeDirectory(p) BY <1>3 DEF MakeDirectory
<1>4. CASE Download(p) BY <1>4 DEF Download, diskVars
<1>5. ASSUME NEW retried \in BOOLEAN, DownloadFails(p, retried) PROVE TypeOK'
  <2>1. attempt[p] \in 1 .. MaxAttempts
    OBVIOUS
  <2>2. attempt[p] < MaxAttempts => attempt[p] + 1 \in 1 .. MaxAttempts
    BY <2>1, NextAttempt
  <2>3. attempt' \in [Updaters -> 1 .. MaxAttempts]
    BY <1>5, <2>2 DEF DownloadFails
  <2>4. pc' \in [Updaters -> Places] /\ \A q \in Updaters : pc'[q] = pc[q] \/ pc'[q] = "cleanup"
    BY <1>5 DEF DownloadFails
  <2>5. UNCHANGED <<latest, diskVars, running, command, restart, target, fresh, link1, link2,
                    commands, crashes, before>>
    BY <1>5 DEF DownloadFails
  <2>6. \A q \in Updaters :
          pc'[q] \notin {"idle", "restart", "read rollback", "swap current", "swap previous",
                        "restart old"}
            => target'[q] \in Versions
    BY <1>5 DEF DownloadFails
  <2>7. QED
    BY <2>3, <2>4, <2>5, <2>6 DEF diskVars
<1>6. CASE Build(p) BY <1>6 DEF Build
<1>7. CASE BuildFails(p) BY <1>7 DEF BuildFails, diskVars
<1>8. CASE Mark(p) BY <1>8 DEF Mark
<1>9. CASE Cleanup(p) BY <1>9 DEF Cleanup
<1>10. CASE ReadLinks(p) BY <1>10 DEF ReadLinks, diskVars
<1>11. CASE LinkPrevious(p) BY <1>11 DEF LinkPrevious
<1>12. CASE LinkCurrent(p) BY <1>12 DEF LinkCurrent
<1>13. CASE ActivateRaises(p) BY <1>13 DEF ActivateRaises, diskVars
<1>14. ASSUME NEW inTime \in BOOLEAN, RestartAndVerify(p, inTime) PROVE TypeOK'
  BY <1>14 DEF RestartAndVerify, Start, diskVars
<1>15. CASE ReadRollback(p) BY <1>15 DEF ReadRollback, diskVars
<1>16. CASE SwapCurrent(p) BY <1>16 DEF SwapCurrent
<1>17. CASE SwapPrevious(p)
  <2>1. PICK place \in {"restart", "idle", "restart old"} : pc' = [pc EXCEPT ![p] = place]
    BY <1>17 DEF SwapPrevious
  <2>2. QED
    BY <1>17, <2>1 DEF SwapPrevious
<1>18. CASE RestartOld(p) BY <1>18 DEF RestartOld, Start, diskVars
<1>19. QED
  BY <1>1, <1>2, <1>3, <1>4, <1>5, <1>6, <1>7, <1>8, <1>9, <1>10, <1>11, <1>12, <1>13, <1>14,
     <1>15, <1>16, <1>17, <1>18 DEF Work

\* Every step keeps the types.
LEMMA TypeNext == TypeOK /\ [Next]_vars => TypeOK'
<1> SUFFICES ASSUME TypeOK, [Next]_vars PROVE TypeOK'
    OBVIOUS
<1>1. ASSUME NEW v \in Versions, Publish(v) PROVE TypeOK'
  BY <1>1 DEF Publish, TypeOK, Links, diskVars, localVars
<1>2. ASSUME NEW p \in Updaters, Apply(p) PROVE TypeOK'
  <2>1. latest \in Versions
    BY <1>2 DEF Apply, TypeOK, Links
  <2>5. attempt' \in [Updaters -> 1 .. MaxAttempts]
    <3>1. 1 \in 1 .. MaxAttempts
      BY NumbersAssumption
    <3>2. QED
      BY <1>2, <3>1 DEF Apply, TypeOK
  <2>6. commands' \in Nat
    BY <1>2, NextNumber DEF Apply, Give, TypeOK
  <2>2. /\ restart' \in [Updaters -> BOOLEAN] /\ fresh' \in [Updaters -> BOOLEAN]
        /\ before' \in [Updaters -> Links]
    BY <1>2 DEF Apply, Give, TypeOK
  <2>3. /\ target' = [target EXCEPT ![p] = latest]
        /\ command' = [command EXCEPT ![p] = "apply"]
        /\ pc' = [pc EXCEPT ![p] = "inspect"]
        /\ UNCHANGED <<latest, diskVars, running, link1, link2, crashes>>
    BY <1>2 DEF Apply, Give, GoTo
  <2>4. QED
    BY <2>1, <2>2, <2>3, <2>5, <2>6 DEF TypeOK, Links, Places, diskVars
<1>3. ASSUME NEW p \in Updaters, Rollback(p) PROVE TypeOK'
  <2>1. restart' \in [Updaters -> BOOLEAN] /\ before' \in [Updaters -> Links]
    BY <1>3 DEF Rollback, Give, TypeOK
  <2>4. commands' \in Nat
    BY <1>3, NextNumber DEF Rollback, Give, TypeOK
  <2>2. /\ command' = [command EXCEPT ![p] = "rollback"]
        /\ pc' = [pc EXCEPT ![p] = "read rollback"]
        /\ UNCHANGED <<latest, diskVars, running, link1, link2, crashes, target, fresh, attempt>>
    BY <1>3 DEF Rollback, Give, GoTo
  <2>3. QED
    BY <2>1, <2>2, <2>4 DEF TypeOK, Places, diskVars
<1>4. ASSUME NEW p \in Updaters, Crash(p) PROVE TypeOK'
  <2>1. crashes' \in Nat
    BY <1>4, NextNumber DEF Crash, TypeOK
  <2>2. /\ pc' = [pc EXCEPT ![p] = "idle"]
        /\ UNCHANGED <<latest, diskVars, running, command, restart, target, fresh, attempt,
                       link1, link2, commands, before>>
    BY <1>4 DEF Crash, GoTo
  <2>3. QED
    BY <2>1, <2>2 DEF TypeOK, Places, diskVars
<1>5. CASE UNCHANGED vars
  BY <1>5 DEF vars, diskVars, localVars, TypeOK
<1>6. QED
  BY <1>1, <1>2, <1>3, <1>4, <1>5, TypeWork DEF Next

\* The variables of the updater keep their types.
THEOREM UpdaterTypeCorrect == Spec => []TypeOK
BY TypeInit, TypeNext, PTL DEF Spec

-----------------------------------------------------------------------------
\* What scripts/install.sh leaves satisfies the invariant.
LEMMA LinkInit == Init => LinkInv
<1> SUFFICES ASSUME Init PROVE LinkInv
    OBVIOUS
<1>1. TypeOK
  BY TypeInit
<1>2. LinksAreInstalled /\ MarkersAreTrue
  BY VersionsAssumption DEF Init, LinksAreInstalled, Installed, MarkersAreTrue
<1>3. \A p \in Updaters : HelperInOrder(p)
  BY DEF Init, HelperInOrder, Building, Activating
<1>4. QED
  BY <1>1, <1>2, <1>3 DEF LinkInv

\* What a step that leaves the disk alone has to show.
LEMMA DiskQuiet ==
  ASSUME LinkInv, UNCHANGED diskVars
  PROVE  /\ LinksAreInstalled' /\ MarkersAreTrue'
         /\ current' = current /\ previous' = previous /\ content' = content /\ marked' = marked
BY DEF LinkInv, LinksAreInstalled, Installed, MarkersAreTrue, diskVars

\* The types of the functions the steps update.
LEMMA Shapes ==
  ASSUME TypeOK
  PROVE  /\ pc \in [Updaters -> Places] /\ target \in [Updaters -> Links]
         /\ link1 \in [Updaters -> Links] /\ link2 \in [Updaters -> Links]
         /\ fresh \in [Updaters -> BOOLEAN]
         /\ content \in [Versions -> {"none", "partial", "full"}]
         /\ marked \in [Versions -> BOOLEAN]
         /\ current \in Links /\ previous \in Links
BY DEF TypeOK

\* A helper that installs or activates has a release in hand.
LEMMA HasTarget ==
  ASSUME TypeOK, NEW p \in Updaters, pc[p] \in Building \cup Activating \cup {"inspect"}
  PROVE  target[p] \in Versions
BY DEF TypeOK, Building, Activating

\* What a step that moves the helper leaves in pc.
LEMMA Placed ==
  ASSUME TypeOK, NEW p \in Updaters, NEW place, GoTo(p, place)
  PROVE  pc'[p] = place
BY Shapes DEF GoTo

\* Removing the target of a helper that builds touches neither link.
LEMMA RemoveUnlinked ==
  ASSUME LinkInv, NEW v \in Versions, v # current, v # previous, Remove(v)
  PROVE  LinksAreInstalled' /\ MarkersAreTrue' /\ UNCHANGED <<current, previous>>
<1>1. TypeOK
  BY DEF LinkInv
<1>2. \A w \in Versions \ {v} : content'[w] = content[w] /\ marked'[w] = marked[w]
  BY <1>1, Shapes DEF Remove
<1>3. marked'[v] = FALSE
  BY <1>1, Shapes DEF Remove
<1>4. UNCHANGED <<current, previous>> /\ current \in Links /\ previous \in Links
  BY <1>1, Shapes DEF Remove
<1>5. QED
  BY <1>2, <1>3, <1>4 DEF LinkInv, LinksAreInstalled, Installed, MarkersAreTrue, Links

\* Installing neither touches a linked release nor marks an unfinished one.
LEMMA InstallWork ==
  ASSUME LinkInv, NEW p \in Updaters, TypeOK',
         \/ Inspect(p) \/ Clear(p) \/ MakeDirectory(p) \/ Download(p)
         \/ \E retried \in BOOLEAN : DownloadFails(p, retried)
         \/ Build(p) \/ BuildFails(p) \/ Mark(p) \/ Cleanup(p)
  PROVE  LinksAreInstalled' /\ MarkersAreTrue' /\ HelperInOrder(p)'
<1> DEFINE v == target[p]
           Done == LinksAreInstalled' /\ MarkersAreTrue' /\ HelperInOrder(p)'
<1>0. TypeOK /\ HelperInOrder(p) /\ LinksAreInstalled /\ MarkersAreTrue
  BY DEF LinkInv
<1>1. CASE Inspect(p)
  <2>1. v \in Versions /\ target' = target /\ UNCHANGED diskVars
    BY <1>0, <1>1, HasTarget DEF Inspect
  <2>2. CASE marked[v]
    <3>1. pc'[p] = "read links" /\ ~fresh'[p]
      BY <1>0, <1>1, <2>2, Placed DEF Inspect, HelperInOrder
    <3>2. Installed(v)
      BY <1>0, <2>1, <2>2 DEF Installed, MarkersAreTrue
    <3>3. QED
      BY <1>0, <2>1, <3>1, <3>2, DiskQuiet DEF HelperInOrder, Building, Activating, Installed
  <2>3. CASE ~marked[v]
    <3>1. pc'[p] \in {"mkdir", "clear"}
      BY <1>0, <1>1, <2>3, Placed DEF Inspect
    <3>2. v # current /\ v # previous
      BY <1>0, <2>1, <2>3, VersionsAssumption DEF LinksAreInstalled, Installed
    <3>3. QED
      BY <2>1, <3>1, <3>2, DiskQuiet DEF HelperInOrder, Building, Activating
  <2>4. QED
    BY <2>2, <2>3
<1>2. CASE Clear(p)
  <2>1. v \in Versions /\ v # current /\ v # previous
    BY <1>0, <1>2, HasTarget DEF Clear, HelperInOrder, Building
  <2>2. Remove(v) /\ target' = target /\ pc'[p] \in {"idle", "mkdir"}
    BY <1>0, <1>2, Placed DEF Clear
  <2>3. QED
    BY <2>1, <2>2, RemoveUnlinked DEF HelperInOrder, Building, Activating
<1>3. CASE MakeDirectory(p)
  <2>1. v \in Versions /\ v # current /\ v # previous
    BY <1>0, <1>3, HasTarget DEF MakeDirectory, HelperInOrder, Building
  <2>2. pc'[p] \in {"idle", "download"}
    BY <1>0, <1>3, Placed DEF MakeDirectory
  <2>3. UNCHANGED <<current, previous, marked, target>>
    BY <1>3 DEF MakeDirectory
  <2>4. \A w \in Versions \ {v} : content'[w] = content[w]
    BY <1>0, <1>3, Shapes DEF MakeDirectory
  <2>5. content'[v] = content[v] \/ content[v] = "none"
    BY <1>0, <1>3 DEF MakeDirectory
  <2>6. ~marked[v] \/ content'[v] = content[v]
    BY <1>0, <2>1, <2>5 DEF MarkersAreTrue
  <2>7. LinksAreInstalled' /\ MarkersAreTrue'
    BY <1>0, <2>1, <2>3, <2>4, <2>6, Shapes DEF LinksAreInstalled, Installed, MarkersAreTrue, Links
  <2>8. HelperInOrder(p)'
    BY <2>1, <2>2, <2>3 DEF HelperInOrder, Building, Activating
  <2>9. QED
    BY <2>7, <2>8
<1>4. ASSUME \/ Download(p) \/ BuildFails(p) \/ \E retried \in BOOLEAN : DownloadFails(p, retried)
      PROVE  Done
  <2>1. pc[p] \in {"download", "build"} /\ UNCHANGED <<diskVars, target>>
    BY <1>4 DEF Download, BuildFails, DownloadFails
  <2>2. pc'[p] \in {"download", "build", "cleanup"}
    BY <1>0, <1>4, <2>1, Placed DEF Download, BuildFails, DownloadFails
  <2>3. QED
    BY <1>0, <2>1, <2>2, DiskQuiet DEF HelperInOrder, Building, Activating
<1>5. CASE Build(p)
  <2>1. v \in Versions /\ v # current /\ v # previous
    BY <1>0, <1>5, HasTarget DEF Build, HelperInOrder, Building
  <2>2. pc'[p] = "mark" /\ UNCHANGED <<current, previous, marked, target>>
    BY <1>0, <1>5, Placed DEF Build
  <2>3. content'[v] = "full" /\ \A w \in Versions \ {v} : content'[w] = content[w]
    BY <1>0, <1>5, <2>1, Shapes DEF Build
  <2>4. LinksAreInstalled' /\ MarkersAreTrue'
    BY <1>0, <2>1, <2>2, <2>3, Shapes DEF LinksAreInstalled, Installed, MarkersAreTrue, Links
  <2>5. HelperInOrder(p)'
    BY <2>1, <2>2, <2>3 DEF HelperInOrder, Building, Activating
  <2>6. QED
    BY <2>4, <2>5
<1>6. CASE Mark(p)
  <2>1. v \in Versions /\ v # current /\ v # previous /\ content[v] = "full"
    BY <1>0, <1>6, HasTarget DEF Mark, HelperInOrder, Building
  <2>2. pc'[p] = "read links" /\ UNCHANGED <<current, previous, content, target>>
    BY <1>0, <1>6, <2>1, Placed DEF Mark
  <2>3. marked'[v] /\ \A w \in Versions \ {v} : marked'[w] = marked[w]
    BY <1>0, <1>6, <2>1, Shapes DEF Mark
  <2>4. LinksAreInstalled' /\ MarkersAreTrue'
    BY <1>0, <2>1, <2>2, <2>3, Shapes DEF LinksAreInstalled, Installed, MarkersAreTrue, Links
  <2>5. HelperInOrder(p)'
    BY <2>1, <2>2, <2>3 DEF HelperInOrder, Building, Activating, Installed
  <2>6. QED
    BY <2>4, <2>5
<1>7. CASE Cleanup(p)
  <2>1. v \in Versions /\ v # current /\ v # previous
    BY <1>0, <1>7, HasTarget DEF Cleanup, HelperInOrder, Building
  <2>2. Remove(v) /\ target' = target /\ pc'[p] = "idle"
    BY <1>0, <1>7, Placed DEF Cleanup
  <2>3. QED
    BY <2>1, <2>2, RemoveUnlinked DEF HelperInOrder, Building, Activating
<1>8. QED
  BY <1>1, <1>2, <1>3, <1>4, <1>5, <1>6, <1>7

\* What is about to be linked is never "none": the branch of activate that
\* finds the directory gone is for several helpers.
LEMMA ActivateWork ==
  ASSUME LinkInv, NEW p \in Updaters, TypeOK',
         \/ ReadLinks(p) \/ LinkPrevious(p) \/ LinkCurrent(p) \/ ActivateRaises(p)
  PROVE  LinksAreInstalled' /\ MarkersAreTrue' /\ HelperInOrder(p)'
<1> DEFINE v == target[p]
<1>0. TypeOK /\ HelperInOrder(p) /\ LinksAreInstalled /\ MarkersAreTrue
  BY DEF LinkInv
<1>1. v \in Versions /\ Installed(v) /\ (fresh[p] => v # current /\ v # previous)
  BY <1>0, HasTarget DEF HelperInOrder, Activating, ReadLinks, LinkPrevious, LinkCurrent,
     ActivateRaises
<1>2. content[v] = "full" /\ v # None
  BY <1>1, VersionsAssumption DEF Installed
<1>3. CASE ReadLinks(p)
  <2>1. UNCHANGED <<diskVars, target, fresh>> /\ link1'[p] = current
    BY <1>0, <1>3, Shapes DEF ReadLinks
  <2>2. pc'[p] \in {"restart", "idle", "link current", "link previous"}
    BY <1>0, <1>2, <1>3, Placed DEF ReadLinks, Activated
  <2>3. pc'[p] = "link previous" => current # v
    BY <1>0, <1>2, <1>3, Placed DEF ReadLinks, Activated
  <2>4. QED
    BY <1>1, <2>1, <2>2, <2>3, DiskQuiet DEF HelperInOrder, Building, Activating, Installed
<1>4. CASE LinkPrevious(p)
  <2>1. link1[p] = current /\ current # v
    BY <1>0, <1>4 DEF LinkPrevious, HelperInOrder
  <2>2. /\ UNCHANGED <<content, marked, current, target, fresh, link1>>
        /\ previous' = current /\ pc'[p] = "link current"
    BY <1>0, <1>4, <2>1, Placed DEF LinkPrevious
  <2>3. LinksAreInstalled' /\ MarkersAreTrue'
    BY <1>0, <2>2 DEF LinksAreInstalled, Installed, MarkersAreTrue
  <2>4. HelperInOrder(p)'
    BY <1>1, <2>1, <2>2 DEF HelperInOrder, Building, Activating, Installed
  <2>5. QED
    BY <2>3, <2>4
<1>5. CASE LinkCurrent(p)
  <2>1. /\ UNCHANGED <<content, marked, previous>> /\ current' = v
        /\ pc'[p] \in {"restart", "idle"}
    BY <1>0, <1>5, Placed DEF LinkCurrent, Activated
  <2>2. LinksAreInstalled' /\ MarkersAreTrue'
    BY <1>0, <1>1, <2>1 DEF LinksAreInstalled, Installed, MarkersAreTrue
  <2>3. HelperInOrder(p)'
    BY <2>1 DEF HelperInOrder, Building, Activating
  <2>4. QED
    BY <2>2, <2>3
<1>6. CASE ActivateRaises(p)
  <2>1. UNCHANGED <<diskVars, target, fresh>>
    BY <1>6 DEF ActivateRaises
  <2>2. pc'[p] = IF fresh[p] THEN "cleanup" ELSE "idle"
    BY <1>0, <1>6, Placed DEF ActivateRaises, Undone
  <2>3. QED
    BY <1>1, <2>1, <2>2, DiskQuiet DEF HelperInOrder, Building, Activating
<1>7. QED
  BY <1>3, <1>4, <1>5, <1>6

\* Switching back leads from whole releases to whole releases.
LEMMA RollbackWork ==
  ASSUME LinkInv, NEW p \in Updaters, TypeOK',
         \/ \E inTime \in BOOLEAN : RestartAndVerify(p, inTime)
         \/ ReadRollback(p) \/ SwapCurrent(p) \/ SwapPrevious(p) \/ RestartOld(p)
  PROVE  LinksAreInstalled' /\ MarkersAreTrue' /\ HelperInOrder(p)'
<1>0. TypeOK /\ HelperInOrder(p) /\ LinksAreInstalled /\ MarkersAreTrue
  BY DEF LinkInv
<1>1. ASSUME NEW inTime \in BOOLEAN, RestartAndVerify(p, inTime)
      PROVE  UNCHANGED diskVars /\ pc'[p] \in {"idle", "read rollback"}
  BY <1>0, <1>1, Placed DEF RestartAndVerify
<1>2. CASE \E inTime \in BOOLEAN : RestartAndVerify(p, inTime)
  BY <1>1, <1>2, DiskQuiet DEF HelperInOrder, Building, Activating
<1>3. CASE ReadRollback(p)
  <2>1. UNCHANGED diskVars /\ link1'[p] = current /\ link2'[p] = previous
    BY <1>0, <1>3, Shapes DEF ReadRollback
  <2>2. pc'[p] \in {"idle", "swap current"}
    BY <1>0, <1>3, Placed DEF ReadRollback
  <2>3. QED
    BY <2>1, <2>2, DiskQuiet DEF HelperInOrder, Building, Activating
<1>4. CASE SwapCurrent(p)
  <2>1. link1[p] = current /\ link2[p] = previous
    BY <1>0, <1>4 DEF SwapCurrent, HelperInOrder
  <2>2. /\ UNCHANGED <<content, marked, previous, link1>> /\ current' = previous
        /\ pc'[p] = "swap previous"
    BY <1>0, <1>4, <2>1, Placed DEF SwapCurrent
  <2>3. QED
    BY <1>0, <2>1, <2>2 DEF LinksAreInstalled, Installed, MarkersAreTrue, HelperInOrder, Building,
       Activating
<1>5. CASE SwapPrevious(p)
  <2>1. Installed(link1[p])
    BY <1>0, <1>5 DEF SwapPrevious, HelperInOrder
  <2>2. /\ UNCHANGED <<content, marked, current>> /\ previous' = link1[p]
        /\ pc'[p] \in {"restart", "idle", "restart old"}
    BY <1>0, <1>5, Placed DEF SwapPrevious, Activated
  <2>3. QED
    BY <1>0, <2>1, <2>2 DEF LinksAreInstalled, Installed, MarkersAreTrue, HelperInOrder, Building,
       Activating
<1>6. CASE RestartOld(p)
  <2>1. UNCHANGED diskVars /\ pc'[p] = "idle"
    BY <1>0, <1>6, Placed DEF RestartOld
  <2>2. QED
    BY <2>1, DiskQuiet DEF HelperInOrder, Building, Activating
<1>7. QED
  BY <1>2, <1>3, <1>4, <1>5, <1>6

\* Every step of a lone helper preserves the invariant.
LEMMA LinkNext == OneHelper /\ LinkInv /\ [Next]_vars => LinkInv'
<1> SUFFICES ASSUME OneHelper, LinkInv, [Next]_vars PROVE LinkInv'
    OBVIOUS
<1>0. TypeOK /\ TypeOK'
  BY TypeNext DEF LinkInv
<1>1. ASSUME NEW p \in Updaters, LinksAreInstalled', MarkersAreTrue', HelperInOrder(p)'
      PROVE  LinkInv'
  BY <1>0, <1>1 DEF LinkInv, OneHelper
<1>2. ASSUME NEW p \in Updaters, Work(p) PROVE LinkInv'
  BY <1>0, <1>1, <1>2, InstallWork, ActivateWork, RollbackWork DEF Work
<1>3. ASSUME NEW v \in Versions, Publish(v) PROVE LinkInv'
  <2>1. UNCHANGED <<diskVars, localVars>>
    BY <1>3 DEF Publish
  <2>2. \A p \in Updaters : HelperInOrder(p)'
    BY <2>1 DEF LinkInv, HelperInOrder, Installed, diskVars, localVars
  <2>3. QED
    BY <1>0, <2>1, <2>2, DiskQuiet DEF LinkInv
<1>4. ASSUME NEW p \in Updaters, Apply(p) PROVE LinkInv'
  <2>1. UNCHANGED diskVars /\ pc'[p] = "inspect" /\ ~fresh'[p]
    BY <1>0, <1>4, Placed, Shapes DEF Apply, Give
  <2>2. HelperInOrder(p)'
    BY <2>1 DEF HelperInOrder, Building, Activating
  <2>3. QED
    BY <1>1, <2>1, <2>2, DiskQuiet
<1>5. ASSUME NEW p \in Updaters, Rollback(p) PROVE LinkInv'
  <2>1. UNCHANGED diskVars /\ pc'[p] = "read rollback"
    BY <1>0, <1>5, Placed DEF Rollback, Give
  <2>2. HelperInOrder(p)'
    BY <2>1 DEF HelperInOrder, Building, Activating
  <2>3. QED
    BY <1>1, <2>1, <2>2, DiskQuiet
<1>6. ASSUME NEW p \in Updaters, Crash(p) PROVE LinkInv'
  <2>1. UNCHANGED diskVars /\ pc'[p] = "idle"
    BY <1>0, <1>6, Placed DEF Crash
  <2>2. HelperInOrder(p)'
    BY <2>1 DEF HelperInOrder, Building, Activating
  <2>3. QED
    BY <1>1, <2>1, <2>2, DiskQuiet
<1>7. CASE UNCHANGED vars
  <2>1. UNCHANGED <<diskVars, localVars>>
    BY <1>7 DEF vars
  <2>2. \A p \in Updaters : HelperInOrder(p)'
    BY <2>1 DEF LinkInv, HelperInOrder, Installed, diskVars, localVars
  <2>3. QED
    BY <1>0, <2>1, <2>2, DiskQuiet DEF LinkInv
<1>8. QED
  BY <1>2, <1>3, <1>4, <1>5, <1>6, <1>7 DEF Next

\* current and previous lead to whole releases at every moment of every command,
\* also where the helper is killed or an operation fails, as long as helpers do
\* not overlap: updater.py writes .complete last and removes only what is not
\* linked.
THEOREM LinkedReleasesAreInstalled == OneHelper => (Spec => []LinksAreInstalled)
<1> SUFFICES ASSUME OneHelper PROVE Spec => []LinksAreInstalled
    OBVIOUS
<1>1. Init => LinkInv
  BY LinkInit
<1>2. LinkInv /\ [Next]_vars => LinkInv'
  BY LinkNext
<1>3. LinkInv => LinksAreInstalled
  BY DEF LinkInv
<1>4. QED
  BY <1>1, <1>2, <1>3, PTL DEF Spec

-----------------------------------------------------------------------------
(* The way back.                                                           *)

Applying == Building \cup {"inspect", "read links", "link previous", "link current"}

\* What a rollback from c to q is for: the command itself, or undoing an apply
\* or a rollback.
RollsBack(p, c, q) ==
  \/ command[p] = "rollback" /\ c = before[p]
  \/ command[p] = "restore" /\ c = target[p] /\ q = before[p]
  \/ command[p] = "undo" /\ q = before[p]

\* Where the links are at each place, compared to what the command found.
WayBack(p) ==
  /\ pc[p] \in Applying => command[p] = "apply" /\ current = before[p] /\ target[p] # current
  /\ pc[p] = "link previous" => link1[p] = current
  /\ pc[p] = "link current" /\ before[p] # None => previous = before[p]
  /\ pc[p] = "restart" =>
       \/ command[p] = "apply" /\ current = target[p] /\ (before[p] # None => previous = before[p])
       \/ command[p] = "rollback" /\ previous = before[p]
  /\ pc[p] = "read rollback" => RollsBack(p, current, previous)
  /\ pc[p] = "swap current" =>
       link1[p] = current /\ link2[p] = previous /\ RollsBack(p, current, previous)
  /\ pc[p] = "swap previous" => RollsBack(p, link1[p], current)
  /\ pc[p] = "restart old" => current = before[p] /\ previous = target[p]

WayBackInv == TypeOK /\ \A p \in Updaters : WayBack(p)

\* A lone helper that installs leaves the links as it found them.
LEMMA InstallWayBack ==
  ASSUME TypeOK, NEW p \in Updaters, WayBack(p),
         \/ Inspect(p) \/ Clear(p) \/ MakeDirectory(p) \/ Download(p)
         \/ \E retried \in BOOLEAN : DownloadFails(p, retried)
         \/ Build(p) \/ BuildFails(p) \/ Mark(p) \/ Cleanup(p) \/ ActivateRaises(p)
  PROVE  WayBack(p)'
<1>1. pc[p] \in Applying /\ UNCHANGED <<current, command, target, before>>
  BY DEF Inspect, Clear, MakeDirectory, Download, DownloadFails, Build, BuildFails, Mark, Cleanup,
         ActivateRaises, Remove, diskVars, Applying, Building
<1>2. pc'[p] \in (Building \cup {"idle", "read links"})
  <2>1. pc \in [Updaters -> Places]
    BY Shapes
  <2> QED
    BY <2>1 DEF Inspect, Clear, MakeDirectory, Download, DownloadFails, Build, BuildFails, Mark,
       Cleanup, ActivateRaises, GoTo, Undone, Building
<1> QED
  BY <1>1, <1>2 DEF WayBack, Applying, Building

\* Switching makes the release the command found the previous one.
LEMMA ActivateWayBack ==
  ASSUME TypeOK, NEW p \in Updaters, WayBack(p),
         ReadLinks(p) \/ LinkPrevious(p) \/ LinkCurrent(p)
  PROVE  WayBack(p)'
<1>1. /\ command[p] = "apply" /\ current = before[p] /\ target[p] # current
      /\ UNCHANGED <<command, target, before>>
  BY DEF ReadLinks, LinkPrevious, LinkCurrent, WayBack, Applying
<1>2. CASE ReadLinks(p)
  <2>1. /\ UNCHANGED <<current, previous>> /\ link1'[p] = current
    BY <1>2, Shapes DEF ReadLinks, diskVars
  <2>2. pc'[p] \in {"idle", "cleanup", "link current", "link previous"}
    BY <1>1, <1>2, Placed DEF ReadLinks, Undone
  <2>3. pc'[p] = "link current" => current = None
    BY <1>1, <1>2, Placed DEF ReadLinks, Undone
  <2> QED
    BY <1>1, <2>1, <2>2, <2>3 DEF WayBack, Applying, Building
<1>3. CASE LinkPrevious(p)
  <2>1. previous' = current /\ current' = current /\ pc'[p] = "link current"
    BY <1>3, Placed DEF LinkPrevious, WayBack
  <2> QED
    BY <1>1, <2>1 DEF WayBack, Applying, Building
<1>4. CASE LinkCurrent(p)
  <2>1. /\ previous' = previous /\ current' = target[p] /\ pc'[p] \in {"restart", "idle"}
        /\ before[p] # None => previous = before[p]
    BY <1>4, Placed DEF LinkCurrent, WayBack, Activated
  <2> QED
    BY <1>1, <2>1 DEF WayBack, Applying, Building
<1> QED
  BY <1>2, <1>3, <1>4

\* Going back swaps the links that the check was made with.
LEMMA RollbackWayBack ==
  ASSUME TypeOK, NEW p \in Updaters, WayBack(p),
         \/ \E inTime \in BOOLEAN : RestartAndVerify(p, inTime)
         \/ ReadRollback(p) \/ SwapCurrent(p) \/ SwapPrevious(p) \/ RestartOld(p)
  PROVE  WayBack(p)'
<1> USE DEF WayBack, Applying, Building, RollsBack
<1>1. ASSUME NEW inTime \in BOOLEAN, RestartAndVerify(p, inTime) PROVE WayBack(p)'
  <2>1. pc[p] = "restart" /\ UNCHANGED <<current, previous, target, before>>
    BY <1>1 DEF RestartAndVerify, diskVars
  <2>2. command \in [Updaters -> {"apply", "rollback", "restore", "undo"}]
    BY DEF TypeOK
  <2>3. \/ pc'[p] = "idle"
        \/ /\ command[p] = "apply" /\ command'[p] = "restore"
           /\ pc'[p] = "read rollback" /\ before[p] # None
        \/ command[p] # "apply" /\ command'[p] = "undo" /\ pc'[p] = "read rollback"
    BY <1>1, <2>2, Placed DEF RestartAndVerify
  <2> QED
    BY <2>1, <2>3
<1>2. CASE ReadRollback(p)
  <2>1. /\ UNCHANGED <<current, previous, command, target, before>>
        /\ link1'[p] = current /\ link2'[p] = previous
    BY <1>2, Shapes DEF ReadRollback, diskVars
  <2>2. pc[p] = "read rollback" /\ pc'[p] \in {"idle", "swap current"}
    BY <1>2, Placed DEF ReadRollback
  <2> QED
    BY <2>1, <2>2
<1>3. CASE SwapCurrent(p)
  <2>1. /\ UNCHANGED <<previous, link1, command, target, before>> /\ current' = link2[p]
        /\ pc[p] = "swap current" /\ pc'[p] = "swap previous"
    BY <1>3, Placed DEF SwapCurrent
  <2> QED
    BY <2>1
<1>4. CASE SwapPrevious(p)
  <2>1. /\ UNCHANGED <<current, command, target, before>> /\ previous' = link1[p]
        /\ pc[p] = "swap previous"
    BY <1>4 DEF SwapPrevious
  <2>2. \/ pc'[p] = "restart" /\ command[p] = "rollback"
        \/ pc'[p] = "restart old" /\ command[p] = "restore"
        \/ pc'[p] = "idle"
    BY <1>4, Placed DEF SwapPrevious, Activated
  <2> QED
    BY <2>1, <2>2
<1>5. CASE RestartOld(p)
  <2>1. pc'[p] = "idle"
    BY <1>5, Placed DEF RestartOld
  <2> QED
    BY <2>1
<1> QED
  BY <1>1, <1>2, <1>3, <1>4, <1>5

\* Every step of a lone helper keeps its way back.
LEMMA WayBackNext == OneHelper /\ WayBackInv /\ [Next]_vars => WayBackInv'
<1> SUFFICES ASSUME OneHelper, WayBackInv, [Next]_vars PROVE WayBackInv'
  OBVIOUS
<1>1. TypeOK /\ TypeOK' /\ \A p \in Updaters : WayBack(p)
  BY TypeNext DEF WayBackInv
<1>2. ASSUME NEW p \in Updaters, WayBack(p)' PROVE WayBackInv'
  BY <1>1, <1>2 DEF WayBackInv, OneHelper
<1>3. ASSUME NEW p \in Updaters, Work(p) PROVE WayBackInv'
  BY <1>1, <1>2, <1>3, InstallWayBack, ActivateWayBack, RollbackWayBack DEF Work
<1>4. ASSUME NEW p \in Updaters, Apply(p) PROVE WayBackInv'
  <2>1. /\ pc'[p] = "inspect" /\ command'[p] = "apply" /\ current' = current
        /\ before'[p] = current /\ target'[p] = latest
    BY <1>1, <1>4, Placed DEF Apply, Give, diskVars, TypeOK
  <2>2. latest # current
    <3>1. current = None \/ (latest \in Nat /\ current \in Nat /\ latest > current)
      BY <1>1, <1>4, VersionsAssumption DEF Apply, TypeOK, Links
    <3> QED
      BY <1>4, <3>1 DEF Apply
  <2>3. WayBack(p)'
    BY <2>1, <2>2 DEF WayBack, Applying, Building
  <2> QED
    BY <1>2, <2>3
<1>5. ASSUME NEW p \in Updaters, Rollback(p) PROVE WayBackInv'
  <2>1. /\ pc'[p] = "read rollback" /\ command'[p] = "rollback" /\ current' = current
        /\ before'[p] = current
    BY <1>1, <1>5, Placed DEF Rollback, Give, diskVars, TypeOK
  <2>2. WayBack(p)'
    BY <2>1 DEF WayBack, Applying, Building, RollsBack
  <2> QED
    BY <1>2, <2>2
<1>6. ASSUME NEW p \in Updaters, Crash(p) PROVE WayBackInv'
  <2>1. pc'[p] = "idle"
    BY <1>1, <1>6, Placed DEF Crash
  <2>2. WayBack(p)'
    BY <2>1 DEF WayBack, Applying, Building
  <2> QED
    BY <1>2, <2>2
<1>7. CASE (\E v \in Versions : Publish(v)) \/ UNCHANGED vars
  <2>1. UNCHANGED <<diskVars, localVars, before>>
    BY <1>7 DEF Publish, vars
  <2>2. \A p \in Updaters : WayBack(p)'
    BY <1>1, <2>1 DEF WayBack, RollsBack, diskVars, localVars
  <2> QED
    BY <1>1, <2>2 DEF WayBackInv
<1> QED
  BY <1>3, <1>4, <1>5, <1>6, <1>7 DEF Next

\* A failed apply is back at the release it found, with the new one as previous,
\* and a failed rollback has swapped twice, as long as helpers do not overlap.
THEOREM FailuresAreUndone == OneHelper => (Spec => []FailureRestoresLinks)
<1> SUFFICES ASSUME OneHelper PROVE Spec => []FailureRestoresLinks
  OBVIOUS
<1>1. Init => WayBackInv
  <2> SUFFICES ASSUME Init PROVE WayBackInv
    OBVIOUS
  <2>1. \A p \in Updaters : pc[p] = "idle"
    BY DEF Init
  <2> QED
    BY <2>1, TypeInit DEF WayBackInv, WayBack, Applying, Building
<1>2. WayBackInv /\ [Next]_vars => WayBackInv'
  BY WayBackNext
<1>3. WayBackInv => FailureRestoresLinks
  BY DEF WayBackInv, WayBack, RollsBack, FailureRestoresLinks
<1> QED
  BY <1>1, <1>2, <1>3, PTL DEF Spec

=============================================================================
