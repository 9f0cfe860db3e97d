--------------------------- MODULE DeliveryPromise ---------------------------
(***************************************************************************)
(* What a publisher may rely on once enqueue() has returned, whatever the  *)
(* worker, its transports and its restarts do: a notice is at some point   *)
(* queued, is never forgotten, is delivered at least once before it counts *)
(* as sent, is not delivered any more afterwards, and can be withdrawn     *)
(* only while it is still queued.                                          *)
(***************************************************************************)
EXTENDS Naturals

CONSTANT Notices

VARIABLES status, delivered

vars == <<status, delivered>>

Init ==
  /\ status = [n \in Notices |-> "absent"]
  /\ delivered = [n \in Notices |-> 0]

Queue(n) ==
  /\ status[n] = "absent"
  /\ status' = [status EXCEPT ![n] = "pending"]
  /\ UNCHANGED delivered

Withdraw(n) ==
  /\ status[n] = "pending"
  /\ status' = [status EXCEPT ![n] = "suppressed"]
  /\ UNCHANGED delivered

\* A copy may leave while the notice is queued, and one that was already on
\* its way may leave after a withdrawal.
Deliver(n) ==
  /\ status[n] \in {"pending", "suppressed"}
  /\ delivered' = [delivered EXCEPT ![n] = @ + 1]
  /\ UNCHANGED status

Settle(n) ==
  /\ status[n] \in {"pending", "suppressed"}
  /\ delivered[n] > 0
  /\ status' = [status EXCEPT ![n] = "sent"]
  /\ UNCHANGED delivered

Next == \E n \in Notices : Queue(n) \/ Withdraw(n) \/ Deliver(n) \/ Settle(n)

Spec == Init /\ [][Next]_vars

=============================================================================
