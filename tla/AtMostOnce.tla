----------------------------- MODULE AtMostOnce -----------------------------
(* What the message bus and the agent loop promise a channel: a message it     *)
(* hands over is turned away or accepted, an accepted one ends at most once,   *)
(* in one way for good, and nothing that was turned away is ever handled.      *)
CONSTANTS
  Messages,
  Outcomes  \* the ways in which the handling of a message ends
VARIABLE status

Init == status = [m \in Messages |-> "new"]

TurnAway(m) ==
  /\ status[m] = "new"
  /\ status' = [status EXCEPT ![m] = "turned away"]

Accept(m) ==
  /\ status[m] = "new"
  /\ status' = [status EXCEPT ![m] = "accepted"]

(* A /stop ends several messages in one step.                                  *)
End(M) ==
  /\ \A m \in M : status[m] = "accepted" /\ status'[m] \in Outcomes
  /\ status' = [m \in Messages |-> IF m \in M THEN status'[m] ELSE status[m]]

Next ==
  \/ \E m \in Messages : TurnAway(m) \/ Accept(m)
  \/ \E M \in SUBSET Messages : End(M)

Spec == Init /\ [][Next]_status
=============================================================================
