---------------------------- MODULE MessageDelivery ----------------------------
(***************************************************************************)
(* What message delivery promises the writer of a message, whatever fails  *)
(* in between: the engine receives a message at most once and never out of *)
(* turn, a message shown as delivered was received, and one shown as       *)
(* failed was not and never will be, so that sending it again is safe.     *)
(***************************************************************************)
EXTENDS Naturals, Sequences

CONSTANT MessageCount   \* bound: messages of a behaviour

Messages == 1 .. MessageCount

VARIABLES
  shown,      \* message -> what its writer is shown
  received    \* the messages the engine took, in the order it took them

vars == <<shown, received>>

isReceived(m) == \E i \in DOMAIN received : received[i] = m
inTurn(m) == \A earlier \in 1 .. m - 1 : isReceived(earlier) \/ shown[earlier] = "failed"

Init == shown = [m \in Messages |-> "unsent"] /\ received = << >>

Submit(m) ==
  /\ shown[m] = "unsent" /\ \A earlier \in 1 .. m - 1 : shown[earlier] # "unsent"
  /\ shown' = [shown EXCEPT ![m] = "open"]
  /\ UNCHANGED received

Receive(m) ==
  /\ shown[m] = "open" /\ ~isReceived(m) /\ inTurn(m)
  /\ received' = Append(received, m)
  /\ UNCHANGED shown

Confirm(m) ==
  /\ shown[m] = "open" /\ isReceived(m)
  /\ shown' = [shown EXCEPT ![m] = "delivered"]
  /\ UNCHANGED received

GiveUp(m) ==
  /\ shown[m] = "open" /\ ~isReceived(m)
  /\ shown' = [shown EXCEPT ![m] = "failed"]
  /\ UNCHANGED received

Next == \E m \in Messages : Submit(m) \/ Receive(m) \/ Confirm(m) \/ GiveUp(m)

Spec == Init /\ [][Next]_vars
=============================================================================
