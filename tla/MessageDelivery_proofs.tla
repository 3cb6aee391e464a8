------------------------ MODULE MessageDelivery_proofs ------------------------
(***************************************************************************)
(* Machine-checked: what the steps MessageDelivery allows amount to, for   *)
(* every number of messages.                                               *)
(***************************************************************************)
EXTENDS MessageDelivery, TLAPS

Typed ==
  /\ shown \in [Messages -> {"unsent", "open", "delivered", "failed"}]
  /\ received \in Seq(Messages)

(* A writer can rely on what it is shown.                                   *)
ShownIsTrue ==
  \A m \in Messages :
    /\ shown[m] = "delivered" => isReceived(m)
    /\ shown[m] \in {"unsent", "failed"} => ~isReceived(m)

(* The engine takes the messages in the order they were written, none twice. *)
InOrder == \A i, j \in DOMAIN received : i < j => received[i] < received[j]

Complete == \A m \in Messages : isReceived(m) => inTurn(m)

Inv == Typed /\ ShownIsTrue /\ InOrder /\ Complete

LEMMA ReceiveKeeps ==
  ASSUME MessageCount \in Nat, Inv, NEW m \in Messages, Receive(m)
  PROVE  Inv'
  <1> USE DEF Inv, Receive
  <1>1. received \in Seq(Messages) /\ received' = Append(received, m) /\ shown' = shown
    BY DEF Typed
  <1>2. \A n \in Messages : isReceived(n)' <=> isReceived(n) \/ n = m
    <2>1. \A i \in DOMAIN received : i \in DOMAIN received' /\ received'[i] = received[i]
      BY <1>1
    <2>2. \A i \in DOMAIN received' : i \in DOMAIN received \/ received'[i] = m
      BY <1>1
    <2>3. Len(received) + 1 \in DOMAIN received' /\ received'[Len(received) + 1] = m
      BY <1>1
    <2> QED
      BY <2>1, <2>2, <2>3 DEF isReceived
  <1>3. Typed'
    BY <1>1 DEF Typed
  <1>4. ShownIsTrue'
    BY <1>1, <1>2 DEF ShownIsTrue
  <1>5. \A n \in Messages : 1 .. n - 1 \subseteq Messages
    BY DEF Messages
  <1>6. Complete'
    BY <1>1, <1>2, <1>5 DEF Complete, inTurn
  <1>7. ASSUME NEW i \in DOMAIN received
        PROVE  received[i] < m
    <2>1. received[i] \in Messages /\ isReceived(received[i]) /\ received[i] # m
      BY <1>1 DEF isReceived
    <2>2. ~(m < received[i])
      <3>1. ASSUME m < received[i]
            PROVE  FALSE
        <4>1. m \in 1 .. received[i] - 1
          BY <2>1, <3>1 DEF Messages
        <4>2. isReceived(m) \/ shown[m] = "failed"
          BY <2>1, <4>1 DEF Complete, inTurn
        <4> QED
          BY <4>2
      <3> QED
        BY <3>1
    <2> QED
      BY <2>1, <2>2 DEF Messages
  <1>8. InOrder'
    <2>1. \A i \in DOMAIN received' :
            IF i \in DOMAIN received THEN received'[i] = received[i]
                                     ELSE received'[i] = m /\ i = Len(received) + 1
      BY <1>1
    <2>2. \A i \in DOMAIN received : i < Len(received) + 1
      BY <1>1
    <2>3. ASSUME NEW i \in DOMAIN received', NEW j \in DOMAIN received', i < j
          PROVE  received'[i] < received'[j]
      <3>1. i \in DOMAIN received
        BY <1>1, <2>3
      <3> QED
        BY <1>7, <2>1, <2>3, <3>1 DEF InOrder
    <2> QED
      BY <2>3 DEF InOrder
  <1> QED
    BY <1>3, <1>4, <1>6, <1>8

LEMMA ShownKeeps ==
  ASSUME MessageCount \in Nat, Inv, NEW m \in Messages, Submit(m) \/ Confirm(m) \/ GiveUp(m)
  PROVE  Inv'
  <1> USE DEF Inv, Submit, Confirm, GiveUp
  <1>1. received' = received /\ \A n \in Messages : isReceived(n)' <=> isReceived(n)
    BY DEF isReceived
  <1>2. \A n \in Messages : n # m => shown'[n] = shown[n]
    BY DEF Typed
  <1>3. \/ shown[m] = "unsent" /\ shown'[m] = "open"
        \/ shown[m] = "open" /\ shown'[m] = "delivered" /\ isReceived(m)
        \/ shown[m] = "open" /\ shown'[m] = "failed" /\ ~isReceived(m)
    BY DEF Typed
  <1>4. Typed' /\ InOrder'
    BY <1>1 DEF Typed, InOrder
  <1>5. ShownIsTrue'
    BY <1>1, <1>2, <1>3 DEF ShownIsTrue
  <1>6. \A n \in Messages : 1 .. n - 1 \subseteq Messages
    BY DEF Messages
  <1>7. \A n \in Messages : shown[n] = "failed" => shown'[n] = "failed"
    BY <1>2, <1>3
  <1>8. Complete'
    BY <1>1, <1>6, <1>7 DEF Complete, inTurn
  <1> QED
    BY <1>4, <1>5, <1>8

(* No message is received twice or before an earlier one that is received   *)
(* too, one shown delivered was received, and one shown failed was not.     *)
THEOREM PromisesHold ==
  ASSUME MessageCount \in Nat
  PROVE  Spec => [](ShownIsTrue /\ InOrder)
  <1>1. Init => Inv
    BY DEF Init, Inv, Typed, ShownIsTrue, InOrder, Complete, isReceived
  <1>2. Inv /\ [Next]_vars => Inv'
    <2>1. ASSUME Inv, UNCHANGED vars
          PROVE  Inv'
      BY <2>1 DEF Inv, vars, Typed, ShownIsTrue, InOrder, Complete, inTurn, isReceived
    <2> QED
      BY <2>1, ReceiveKeeps, ShownKeeps DEF Next
  <1>3. Inv => ShownIsTrue /\ InOrder
    BY DEF Inv
  <1> QED
    BY <1>1, <1>2, <1>3, PTL DEF Spec
=============================================================================
