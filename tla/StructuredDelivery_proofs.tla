------------------------ MODULE StructuredDelivery_proofs ------------------------
(***************************************************************************)
(* Machine-checked theorems about StructuredDelivery, for every number of  *)
(* messages and of failures: its types, that an interrupt hits only the    *)
(* turn it was meant for, that at most one delivery is uncertain, and that *)
(* delivery implements MessageDelivery.                                    *)
(***************************************************************************)
EXTENDS StructuredDelivery, WellFoundedInduction, TLAPS

took(m) == \E i \in DOMAIN transcript : transcript[i] = m
closed(m) == receipt[m] \in {"delivered", "failed"}

(* Messages are submitted in their order, and what is recorded for the      *)
(* engine was the oldest message still open.                                *)
Submitted ==
  \A m, n \in Messages : n < m /\ receipt[n] = "unsent" => receipt[m] = "unsent"

Recorded ==
  /\ \A m \in Messages :
       /\ ledger[m] # "none" =>
            /\ receipt[m] \in {"queued", "delivering", "delivered"}
            /\ \A n \in Messages : n < m => closed(n)
       /\ receipt[m] = "delivered" => ledger[m] = "delivered"
       /\ m \in Unreadable => ledger[m] = "none"
  /\ \A i \in DOMAIN turnQueue : ledger[turnQueue[i]] # "none"

(* A message is fenced to an earlier one's turn, and what it interrupted is *)
(* over when it is recorded.                                                *)
Fenced ==
  \A m \in Messages :
    /\ fence[m] = Undefined => receipt[m] # "delivering" /\ ledger[m] = "none"
    /\ fence[m] \in Messages => fence[m] < m
    /\ policy[m] = "interrupt-active" /\ ledger[m] # "none" =>
         \A i \in DOMAIN turnQueue : turnQueue[i] >= m

(* The transcript has what the ledger says was delivered, and tells of an   *)
(* uncertain delivery whether it was taken.                                 *)
Taken ==
  \A m \in Messages :
    /\ ledger[m] = "delivered" => took(m)
    /\ took(m) => ledger[m] # "none"
    /\ ledger[m] = "queued" =>
         queuedAt[m] <= Len(transcript) /\ (took(m) <=> Len(transcript) > queuedAt[m])

(* The one message on its way to the engine, or echoed and not confirmed.   *)
echo(i) == stdout[i] = "user"
uncertain(m) == ledger[m] = "queued" /\ took(m)
Piped ==
  /\ pipe # << >> =>
       Len(pipe) = 1 /\ ledger[pipe[1]] = "queued" /\ ~took(pipe[1])
  /\ host = "up" /\ (pipe # << >> \/ \E m \in Messages : uncertain(m)) => drain.pc = "sending"
Echoed ==
  /\ \A i, j \in DOMAIN stdout : echo(i) /\ echo(j) => i = j
  /\ (\E i \in DOMAIN stdout : echo(i)) => pipe = << >> /\ \E m \in Messages : uncertain(m)
  /\ stdout # << >> => host = "up"
  /\ child = "attached" => host = "up"

(* The drain works through the oldest open messages in their order.         *)
Working == {"begin", "begun", "acking", "acked", "sending"} \cup Closing
Paged ==
  /\ drain.page \subseteq pending
  /\ \A m \in drain.page, n \in pending : n \in drain.page \/ m < n
  /\ drain.pc \in {"off", "fetch"} => drain.page = {}
  /\ drain.pc \in Working => drain.page # {}
Drained ==
  /\ drain.live => host = "up"
  /\ drain.pc = "sending" => drain.live /\ ledger[current] = "queued"
  /\ drain.pc = "settle" => ledger[current] = "delivered"
  /\ drain.pc = "fail" => ledger[current] = "none"
  /\ drain.pc = "begin" =>
       /\ fence[current] \in {Undefined, drain.fence}
       /\ drain.fence \in Messages => drain.fence < current
  /\ drain.pc \in {"begun", "acking", "acked"} => fence[current] = drain.fence
  /\ drain.pc = "acking" => drain.interrupts
  /\ drain.interrupts /\ drain.pc \in {"begin", "begun", "acking"} =>
       drain.fence = drain.turn /\ drain.turn # Null /\ ledger[current] = "none"

IInv ==
  TypeOK /\ Submitted /\ Recorded /\ Fenced /\ Taken /\ Piped /\ Echoed /\ Paged /\ Drained

---------------------------------------------------------------------------
(* A nonempty set of messages has one least member, which `first' picks.    *)
LEMMA Least ==
  ASSUME NEW S \in SUBSET Messages, S # {}
  PROVE  first(S) \in S /\ \A other \in S : first(S) <= other
  <1>1. IsWellFoundedOn(OpToRel(<, Nat), Nat)
    BY NatLessThanWellFounded
  <1>2. S \subseteq Nat
    BY DeliveryAssumption DEF Messages
  <1>3. PICK x \in S : \A y \in S : ~(<<y, x>> \in OpToRel(<, Nat))
    <2> HIDE DEF OpToRel
    <2> QED
      BY <1>1, <1>2, WFMin
  <1>4. ASSUME NEW y \in S
        PROVE  x <= y
    <2>1. y < x => <<y, x>> \in OpToRel(<, Nat)
      <3>1. <<y, x>> \in Nat \X Nat
        BY <1>2
      <3>2. OpToRel(<, Nat) = {pair \in Nat \X Nat : pair[1] < pair[2]}
        BY Zenon DEF OpToRel
      <3>3. <<y, x>>[1] = y /\ <<y, x>>[2] = x
        OBVIOUS
      <3>4. ASSUME y < x
            PROVE  <<y, x>> \in {pair \in Nat \X Nat : pair[1] < pair[2]}
        BY <3>1, <3>3, <3>4
      <3> QED
        BY <3>2, <3>4
    <2>2. ~(y < x)
      BY <1>3, <2>1
    <2> QED
      BY <1>2, <2>2
  <1> QED
    BY <1>4 DEF first

LEMMA CurrentIsOldest ==
  ASSUME TypeOK, Submitted, Paged, drain.page # {}
  PROVE  /\ current \in drain.page /\ current \in Messages /\ open(current)
         /\ \A n \in drain.page : current <= n
         /\ \A n \in Messages : n < current => closed(n)
  <1>1. drain.page \in SUBSET Messages
    BY DEF TypeOK, DrainState
  <1>2. current \in drain.page /\ \A n \in drain.page : current <= n
    BY <1>1, Least DEF current
  <1>3. current \in Messages /\ open(current)
    BY <1>1, <1>2 DEF Paged, pending
  <1>4. ASSUME NEW n \in Messages, n < current
        PROVE  closed(n)
    <2>1. n \notin drain.page /\ ~(current < n)
      BY <1>2, <1>3, <1>4, DeliveryAssumption DEF Messages
    <2>2. ~open(n)
      BY <1>2, <2>1 DEF Paged, pending
    <2>3. receipt[n] # "unsent"
      BY <1>3, <1>4 DEF Submitted, open
    <2> QED
      BY <2>2, <2>3 DEF TypeOK, open, closed
  <1> QED
    BY <1>2, <1>3, <1>4

LEMMA OneUncertain ==
  ASSUME TypeOK, Recorded, NEW m \in Messages, NEW n \in Messages,
         ledger[m] = "queued", open(n)
  PROVE  m <= n
  <1>1. ~(n < m)
    BY DEF Recorded, open, closed
  <1> QED
    BY <1>1, DeliveryAssumption DEF Messages

LEMMA OnlyOneQueued ==
  ASSUME TypeOK, Recorded, NEW m \in Messages, NEW n \in Messages,
         ledger[m] = "queued", ledger[n] = "queued"
  PROVE  m = n /\ open(m)
  <1>1. open(m) /\ open(n)
    BY DEF Recorded, open
  <1> QED
    BY <1>1, OneUncertain, DeliveryAssumption DEF Messages

---------------------------------------------------------------------------
(* The parts that steps of the drain and of the controller cannot disturb.  *)
LEMMA NothingRecorded ==
  ASSUME Submitted, Recorded, Fenced, Taken, UNCHANGED <<journal, files, turnQueue>>
  PROVE  Submitted' /\ Recorded' /\ Fenced' /\ Taken'
  BY DEF Submitted, Recorded, Fenced, Taken, took, closed, journal, files

LEMMA NothingPiped ==
  ASSUME Piped, Echoed, UNCHANGED <<files, child, pipe, stdout, host>>,
         drain.pc = "sending" => drain'.pc = "sending"
  PROVE  Piped' /\ Echoed'
  BY DEF Piped, Echoed, echo, uncertain, took, files

LEMMA DrainKept ==
  ASSUME Paged, Drained, UNCHANGED <<receipt, fence, ledger, host, drain>>
  PROVE  Paged' /\ Drained'
  BY DEF Paged, Drained, pending, open, current

LEMMA IdleDrain ==
  ASSUME drain' = Idle \/ endPass
  PROVE  Paged' /\ Drained'
  BY DEF Idle, endPass, Paged, Drained, Working, Closing

LEMMA DrainTyped ==
  /\ Idle \in DrainState
  /\ drain \in DrainState => \A pc \in Pc : [drain EXCEPT !.pc = pc] \in DrainState
  /\ [Idle EXCEPT !.pc = "fetch"] \in DrainState
  <1>1. Null \in Turn
    BY DEF Turn
  <1> QED
    BY <1>1 DEF DrainState, Idle, Pc

LEMMA EndPassTyped ==
  ASSUME endPass, rerun \in BOOLEAN
  PROVE  drain' \in DrainState /\ rerun' \in BOOLEAN
  BY DrainTyped DEF endPass

LEMMA NoneTyped == << >> \in Seq(Messages) /\ << >> \in Seq(HostState)
  OBVIOUS

LEMMA NotifyTyped ==
  ASSUME NEW states \in Seq(HostState), notices \in Seq(HostState), notify(states)
  PROVE  notices' \in Seq(HostState)
  BY DEF notify

LEMMA ActiveTyped ==
  ASSUME NEW turns \in Seq(Messages)
  PROVE  activeTurn(turns) \in Turn
  BY DEF activeTurn, Turn

LEMMA FaultTyped ==
  ASSUME faults \in 0 .. MaxFaults, fault \/ UNCHANGED faults
  PROVE  faults' \in 0 .. MaxFaults
  BY DeliveryAssumption DEF fault

LEMMA PublishNoticeKeeps ==
  ASSUME IInv, PublishNotice \/ PublicationFails
  PROVE  IInv'
  <1> USE DEF IInv, PublishNotice, PublicationFails, engine, broker, queue
  <1>1. TypeOK'
    <2>1. notices' \in Seq(HostState) /\ seen' \in HostState
      <3>1. notices \in Seq(HostState) /\ notices # << >> /\ seen \in HostState
        BY DEF TypeOK
      <3>2. Head(notices) \in HostState /\ Tail(notices) \in Seq(HostState)
        BY <3>1
      <3> QED
        BY <3>1, <3>2
    <2>2. faults' \in 0 .. MaxFaults
      BY FaultTyped DEF TypeOK
    <2>3. timer' \in BOOLEAN
      BY DEF TypeOK
    <2> QED
      BY <2>1, <2>2, <2>3 DEF TypeOK, journal, files
  <1>2. Submitted' /\ Recorded' /\ Fenced' /\ Taken'
    BY NothingRecorded
  <1>3. Piped' /\ Echoed' /\ Paged' /\ Drained'
    BY NothingPiped, DrainKept DEF journal, files
  <1> QED
    BY <1>1, <1>2, <1>3

LEMMA TimerFiresKeeps ==
  ASSUME IInv, TimerFires
  PROVE  IInv'
  <1> USE DEF IInv, TimerFires, engine, broker
  <1>1. TypeOK'
    BY DrainTyped DEF TypeOK, journal, files
  <1>2. Submitted' /\ Recorded' /\ Fenced' /\ Taken'
    BY NothingRecorded
  <1>3. Piped' /\ Echoed'
    BY NothingPiped DEF Idle
  <1>4. Paged' /\ Drained'
    BY DrainKept DEF journal, files, Idle, Paged, Drained, Working, Closing
  <1> QED
    BY <1>1, <1>2, <1>3, <1>4

LEMMA FetchEffectsKeeps ==
  ASSUME IInv, FetchEffects
  PROVE  IInv'
  <1> USE DEF IInv, FetchEffects, engine, broker
  <1>1. TypeOK'
    <2>1. pending \in SUBSET Messages
      BY DEF pending
    <2>2. drain' \in DrainState /\ rerun' \in BOOLEAN
      <3>1. CASE pending = {}
        BY <3>1, EndPassTyped DEF TypeOK
      <3>2. CASE pending # {}
        BY <2>1, <3>2 DEF TypeOK, DrainState, Pc
      <3> QED
        BY <3>1, <3>2
    <2> QED
      BY <2>2 DEF TypeOK, journal, files, controller
  <1>2. Submitted' /\ Recorded' /\ Fenced' /\ Taken'
    BY NothingRecorded
  <1>3. Piped' /\ Echoed'
    BY NothingPiped
  <1>4. Paged' /\ Drained'
    <2>1. CASE pending = {}
      BY <2>1, IdleDrain
    <2>2. CASE pending # {}
      <3>1. drain' = [drain EXCEPT !.pc = "next", !.page = pending] /\ pending' = pending
        BY <2>2 DEF journal, pending, open
      <3>2. drain'.pc = "next" /\ drain'.page = pending /\ drain'.live = drain.live
        BY <3>1 DEF TypeOK, DrainState
      <3> QED
        BY <2>2, <3>1, <3>2 DEF Paged, Drained, Working, Closing
    <2> QED
      BY <2>1, <2>2
  <1> QED
    BY <1>1, <1>2, <1>3, <1>4

LEMMA RequestFailsKeeps ==
  ASSUME IInv, RequestFails
  PROVE  IInv'
  <1> USE DEF IInv, RequestFails, drainThrows, engine, broker
  <1>1. TypeOK'
    BY DrainTyped, FaultTyped DEF TypeOK, journal, files
  <1>2. Submitted' /\ Recorded' /\ Fenced' /\ Taken'
    BY NothingRecorded
  <1>3. Piped' /\ Echoed'
    BY NothingPiped DEF Closing
  <1>4. Paged' /\ Drained'
    BY IdleDrain
  <1> QED
    BY <1>1, <1>2, <1>3, <1>4

LEMMA NextEffectKeeps ==
  ASSUME IInv, NextEffect
  PROVE  IInv'
  <1> USE DEF IInv, NextEffect, engine, broker
  <1> DEFINE begins == drain' = [drain EXCEPT !.pc = "begin", !.turn = active, !.live = TRUE,
                                              !.fence = deliveryFence(current),
                                              !.interrupts = mayInterrupt(current)]
             proceeds == drain.page # {} /\ host = "up" /\ ready(current) /\ begins
             refused == drain.page # {} /\ drain' = [drain EXCEPT !.pc = "requeue"]
  <1>1. proceeds \/ refused \/ endPass
    BY DEF TypeOK
  <1>2. active \in Turn
    BY ActiveTyped DEF active, TypeOK
  <1>3. ASSUME drain.page # {}
        PROVE  /\ current \in Messages /\ open(current)
               /\ fence[current] # Undefined => deliveryFence(current) = fence[current]
               /\ deliveryFence(current) \in Turn
    <2>1. current \in Messages /\ open(current)
      BY <1>3, CurrentIsOldest
    <2>2. fence[current] \in Turn \cup {Undefined} /\ Null \in Turn
      BY <2>1 DEF TypeOK, Fence, Turn
    <2> QED
      BY <1>2, <2>1, <2>2 DEF deliveryFence
  <1>4. drain' \in DrainState
    <2>1. CASE proceeds
      BY <1>2, <1>3, <2>1 DEF TypeOK, DrainState, Pc, mayInterrupt
    <2>2. CASE refused
      BY <2>2, DrainTyped DEF TypeOK, Pc, Closing
    <2>3. CASE endPass
      BY <2>3, EndPassTyped DEF TypeOK
    <2> QED
      BY <1>1, <2>1, <2>2, <2>3
  <1>5. TypeOK'
    BY <1>4, EndPassTyped DEF TypeOK, journal, files, controller
  <1>6. Submitted' /\ Recorded' /\ Fenced' /\ Taken'
    BY NothingRecorded
  <1>7. Piped' /\ Echoed'
    BY NothingPiped
  <1>8. CASE proceeds
    <2>1. /\ drain'.page = drain.page /\ drain'.pc = "begin" /\ drain'.turn = active
          /\ drain'.fence = deliveryFence(current) /\ drain'.live = TRUE
          /\ drain'.interrupts = mayInterrupt(current) /\ current' = current
      BY <1>8 DEF TypeOK, DrainState, current
    <2>2. Paged'
      BY <1>8, <2>1 DEF Paged, Working, pending, open, journal
    <2>3. ASSUME active \in Messages
          PROVE  ledger[active] # "none" /\ turnQueue # << >> /\ active = turnQueue[1]
      BY <2>3, DeliveryAssumption DEF active, activeTurn, Recorded, TypeOK, Messages
    <2>4. ASSUME deliveryFence(current) \in Messages
          PROVE  deliveryFence(current) < current
      <3>1. CASE fence[current] # Undefined
        BY <1>3, <1>8, <2>4, <3>1 DEF Fenced
      <3>2. CASE fence[current] = Undefined
        <4>1. ledger[current] = "none" /\ current \in Messages /\ open(current)
          BY <1>3, <1>8, <3>2 DEF Fenced
        <4>2. deliveryFence(current) = active
          BY <2>4, <3>2, DeliveryAssumption DEF deliveryFence, Messages
        <4>3. ~(current < active)
          BY <2>3, <2>4, <4>1, <4>2 DEF Recorded, closed, open
        <4>4. current # active
          BY <2>3, <2>4, <4>1, <4>2
        <4> QED
          BY <2>4, <4>1, <4>2, <4>3, <4>4, DeliveryAssumption DEF Messages
      <3> QED
        BY <3>1, <3>2
    <2>5. ASSUME mayInterrupt(current)
          PROVE  /\ deliveryFence(current) = active /\ active # Null
                 /\ ledger[current] = "none"
      <3>1. active # Null /\ active \in Messages /\ policy[current] = "interrupt-active"
        BY <1>2, <2>5 DEF mayInterrupt, Turn
      <3>2. deliveryFence(current) = active
        BY <1>3, <1>8, <2>5 DEF mayInterrupt, deliveryFence
      <3>3. active < current
        BY <2>4, <3>1, <3>2
      <3>4. ASSUME ledger[current] # "none"
            PROVE  FALSE
        <4>1. \A i \in DOMAIN turnQueue : turnQueue[i] >= current
          BY <1>3, <1>8, <3>1, <3>4 DEF Fenced
        <4>2. turnQueue[1] >= current
          BY <2>3, <3>1, <4>1 DEF TypeOK
        <4> QED
          BY <1>3, <1>8, <2>3, <3>1, <3>3, <4>2, DeliveryAssumption DEF Messages
      <3> QED
        BY <3>1, <3>2, <3>4
    <2>6. fence[current] \in {Undefined, deliveryFence(current)}
      BY <1>3, <1>8
    <2>7. Drained'
      BY <1>8, <2>1, <2>4, <2>5, <2>6 DEF Drained, journal, files, Closing
    <2> QED
      BY <1>5, <1>6, <1>7, <2>2, <2>7
  <1>9. CASE refused
    <2>1. drain'.page = drain.page /\ drain'.pc = "requeue" /\ drain'.live = drain.live
      BY <1>9 DEF TypeOK, DrainState
    <2>2. Paged' /\ Drained'
      BY <1>9, <2>1 DEF Paged, Drained, Working, Closing, pending, open, journal, current
    <2> QED
      BY <1>5, <1>6, <1>7, <2>2
  <1>10. CASE endPass
    BY <1>5, <1>6, <1>7, <1>10, IdleDrain
  <1> QED
    BY <1>1, <1>8, <1>9, <1>10

---------------------------------------------------------------------------
(* What the transitions of the journal's record of the current message do.  *)
LEMMA PcMoved ==
  ASSUME drain \in DrainState, NEW pc \in Pc, drain' = [drain EXCEPT !.pc = pc]
  PROVE  /\ drain' \in DrainState /\ drain'.pc = pc /\ drain'.page = drain.page
         /\ drain'.turn = drain.turn /\ drain'.fence = drain.fence
         /\ drain'.interrupts = drain.interrupts /\ drain'.live = drain.live
         /\ current' = current
  BY DEF DrainState, current

LEMMA CurrentIsOpen ==
  ASSUME IInv, drain.pc \in Working
  PROVE  /\ current \in drain.page /\ current \in Messages /\ open(current)
         /\ \A n \in drain.page : current <= n
         /\ \A n \in Messages : n < current => closed(n)
  BY CurrentIsOldest DEF IInv, Paged

LEMMA BegunJournal ==
  ASSUME IInv, drain.pc = "begin",
         receipt' = [receipt EXCEPT ![current] = "delivering"],
         fence' = [fence EXCEPT ![current] = IF receipt[current] = "queued"
                                               THEN drain.fence ELSE @],
         UNCHANGED <<policy, files, turnQueue>>
  PROVE  /\ receipt' \in [Messages -> {"unsent", "queued", "delivering", "delivered", "failed"}]
         /\ fence' \in [Messages -> Fence] /\ fence'[current] = drain.fence
         /\ pending' = pending
         /\ Submitted' /\ Recorded' /\ Fenced' /\ Taken'
  <1> USE DEF IInv
  <1>1. current \in Messages /\ open(current)
    BY CurrentIsOpen DEF Working
  <1>2. /\ fence[current] \in {Undefined, drain.fence} /\ drain.fence \in Turn
        /\ drain.fence \in Messages => drain.fence < current
    BY DEF Drained, TypeOK, DrainState
  <1>3. drain.fence # Undefined
    BY <1>2, DeliveryAssumption DEF Turn, Messages
  <1>4. fence' = [fence EXCEPT ![current] = drain.fence]
    <2>1. receipt[current] # "queued" => fence[current] = drain.fence
      BY <1>1, <1>2 DEF Fenced, open
    <2> QED
      BY <1>1, <2>1 DEF TypeOK
  <1>5. /\ receipt' \in [Messages -> {"unsent", "queued", "delivering", "delivered", "failed"}]
        /\ fence' \in [Messages -> Fence] /\ fence'[current] = drain.fence
    BY <1>1, <1>2, <1>4 DEF TypeOK, Fence
  <1>6. /\ pending' = pending
        /\ \A m \in Messages : (closed(m)' <=> closed(m)) /\ (receipt'[m] = "unsent" <=> receipt[m] = "unsent")
    BY <1>1 DEF TypeOK, pending, open, closed
  <1>7. Submitted'
    BY <1>6 DEF Submitted
  <1>8. Recorded'
    BY <1>1, <1>6 DEF Recorded, TypeOK, files, open
  <1>9. Fenced'
    BY <1>1, <1>2, <1>3, <1>4 DEF Fenced, TypeOK, files
  <1>10. Taken'
    BY DEF Taken, took, files
  <1> QED
    BY <1>5, <1>6, <1>7, <1>8, <1>9, <1>10

LEMMA ReportedJournal ==
  ASSUME IInv, drain.pc \in Closing, NEW status \in {"queued", "delivered", "failed"},
         report(status), UNCHANGED <<files, turnQueue>>,
         status = "delivered" => ledger[current] = "delivered",
         status = "failed" => ledger[current] = "none"
  PROVE  /\ receipt' \in [Messages -> {"unsent", "queued", "delivering", "delivered", "failed"}]
         /\ pending' = IF status = "queued" THEN pending ELSE pending \ {current}
         /\ Submitted' /\ Recorded' /\ Fenced' /\ Taken'
  <1> USE DEF IInv, report
  <1>1. current \in Messages /\ open(current)
    BY CurrentIsOpen DEF Working
  <1>2. receipt' \in [Messages -> {"unsent", "queued", "delivering", "delivered", "failed"}]
    BY <1>1 DEF TypeOK
  <1>3. /\ pending' = IF status = "queued" THEN pending ELSE pending \ {current}
        /\ \A m \in Messages : (closed(m) => closed(m)') /\ (receipt'[m] = "unsent" <=> receipt[m] = "unsent")
    BY <1>1 DEF TypeOK, pending, open, closed
  <1>4. Submitted'
    BY <1>3 DEF Submitted
  <1>5. Recorded'
    BY <1>1, <1>3 DEF Recorded, TypeOK, files, open
  <1>6. Fenced'
    BY <1>1 DEF Fenced, TypeOK, files
  <1>7. Taken'
    BY DEF Taken, took, files
  <1> QED
    BY <1>2, <1>3, <1>4, <1>5, <1>6, <1>7

LEMMA BeginDeliveryKeeps ==
  ASSUME IInv, BeginDelivery
  PROVE  IInv'
  <1> USE DEF IInv, BeginDelivery, engine, broker
  <1>1. CASE receipt[current] = "queued" /\ fence[current] \notin {Undefined, drain.fence}
    BY <1>1 DEF Drained
  <1>2. CASE ~(receipt[current] = "queued" /\ fence[current] \notin {Undefined, drain.fence})
    <2>1. /\ receipt' = [receipt EXCEPT ![current] = "delivering"]
          /\ fence' = [fence EXCEPT ![current] = IF receipt[current] = "queued"
                                                   THEN drain.fence ELSE @]
          /\ drain' = [drain EXCEPT !.pc = "begun"]
          /\ UNCHANGED <<policy, rerun, controller>>
      BY <1>2
    <2>2. /\ drain' \in DrainState /\ drain'.pc = "begun" /\ drain'.page = drain.page
          /\ drain'.turn = drain.turn /\ drain'.fence = drain.fence
          /\ drain'.interrupts = drain.interrupts /\ drain'.live = drain.live
          /\ current' = current
      BY <2>1, PcMoved DEF TypeOK, Pc
    <2>3. /\ receipt' \in [Messages -> {"unsent", "queued", "delivering", "delivered", "failed"}]
          /\ fence' \in [Messages -> Fence] /\ fence'[current] = drain.fence
          /\ pending' = pending
          /\ Submitted' /\ Recorded' /\ Fenced' /\ Taken'
      BY <2>1, BegunJournal
    <2>4. TypeOK'
      BY <2>1, <2>2, <2>3 DEF TypeOK, files, controller
    <2>5. Piped' /\ Echoed'
      BY <2>2, NothingPiped
    <2>6. Paged' /\ Drained'
      BY <2>2, <2>3 DEF Paged, Drained, Working, Closing, files
    <2> QED
      BY <2>3, <2>4, <2>5, <2>6
  <1> QED
    BY <1>1, <1>2

LEMMA InterruptKeeps ==
  ASSUME IInv, Interrupt
  PROVE  IInv'
  <1> USE DEF IInv, Interrupt, engine, broker
  <1>1. PICK pc \in {"acking", "retry", "requeue"} : drain' = [drain EXCEPT !.pc = pc]
    OBVIOUS
  <1>2. /\ drain' \in DrainState /\ drain'.pc = pc /\ drain'.page = drain.page
        /\ drain'.turn = drain.turn /\ drain'.fence = drain.fence
        /\ drain'.interrupts = drain.interrupts /\ drain'.live = drain.live
        /\ current' = current
    BY <1>1, PcMoved DEF TypeOK, Pc, Closing
  <1>3. TypeOK'
    BY <1>2 DEF TypeOK, journal, files, controller
  <1>4. Submitted' /\ Recorded' /\ Fenced' /\ Taken'
    BY NothingRecorded
  <1>5. Piped' /\ Echoed'
    BY NothingPiped
  <1>6. Paged' /\ Drained'
    BY <1>2 DEF Paged, Drained, Working, Closing, files, journal, pending, open
  <1> QED
    BY <1>3, <1>4, <1>5, <1>6

LEMMA RequeueKeeps ==
  ASSUME IInv, Requeue
  PROVE  IInv'
  <1> USE DEF IInv, Requeue, closePass, engine, broker
  <1>1. /\ receipt' \in [Messages -> {"unsent", "queued", "delivering", "delivered", "failed"}]
        /\ Submitted' /\ Recorded' /\ Fenced' /\ Taken'
    BY ReportedJournal DEF Closing
  <1>2. timer' \in BOOLEAN
    BY DEF TypeOK
  <1>3. TypeOK'
    BY <1>1, <1>2, EndPassTyped DEF TypeOK, files, report
  <1>4. Piped' /\ Echoed'
    BY NothingPiped
  <1>5. Paged' /\ Drained'
    BY IdleDrain
  <1> QED
    BY <1>1, <1>3, <1>4, <1>5

LEMMA SettleKeeps ==
  ASSUME IInv, Settle \/ Fail
  PROVE  IInv'
  <1> USE DEF IInv, Settle, Fail, nextOfPage, engine, broker
  <1>1. PICK status \in {"delivered", "failed"} :
          /\ report(status)
          /\ status = "delivered" => ledger[current] = "delivered"
          /\ status = "failed" => ledger[current] = "none"
    BY DEF Drained
  <1>2. /\ receipt' \in [Messages -> {"unsent", "queued", "delivering", "delivered", "failed"}]
        /\ pending' = pending \ {current}
        /\ Submitted' /\ Recorded' /\ Fenced' /\ Taken'
    BY <1>1, ReportedJournal DEF Closing
  <1>3. /\ drain' \in DrainState /\ drain'.pc = "next" /\ drain'.page = drain.page \ {current}
        /\ drain'.live = FALSE
    <2>1. drain' = [drain EXCEPT !.pc = "next", !.page = drain.page \ {current}, !.live = FALSE]
      OBVIOUS
    <2>2. drain \in DrainState /\ drain.page \ {current} \in SUBSET Messages
      BY DEF TypeOK, DrainState
    <2> HIDE DEF Settle, Fail, nextOfPage, IInv
    <2> QED
      BY <2>1, <2>2 DEF DrainState, Pc
  <1>4. TypeOK'
    BY <1>1, <1>2, <1>3 DEF TypeOK, files, controller, report
  <1>5. Piped' /\ Echoed'
    BY NothingPiped
  <1>6. Paged' /\ Drained'
    BY <1>2, <1>3 DEF Paged, Drained, Working, Closing
  <1> QED
    BY <1>2, <1>4, <1>5, <1>6

LEMMA AnswerLostKeeps ==
  ASSUME IInv, AnswerLost
  PROVE  IInv'
  <1> USE DEF IInv, AnswerLost, drainThrows, engine, broker
  <1>1. CASE drain.pc = "begin"
    <2>1. /\ receipt[current] = "queued"
          /\ receipt' = [receipt EXCEPT ![current] = "delivering"]
          /\ fence' = [fence EXCEPT ![current] = drain.fence]
          /\ UNCHANGED policy
      BY <1>1 DEF Closing
    <2>2. /\ receipt' \in [Messages -> {"unsent", "queued", "delivering", "delivered", "failed"}]
          /\ fence' \in [Messages -> Fence]
          /\ Submitted' /\ Recorded' /\ Fenced' /\ Taken'
      BY <1>1, <2>1, BegunJournal
    <2> QED
      BY <2>1, <2>2, DrainTyped, FaultTyped, NothingPiped, IdleDrain, <1>1 DEF TypeOK, files
  <1>2. CASE drain.pc \in Closing
    <2>1. PICK status \in {"queued", "delivered", "failed"} :
            /\ report(status)
            /\ status = "delivered" => ledger[current] = "delivered"
            /\ status = "failed" => ledger[current] = "none"
      BY <1>2 DEF Drained, Closing
    <2>2. /\ receipt' \in [Messages -> {"unsent", "queued", "delivering", "delivered", "failed"}]
          /\ Submitted' /\ Recorded' /\ Fenced' /\ Taken'
      BY <1>2, <2>1, ReportedJournal
    <2>3. drain.pc # "sending"
      BY <1>2 DEF Closing
    <2> QED
      BY <2>1, <2>2, <2>3, DrainTyped, FaultTyped, NothingPiped, IdleDrain DEF TypeOK, files, report
  <1> QED
    BY <1>1, <1>2

---------------------------------------------------------------------------
(* A message handed to the host: refused, answered from the ledger, or      *)
(* recorded and written to the engine's stdin.                              *)
LEMMA SendKeeps ==
  ASSUME IInv, drain.pc \in {"begun", "acked"}, send(current),
         UNCHANGED <<journal, viewer, rerun, timer, seen, faults>>,
         acknowledged' \in SUBSET Messages
  PROVE  IInv'
  <1> USE DEF IInv
  <1> DEFINE answered == UNCHANGED <<files, engine, broker, notices>>
             becomes(pc) == drain' = [drain EXCEPT !.pc = pc] /\ answered
             written ==
               /\ drain.live /\ ledger[current] # "delivered" /\ current \notin Unreadable
               /\ ledger[current] = "none" => expectedTurn = active
               /\ recordQueued(current)
               /\ pipe' = Append(pipe, current)
               /\ turnQueue' = Append(turnQueue, current)
               /\ notify(<<hostState(host, turnQueue')>>)
               /\ drain' = [drain EXCEPT !.pc = "sending"]
               /\ UNCHANGED <<child, working, stdout, host>>
  <1>1. /\ current \in drain.page /\ current \in Messages /\ open(current)
        /\ \A n \in Messages : n < current => closed(n)
    BY CurrentIsOpen DEF Working
  <1>2. \/ becomes("requeue")
        \/ becomes("fail") /\ ledger[current] = "none"
        \/ becomes("settle") /\ ledger[current] = "delivered"
        \/ written
    <2>1. current \in Unreadable => ledger[current] = "none"
      BY <1>1 DEF Recorded
    <2> QED
      BY <2>1 DEF send
  <1>3. ASSUME NEW pc \in {"requeue", "fail", "settle"}, becomes(pc),
               pc = "fail" => ledger[current] = "none",
               pc = "settle" => ledger[current] = "delivered"
        PROVE  IInv'
    <2>1. /\ drain' \in DrainState /\ drain'.pc = pc /\ drain'.page = drain.page
          /\ drain'.turn = drain.turn /\ drain'.fence = drain.fence
          /\ drain'.interrupts = drain.interrupts /\ drain'.live = drain.live
          /\ current' = current
      BY <1>3, PcMoved DEF TypeOK, Pc, Closing
    <2>2. TypeOK'
      BY <1>3, <2>1 DEF TypeOK, journal, files, engine, broker
    <2>3. Submitted' /\ Recorded' /\ Fenced' /\ Taken'
      BY <1>3, NothingRecorded DEF broker
    <2>4. Piped' /\ Echoed'
      BY <1>3, NothingPiped DEF engine, broker
    <2>5. Paged' /\ Drained'
      BY <1>3, <2>1 DEF Paged, Drained, Working, Closing, files, journal, pending, open, broker
    <2> QED
      BY <2>2, <2>3, <2>4, <2>5
  <1>4. CASE written
    <2>1. /\ drain' \in DrainState /\ drain'.pc = "sending" /\ drain'.page = drain.page
          /\ drain'.interrupts = drain.interrupts /\ drain'.live /\ current' = current
      BY <1>4, PcMoved DEF TypeOK, Pc
    <2>2. /\ ledger' = [ledger EXCEPT ![current] = "queued"]
          /\ queuedAt' = [queuedAt EXCEPT ![current] =
                            IF ledger[current] = "none" THEN Len(transcript) ELSE @]
          /\ transcript' = transcript
          /\ ledger[current] \in {"none", "queued"}
      BY <1>1, <1>4 DEF recordQueued, TypeOK
    <2>3. pipe = << >> /\ ~(\E m \in Messages : uncertain(m)) /\ host = "up"
      BY <1>4 DEF Piped, Drained
    <2>4. ~took(current)
      BY <1>1, <2>2, <2>3 DEF Taken, uncertain
    <2>5. /\ ledger' \in [Messages -> {"none", "queued", "delivered"}]
          /\ queuedAt' \in [Messages -> Nat]
          /\ pipe' \in Seq(Messages) /\ turnQueue' \in Seq(Messages)
      BY <1>1, <1>4, <2>2 DEF TypeOK
    <2>6. notices' \in Seq(HostState)
      <3>1. hostState(host, turnQueue') \in HostState
        BY <2>3, <2>5, ActiveTyped DEF hostState, HostState
      <3>2. <<hostState(host, turnQueue')>> \in Seq(HostState)
        BY <3>1
      <3>3. notify(<<hostState(host, turnQueue')>>) /\ notices \in Seq(HostState)
        BY <1>4 DEF TypeOK
      <3> QED
        BY <3>2, <3>3, NotifyTyped
    <2>7. TypeOK'
      BY <1>4, <2>1, <2>2, <2>5, <2>6 DEF TypeOK, journal
    <2>8. Submitted'
      BY DEF Submitted, journal
    <2>9. Recorded'
      <3>1. \A m \in Messages : receipt'[m] = receipt[m] /\ (closed(m) <=> closed(m)')
        BY DEF journal, closed
      <3>2. \A m \in Messages : m # current => ledger'[m] = ledger[m]
        BY <1>1, <2>2 DEF TypeOK
      <3>3. ledger'[current] = "queued"
        BY <1>1, <2>2 DEF TypeOK
      <3>4. receipt[current] \in {"queued", "delivering"}
        BY <1>1 DEF open
      <3>5. \A i \in DOMAIN turnQueue' : ledger'[turnQueue'[i]] # "none"
        BY <1>1, <1>4, <3>2, <3>3 DEF Recorded, TypeOK
      <3>6. ASSUME NEW m \in Messages
            PROVE  /\ ledger'[m] # "none" =>
                        /\ receipt'[m] \in {"queued", "delivering", "delivered"}
                        /\ \A n \in Messages : n < m => closed(n)'
                   /\ receipt'[m] = "delivered" => ledger'[m] = "delivered"
                   /\ m \in Unreadable => ledger'[m] = "none"
        <4>1. CASE m = current
          BY <1>1, <1>4, <3>1, <3>4, <4>1
        <4>2. CASE m # current
          BY <3>1, <3>2, <4>2 DEF Recorded
        <4> QED
          BY <4>1, <4>2
      <3> QED
        BY <3>5, <3>6 DEF Recorded
    <2>10. fence[current] \in Turn /\ fence[current] # Undefined
      <3>1. fence[current] = drain.fence
        BY DEF Drained
      <3> QED
        BY <3>1, DeliveryAssumption DEF TypeOK, DrainState, Turn, Messages
    <2>11. Fenced'
      <3>1. ASSUME NEW m \in Messages, policy[m] = "interrupt-active", ledger'[m] # "none",
                   NEW i \in DOMAIN turnQueue'
            PROVE  turnQueue'[i] >= m
        <4>1. CASE m = current /\ ledger[current] = "none"
          <5>1. active = Null
            BY <1>4, <3>1, <4>1 DEF expectedTurn
          <5>2. turnQueue = << >>
            <6>1. turnQueue # << >> => active \in Messages
              BY DEF active, activeTurn, TypeOK
            <6> QED
              BY <5>1, <6>1, DeliveryAssumption DEF Messages
          <5> QED
            BY <1>1, <1>4, <4>1, <5>2, DeliveryAssumption DEF Messages
        <4>2. CASE ledger[m] # "none"
          <5>1. \A j \in DOMAIN turnQueue : turnQueue[j] >= m
            BY <3>1, <4>2 DEF Fenced
          <5>2. current >= m
            BY <1>1, <4>2, DeliveryAssumption DEF Recorded, closed, open, Messages
          <5>3. turnQueue \in Seq(Messages) /\ turnQueue' = Append(turnQueue, current)
            BY <1>4 DEF TypeOK
          <5>4. turnQueue'[i] = IF i \in DOMAIN turnQueue THEN turnQueue[i] ELSE current
            BY <1>1, <3>1, <5>3
          <5> QED
            BY <5>1, <5>2, <5>4
        <4> QED
          BY <1>1, <2>2, <3>1, <4>1, <4>2 DEF TypeOK
      <3> QED
        BY <1>1, <2>2, <2>10, <3>1 DEF Fenced, TypeOK, journal
    <2>12. Taken'
      <3>1. \A m \in Messages : took(m)' <=> took(m)
        BY <2>2 DEF took
      <3>2. ASSUME NEW m \in Messages, m # current
            PROVE  ledger'[m] = ledger[m] /\ queuedAt'[m] = queuedAt[m]
        BY <1>1, <2>2, <3>2 DEF TypeOK
      <3>3. /\ ledger'[current] = "queued"
            /\ queuedAt'[current] <= Len(transcript')
            /\ ~(Len(transcript') > queuedAt'[current])
        BY <1>1, <2>2, <2>4 DEF Taken, TypeOK
      <3> QED
        BY <2>2, <2>4, <3>1, <3>2, <3>3 DEF Taken
    <2>13. ~(\E m \in Messages : uncertain(m)')
      BY <1>1, <2>2, <2>3, <2>4 DEF uncertain, took, TypeOK
    <2>14. Piped'
      <3>1. pipe' = <<current>>
        BY <1>1, <1>4, <2>3 DEF TypeOK
      <3> QED
        BY <1>1, <2>1, <2>2, <2>4, <3>1 DEF Piped, took, TypeOK
    <2>15. Echoed'
      BY <1>4, <2>3 DEF Echoed, echo
    <2>16. Paged'
      BY <2>1 DEF Paged, Working, Closing, pending, open, journal
    <2>17. Drained'
      BY <1>1, <1>4, <2>1, <2>2, <2>3 DEF Drained, TypeOK, Closing
    <2> QED
      BY <2>7, <2>8, <2>9, <2>11, <2>12, <2>14, <2>15, <2>16, <2>17
  <1> HIDE DEF becomes, written
  <1> QED
    BY <1>2, <1>3, <1>4

LEMMA SendStepKeeps ==
  ASSUME IInv, Send
  PROVE  IInv'
  BY SendKeeps DEF Send, IInv, TypeOK

LEMMA AfterInterruptKeeps ==
  ASSUME IInv, AfterInterrupt
  PROVE  IInv'
  <1> USE DEF IInv, AfterInterrupt
  <1>1. acknowledged' \in SUBSET Messages
    BY DEF TypeOK
  <1>2. CASE drain.live /\ active = Null
    BY <1>1, <1>2, SendKeeps
  <1>3. CASE ~(drain.live /\ active = Null)
    <2>1. drain' = [drain EXCEPT !.pc = "requeue"] /\ UNCHANGED <<files, engine, broker, notices>>
      BY <1>3
    <2>2. /\ drain' \in DrainState /\ drain'.pc = "requeue" /\ drain'.page = drain.page
          /\ drain'.turn = drain.turn /\ drain'.fence = drain.fence
          /\ drain'.interrupts = drain.interrupts /\ drain'.live = drain.live
          /\ current' = current
      BY <2>1, PcMoved DEF TypeOK, Pc, Closing
    <2>3. TypeOK'
      BY <1>1, <2>1, <2>2 DEF TypeOK, journal, files, engine, broker
    <2>4. Submitted' /\ Recorded' /\ Fenced' /\ Taken'
      BY <2>1, NothingRecorded DEF broker
    <2>5. Piped' /\ Echoed'
      BY <2>1, NothingPiped DEF engine, broker
    <2>6. Paged' /\ Drained'
      BY <2>1, <2>2 DEF Paged, Drained, Working, Closing, files, journal, pending, open, broker
    <2> QED
      BY <2>3, <2>4, <2>5, <2>6
  <1> QED
    BY <1>2, <1>3

---------------------------------------------------------------------------
(* What the host reads, and what ends it.                                   *)
LEMMA StateNotified ==
  ASSUME notices \in Seq(HostState), NEW a \in HostState, NEW b \in HostState,
         notify(<<a>>) \/ notify(<<a, b>>)
  PROVE  notices' \in Seq(HostState)
  <1>1. <<a>> \in Seq(HostState) /\ <<a, b>> \in Seq(HostState)
    OBVIOUS
  <1> QED
    BY <1>1, NotifyTyped

LEMMA HostStateTyped ==
  ASSUME NEW status \in {"none", "up", "dead"}, NEW turns \in Seq(Messages)
  PROVE  hostState(status, turns) \in HostState
  BY ActiveTyped DEF hostState, HostState

LEMMA AcceptEchoKeeps ==
  ASSUME IInv, AcceptEcho
  PROVE  IInv'
  <1> USE DEF IInv, AcceptEcho, broker
  <1>1. /\ host = "up" /\ stdout # << >> /\ Head(stdout) = "user" /\ stdout' = Tail(stdout)
        /\ stdout \in Seq({"user", "result", "control_response"})
    BY DEF line, TypeOK
  <1>2. 1 \in DOMAIN stdout /\ echo(1)
    BY <1>1 DEF echo
  <1>3. pipe = << >> /\ drain.pc = "sending"
    BY <1>1, <1>2 DEF Echoed, Piped
  <1>4. PICK delivery \in Messages : uncertain(delivery)
    BY <1>2 DEF Echoed
  <1>5. \A m \in unconfirmed : m = delivery
    BY <1>4, OnlyOneQueued DEF unconfirmed, uncertain
  <1>6. delivery \in unconfirmed /\ first(unconfirmed) = delivery
    <2>1. unconfirmed \in SUBSET Messages /\ delivery \in unconfirmed
      BY <1>4 DEF unconfirmed, uncertain
    <2> QED
      BY <1>5, <2>1, Least
  <1>7. current = delivery /\ drain.live
    BY <1>3, <1>4, <1>5, CurrentIsOpen DEF Drained, unconfirmed, Working
  <1>8. /\ ledger' = [ledger EXCEPT ![delivery] = "delivered"]
        /\ drain' = [drain EXCEPT !.pc = "settle"]
    BY <1>3, <1>6, <1>7
  <1>9. /\ drain' \in DrainState /\ drain'.pc = "settle" /\ drain'.page = drain.page
        /\ drain'.interrupts = drain.interrupts /\ drain'.live /\ current' = current
    BY <1>7, <1>8, PcMoved DEF TypeOK, Pc, Closing
  <1>10. \A m \in Messages : ledger'[m] = IF m = delivery THEN "delivered" ELSE ledger[m]
    BY <1>4, <1>8 DEF TypeOK
  <1>11. open(delivery) /\ ledger[delivery] = "queued"
    BY <1>4, OnlyOneQueued DEF uncertain
  <1>12. TypeOK'
    <2>1. notices' \in Seq(HostState)
      BY StateNotified, HostStateTyped DEF TypeOK
    <2>2. stdout' \in Seq({"user", "result", "control_response"})
      BY <1>1
    <2>3. ledger' \in [Messages -> {"none", "queued", "delivered"}]
      BY <1>8 DEF TypeOK
    <2> QED
      BY <1>9, <2>1, <2>2, <2>3 DEF TypeOK, journal
  <1>13. Submitted'
    BY DEF Submitted, journal
  <1>14. Recorded'
    <2>1. \A i \in DOMAIN turnQueue : turnQueue[i] \in Messages
      BY DEF TypeOK
    <2> QED
      BY <1>10, <1>11, <2>1 DEF Recorded, journal, closed, open
  <1>15. Fenced'
    BY <1>10, <1>11 DEF Fenced, journal
  <1>16. Taken'
    BY <1>4, <1>10 DEF Taken, took, uncertain
  <1>17. Piped' /\ Echoed'
    <2>1. pipe' = << >> /\ ~(\E m \in Messages : uncertain(m)')
      BY <1>3, <1>5, <1>10 DEF uncertain, unconfirmed, took
    <2>2. \A i \in DOMAIN stdout' : ~echo(i)'
      <3>1. ASSUME NEW i \in DOMAIN stdout', echo(i)'
            PROVE  FALSE
        <4>1. i + 1 \in DOMAIN stdout /\ echo(i + 1) /\ i + 1 # 1
          BY <1>1, <3>1 DEF echo
        <4> QED
          BY <1>2, <4>1 DEF Echoed
      <3> QED
        BY <3>1
    <2> QED
      BY <1>1, <2>1, <2>2 DEF Piped, Echoed
  <1>18. Paged'
    BY <1>3, <1>9 DEF Paged, Working, Closing, pending, open, journal
  <1>19. Drained'
    BY <1>1, <1>4, <1>7, <1>9, <1>10 DEF Drained, Closing
  <1> QED
    BY <1>12, <1>13, <1>14, <1>15, <1>16, <1>17, <1>18, <1>19

(* A line that is no echo is read: the one echo, if any, is still there.    *)
LEMMA EchoBehind ==
  ASSUME Echoed, stdout \in Seq({"user", "result", "control_response"}), stdout # << >>,
         Head(stdout) # "user", stdout' = Tail(stdout),
         UNCHANGED <<ledger, transcript, pipe, host, child>>
  PROVE  Echoed'
  <1>1. \A i \in DOMAIN stdout' : i + 1 \in DOMAIN stdout /\ (echo(i)' <=> echo(i + 1))
    BY DEF echo
  <1>2. \A i, j \in DOMAIN stdout' : i + 1 = j + 1 => i = j
    OBVIOUS
  <1>3. \A i, j \in DOMAIN stdout' : echo(i)' /\ echo(j)' => i = j
    BY <1>1, <1>2 DEF Echoed
  <1>4. (\E m \in Messages : uncertain(m)) => \E m \in Messages : uncertain(m)'
    BY DEF uncertain, took
  <1> QED
    BY <1>1, <1>3, <1>4 DEF Echoed

LEMMA AcceptResultKeeps ==
  ASSUME IInv, AcceptResult
  PROVE  IInv'
  <1> USE DEF IInv, AcceptResult, queue
  <1>1. /\ host = "up" /\ stdout # << >> /\ Head(stdout) = "result" /\ stdout' = Tail(stdout)
        /\ stdout \in Seq({"user", "result", "control_response"})
    BY DEF line, TypeOK
  <1>2. /\ turnQueue' \in Seq(Messages)
        /\ \A i \in DOMAIN turnQueue' : \E j \in DOMAIN turnQueue : turnQueue'[i] = turnQueue[j]
    <2>1. CASE turnQueue = << >>
      BY <2>1 DEF TypeOK
    <2>2. CASE turnQueue # << >>
      <3>1. turnQueue \in Seq(Messages) /\ turnQueue' = Tail(turnQueue)
        BY <2>2 DEF TypeOK
      <3>2. \A i \in DOMAIN turnQueue' : i + 1 \in DOMAIN turnQueue /\ turnQueue'[i] = turnQueue[i + 1]
        BY <2>2, <3>1
      <3> QED
        BY <2>2, <3>1, <3>2
    <2> QED
      BY <2>1, <2>2
  <1>3. TypeOK'
    <2>1. notices' \in Seq(HostState)
      BY <1>2, StateNotified, HostStateTyped DEF TypeOK
    <2>2. stdout' \in Seq({"user", "result", "control_response"})
      BY <1>1
    <2> QED
      BY <1>2, <2>1, <2>2 DEF TypeOK, journal, files
  <1>4. Submitted' /\ Taken'
    BY DEF Submitted, Taken, took, journal, files
  <1>5. Recorded'
    BY <1>2 DEF Recorded, journal, files, closed
  <1>6. Fenced'
    <2>1. ASSUME NEW m \in Messages, policy[m] = "interrupt-active", ledger[m] # "none",
                 NEW i \in DOMAIN turnQueue'
          PROVE  turnQueue'[i] >= m
      BY <1>2, <2>1 DEF Fenced
    <2> QED
      BY <2>1 DEF Fenced, journal, files
  <1>7. Piped'
    BY DEF Piped, uncertain, took, files
  <1>8. Echoed'
    BY <1>1, EchoBehind DEF files
  <1>9. Paged' /\ Drained'
    BY DrainKept DEF journal, files
  <1> QED
    BY <1>3, <1>4, <1>5, <1>6, <1>7, <1>8, <1>9

LEMMA AcceptAcknowledgementKeeps ==
  ASSUME IInv, AcceptAcknowledgement
  PROVE  IInv'
  <1> USE DEF IInv, AcceptAcknowledgement, broker
  <1>1. /\ host = "up" /\ stdout # << >> /\ Head(stdout) = "control_response"
        /\ stdout' = Tail(stdout)
        /\ stdout \in Seq({"user", "result", "control_response"})
    BY DEF line, TypeOK
  <1>2. Submitted' /\ Recorded' /\ Fenced' /\ Taken'
    BY NothingRecorded
  <1>3. Echoed'
    BY <1>1, EchoBehind DEF files
  <1>4. stdout' \in Seq({"user", "result", "control_response"})
    BY <1>1
  <1>5. CASE drain.pc = "acking"
    <2>1. /\ drain' \in DrainState /\ drain'.pc = "acked" /\ drain'.page = drain.page
          /\ drain'.turn = drain.turn /\ drain'.fence = drain.fence
          /\ drain'.interrupts = drain.interrupts /\ drain'.live = drain.live
          /\ current' = current
      BY <1>5, PcMoved DEF TypeOK, Pc
    <2>2. acknowledged' \subseteq Messages
      BY <1>5, CurrentIsOpen DEF TypeOK, Working
    <2>3. TypeOK'
      BY <1>4, <2>1, <2>2 DEF TypeOK, journal, files, controller
    <2>4. Piped'
      BY <1>5 DEF Piped, uncertain, took, files
    <2>5. Paged' /\ Drained'
      BY <1>5, <2>1 DEF Paged, Drained, Working, Closing, files, journal, pending, open
    <2> QED
      BY <1>2, <1>3, <2>3, <2>4, <2>5
  <1>6. CASE drain.pc # "acking"
    <2>1. TypeOK'
      BY <1>4, <1>6 DEF TypeOK, journal, files, controller
    <2>2. Piped'
      BY <1>6 DEF Piped, uncertain, took, files
    <2>3. Paged' /\ Drained'
      BY <1>6, DrainKept DEF journal, files
    <2> QED
      BY <1>2, <1>3, <2>1, <2>2, <2>3
  <1> QED
    BY <1>5, <1>6

LEMMA InterruptRefusedKeeps ==
  ASSUME IInv, InterruptRefused
  PROVE  IInv'
  <1> USE DEF IInv, InterruptRefused, engine, broker
  <1>1. /\ drain' \in DrainState /\ drain'.pc = "retry" /\ drain'.page = drain.page
        /\ drain'.turn = drain.turn /\ drain'.fence = drain.fence
        /\ drain'.interrupts = drain.interrupts /\ drain'.live = drain.live
        /\ current' = current
    BY PcMoved DEF TypeOK, Pc, Closing
  <1>2. TypeOK'
    BY <1>1, FaultTyped DEF TypeOK, journal, files, controller
  <1>3. Submitted' /\ Recorded' /\ Fenced' /\ Taken'
    BY NothingRecorded
  <1>4. Piped' /\ Echoed'
    BY NothingPiped
  <1>5. Paged' /\ Drained'
    BY <1>1 DEF Paged, Drained, Working, Closing, files, journal, pending, open
  <1> QED
    BY <1>2, <1>3, <1>4, <1>5

LEMMA HostDiesKeeps ==
  ASSUME IInv, hostDies, child' \in {"none", "detached"}, UNCHANGED <<pipe, working>>,
         faults' \in 0 .. MaxFaults
  PROVE  IInv'
  <1> USE DEF IInv, hostDies
  <1> DEFINE stays == drain.pc \notin {"sending", "acking"}
  <1>1. /\ drain' \in DrainState /\ drain'.page = drain.page /\ drain'.turn = drain.turn
        /\ drain'.pc = (IF stays THEN drain.pc ELSE "requeue")
        /\ drain'.fence = drain.fence
        /\ drain'.interrupts = drain.interrupts /\ drain'.live = FALSE
        /\ current' = current
    <2>1. drain \in DrainState /\ drain.pc \in Pc /\ "requeue" \in Pc
      BY DEF TypeOK, DrainState, Pc, Closing
    <2>2. drain' = [drain EXCEPT !.live = FALSE, !.pc = IF stays THEN drain.pc ELSE "requeue"]
      BY <2>1 DEF DrainState
    <2> HIDE DEF hostDies, IInv
    <2>3. CASE stays
      <3>1. drain' = [drain EXCEPT !.live = FALSE]
        BY <2>1, <2>2, <2>3 DEF DrainState
      <3> HIDE DEF stays
      <3> QED
        BY <2>1, <2>3, <3>1 DEF DrainState, current
    <2>4. CASE ~stays
      <3>1. drain' = [drain EXCEPT !.live = FALSE, !.pc = "requeue"]
        BY <2>2, <2>4
      <3> HIDE DEF stays
      <3> QED
        BY <2>1, <2>4, <3>1 DEF DrainState, current
    <2> QED
      BY <2>3, <2>4
  <1>2. TypeOK'
    <2>1. notices' \in Seq(HostState)
      <3>1. notices \in Seq(HostState) /\ << >> \in Seq(Messages)
        BY DEF TypeOK
      <3>2. hostState("dead", << >>) \in HostState
        BY <3>1, HostStateTyped
      <3> QED
        BY <3>1, <3>2, StateNotified
    <2> QED
      BY <1>1, <2>1 DEF TypeOK, journal, files
  <1>3. Submitted' /\ Taken'
    BY DEF Submitted, Taken, took, journal, files
  <1>4. Recorded' /\ Fenced'
    BY DEF Recorded, Fenced, journal, files, closed
  <1>5. Piped' /\ Echoed'
    BY DEF Piped, Echoed, echo, took, files
  <1>6. Paged' /\ Drained'
    BY <1>1 DEF Paged, Drained, Working, Closing, files, journal, pending, open
  <1> QED
    BY <1>2, <1>3, <1>4, <1>5, <1>6

LEMMA HostFailsKeeps ==
  ASSUME IInv, HostFails \/ HostSeesExit
  PROVE  IInv'
  <1>1. child' \in {"none", "detached"}
    BY DEF IInv, TypeOK, HostFails, HostSeesExit
  <1>2. faults' \in 0 .. MaxFaults
    BY FaultTyped DEF IInv, TypeOK, HostFails, HostSeesExit
  <1> QED
    BY <1>1, <1>2, HostDiesKeeps DEF HostFails, HostSeesExit

---------------------------------------------------------------------------
(* The engine, the writer, and the failures of either.                      *)
LEMMA OneOnItsWay ==
  ASSUME IInv, pipe # << >>
  PROVE  \E m \in Messages : pipe = <<m>> /\ ledger[m] = "queued" /\ ~took(m)
  <1>1. Len(pipe) = 1 /\ ledger[pipe[1]] = "queued" /\ ~took(pipe[1])
    BY DEF IInv, Piped
  <1>2. pipe \in Seq(Messages)
    BY DEF IInv, TypeOK
  <1>3. pipe[1] \in Messages /\ pipe = <<pipe[1]>>
    BY <1>1, <1>2
  <1> QED
    BY <1>1, <1>3

LEMMA EngineReadsKeeps ==
  ASSUME IInv, EngineReads
  PROVE  IInv'
  <1> USE DEF IInv, EngineReads, broker, queue, controller
  <1>1. PICK m \in Messages : pipe = <<m>> /\ ledger[m] = "queued" /\ ~took(m)
    BY OneOnItsWay
  <1>2. pipe' = << >> /\ transcript' = Append(transcript, m)
    BY <1>1
  <1>3. /\ transcript \in Seq(Messages) /\ transcript' \in Seq(Messages)
        /\ Len(transcript') = Len(transcript) + 1
    BY <1>2 DEF TypeOK
  <1>4. \A n \in Messages : took(n)' <=> took(n) \/ n = m
    <2>1. \A i \in DOMAIN transcript : i \in DOMAIN transcript' /\ transcript'[i] = transcript[i]
      BY <1>2, <1>3
    <2>2. \A i \in DOMAIN transcript' : i \in DOMAIN transcript \/ transcript'[i] = m
      BY <1>2, <1>3
    <2>3. Len(transcript) + 1 \in DOMAIN transcript' /\ transcript'[Len(transcript) + 1] = m
      BY <1>2, <1>3
    <2> QED
      BY <2>1, <2>2, <2>3 DEF took
  <1>5. TypeOK'
    <2>1. stdout' \in Seq({"user", "result", "control_response"})
      BY DEF TypeOK, print
    <2>2. working' \in Nat
      BY DEF TypeOK
    <2>3. pipe' \in Seq(Messages)
      BY <1>2, NoneTyped
    <2> QED
      BY <1>3, <2>1, <2>2, <2>3 DEF TypeOK, journal
  <1>6. Submitted' /\ Recorded' /\ Fenced'
    BY DEF Submitted, Recorded, Fenced, journal, closed
  <1>7. Taken'
    <2>1. ASSUME NEW n \in Messages, ledger[n] = "queued"
          PROVE  n = m
      BY <1>1, <2>1, OnlyOneQueued
    <2>2. queuedAt[m] <= Len(transcript) /\ queuedAt[m] \in Nat
      BY <1>1 DEF Taken, TypeOK
    <2>3. queuedAt[m] <= Len(transcript') /\ Len(transcript') > queuedAt[m]
      BY <1>3, <2>2
    <2> QED
      BY <1>1, <1>4, <2>1, <2>3 DEF Taken
  <1>8. uncertain(m)'
    BY <1>1, <1>4 DEF uncertain
  <1>9. Piped'
    BY <1>1, <1>2 DEF Piped
  <1>10. Echoed'
    <2>1. \A i \in DOMAIN stdout : ~echo(i)
      BY <1>1 DEF Echoed
    <2>2. stdout \in Seq({"user", "result", "control_response"})
      BY DEF TypeOK
    <2>3. CASE child = "attached"
      <3>1. stdout' = Append(stdout, "user")
        BY <2>3 DEF print
      <3>2. \A i \in DOMAIN stdout' : echo(i)' => i = Len(stdout) + 1
        BY <2>1, <2>2, <3>1 DEF echo
      <3> QED
        BY <1>2, <1>8, <2>3, <3>2 DEF Echoed
    <2>4. CASE child # "attached"
      <3>1. stdout' = stdout
        BY <2>4 DEF print
      <3> QED
        BY <1>2, <1>8, <2>1, <2>4, <3>1 DEF Echoed, echo
    <2> QED
      BY <2>3, <2>4
  <1>11. Paged' /\ Drained'
    BY DrainKept DEF journal
  <1> QED
    BY <1>5, <1>6, <1>7, <1>9, <1>10, <1>11

LEMMA EngineWritesKeeps ==
  ASSUME IInv, EngineFinishes \/ EngineAcknowledges
  PROVE  IInv'
  <1> USE DEF IInv, EngineFinishes, EngineAcknowledges, broker, queue, controller
  <1>1. PICK kind \in {"result", "control_response"} : print(kind)
    OBVIOUS
  <1>2. stdout \in Seq({"user", "result", "control_response"})
    BY DEF TypeOK
  <1>3. (stdout' = Append(stdout, kind) /\ host = "up") \/ stdout' = stdout
    BY <1>1 DEF print, Echoed
  <1>4. TypeOK'
    <2>1. stdout' \in Seq({"user", "result", "control_response"})
      BY <1>2, <1>3
    <2>2. working' \in Nat
      BY DEF TypeOK
    <2> QED
      BY <2>1, <2>2 DEF TypeOK, journal, files
  <1>5. Submitted' /\ Recorded' /\ Fenced' /\ Taken'
    BY NothingRecorded
  <1>6. Piped'
    BY DEF Piped, uncertain, took, files
  <1>7. Echoed'
    <2>1. \A i \in DOMAIN stdout' : echo(i)' => i \in DOMAIN stdout /\ echo(i)
      BY <1>2, <1>3 DEF echo
    <2>2. (\E m \in Messages : uncertain(m)) => \E m \in Messages : uncertain(m)'
      BY DEF uncertain, took, files
    <2>3. stdout' # << >> => host = "up"
      BY <1>3 DEF Echoed
    <2> QED
      BY <2>1, <2>2, <2>3 DEF Echoed
  <1>8. Paged' /\ Drained'
    BY DrainKept DEF journal, files
  <1> QED
    BY <1>4, <1>5, <1>6, <1>7, <1>8

LEMMA EngineExitsKeeps ==
  ASSUME IInv, EngineExits
  PROVE  IInv'
  <1> USE DEF IInv, EngineExits, broker, queue
  <1>1. TypeOK'
    <2>1. notices' \in Seq(HostState)
      <3>1. notices \in Seq(HostState) /\ << >> \in Seq(Messages)
        BY DEF TypeOK
      <3>2. hostState("dead", << >>) \in HostState
        BY <3>1, HostStateTyped
      <3> QED
        BY <3>1, <3>2, StateNotified
    <2>2. faults' \in 0 .. MaxFaults
      BY FaultTyped DEF TypeOK
    <2> QED
      BY <2>1, <2>2 DEF TypeOK, journal, files
  <1>2. Submitted' /\ Recorded' /\ Fenced' /\ Taken'
    BY NothingRecorded
  <1>3. Piped' /\ Echoed'
    BY DEF Piped, Echoed, echo, uncertain, took, files
  <1>4. Paged' /\ Drained'
    BY DrainKept DEF journal, files
  <1> QED
    BY <1>1, <1>2, <1>3, <1>4

LEMMA SubmitKeeps ==
  ASSUME IInv, NEW m \in Messages, NEW p \in Policies, Submit(m, p)
  PROVE  IInv'
  <1> USE DEF IInv, Submit, engine, broker, queue
  <1>1. /\ \A n \in Messages : receipt'[n] = IF n = m THEN "queued" ELSE receipt[n]
        /\ \A n \in Messages : policy'[n] = IF n = m THEN p ELSE policy[n]
    BY DEF TypeOK
  <1>2. /\ \A n \in Messages : n < m => receipt[n] # "unsent"
        /\ \A n \in Messages : m < n => receipt[n] = "unsent"
    BY DeliveryAssumption DEF Submitted, Messages
  <1>3. ledger[m] = "none"
    BY DEF Recorded, TypeOK
  <1>4. \A n \in Messages : n # m => n < m \/ m < n
    BY DeliveryAssumption DEF Messages
  <1>5. TypeOK'
    BY DEF TypeOK, files
  <1>6. Submitted'
    BY <1>1, <1>2, <1>4 DEF Submitted
  <1>7. Recorded'
    <2>1. \A n \in Messages : closed(n) => closed(n)'
      BY <1>1 DEF closed
    <2> QED
      BY <1>1, <1>3, <2>1 DEF Recorded, files
  <1>8. Fenced'
    BY <1>1, <1>3 DEF Fenced, files
  <1>9. Taken'
    BY DEF Taken, took, files
  <1>10. Piped' /\ Echoed'
    BY NothingPiped
  <1>11. pending' = pending \cup {m}
    BY <1>1 DEF pending, open
  <1>12. Paged'
    <2>1. \A n \in drain.page : n < m
      <3>1. \A n \in drain.page : n \in Messages /\ open(n) /\ n # m
        BY DEF Paged, pending, open
      <3> QED
        BY <1>2, <1>4, <3>1 DEF open
    <2> QED
      BY <1>11, <2>1 DEF Paged
  <1>13. Drained'
    BY DEF Drained, current, files
  <1> QED
    BY <1>5, <1>6, <1>7, <1>8, <1>9, <1>10, <1>12, <1>13

LEMMA ViewerCrashesKeeps ==
  ASSUME IInv, ViewerCrashes
  PROVE  IInv'
  <1> USE DEF IInv, ViewerCrashes
  <1>1. TypeOK'
    <2>1. hostState("none", << >>) \in HostState
      BY HostStateTyped, NoneTyped
    <2>2. faults' \in 0 .. MaxFaults
      BY FaultTyped DEF TypeOK
    <2>3. /\ turnQueue' \in Seq(Messages) /\ notices' \in Seq(HostState)
          /\ stdout' \in Seq({"user", "result", "control_response"})
      BY NoneTyped
    <2>4. seen' \in HostState /\ drain' \in DrainState
      BY <2>1, DrainTyped
    <2>5. child' \in {"none", "attached", "detached"}
      BY DEF TypeOK
    <2> QED
      BY <2>2, <2>3, <2>4, <2>5 DEF TypeOK, journal, files
  <1>2. Submitted' /\ Taken'
    BY DEF Submitted, Taken, took, journal, files
  <1>3. Recorded' /\ Fenced'
    BY DEF Recorded, Fenced, journal, files, closed
  <1>4. Piped' /\ Echoed'
    BY DEF Piped, Echoed, echo, took, files, TypeOK
  <1>5. Paged' /\ Drained'
    BY IdleDrain
  <1> QED
    BY <1>1, <1>2, <1>3, <1>4, <1>5

LEMMA ViewerStartsKeeps ==
  ASSUME IInv, ViewerStarts
  PROVE  IInv'
  <1> USE DEF IInv, ViewerStarts, engine, broker, queue
  <1>1. TypeOK'
    BY DEF TypeOK, journal, files
  <1>2. Submitted' /\ Recorded' /\ Fenced' /\ Taken'
    BY NothingRecorded
  <1>3. Piped' /\ Echoed' /\ Paged' /\ Drained'
    BY NothingPiped, DrainKept DEF journal, files
  <1> QED
    BY <1>1, <1>2, <1>3

LEMMA RecoverKeeps ==
  ASSUME IInv, Recover
  PROVE  IInv'
  <1> USE DEF IInv, Recover, queue
  <1>1. /\ ~drain.live /\ drain.pc # "sending"
        /\ drain' = drain /\ current' = current /\ transcript' = transcript
    BY DEF Drained, current
  <1>2. \A m \in Messages :
          ledger'[m] = IF ledger[m] = "queued" /\ took(m) THEN "delivered" ELSE ledger[m]
    BY DEF Taken, reconciled
  <1>3. TypeOK'
    <2>1. hostState("up", << >>) \in HostState
      BY HostStateTyped, NoneTyped
    <2>2. ledger' \in [Messages -> {"none", "queued", "delivered"}]
      BY DEF TypeOK
    <2> QED
      BY <2>1, <2>2 DEF TypeOK, journal
  <1>4. Submitted'
    BY DEF Submitted, journal
  <1>5. Recorded'
    BY <1>2 DEF Recorded, journal, closed
  <1>6. Fenced'
    BY <1>2 DEF Fenced, journal
  <1>7. Taken'
    BY <1>1, <1>2 DEF Taken, took
  <1>8. Piped' /\ Echoed'
    <2>1. ~(\E m \in Messages : uncertain(m)')
      BY <1>1, <1>2 DEF uncertain, took
    <2> QED
      BY <2>1 DEF Piped, Echoed
  <1>9. Paged'
    BY <1>1 DEF Paged, pending, open, journal
  <1>10. Drained'
    <2>1. drain.pc \in Working => current \in Messages
      BY CurrentIsOpen
    <2> QED
      BY <1>1, <1>2, <2>1 DEF Drained, journal, Working, Closing
  <1> QED
    BY <1>3, <1>4, <1>5, <1>6, <1>7, <1>8, <1>9, <1>10

---------------------------------------------------------------------------
LEMMA InitHolds ==
  ASSUME Init
  PROVE  IInv
  <1> USE DEF Init
  <1>1. TypeOK
    <2>1. hostState("up", << >>) \in HostState
      BY HostStateTyped, NoneTyped
    <2>2. fence \in [Messages -> Fence] /\ faults \in 0 .. MaxFaults
      BY DeliveryAssumption DEF Fence
    <2>3. stdout \in Seq({"user", "result", "control_response"})
      OBVIOUS
    <2> QED
      BY <2>1, <2>2, <2>3, NoneTyped, DrainTyped DEF TypeOK
  <1>2. Submitted /\ Recorded /\ Taken
    BY DEF Submitted, Recorded, Taken, took
  <1>3. Fenced
    <2>1. Undefined \notin Messages
      BY DeliveryAssumption DEF Messages
    <2> QED
      BY <2>1 DEF Fenced
  <1>4. Piped /\ Echoed
    BY DEF Piped, Echoed, uncertain, took
  <1>5. Paged /\ Drained
    BY DEF Paged, Drained, Idle, Working, Closing
  <1> QED
    BY <1>1, <1>2, <1>3, <1>4, <1>5 DEF IInv

LEMMA StepKeeps ==
  ASSUME IInv, [Next]_vars
  PROVE  IInv'
  <1>1. CASE PublishNotice \/ TimerFires \/ DrainStep
    BY <1>1, PublishNoticeKeeps, TimerFiresKeeps, FetchEffectsKeeps, NextEffectKeeps,
       BeginDeliveryKeeps, InterruptKeeps, SendStepKeeps, AfterInterruptKeeps, RequeueKeeps,
       SettleKeeps
    DEF DrainStep
  <1>2. CASE ReadStdout \/ HostSeesExit
    BY <1>2, AcceptEchoKeeps, AcceptResultKeeps, AcceptAcknowledgementKeeps, HostFailsKeeps
    DEF ReadStdout
  <1>3. CASE EngineReads \/ EngineFinishes \/ EngineAcknowledges \/ EngineExits
    BY <1>3, EngineReadsKeeps, EngineWritesKeeps, EngineExitsKeeps
  <1>4. CASE \E m \in Messages, p \in Policies : Submit(m, p)
    BY <1>4, SubmitKeeps
  <1>5. CASE ViewerStarts \/ Recover \/ Failure
    BY <1>5, ViewerStartsKeeps, RecoverKeeps, RequestFailsKeeps, AnswerLostKeeps,
       PublishNoticeKeeps, InterruptRefusedKeeps, HostFailsKeeps, ViewerCrashesKeeps
    DEF Failure
  <1>6. CASE UNCHANGED vars
    <2> USE <1>6 DEF vars, IInv, journal, files, engine, broker, queue, controller
    <2>1. TypeOK'
      BY DEF TypeOK
    <2>2. Submitted' /\ Recorded' /\ Fenced' /\ Taken'
      BY NothingRecorded
    <2>3. Piped' /\ Echoed' /\ Paged' /\ Drained'
      BY NothingPiped, DrainKept
    <2> QED
      BY <2>1, <2>2, <2>3
  <1> QED
    BY <1>1, <1>2, <1>3, <1>4, <1>5, <1>6 DEF Next

LEMMA Invariance == Spec => []IInv
  BY InitHolds, StepKeeps, PTL DEF Spec

(* Every variable keeps its type, whatever fails in whatever order.         *)
THEOREM DeliveryTyped == Spec => []TypeOK
  <1>1. IInv => TypeOK
    BY DEF IInv
  <1> QED
    BY <1>1, Invariance, PTL

(* The queue asks the host to interrupt only the turn that was active when  *)
(* it decided to, which is an earlier message's, and only for a message the *)
(* host has not recorded yet.                                               *)
THEOREM InterruptsAreFenced == Spec => []InterruptsFencedTurn
  <1>1. IInv => InterruptsFencedTurn
    <2> SUFFICES ASSUME IInv, drain.pc = "acking"
                 PROVE  /\ drain.turn = fence[current] /\ drain.turn # current
                        /\ ledger[current] = "none"
      BY DEF InterruptsFencedTurn
    <2>1. /\ fence[current] = drain.fence /\ drain.interrupts
          /\ drain.fence = drain.turn /\ drain.turn # Null /\ ledger[current] = "none"
      BY DEF IInv, Drained
    <2>2. current \in Messages
      BY CurrentIsOpen DEF Working
    <2>3. drain.turn # current
      <3>1. fence[current] \in Messages => fence[current] < current
        BY <2>2 DEF IInv, Fenced
      <3> QED
        BY <2>1, <2>2, <3>1, DeliveryAssumption DEF Messages
    <2> QED
      BY <2>1, <2>3
  <1> QED
    BY <1>1, Invariance, PTL

(* The host's ledger never holds two deliveries of unknown outcome, so that *)
(* an echo or a transcript entry is matched to the message it belongs to.   *)
THEOREM DeliveriesAreCertain == Spec => []OneUncertainDelivery
  <1>1. IInv => OneUncertainDelivery
    BY OneUncertain DEF IInv, OneUncertainDelivery, unconfirmed, pending
  <1> QED
    BY <1>1, Invariance, PTL

---------------------------------------------------------------------------
(* Every step of delivery is a step its writer is promised, or shows        *)
(* nothing.                                                                 *)
view == [m \in Messages |-> shownStatus(m)]

LEMMA ShowsNothing ==
  ASSUME UNCHANGED transcript, \A m \in Messages : shownStatus(m)' = shownStatus(m)
  PROVE  [Delivery!Next]_(Delivery!vars)
  BY DEF Delivery!vars

LEMMA ReportShows ==
  ASSUME IInv, drain.pc \in Closing, NEW status \in {"queued", "delivered", "failed"},
         report(status), UNCHANGED transcript,
         status = "delivered" => ledger[current] = "delivered",
         status = "failed" => ledger[current] = "none"
  PROVE  [Delivery!Next]_(Delivery!vars)
  <1>1. PICK m \in Messages : m = current /\ open(m)
    BY CurrentIsOpen DEF Working
  <1>2. receipt' = [receipt EXCEPT ![m] = status]
    BY <1>1 DEF report
  <1>3. \A n \in Messages : n # m => shownStatus(n)' = shownStatus(n)
    BY <1>1, <1>2 DEF shownStatus, open, IInv, TypeOK
  <1>4. shownStatus(m) = "open"
    BY <1>1 DEF shownStatus
  <1>5. CASE status = "queued"
    <2>1. shownStatus(m)' = "open"
      BY <1>1, <1>2, <1>5 DEF shownStatus, open, IInv, TypeOK
    <2> QED
      BY <1>3, <1>4, <2>1, ShowsNothing
  <1>6. CASE status # "queued"
    <2>1. shownStatus(m)' = status
      BY <1>1, <1>2, <1>6 DEF shownStatus, open, IInv, TypeOK
    <2>2. view' = [view EXCEPT ![m] = status] /\ view[m] = "open"
      BY <1>1, <1>3, <1>4, <2>1 DEF view
    <2>3. status = "delivered" <=> took(m)
      BY <1>1, <1>6 DEF IInv, Taken
    <2>4. Delivery!isReceived(m) <=> took(m)
      BY DEF Delivery!isReceived, took
    <2>5. Delivery!Confirm(m) \/ Delivery!GiveUp(m)
      BY <1>6, <2>2, <2>3, <2>4 DEF Delivery!Confirm, Delivery!GiveUp, view
    <2> QED
      BY <1>1, <2>5 DEF Delivery!Next, Delivery!Messages, Messages
  <1> QED
    BY <1>5, <1>6

LEMMA BeginShows ==
  ASSUME IInv, drain.pc = "begin", UNCHANGED transcript,
         receipt' = [receipt EXCEPT ![current] = "delivering"]
  PROVE  [Delivery!Next]_(Delivery!vars)
  <1>1. current \in Messages /\ open(current)
    BY CurrentIsOpen DEF Working
  <1>2. \A m \in Messages : shownStatus(m)' = shownStatus(m)
    BY <1>1 DEF shownStatus, open, IInv, TypeOK
  <1> QED
    BY <1>2, ShowsNothing

LEMMA EngineReadsShows ==
  ASSUME IInv, EngineReads
  PROVE  [Delivery!Next]_(Delivery!vars)
  <1> USE DEF IInv
  <1>1. PICK m \in Messages : pipe = <<m>> /\ ledger[m] = "queued" /\ ~took(m)
    BY OneOnItsWay DEF EngineReads
  <1>2. transcript' = Append(transcript, m) /\ view' = view
    BY <1>1 DEF EngineReads, journal, view, shownStatus, open
  <1>3. view[m] = "open"
    BY <1>1, OnlyOneQueued DEF view, shownStatus
  <1>4. ASSUME NEW n \in Messages, n < m
        PROVE  took(n) \/ view[n] = "failed"
    <2>1. closed(n)
      BY <1>1, <1>4 DEF Recorded
    <2>2. receipt[n] = "delivered" => took(n)
      BY DEF Recorded, Taken
    <2> QED
      BY <2>1, <2>2 DEF closed, view, shownStatus, open
  <1>5. 1 .. m - 1 \subseteq Messages /\ \A n \in 1 .. m - 1 : n < m
    BY DeliveryAssumption DEF Messages
  <1>6. Delivery!Receive(m)
    BY <1>1, <1>2, <1>3, <1>4, <1>5
    DEF Delivery!Receive, Delivery!inTurn, Delivery!isReceived, took, view
  <1> QED
    BY <1>6 DEF Delivery!Next, Delivery!Messages, Messages

LEMMA SubmitShows ==
  ASSUME IInv, NEW m \in Messages, NEW p \in Policies, Submit(m, p)
  PROVE  [Delivery!Next]_(Delivery!vars)
  <1> USE DEF IInv, Submit
  <1>1. view' = [view EXCEPT ![m] = "open"] /\ view[m] = "unsent"
    BY DEF view, shownStatus, open, TypeOK
  <1>2. 1 .. m - 1 \subseteq Messages
    BY DeliveryAssumption DEF Messages
  <1>3. \A n \in 1 .. m - 1 : view[n] # "unsent"
    BY <1>2 DEF view, shownStatus, open
  <1>4. Delivery!Submit(m)
    BY <1>1, <1>3 DEF Delivery!Submit, view, files
  <1> QED
    BY <1>4 DEF Delivery!Next, Delivery!Messages, Messages

LEMMA StepShows ==
  ASSUME IInv, [Next]_vars
  PROVE  [Delivery!Next]_(Delivery!vars)
  <1> DEFINE silent == UNCHANGED <<receipt, transcript>>
  <1>1. ASSUME silent
        PROVE  [Delivery!Next]_(Delivery!vars)
    <2>1. \A m \in Messages : shownStatus(m)' = shownStatus(m)
      BY <1>1 DEF shownStatus, open
    <2> QED
      BY <1>1, <2>1, ShowsNothing
  <1>2. CASE PublishNotice \/ PublicationFails \/ TimerFires \/ FetchEffects \/ RequestFails
               \/ NextEffect \/ Interrupt
    <2>1. silent
      BY <1>2 DEF PublishNotice, PublicationFails, TimerFires, FetchEffects, RequestFails,
                  NextEffect, Interrupt, journal, files
    <2> QED
      BY <1>1, <2>1
  <1>3. CASE Send \/ AfterInterrupt
    <2>1. silent
      BY <1>3 DEF Send, AfterInterrupt, send, recordQueued, journal, files
    <2> QED
      BY <1>1, <2>1
  <1>4. CASE ReadStdout \/ InterruptRefused \/ HostFails \/ HostSeesExit
    <2>1. silent
      BY <1>4 DEF ReadStdout, AcceptEcho, AcceptResult, AcceptAcknowledgement,
                  InterruptRefused, HostFails, HostSeesExit, hostDies, journal, files
    <2> QED
      BY <1>1, <2>1
  <1>5. CASE EngineFinishes \/ EngineAcknowledges \/ EngineExits \/ ViewerCrashes
               \/ ViewerStarts \/ Recover \/ UNCHANGED vars
    <2>1. silent
      BY <1>5 DEF EngineFinishes, EngineAcknowledges, EngineExits, ViewerCrashes, ViewerStarts,
                  Recover, vars, journal, files
    <2> QED
      BY <1>1, <2>1
  <1>6. CASE BeginDelivery
    <2>1. ~(receipt[current] = "queued" /\ fence[current] \notin {Undefined, drain.fence})
      BY <1>6 DEF IInv, Drained, BeginDelivery
    <2> QED
      BY <1>6, <2>1, BeginShows DEF BeginDelivery, files
  <1>7. CASE Requeue \/ Settle \/ Fail
    <2>1. PICK status \in {"queued", "delivered", "failed"} :
            /\ report(status)
            /\ status = "delivered" => ledger[current] = "delivered"
            /\ status = "failed" => ledger[current] = "none"
      BY <1>7 DEF Requeue, Settle, Fail, IInv, Drained
    <2> QED
      BY <1>7, <2>1, ReportShows DEF Requeue, Settle, Fail, Closing, files
  <1>8. CASE AnswerLost
    <2>1. CASE drain.pc = "begin"
      <3>1. receipt' = [receipt EXCEPT ![current] = "delivering"]
        BY <1>8, <2>1 DEF AnswerLost, Closing
      <3> QED
        BY <1>8, <2>1, <3>1, BeginShows DEF AnswerLost, files
    <2>2. CASE drain.pc \in Closing
      <3>1. PICK status \in {"queued", "delivered", "failed"} :
              /\ report(status)
              /\ status = "delivered" => ledger[current] = "delivered"
              /\ status = "failed" => ledger[current] = "none"
        BY <1>8, <2>2 DEF AnswerLost, IInv, Drained, Closing
      <3> QED
        BY <1>8, <2>2, <3>1, ReportShows DEF AnswerLost, files
    <2> QED
      BY <1>8, <2>1, <2>2 DEF AnswerLost
  <1>9. CASE EngineReads
    BY <1>9, EngineReadsShows
  <1>10. CASE \E m \in Messages, p \in Policies : Submit(m, p)
    BY <1>10, SubmitShows
  <1> HIDE DEF silent
  <1> QED
    BY <1>2, <1>3, <1>4, <1>5, <1>6, <1>7, <1>8, <1>9, <1>10 DEF Next, DrainStep, Failure

(* Delivery implements MessageDelivery: whatever fails between two steps of *)
(* the queue, the controller, the host and the engine, the engine receives  *)
(* a message at most once and in order, one shown delivered was received,   *)
(* and one shown failed was not.                                            *)
THEOREM DeliveryKeepsItsPromises == Spec => DeliversAsPromised
  <1>1. Init => Delivery!Init
    BY DEF Init, Delivery!Init, Delivery!Messages, Messages, shownStatus, open
  <1>2. IInv /\ [Next]_vars => [Delivery!Next]_(Delivery!vars)
    BY StepShows
  <1> QED
    BY <1>1, <1>2, Invariance, PTL DEF Spec, DeliversAsPromised, Delivery!Spec

----------------------------------------------------------------------------

(* Something outside the drain will start it: a timer, or a host state that *)
(* differs from the one published last.                                     *)
noticed == \E i \in DOMAIN notices : notices[i] # seen
awaited == {"begin", "begun", "acking", "acked", "sending"}

(* Whatever ends the drain before the queue is empty leaves something that  *)
(* starts it again: a timer, a drain asked for meanwhile, a notice, or an   *)
(* active turn, whose end is noticed.                                       *)
Awake ==
  host = "up" =>
    /\ drain.pc = "off" /\ pending # {} => timer \/ noticed \/ active # Null
    /\ drain.pc = "requeue" => timer \/ rerun \/ noticed \/ active # Null
    /\ drain.pc \notin {"off", "fetch"} => pending \subseteq drain.page \/ timer \/ rerun
    /\ drain.pc \in awaited /\ ~drain.live => timer \/ rerun

(* A message that waits for an idle host is fenced to no turn.              *)
Unfenced ==
  /\ \A m \in Messages :
       /\ receipt[m] = "unsent" => fence[m] = Undefined
       /\ policy[m] = "queue" => fence[m] \in {Undefined, Null}
  /\ drain.pc = "begin" /\ policy[current] = "queue" => drain.fence = Null

Wakeful == IInv /\ Unfenced /\ Awake

---------------------------------------------------------------------------
LEMMA TimerWakes ==
  ASSUME timer' = TRUE \/ host' # "up"
  PROVE  Awake'
  BY DEF Awake

(* The drain and what it works on stand still, and nothing that would start *)
(* it goes away.                                                            *)
LEMMA NothingStirs ==
  ASSUME Awake, UNCHANGED <<receipt, drain, rerun, host, turnQueue>>,
         timer => timer', noticed => noticed' \/ timer'
  PROVE  Awake'
  BY DEF Awake, pending, open, active

LEMMA NoticeKept ==
  ASSUME notices \in Seq(HostState), NEW states \in Seq(HostState), notify(states),
         seen' = seen, noticed
  PROVE  noticed'
  <1>1. PICK i \in DOMAIN notices : notices[i] # seen
    BY DEF noticed
  <1>2. i \in DOMAIN notices' /\ notices'[i] = notices[i]
    BY <1>1 DEF notify
  <1> QED
    BY <1>1, <1>2 DEF noticed

LEMMA StateNoticeKept ==
  ASSUME notices \in Seq(HostState), NEW a \in HostState, notify(<<a>>), seen' = seen, noticed
  PROVE  noticed'
  <1>1. <<a>> \in Seq(HostState)
    OBVIOUS
  <1> QED
    BY <1>1, NoticeKept

LEMMA FencesKept ==
  ASSUME Unfenced, UNCHANGED <<receipt, policy, fence>>,
         drain'.pc = "begin" => UNCHANGED drain
  PROVE  Unfenced'
  BY DEF Unfenced, current

LEMMA PublishNoticeWakes ==
  ASSUME Wakeful, PublishNotice
  PROVE  Unfenced' /\ Awake'
  <1> USE DEF Wakeful, PublishNotice, queue, broker, journal
  <1>1. notices \in Seq(HostState) /\ notices # << >>
    BY DEF IInv, TypeOK
  <1>2. CASE Head(notices) = seen
    <2>1. noticed => noticed'
      <3>1. ASSUME NEW i \in DOMAIN notices, notices[i] # seen
            PROVE  noticed'
        <4>1. i # 1
          BY <1>1, <1>2, <3>1
        <4>2. i - 1 \in DOMAIN notices' /\ notices'[i - 1] = notices[i] /\ seen' = seen
          BY <1>1, <1>2, <3>1, <4>1
        <4> QED
          BY <3>1, <4>2 DEF noticed
      <3> QED
        BY <3>1 DEF noticed
    <2> QED
      BY <2>1, NothingStirs, FencesKept
  <1>3. CASE Head(notices) # seen
    BY <1>3, TimerWakes, FencesKept
  <1> QED
    BY <1>2, <1>3

LEMMA TimerFiresWakes ==
  ASSUME Wakeful, TimerFires
  PROVE  Unfenced' /\ Awake'
  <1> USE DEF Wakeful, TimerFires, broker, journal
  <1>1. Unfenced'
    BY FencesKept DEF Idle
  <1>2. CASE drain.pc = "off"
    <2>1. drain'.pc = "fetch"
      BY <1>2 DEF Idle
    <2> QED
      BY <1>1, <2>1 DEF Awake, awaited
  <1>3. CASE drain.pc # "off"
    BY <1>1, <1>3 DEF Awake
  <1> QED
    BY <1>2, <1>3

(* A pass ends.                                                             *)
LEMMA EndPassWakes ==
  ASSUME Wakeful, endPass, UNCHANGED <<policy, fence>>,
         \A m \in Messages : receipt'[m] = "unsent" => receipt[m] = "unsent",
         pending' # {} /\ host' = "up" => timer' \/ rerun \/ noticed' \/ active' # Null
  PROVE  Unfenced' /\ Awake'
  <1>1. rerun => drain'.pc = "fetch"
    BY DEF endPass, Idle
  <1>2. ~rerun => drain'.pc = "off"
    BY DEF endPass, Idle
  <1> QED
    BY <1>1, <1>2 DEF Unfenced, Awake, awaited, Wakeful

LEMMA FetchEffectsWakes ==
  ASSUME Wakeful, FetchEffects
  PROVE  Unfenced' /\ Awake'
  <1> USE DEF Wakeful, FetchEffects, journal
  <1>1. pending' = pending
    BY DEF pending, open
  <1>2. CASE pending = {}
    BY <1>1, <1>2, EndPassWakes
  <1>3. CASE pending # {}
    <2>1. drain'.pc = "next" /\ drain'.page = pending
      BY <1>3 DEF IInv, TypeOK, DrainState
    <2> QED
      BY <1>1, <2>1, FencesKept DEF Awake, awaited
  <1> QED
    BY <1>2, <1>3

LEMMA NextEffectWakes ==
  ASSUME Wakeful, NextEffect
  PROVE  Unfenced' /\ Awake'
  <1> USE DEF Wakeful, NextEffect, broker, journal, controller
  <1>1. active' = active /\ pending' = pending /\ (noticed' <=> noticed)
    BY DEF active, pending, open, noticed
  <1>2. CASE endPass /\ (drain.page = {} \/ host = "none" \/ ~ready(current))
    <2>1. ~ready(current) => active # Null
      BY DEF ready
    <2>2. pending # {} /\ host = "up" => timer \/ rerun \/ active # Null
      BY <1>2, <2>1 DEF Awake
    <2> QED
      BY <1>1, <1>2, <2>2, EndPassWakes
  <1>3. CASE host = "dead" /\ drain' = [drain EXCEPT !.pc = "requeue"]
    BY <1>3, TimerWakes, FencesKept DEF IInv, TypeOK, DrainState
  <1>4. CASE /\ drain.page # {} /\ ready(current)
             /\ drain' = [drain EXCEPT !.pc = "begin", !.turn = active, !.live = TRUE,
                                       !.fence = deliveryFence(current),
                                       !.interrupts = mayInterrupt(current)]
    <2>1. /\ drain'.pc = "begin" /\ drain'.live = TRUE /\ drain'.page = drain.page
          /\ drain'.fence = deliveryFence(current) /\ current' = current
      BY <1>4 DEF IInv, TypeOK, DrainState, current
    <2>2. current \in Messages
      BY <1>4, CurrentIsOldest DEF IInv
    <2>3. policy[current] = "queue" => deliveryFence(current) = Null
      BY <1>4, <2>2 DEF Unfenced, ready, maySteer, mayInterrupt, deliveryFence
    <2>4. Unfenced'
      BY <2>1, <2>3 DEF Unfenced
    <2>5. /\ drain.pc = "next" /\ UNCHANGED <<timer, host, rerun>>
          /\ pending \subseteq drain.page \/ timer \/ rerun \/ host # "up"
      BY <1>4, <2>1 DEF Awake, endPass, Idle
    <2> HIDE DEF NextEffect, Wakeful
    <2>6. Awake'
      BY <1>1, <2>1, <2>5 DEF Awake
    <2> QED
      BY <2>4, <2>6
  <1> QED
    BY <1>2, <1>3, <1>4 DEF IInv, TypeOK

LEMMA BegunFences ==
  ASSUME Wakeful, drain.pc = "begin",
         receipt' = [receipt EXCEPT ![current] = "delivering"],
         fence' = [fence EXCEPT ![current] = IF receipt[current] = "queued"
                                               THEN drain.fence ELSE @],
         policy' = policy, drain'.pc # "begin"
  PROVE  Unfenced' /\ pending' = pending
  <1>1. current \in Messages /\ open(current)
    BY CurrentIsOpen DEF Wakeful, Working
  <1>2. pending' = pending
    BY <1>1 DEF pending, open, Wakeful, IInv, TypeOK
  <1> QED
    BY <1>1, <1>2 DEF Wakeful, Unfenced, IInv, TypeOK

LEMMA ReportedFences ==
  ASSUME Wakeful, drain.pc \in Closing, NEW status \in {"queued", "delivered", "failed"},
         report(status)
  PROVE  /\ \A m \in Messages : receipt'[m] = "unsent" => receipt[m] = "unsent"
         /\ pending' \subseteq pending
         /\ status # "queued" => pending' = pending \ {current}
  <1>1. current \in Messages /\ open(current)
    BY CurrentIsOpen DEF Wakeful, Working
  <1> QED
    BY <1>1 DEF report, pending, open, Wakeful, IInv, TypeOK

LEMMA BeginDeliveryWakes ==
  ASSUME Wakeful, BeginDelivery
  PROVE  Unfenced' /\ Awake'
  <1> USE DEF Wakeful, BeginDelivery, broker
  <1>1. ~(receipt[current] = "queued" /\ fence[current] \notin {Undefined, drain.fence})
    BY DEF IInv, Drained
  <1>2. /\ receipt' = [receipt EXCEPT ![current] = "delivering"]
        /\ fence' = [fence EXCEPT ![current] = IF receipt[current] = "queued"
                                                 THEN drain.fence ELSE @]
        /\ drain' = [drain EXCEPT !.pc = "begun"]
        /\ UNCHANGED <<policy, rerun, controller>>
    BY <1>1
  <1>3. drain'.pc = "begun" /\ drain'.page = drain.page /\ drain'.live = drain.live
    BY <1>2, PcMoved DEF IInv, TypeOK, Pc
  <1>4. Unfenced' /\ pending' = pending
    BY <1>2, <1>3, BegunFences
  <1> QED
    BY <1>2, <1>3, <1>4 DEF Awake, awaited, controller

(* The drain moves on within its pass.                                      *)
LEMMA MovesOn ==
  ASSUME Wakeful, NEW pc \in Pc \ {"off", "fetch", "begin"}, drain' = [drain EXCEPT !.pc = pc],
         drain.pc \notin {"off", "fetch"}, UNCHANGED <<receipt, policy, fence, rerun, timer>>,
         pc \in awaited => drain.pc \in awaited,
         pc = "requeue" /\ host' = "up" => timer \/ rerun \/ active' # Null,
         host' = "up" => host = "up"
  PROVE  Unfenced' /\ Awake'
  <1>1. drain'.pc = pc /\ drain'.page = drain.page /\ drain'.live = drain.live
    BY PcMoved DEF Wakeful, IInv, TypeOK
  <1>2. pending' = pending
    BY DEF pending, open
  <1> QED
    BY <1>1, <1>2, FencesKept DEF Wakeful, Awake

LEMMA InterruptWakes ==
  ASSUME Wakeful, Interrupt
  PROVE  Unfenced' /\ Awake'
  <1> USE DEF Wakeful, Interrupt, broker, journal, controller
  <1>1. PICK pc \in {"acking", "retry", "requeue"} :
          drain' = [drain EXCEPT !.pc = pc] /\ (pc = "requeue" => ~drain.live)
    OBVIOUS
  <1>2. drain.pc \in awaited /\ pc \in Pc \ {"off", "fetch", "begin"}
    BY DEF awaited, Pc, Closing
  <1>3. pc = "requeue" /\ host = "up" => timer \/ rerun
    BY <1>1, <1>2 DEF Awake
  <1>4. UNCHANGED <<receipt, policy, fence, rerun, timer, host>>
    OBVIOUS
  <1> HIDE DEF Interrupt, Wakeful
  <1> QED
    BY <1>1, <1>2, <1>3, <1>4, MovesOn DEF awaited

LEMMA SendWakes ==
  ASSUME Wakeful, drain.pc \in {"begun", "acked"}, send(current),
         UNCHANGED <<receipt, policy, fence, rerun, timer>>
  PROVE  Unfenced' /\ Awake'
  <1>1. current \in Messages
    BY CurrentIsOpen DEF Wakeful, Working
  <1>2. drain.pc \in awaited
    BY DEF awaited
  <1>3. ASSUME expectedTurn # active, policy[current] # "steer-if-active"
        PROVE  active # Null
    <2>1. policy[current] \in {"queue", "interrupt-active"}
      BY <1>1, <1>3, DeliveryAssumption DEF Wakeful, IInv, TypeOK
    <2>2. policy[current] = "queue" => drain.fence = Null
      <3>1. fence[current] = drain.fence /\ drain.fence \in Turn
        BY DEF Wakeful, IInv, Drained, TypeOK, DrainState
      <3>2. Undefined \notin Turn
        BY DeliveryAssumption DEF Turn, Messages
      <3> QED
        BY <1>1, <3>1, <3>2 DEF Wakeful, Unfenced
    <2> QED
      BY <1>3, <2>1, <2>2 DEF expectedTurn
  <1>4. \E pc \in {"requeue", "fail", "settle", "sending"} :
          /\ drain' = [drain EXCEPT !.pc = pc]
          /\ pc = "requeue" => ~drain.live \/ active # Null
          /\ pc # "sending" => UNCHANGED turnQueue
          /\ UNCHANGED host
    BY <1>3 DEF send, broker
  <1>5. PICK pc \in {"requeue", "fail", "settle", "sending"} :
          /\ drain' = [drain EXCEPT !.pc = pc]
          /\ pc = "requeue" => ~drain.live \/ active # Null
          /\ pc # "sending" => UNCHANGED turnQueue
          /\ UNCHANGED host
    BY <1>4
  <1>6. pc = "requeue" /\ host = "up" => timer \/ rerun \/ active' # Null
    BY <1>2, <1>5 DEF Wakeful, Awake, active
  <1>7. pc \in Pc \ {"off", "fetch", "begin"}
    BY DEF Pc, Closing
  <1> QED
    BY <1>2, <1>5, <1>6, <1>7, MovesOn

LEMMA AfterInterruptWakes ==
  ASSUME Wakeful, AfterInterrupt
  PROVE  Unfenced' /\ Awake'
  <1>1. UNCHANGED <<receipt, policy, fence, rerun, timer>> /\ drain.pc = "acked"
    BY DEF AfterInterrupt, journal
  <1>2. CASE drain.live /\ active = Null
    BY <1>1, <1>2, SendWakes DEF AfterInterrupt
  <1>3. CASE ~(drain.live /\ active = Null)
    <2>1. drain' = [drain EXCEPT !.pc = "requeue"] /\ UNCHANGED <<host, turnQueue>>
      BY <1>3 DEF AfterInterrupt, broker
    <2>2. drain.pc \in awaited /\ "requeue" \in Pc \ {"off", "fetch", "begin"}
      BY <1>1 DEF awaited, Pc, Closing
    <2>3. host = "up" => timer \/ rerun \/ active' # Null
      BY <1>3, <2>1, <2>2 DEF Wakeful, Awake, active
    <2> QED
      BY <1>1, <2>1, <2>2, <2>3, MovesOn
  <1> QED
    BY <1>2, <1>3

LEMMA RequeueWakes ==
  ASSUME Wakeful, Requeue
  PROVE  Unfenced' /\ Awake'
  <1> USE DEF Requeue, closePass, broker
  <1>1. \A m \in Messages : receipt'[m] = "unsent" => receipt[m] = "unsent"
    BY ReportedFences DEF Closing
  <1>2. UNCHANGED <<policy, fence, host, turnQueue, notices, seen>> /\ endPass
    BY DEF report
  <1>3. CASE drain.pc = "retry"
    <2>1. timer' = TRUE
      BY <1>3
    <2> QED
      BY <1>1, <1>2, <2>1, EndPassWakes
  <1>4. CASE drain.pc = "requeue"
    <2>1. host' = "up" => timer' \/ rerun \/ noticed' \/ active' # Null
      BY <1>2, <1>4 DEF Wakeful, Awake, noticed, active
    <2> QED
      BY <1>1, <1>2, <2>1, EndPassWakes
  <1> QED
    BY <1>3, <1>4

LEMMA SettleWakes ==
  ASSUME Wakeful, Settle \/ Fail
  PROVE  Unfenced' /\ Awake'
  <1> USE DEF Settle, Fail, nextOfPage, broker, controller
  <1>1. /\ \A m \in Messages : receipt'[m] = "unsent" => receipt[m] = "unsent"
        /\ pending' = pending \ {current}
    BY ReportedFences DEF Closing
  <1>2. drain'.pc = "next" /\ drain'.page = drain.page \ {current}
    BY DEF Wakeful, IInv, TypeOK, DrainState
  <1>3. Unfenced'
    BY <1>1, <1>2 DEF Wakeful, Unfenced, report
  <1> QED
    BY <1>1, <1>2, <1>3 DEF Wakeful, Awake, awaited

LEMMA DrainStopsWakes ==
  ASSUME Wakeful, RequestFails \/ AnswerLost
  PROVE  Unfenced' /\ Awake'
  <1>1. drain' = Idle /\ timer' = TRUE
    BY DEF RequestFails, AnswerLost, drainThrows
  <1>2. drain'.pc = "off"
    BY <1>1 DEF Idle
  <1>3. CASE RequestFails
    BY <1>1, <1>2, <1>3, TimerWakes, FencesKept DEF RequestFails, Wakeful, journal
  <1>4. CASE AnswerLost /\ drain.pc = "begin"
    <2>1. /\ receipt' = [receipt EXCEPT ![current] = "delivering"]
          /\ fence' = [fence EXCEPT ![current] = IF receipt[current] = "queued"
                                                   THEN drain.fence ELSE @]
          /\ policy' = policy
      BY <1>4 DEF AnswerLost, Closing
    <2> QED
      BY <1>1, <1>2, <1>4, <2>1, TimerWakes, BegunFences
  <1>5. CASE AnswerLost /\ drain.pc \in Closing
    <2>1. PICK status \in {"queued", "delivered", "failed"} : report(status)
      BY <1>5 DEF AnswerLost, Closing
    <2>2. \A m \in Messages : receipt'[m] = "unsent" => receipt[m] = "unsent"
      BY <1>5, <2>1, ReportedFences
    <2>3. Unfenced'
      BY <1>2, <2>1, <2>2 DEF Wakeful, Unfenced, report
    <2> QED
      BY <1>1, <2>3, TimerWakes
  <1> QED
    BY <1>3, <1>4, <1>5 DEF AnswerLost

---------------------------------------------------------------------------
LEMMA AcceptEchoWakes ==
  ASSUME Wakeful, AcceptEcho
  PROVE  Unfenced' /\ Awake'
  <1>1. noticed => noticed'
    BY StateNoticeKept, HostStateTyped DEF AcceptEcho, Wakeful, IInv, TypeOK
  <1>2. UNCHANGED <<receipt, policy, fence, rerun, timer, host, turnQueue>>
    BY DEF AcceptEcho, journal, broker
  <1>3. CASE drain' = drain
    BY <1>1, <1>2, <1>3, NothingStirs, FencesKept DEF Wakeful
  <1>4. CASE drain.pc = "sending" /\ drain' = [drain EXCEPT !.pc = "settle"]
    <2>1. "settle" \in Pc \ {"off", "fetch", "begin"} /\ "settle" \notin awaited
      BY DEF Pc, Closing, awaited
    <2> QED
      BY <1>2, <1>4, <2>1, MovesOn
  <1> QED
    BY <1>3, <1>4 DEF AcceptEcho

(* The end of the active turn is noticed.                                   *)
LEMMA AcceptResultWakes ==
  ASSUME Wakeful, AcceptResult
  PROVE  Unfenced' /\ Awake'
  <1>1. UNCHANGED <<receipt, policy, fence, drain, rerun, timer, host, seen>>
    BY DEF AcceptResult, journal, queue
  <1>2. Unfenced'
    BY <1>1, FencesKept DEF Wakeful
  <1>3. CASE turnQueue = << >>
    BY <1>1, <1>2, <1>3, NothingStirs DEF AcceptResult, Wakeful, noticed
  <1>4. CASE turnQueue # << >>
    <2> DEFINE before == hostState(host, turnQueue)
               after == hostState(host, turnQueue')
    <2>1. notices' = notices \o <<before, after>> /\ notices \in Seq(HostState)
      BY <1>4 DEF AcceptResult, notify, needless, Wakeful, IInv, TypeOK
    <2>2. before \in HostState /\ after \in HostState
      <3>1. turnQueue \in Seq(Messages) /\ turnQueue' = Tail(turnQueue)
        BY <1>4 DEF AcceptResult, Wakeful, IInv, TypeOK
      <3>2. turnQueue' \in Seq(Messages)
        BY <1>4, <3>1
      <3> QED
        BY <3>1, <3>2, HostStateTyped DEF Wakeful, IInv, TypeOK
    <2>3. before.turn = active /\ after.turn = active'
      BY DEF hostState, active
    <2>4. ASSUME active # Null, active' = Null
          PROVE  noticed'
      <3>1. before # seen \/ after # seen
        BY <2>3, <2>4
      <3> HIDE DEF before, after
      <3>2. /\ Len(notices) + 1 \in DOMAIN notices' /\ notices'[Len(notices) + 1] = before
            /\ Len(notices) + 2 \in DOMAIN notices' /\ notices'[Len(notices) + 2] = after
        BY <2>1, <2>2
      <3> QED
        BY <1>1, <3>1, <3>2 DEF noticed
    <2>5. active # Null
      <3>1. Head(turnQueue) \in Messages
        BY <1>4 DEF Wakeful, IInv, TypeOK
      <3> QED
        BY <1>4, <3>1, DeliveryAssumption DEF active, activeTurn, Messages
    <2>6. pending' = pending
      BY <1>1 DEF pending, open
    <2> QED
      BY <1>1, <1>2, <2>4, <2>5, <2>6 DEF Wakeful, Awake
  <1> QED
    BY <1>3, <1>4

LEMMA AcceptAcknowledgementWakes ==
  ASSUME Wakeful, AcceptAcknowledgement \/ InterruptRefused
  PROVE  Unfenced' /\ Awake'
  <1>1. UNCHANGED <<receipt, policy, fence, rerun, timer, host, turnQueue, notices, seen>>
    BY DEF AcceptAcknowledgement, InterruptRefused, journal, broker, controller
  <1>2. CASE drain' = drain
    BY <1>1, <1>2, NothingStirs, FencesKept DEF Wakeful, noticed
  <1>3. ASSUME NEW pc \in {"acked", "retry"}, drain.pc = "acking",
               drain' = [drain EXCEPT !.pc = pc]
        PROVE  Unfenced' /\ Awake'
    <2>1. pc \in Pc \ {"off", "fetch", "begin"} /\ drain.pc \in awaited
      BY <1>3 DEF Pc, Closing, awaited
    <2> QED
      BY <1>1, <1>3, <2>1, MovesOn
  <1> QED
    BY <1>2, <1>3 DEF AcceptAcknowledgement, InterruptRefused

LEMMA EngineWakes ==
  ASSUME Wakeful, EngineReads \/ EngineFinishes \/ EngineAcknowledges \/ EngineExits
  PROVE  Unfenced' /\ Awake'
  <1>1. UNCHANGED <<receipt, policy, fence, drain, rerun, timer, host, turnQueue, seen>>
    BY DEF EngineReads, EngineFinishes, EngineAcknowledges, EngineExits, journal, queue, broker,
           controller
  <1>2. noticed => noticed'
    <2>1. CASE UNCHANGED notices
      BY <1>1, <2>1 DEF noticed
    <2>2. CASE notify(<<hostState("dead", << >>)>>)
      <3>1. hostState("dead", << >>) \in HostState /\ notices \in Seq(HostState)
        BY HostStateTyped, NoneTyped DEF Wakeful, IInv, TypeOK
      <3> QED
        BY <1>1, <2>2, <3>1, StateNoticeKept
    <2> QED
      BY <2>1, <2>2 DEF EngineReads, EngineFinishes, EngineAcknowledges, EngineExits, controller
  <1> QED
    BY <1>1, <1>2, NothingStirs, FencesKept DEF Wakeful

LEMMA SubmitWakes ==
  ASSUME Wakeful, NEW m \in Messages, NEW p \in Policies, Submit(m, p)
  PROVE  Unfenced' /\ Awake'
  <1> USE DEF Wakeful, Submit, queue
  <1>1. Awake'
    BY TimerWakes
  <1>2. /\ \A n \in Messages : receipt'[n] = IF n = m THEN "queued" ELSE receipt[n]
        /\ \A n \in Messages : policy'[n] = IF n = m THEN p ELSE policy[n]
        /\ fence[m] = Undefined
    BY DEF IInv, TypeOK, Unfenced
  <1>3. drain.pc = "begin" => current \in Messages /\ current # m
    BY CurrentIsOpen DEF Working, open
  <1>4. Unfenced'
    BY <1>2, <1>3 DEF Unfenced, current
  <1> QED
    BY <1>1, <1>4

LEMMA FailureWakes ==
  ASSUME Wakeful,
         HostFails \/ HostSeesExit \/ ViewerCrashes \/ ViewerStarts \/ Recover
  PROVE  Unfenced' /\ Awake'
  <1>1. timer' = TRUE \/ host' # "up"
    BY DEF HostFails, HostSeesExit, hostDies, ViewerCrashes, ViewerStarts, Recover
  <1>2. UNCHANGED <<receipt, policy, fence>>
    BY DEF HostFails, HostSeesExit, hostDies, ViewerCrashes, ViewerStarts, Recover, journal
  <1>3. drain'.pc = "begin" => UNCHANGED <<drain>> \/ UNCHANGED <<drain.pc, drain.fence, current>>
    <2>1. CASE hostDies
      <3>1. drain'.page = drain.page /\ drain'.fence = drain.fence
            /\ drain'.pc \in {drain.pc, "requeue"}
        BY <2>1 DEF hostDies, Wakeful, IInv, TypeOK, DrainState
      <3> QED
        BY <3>1 DEF current
    <2>2. CASE ViewerCrashes
      BY <2>2 DEF ViewerCrashes, Idle
    <2>3. CASE ViewerStarts \/ Recover
      BY <2>3 DEF ViewerStarts, Recover, queue
    <2> QED
      BY <2>1, <2>2, <2>3 DEF HostFails, HostSeesExit
  <1>4. Unfenced'
    BY <1>2, <1>3 DEF Wakeful, Unfenced, current
  <1> QED
    BY <1>1, <1>4, TimerWakes

LEMMA StepWakes ==
  ASSUME ~SyncFails, Wakeful, [Next]_vars
  PROVE  Wakeful'
  <1>1. IInv'
    BY StepKeeps DEF Wakeful
  <1>2. CASE PublishNotice \/ TimerFires \/ DrainStep
    BY <1>1, <1>2, PublishNoticeWakes, TimerFiresWakes, FetchEffectsWakes, NextEffectWakes,
       BeginDeliveryWakes, InterruptWakes, SendWakes, AfterInterruptWakes, RequeueWakes,
       SettleWakes
    DEF DrainStep, Wakeful, Send, journal
  <1>3. CASE ReadStdout \/ HostSeesExit
    BY <1>1, <1>3, AcceptEchoWakes, AcceptResultWakes, AcceptAcknowledgementWakes, FailureWakes
    DEF ReadStdout, Wakeful
  <1>4. CASE EngineReads \/ EngineFinishes \/ EngineAcknowledges \/ EngineExits
    BY <1>1, <1>4, EngineWakes DEF Wakeful
  <1>5. CASE \E m \in Messages, p \in Policies : Submit(m, p)
    BY <1>1, <1>5, SubmitWakes DEF Wakeful
  <1>6. CASE ViewerStarts \/ Recover \/ Failure
    <2>1. ~PublicationFails
      BY DEF PublicationFails
    <2> QED
      BY <1>1, <1>6, <2>1, FailureWakes, DrainStopsWakes, AcceptAcknowledgementWakes
      DEF Failure, Wakeful
  <1>7. CASE UNCHANGED vars
    BY <1>1, <1>7, NothingStirs, FencesKept
    DEF Wakeful, vars, journal, broker, queue, controller, noticed
  <1> QED
    BY <1>2, <1>3, <1>4, <1>5, <1>6, <1>7 DEF Next

(* No lost wake-up: while the host is idle and its engine runs, a message   *)
(* that waits always has a timer, a drain or a notice that will see to it,  *)
(* however drains, turns, crashes and recoveries interleave.                *)
THEOREM NoLostWakeup ==
  ASSUME ~SyncFails
  PROVE  Spec => []IdleHostHasNoBacklog
  <1>1. Init => Wakeful
    <2>1. ASSUME Init
          PROVE  Unfenced /\ Awake
      BY <2>1 DEF Init, Unfenced, Awake, awaited, Idle, pending, open
    <2> QED
      BY <2>1, InitHolds DEF Wakeful
  <1>2. Wakeful /\ [Next]_vars => Wakeful'
    BY StepWakes
  <1>3. Wakeful => IdleHostHasNoBacklog
    BY DEF Wakeful, Awake, IdleHostHasNoBacklog, asleep, noticed
  <1> QED
    BY <1>1, <1>2, <1>3, PTL DEF Spec
=============================================================================
