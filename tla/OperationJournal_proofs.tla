------------------------- MODULE OperationJournal_proofs -------------------------
(***************************************************************************)
(* Machine-checked theorems about OperationJournal: its types, and the     *)
(* consistency of receipts, outbox and retry chains, for every number of   *)
(* operations, keys, turns and events.                                     *)
(***************************************************************************)
EXTENDS OperationJournal, TLAPS

---------------------------------------------------------------------------
(* Operation ids and event keys.                                            *)

(* The parent of a retry is an operation id, and its replacement is the     *)
(* retry itself.                                                            *)
LEMMA RetryIds ==
  ASSUME NEW op \in OpIds
  PROVE  /\ isRetry(op) => retryOfOperationId(op) \in OpIds
         /\ isRetry(op) => terminalRetryOperationId(retryOfOperationId(op)) = op
         /\ isRetry(op) => retryOfOperationId(op) # op
         /\ isRetry(terminalRetryOperationId(op))
         /\ terminalRetryOperationId(op) # op
         /\ retryOfOperationId(terminalRetryOperationId(op)) = op
  <1>1. PICK c \in ClientOps, n \in 0 .. MaxRetries : op = <<c, n>>
    BY DEF OpIds
  <1> QED
    BY <1>1, JournalAssumption
    DEF OpIds, isRetry, retryOfOperationId, terminalRetryOperationId

(* A receipt key names its operation, its revision and its status.          *)
LEMMA ReceiptKey ==
  ASSUME NEW key \in EventKeys, key[1] = "receipt"
  PROVE  key[2] \in OpIds /\ key[3] \in Nat /\ key[4] \in Live \cup Settled
  BY DEF EventKeys

---------------------------------------------------------------------------
(* What commit does to the tables a transaction wrote: compaction removes   *)
(* only completed effects and rows without a pending effect, oldest first.  *)
LEMMA CommitFacts ==
  ASSUME NEW rows \in [OpIds -> Row \cup {NoRow}],
         NEW effects \in [OpIds -> Effect \cup {NoEffect}],
         NEW last \in Nat, anchor \in Nat,
         commit(rows, effects, last)
  PROVE  /\ seq' = last /\ anchor' \in Nat
         /\ operations' \in [OpIds -> Row \cup {NoRow}]
         /\ outbox' \in [OpIds -> Effect \cup {NoEffect}]
         /\ \A op \in OpIds :
              /\ operations'[op] \in {rows[op], NoRow}
              /\ outbox'[op] \in {effects[op], NoEffect}
              /\ effects[op].state = "pending" => operations'[op] = rows[op]
              /\ effects[op].state # "completed" => outbox'[op] = effects[op]
         /\ \A op, older \in OpIds :
              /\ operations'[op] # rows[op]
              /\ rows[older].eventSeq <= rows[op].eventSeq
              /\ effects[older].state # "pending"
              => operations'[older] = NoRow
  <1>1. CASE last - anchor > MaxEvents
    <2> DEFINE cut == last - MaxEvents
    <2>1. cut \in Nat
      BY <1>1, JournalAssumption
    <2>2. compact(rows, effects, cut) /\ seq' = last
      BY <1>1 DEF commit
    <2>3. \A op \in OpIds : rows[op].eventSeq \in Nat
      BY DEF Row, NoRow
    <2> HIDE DEF cut
    <2>4. operations' \in [OpIds -> Row \cup {NoRow}]
      BY <2>2 DEF compact
    <2>5. outbox' \in [OpIds -> Effect \cup {NoEffect}]
      BY <2>2 DEF compact
    <2> QED
      BY <2>1, <2>2, <2>3, <2>4, <2>5 DEF compact, keepRow, keepEffect
  <1>2. CASE ~(last - anchor > MaxEvents)
    BY <1>2 DEF commit
  <1> QED
    BY <1>1, <1>2

---------------------------------------------------------------------------
(* Types.                                                                   *)

(* The first receipt of a command has one of five statuses, and a turn.     *)
LEMMA ReceiptType ==
  ASSUME TypeOK, NEW req \in Requests
  PROVE  /\ operationReceipt(req).status
              \in {"pending", "queued", "rejected", "interrupted", "answered"}
         /\ operationReceipt(req).turnId \in TurnRef
  <1>1. /\ req \in RequestType /\ namedTurn(req) \in TurnRef
        /\ session \in Session /\ attention \in Attention
    BY JournalAssumption DEF TypeOK, namedTurn, RequestType, Session, TurnRef
  <1>2. CASE req.kind \in {"kill", "spawn"}
    BY <1>1, <1>2 DEF operationReceipt, receipt, TurnRef
  <1>3. CASE req.kind = "answer"
    BY <1>1, <1>3 DEF operationReceipt, answerReceipt, receipt, Attention, TurnRef
  <1>4. CASE req.kind \in {"send", "steer", "interrupt"}
    <2>1. /\ sendReceipt(req).status \in {"pending", "queued", "rejected"}
          /\ sendReceipt(req).turnId \in TurnRef
      BY <1>1 DEF sendReceipt, receipt, Session, TurnRef
    <2>2. /\ steerReceipt(req).status \in {"pending", "rejected"}
          /\ steerReceipt(req).turnId \in TurnRef
      BY <1>1 DEF steerReceipt, receipt, Session, TurnRef
    <2>3. /\ interruptReceipt(req).status \in {"pending", "interrupted"}
          /\ interruptReceipt(req).turnId \in TurnRef
      BY <1>1 DEF interruptReceipt, receipt, Session, TurnRef, RequestType
    <2> QED
      BY <1>1, <1>4, <2>1, <2>2, <2>3 DEF operationReceipt, receipt
  <1> QED
    BY <1>1, <1>2, <1>3, <1>4 DEF RequestType, Kinds

(* The projection a consequence writes has the types of the projections,    *)
(* and its key, if it has one, is an event key.                             *)
consequenceOK(c) ==
  happens(c) => c.key \in EventKeys /\ c.key[1] \notin {"admit", "receipt"}
                  /\ c.session \in Session /\ c.attention \in Attention

LEMMA ConsequenceTypes ==
  ASSUME TypeOK, NEW op \in OpIds, NEW req \in Requests,
         NEW r, r.turnId \in TurnRef, NEW status
  PROVE  /\ consequenceOK(NoConsequence)
         /\ consequenceOK(operationConsequence(op, req, r))
         /\ consequenceOK(completionConsequence(op, req, status))
  <1>1. /\ req \in RequestType /\ session \in Session /\ attention \in Attention
        /\ retired \in Session /\ placeholder(req) \in Session
    BY JournalAssumption DEF TypeOK, retired, placeholder, Session, Hosts, TurnAxis,
                             RequestType, TurnRef
  <1>2. consequenceOK(NoConsequence)
    BY DEF consequenceOK, happens, NoConsequence
  <1>3. consequenceOK(operationConsequence(op, req, r))
    BY <1>1, <1>2 DEF consequenceOK, happens, operationConsequence, NoConsequence, EventKeys,
                      Session, TurnAxis, Attention
  <1>4. consequenceOK(completionConsequence(op, req, status))
    BY <1>1, <1>2 DEF consequenceOK, happens, completionConsequence, NoConsequence, EventKeys,
                      retiresPlaceholder, Attention
  <1> QED
    BY <1>2, <1>3, <1>4

(* Appending a receipt and its consequence.                                 *)
LEMMA AppendTypes ==
  ASSUME TypeOK, NEW op \in OpIds, NEW eventKey \in EventKeys, NEW c, consequenceOK(c),
         appendReceipt(eventKey, op, c)
  PROVE  /\ DOMAIN producerReceipts' \subseteq EventKeys
         /\ \A key \in DOMAIN producerReceipts' : producerReceipts'[key] \in Event
         /\ scopeRevision' \in [OpIds -> Nat]
         /\ session' \in Session /\ attention' \in Attention
         /\ receiptEvent(eventKey, op) \in Event
         /\ lastSeq(eventKey, c) \in Nat
  <1>1. receiptEvent(eventKey, op) \in Event
    BY DEF TypeOK, receiptEvent, fresh, Event
  <1>2. lastSeq(eventKey, c) \in Nat
    BY DEF TypeOK, lastSeq
  <1>3. scopeRevision' \in [OpIds -> Nat]
    BY <1>1 DEF TypeOK, appendReceipt, Event
  <1>4. session' \in Session /\ attention' \in Attention
    BY DEF TypeOK, appendReceipt, consequenceOK
  <1>5. /\ DOMAIN producerReceipts' \subseteq EventKeys
        /\ \A key \in DOMAIN producerReceipts' : producerReceipts'[key] \in Event
    BY <1>1 DEF TypeOK, appendReceipt, with, consequenceOK, Event, fresh
  <1> QED
    BY <1>1, <1>2, <1>3, <1>4, <1>5

(* Admitting a command, or the replacement a retry asks for, keeps types.    *)
LEMMA AdmissionType ==
  ASSUME TypeOK, NEW op \in OpIds, NEW key \in Keys, NEW req \in Requests,
         NEW presentation \in Nat,
         executeOperationWithLineage(op, key, req, presentation)
  PROVE  TypeOK'
  <1> DEFINE c == operationConsequence(op, req, operationReceipt(req))
             rows == [operations EXCEPT ![op] = admittedRow(op, key, req, presentation)]
             effects == IF insertsEffect(op, key, req)
                          THEN [outbox EXCEPT ![op] = insertedEffect(op, key, req)] ELSE outbox
  <1>1. /\ operationReceipt(req).status \in Live \cup Settled
        /\ operationReceipt(req).turnId \in TurnRef
    BY ReceiptType DEF Live, Settled
  <1>2. admitKey(key) \in EventKeys
    BY DEF EventKeys, admitKey
  <1>3. consequenceOK(c)
    BY <1>1, ConsequenceTypes
  <1>4. /\ appendReceipt(admitKey(key), op, c)
        /\ commit(rows, effects, lastSeq(admitKey(key), c))
    BY DEF executeOperationWithLineage
  <1>5. /\ receiptEvent(admitKey(key), op) \in Event
        /\ lastSeq(admitKey(key), c) \in Nat
    BY <1>2, <1>3, <1>4, AppendTypes
  <1>6. admittedRow(op, key, req, presentation) \in Row
    BY <1>1, <1>5 DEF admittedRow, Row, Event
  <1>7. insertedEffect(op, key, req) \in Effect
    <2>1. effectFence(req, operationReceipt(req)) \in TurnRef \cup {Undefined}
      BY <1>1, JournalAssumption DEF effectFence, RequestType, TurnRef
    <2> QED
      BY <1>5, <2>1 DEF insertedEffect, Effect, Event
  <1>8. /\ rows \in [OpIds -> Row \cup {NoRow}]
        /\ effects \in [OpIds -> Effect \cup {NoEffect}]
    BY <1>6, <1>7 DEF TypeOK
  <1> HIDE DEF rows, effects, c
  <1> QED
    BY <1>2, <1>3, <1>4, <1>5, <1>8, AppendTypes, CommitFacts DEF TypeOK

(* The row and the effect a transition or a retry in place writes.          *)
LEMMA MovedTypes ==
  ASSUME TypeOK, NEW op \in OpIds, admitted(op), NEW status \in Live \cup Settled,
         NEW turn \in TurnRef \cup {Undefined}
  PROVE  /\ receiptKey(op, status) \in EventKeys
         /\ consequenceOK(transitionConsequence(op, status))
         /\ receiptEvent(receiptKey(op, status), op) \in Event
         /\ movedRow(op, status, turn) \in Row
         /\ outbox[op].state # "none" => movedEffect(op, status, turn) \in Effect
  <1>1. operations[op] \in Row
    BY DEF TypeOK, admitted, NoRow
  <1>2. receiptKey(op, status) \in EventKeys
    BY <1>1 DEF EventKeys, Row, receiptKey
  <1>3. consequenceOK(transitionConsequence(op, status))
    <2>1. operations[op].request \in Requests
      BY <1>1 DEF Row
    <2>2. receipt(status, operations[op].turnId).turnId \in TurnRef
      BY <1>1 DEF Row, receipt
    <2> QED
      BY <2>1, <2>2, ConsequenceTypes DEF transitionConsequence
  <1>4. receiptEvent(receiptKey(op, status), op) \in Event
    BY <1>2 DEF TypeOK, receiptEvent, fresh, Event
  <1>5. movedRow(op, status, turn) \in Row
    BY <1>1, <1>4 DEF Row, Event, movedRow
  <1>6. outbox[op].state # "none" => movedEffect(op, status, turn) \in Effect
    BY DEF TypeOK, Effect, NoEffect, fences, TurnRef, movedEffect
  <1> QED
    BY <1>2, <1>3, <1>4, <1>5, <1>6

(* A transition keeps the types of the tables it writes.                    *)
LEMMA TransitionType ==
  ASSUME TypeOK, NEW op \in OpIds, NEW status \in Live \cup Settled,
         NEW turn \in TurnRef \cup {Undefined},
         TransitionOperation(op, status, turn)
  PROVE  TypeOK'
  <1> DEFINE c == transitionConsequence(op, status)
             rows == [operations EXCEPT ![op] = movedRow(op, status, turn)]
             effects == IF outbox[op].state = "none" THEN outbox
                          ELSE [outbox EXCEPT ![op] = movedEffect(op, status, turn)]
  <1>1. /\ admitted(op)
        /\ appendReceipt(receiptKey(op, status), op, c)
        /\ commit(rows, effects, lastSeq(receiptKey(op, status), c))
    BY DEF TransitionOperation
  <1>2. lastSeq(receiptKey(op, status), c) \in Nat
    BY <1>1, MovedTypes, AppendTypes
  <1>3. /\ rows \in [OpIds -> Row \cup {NoRow}]
        /\ effects \in [OpIds -> Effect \cup {NoEffect}]
    BY <1>1, MovedTypes DEF TypeOK
  <1> HIDE DEF rows, effects
  <1> QED
    BY <1>1, <1>2, <1>3, MovedTypes, AppendTypes, CommitFacts DEF TypeOK

(* A retry in place writes a row and an effect of the right types.          *)
LEMMA RetryInPlaceType ==
  ASSUME TypeOK, NEW op \in OpIds, RetryInPlace(op)
  PROVE  TypeOK'
  <1> DEFINE rows == [operations EXCEPT ![op] = movedRow(op, "queued", Undefined)]
             effects == [outbox EXCEPT ![op] = requeuedEffect(op)]
  <1>1. /\ admitted(op)
        /\ appendReceipt(receiptKey(op, "queued"), op, NoConsequence)
        /\ commit(rows, effects, lastSeq(receiptKey(op, "queued"), NoConsequence))
    BY DEF RetryInPlace, admitted
  <1>2. "queued" \in Live \cup Settled
    BY DEF Live
  <1>3. consequenceOK(NoConsequence)
    BY DEF consequenceOK, happens, NoConsequence
  <1>4. /\ receiptKey(op, "queued") \in EventKeys
        /\ receiptEvent(receiptKey(op, "queued"), op) \in Event
        /\ movedRow(op, "queued", Undefined) \in Row
    BY <1>1, <1>2, MovedTypes
  <1>5. lastSeq(receiptKey(op, "queued"), NoConsequence) \in Nat
    BY <1>1, <1>3, <1>4, AppendTypes
  <1>6. requeuedEffect(op) \in Effect
    BY <1>1, <1>4 DEF requeuedEffect, Effect, TypeOK, Row, NoRow, Event, admitted
  <1>7. /\ rows \in [OpIds -> Row \cup {NoRow}]
        /\ effects \in [OpIds -> Effect \cup {NoEffect}]
    BY <1>4, <1>6 DEF TypeOK
  <1> HIDE DEF rows, effects
  <1> QED
    BY <1>1, <1>3, <1>4, <1>5, <1>7, AppendTypes, CommitFacts DEF TypeOK

(* Projecting a well-typed session and attention keeps types.               *)
LEMMA PublishType ==
  ASSUME TypeOK, NEW s \in Session, NEW a \in Attention, publish(s, a)
  PROVE  TypeOK'
  <1>1. commit(operations, outbox, seq + 1) /\ seq + 1 \in Nat
    BY DEF TypeOK, publish
  <1> QED
    BY <1>1, CommitFacts DEF TypeOK, publish

(* An empty journal is well typed.                                          *)
LEMMA InitType == Init => TypeOK
  BY JournalAssumption
  DEF Init, TypeOK, Session, Attention, Hosts, TurnAxis, TurnRef

(* Every transaction keeps the types.                                       *)
LEMMA NextType ==
  ASSUME TypeOK, [Next]_vars
  PROVE  TypeOK'
  <1>1. ASSUME NEW op \in OpIds, NEW key \in ClientKeys, NEW req \in Requests,
               ExecuteOperation(op, key, req)
        PROVE  TypeOK'
    <2>1. key \in Keys /\ executeOperationWithLineage(op, key, req, 0)
      BY <1>1 DEF ExecuteOperation, Keys
    <2> QED
      BY <2>1, AdmissionType
  <1>2. ASSUME NEW op \in OpIds, RetryOperation(op)
        PROVE  TypeOK'
    <2> DEFINE next == terminalRetryOperationId(op)
    <2>1. operations[op] \in Row
      BY <1>2 DEF RetryOperation, retryable, TypeOK, NoRow
    <2>2. /\ operations[op].request \in Requests
          /\ nextPresentation(operations[op]) \in Nat
      BY <2>1 DEF Row, nextPresentation
    <2>3. /\ next \in OpIds /\ next \in Keys
          /\ executeOperationWithLineage(next, next, operations[op].request,
                                         nextPresentation(operations[op]))
      BY <1>2 DEF RetryOperation, retryable, Keys
    <2> HIDE DEF next
    <2> QED
      BY <2>2, <2>3, AdmissionType
  <1>3. ASSUME NEW op \in OpIds, RetryInPlace(op)
        PROVE  TypeOK'
    BY <1>3, RetryInPlaceType
  <1>4. CASE Transitions
    <2>1. PICK op \in OpIds : admitted(op) /\
            \E status \in outcomes(operations[op].request.kind) :
              \E turn \in reportedTurns(op, status) : TransitionOperation(op, status, turn)
      BY <1>4 DEF Transitions
    <2>2. PICK status \in outcomes(operations[op].request.kind) :
            \E turn \in reportedTurns(op, status) : TransitionOperation(op, status, turn)
      BY <2>1
    <2>3. PICK turn \in reportedTurns(op, status) : TransitionOperation(op, status, turn)
      BY <2>2
    <2>4. status \in Live \cup Settled /\ turn \in TurnRef \cup {Undefined}
      BY <2>2, <2>3 DEF outcomes, reportedTurns, Live, Settled
    <2> QED
      BY <2>3, <2>4, TransitionType
  <1>5. ASSUME NEW report \in SessionReports, PublishSession(report)
        PROVE  TypeOK'
    BY <1>5, PublishType, JournalAssumption DEF PublishSession, TypeOK
  <1>6. ASSUME NEW turn \in TurnRef, PublishTurn(turn)
        PROVE  TypeOK'
    <2>1. [session EXCEPT !.host = baseHost, !.activeTurnId = turn,
             !.turn = IF turn = Null THEN "idle" ELSE "running"] \in Session
      BY DEF TypeOK, Session, baseHost, Hosts, TurnAxis
    <2> QED
      BY <1>6, <2>1, PublishType DEF PublishTurn, TypeOK
  <1>7. ASSUME NEW state \in {"open", "resolved"}, PublishAttention(state)
        PROVE  TypeOK'
    <2>1. /\ [session EXCEPT !.host = baseHost] \in Session
          /\ [state |-> state, turnId |-> IF state = "open" THEN session.activeTurnId
                                                            ELSE attention.turnId] \in Attention
      BY DEF TypeOK, Session, Attention, baseHost, Hosts
    <2> QED
      BY <1>7, <2>1, PublishType DEF PublishAttention
  <1>8. CASE AppendElsewhere
    BY <1>8, PublishType DEF AppendElsewhere, TypeOK
  <1>9. CASE ClaimHostEpoch
    <2>1. retired \in Session
      BY DEF retired, TypeOK, Session, Hosts, TurnAxis, TurnRef
    <2>2. seq + 1 \in Nat
      BY DEF TypeOK
    <2> QED
      BY <1>9, <2>1, <2>2 DEF ClaimHostEpoch, TypeOK
  <1>10. CASE UNCHANGED vars
    BY <1>10 DEF vars, TypeOK, Row, NoRow, Effect, NoEffect, Event, EventKeys, Session,
                 Attention
  <1> QED
    BY <1>1, <1>2, <1>3, <1>4, <1>5, <1>6, <1>7, <1>8, <1>9, <1>10 DEF Next

(* The tables, the projections and the counters always have their types.    *)
THEOREM Typing == Spec => []TypeOK
  BY InitType, NextType, PTL DEF Spec

---------------------------------------------------------------------------
(* Consistency.  The invariant is stated of the tables a transaction has    *)
(* written before compaction, so that one lemma shows what compaction       *)
(* keeps and each operation is treated without it.  It is stronger than the *)
(* properties it implies: it needs the order of event sequence numbers      *)
(* along a chain of retries, and that scope revisions and producer keys     *)
(* remember every id that was ever used.                                    *)

(* An effect is pending exactly while its operation's receipt is open, and  *)
(* only an operation that was admitted has one.                             *)
EffectsMatch(rows, effects, revisions) ==
  \A op \in OpIds : /\ effects[op].state = "pending" <=> rows[op].status \in Live
                    /\ effects[op].state # "none" => revisions[op] > 0

(* A row carries the current revision of its scope, below the end of log.   *)
RowsCurrent(rows, revisions, last) ==
  \A op \in OpIds : rows[op].status # "absent" =>
    rows[op].revision = revisions[op] /\ revisions[op] > 0 /\ rows[op].eventSeq <= last

(* Producer keys name revisions and ids that were used.                     *)
KeysUsed(receipts, revisions) ==
  \A key \in DOMAIN receipts :
    /\ key[1] = "receipt" => key[3] > 0 /\ key[3] <= revisions[key[2]]
    /\ key[1] = "admit" /\ key[2] \in OpIds => revisions[key[2]] > 0

(* A replacement follows its parent, which stays settled, and is retained   *)
(* at least as long.                                                        *)
ChainsOrdered(rows, revisions) ==
  \A op \in OpIds : isRetry(op) =>
    LET parent == retryOfOperationId(op) IN
      /\ revisions[op] > 0 => revisions[parent] > 0
      /\ revisions[op] > 0 /\ rows[parent].status # "absent" => rows[op].status # "absent"
      /\ rows[op].status # "absent" /\ rows[parent].status # "absent" =>
           /\ rows[parent].status \in {"failed", "rejected"}
           /\ rows[parent].eventSeq < rows[op].eventSeq
           /\ rows[parent].presentation < rows[op].presentation

(* A recorded outcome is what the row, if it is still there, says.          *)
OutcomesKept(rows, receipts) ==
  \A key \in DOMAIN receipts : final(key) => rows[key[2]].status \in {key[4], "absent"}

Consistent(rows, effects, receipts, revisions, last) ==
  /\ EffectsMatch(rows, effects, revisions)
  /\ RowsCurrent(rows, revisions, last)
  /\ KeysUsed(receipts, revisions)
  /\ ChainsOrdered(rows, revisions)
  /\ OutcomesKept(rows, receipts)

IInv == TypeOK /\ Consistent(operations, outbox, producerReceipts, scopeRevision, seq)

(* Compaction keeps consistent tables consistent.                           *)
LEMMA CommitConsistent ==
  ASSUME NEW rows \in [OpIds -> Row \cup {NoRow}],
         NEW effects \in [OpIds -> Effect \cup {NoEffect}],
         NEW last \in Nat, anchor \in Nat,
         DOMAIN producerReceipts' \subseteq EventKeys,
         commit(rows, effects, last),
         Consistent(rows, effects, producerReceipts', scopeRevision', last)
  PROVE  Consistent(operations, outbox, producerReceipts, scopeRevision, seq)'
  <1> USE CommitFacts
  <1>1. \A op \in OpIds : /\ operations'[op] \in {rows[op], NoRow}
                          /\ outbox'[op] \in {effects[op], NoEffect}
                          /\ effects[op].state = "pending" => operations'[op] = rows[op]
                          /\ effects[op].state # "completed" => outbox'[op] = effects[op]
    OBVIOUS
  <1>2. seq' = last
    OBVIOUS
  <1>3. \A op, older \in OpIds :
          /\ operations'[op] # rows[op]
          /\ rows[older].eventSeq <= rows[op].eventSeq
          /\ effects[older].state # "pending"
          => operations'[older] = NoRow
    OBVIOUS
  <1>4. \A op \in OpIds : rows[op].eventSeq \in Nat
    BY DEF Row, NoRow
  <1>5. EffectsMatch(operations', outbox', scopeRevision')
    BY <1>1 DEF Consistent, EffectsMatch, NoRow, NoEffect, Live
  <1>6. RowsCurrent(operations', scopeRevision', seq')
    BY <1>1, <1>2 DEF Consistent, RowsCurrent, NoRow
  <1>7. KeysUsed(producerReceipts', scopeRevision')
    BY DEF Consistent
  <1>8. ChainsOrdered(operations', scopeRevision')
    <2> SUFFICES ASSUME NEW op \in OpIds, isRetry(op)
                 PROVE LET parent == retryOfOperationId(op) IN
                   /\ scopeRevision'[op] > 0 => scopeRevision'[parent] > 0
                   /\ scopeRevision'[op] > 0 /\ operations'[parent].status # "absent"
                        => operations'[op].status # "absent"
                   /\ operations'[op].status # "absent" /\ operations'[parent].status # "absent" =>
                        /\ operations'[parent].status \in {"failed", "rejected"}
                        /\ operations'[parent].eventSeq < operations'[op].eventSeq
                        /\ operations'[parent].presentation < operations'[op].presentation
      BY DEF ChainsOrdered
    <2> DEFINE parent == retryOfOperationId(op)
    <2>1. parent \in OpIds
      BY RetryIds
    <2>2. /\ scopeRevision'[op] > 0 => scopeRevision'[parent] > 0
          /\ scopeRevision'[op] > 0 /\ rows[parent].status # "absent" => rows[op].status # "absent"
          /\ rows[op].status # "absent" /\ rows[parent].status # "absent" =>
               /\ rows[parent].status \in {"failed", "rejected"}
               /\ rows[parent].eventSeq < rows[op].eventSeq
               /\ rows[parent].presentation < rows[op].presentation
      BY DEF Consistent, ChainsOrdered
    <2> HIDE DEF parent
    <2>3. NoRow.status = "absent"
      BY DEF NoRow
    <2>4. ASSUME scopeRevision'[op] > 0, operations'[parent].status # "absent"
          PROVE  operations'[op].status # "absent"
      <3>1. operations'[parent] = rows[parent] /\ rows[op].status # "absent"
        BY <1>1, <2>1, <2>2, <2>3, <2>4
      <3>2. rows[parent].status \in {"failed", "rejected"} /\ rows[parent].eventSeq < rows[op].eventSeq
        BY <2>2, <2>4, <3>1
      <3>3. effects[parent].state # "pending"
        BY <2>1, <3>2 DEF Consistent, EffectsMatch, Live
      <3>4. operations'[op] = rows[op]
        BY <1>3, <1>4, <2>1, <2>3, <2>4, <3>2, <3>3
      <3> QED
        BY <3>1, <3>4
    <2> QED
      BY <1>1, <2>1, <2>2, <2>3, <2>4 DEF parent
  <1>9. OutcomesKept(operations', producerReceipts')
    BY <1>1, ReceiptKey DEF Consistent, OutcomesKept, final, NoRow
  <1> QED
    BY <1>5, <1>6, <1>7, <1>8, <1>9 DEF Consistent

(* Appending under a key that was never used: a new event, the next         *)
(* revision of the scope, and only keys of consequences beside it.          *)
LEMMA AppendFresh ==
  ASSUME TypeOK, NEW op \in OpIds, NEW eventKey \in EventKeys, fresh(eventKey),
         NEW c, consequenceOK(c), appendReceipt(eventKey, op, c)
  PROVE  /\ receiptEvent(eventKey, op) = [seq |-> seq + 1, revision |-> scopeRevision[op] + 1]
         /\ scopeRevision' = [scopeRevision EXCEPT ![op] = scopeRevision[op] + 1]
         /\ lastSeq(eventKey, c) \in Nat /\ lastSeq(eventKey, c) > seq
         /\ \A key \in DOMAIN producerReceipts' :
              \/ key \in DOMAIN producerReceipts \/ key = eventKey
              \/ key[1] \notin {"admit", "receipt"}
  <1>1. receiptEvent(eventKey, op) = [seq |-> seq + 1, revision |-> scopeRevision[op] + 1]
    BY DEF receiptEvent
  <1>2. scopeRevision' = [scopeRevision EXCEPT ![op] = scopeRevision[op] + 1]
    BY <1>1 DEF appendReceipt
  <1>3. lastSeq(eventKey, c) \in Nat /\ lastSeq(eventKey, c) > seq
    BY DEF lastSeq, TypeOK
  <1>4. \A key \in DOMAIN producerReceipts' :
          \/ key \in DOMAIN producerReceipts \/ key = eventKey
          \/ key[1] \notin {"admit", "receipt"}
    BY DEF appendReceipt, with, consequenceOK
  <1> QED
    BY <1>1, <1>2, <1>3, <1>4

(* A never used id and key give a consistent new operation, whether a       *)
(* client's or the replacement of a settled failure.                        *)
LEMMA AdmissionConsistent ==
  ASSUME IInv, TypeOK', NEW op \in OpIds, NEW key \in Keys, NEW req \in Requests,
         NEW presentation \in Nat,
         executeOperationWithLineage(op, key, req, presentation),
         neverUsed(op, key),
         IF isRetry(op)
           THEN /\ key = op
                /\ operations[retryOfOperationId(op)].status \in {"failed", "rejected"}
                /\ presentation = operations[retryOfOperationId(op)].presentation + 1
           ELSE key \in ClientKeys
  PROVE  IInv'
  <1> DEFINE c == operationConsequence(op, req, operationReceipt(req))
             rows == [operations EXCEPT ![op] = admittedRow(op, key, req, presentation)]
             effects == IF insertsEffect(op, key, req)
                          THEN [outbox EXCEPT ![op] = insertedEffect(op, key, req)] ELSE outbox
             last == lastSeq(admitKey(key), c)
  <1>1. TypeOK /\ Consistent(operations, outbox, producerReceipts, scopeRevision, seq)
    BY DEF IInv
  <1>2. /\ appendReceipt(admitKey(key), op, c) /\ commit(rows, effects, last)
        /\ ~admitted(op) /\ scopeRevision[op] = 0 /\ fresh(admitKey(key))
    BY DEF executeOperationWithLineage, neverUsed
  <1>3. /\ operationReceipt(req).status
             \in {"pending", "queued", "rejected", "interrupted", "answered"}
        /\ operationReceipt(req).turnId \in TurnRef
        /\ consequenceOK(c) /\ admitKey(key) \in EventKeys
    BY <1>1, ReceiptType, ConsequenceTypes DEF EventKeys, admitKey
  <1>4. /\ receiptEvent(admitKey(key), op) = [seq |-> seq + 1, revision |-> 1]
        /\ scopeRevision' = [scopeRevision EXCEPT ![op] = 1]
        /\ last \in Nat /\ last > seq
        /\ \A k \in DOMAIN producerReceipts' :
             \/ k \in DOMAIN producerReceipts \/ k = admitKey(key)
             \/ k[1] \notin {"admit", "receipt"}
    BY <1>1, <1>2, <1>3, AppendFresh
  <1> DEFINE row == admittedRow(op, key, req, presentation)
  <1>5. /\ row \in Row /\ row.status = operationReceipt(req).status
        /\ row.eventSeq = seq + 1 /\ row.revision = 1
        /\ isRetry(op) => row.presentation = presentation
    BY <1>1, <1>3, <1>4 DEF admittedRow, Row, Live, Settled, TypeOK
  <1>6. /\ insertedEffect(op, key, req) \in Effect
        /\ insertedEffect(op, key, req).state = "pending"
    <2>1. effectFence(req, operationReceipt(req)) \in TurnRef \cup {Undefined}
      BY <1>3, JournalAssumption DEF effectFence, RequestType, TurnRef
    <2> QED
      BY <1>1, <1>4, <2>1 DEF insertedEffect, Effect, TypeOK
  <1>7. outbox[op].state = "none"
    BY <1>1, <1>2 DEF Consistent, EffectsMatch
  <1>8. /\ rows \in [OpIds -> Row \cup {NoRow}] /\ rows[op] = row
        /\ \A q \in OpIds : q # op => rows[q] = operations[q]
    BY <1>1, <1>5 DEF TypeOK
  <1>9. /\ effects \in [OpIds -> Effect \cup {NoEffect}]
        /\ effects[op].state = "pending" <=> row.status \in {"pending", "queued"}
        /\ \A q \in OpIds : q # op => effects[q] = outbox[q]
    BY <1>1, <1>2, <1>5, <1>6, <1>7 DEF TypeOK, insertsEffect
  <1> HIDE DEF rows, effects, last, row, c
  <1>10. EffectsMatch(rows, effects, scopeRevision')
    BY <1>1, <1>3, <1>4, <1>5, <1>8, <1>9 DEF Consistent, EffectsMatch, Live, TypeOK
  <1>11. RowsCurrent(rows, scopeRevision', last)
    BY <1>1, <1>4, <1>5, <1>8 DEF Consistent, RowsCurrent, TypeOK, Row, NoRow
  <1>12. KeysUsed(producerReceipts', scopeRevision')
    <2>1. key \in OpIds => key = op
      BY JournalAssumption
    <2>2. \A q \in OpIds : /\ scopeRevision[q] \in Nat /\ scopeRevision'[q] \in Nat
                           /\ scopeRevision[q] <= scopeRevision'[q]
      BY <1>1, <1>2, <1>4 DEF TypeOK
    <2>3. ASSUME NEW k \in DOMAIN producerReceipts'
          PROVE  /\ k[1] = "receipt" => k[3] > 0 /\ k[3] <= scopeRevision'[k[2]]
                 /\ k[1] = "admit" /\ k[2] \in OpIds => scopeRevision'[k[2]] > 0
      <3>1. CASE k \in DOMAIN producerReceipts
        <4>1. k \in EventKeys
          BY <1>1, <3>1 DEF TypeOK
        <4>2. /\ k[1] = "receipt" => k[3] > 0 /\ k[3] <= scopeRevision[k[2]]
              /\ k[1] = "admit" /\ k[2] \in OpIds => scopeRevision[k[2]] > 0
          BY <1>1, <3>1 DEF Consistent, KeysUsed
        <4> QED
          BY <2>2, <4>1, <4>2, ReceiptKey
      <3>2. CASE k = admitKey(key)
        <4>1. k[1] = "admit" /\ k[2] = key
          BY <3>2 DEF admitKey
        <4> QED
          BY <1>1, <1>4, <2>1, <4>1 DEF TypeOK
      <3> QED
        BY <1>4, <3>1, <3>2
    <2> QED
      BY <2>3 DEF KeysUsed
  <1>13. ChainsOrdered(rows, scopeRevision')
    <2> SUFFICES ASSUME NEW q \in OpIds, isRetry(q)
                 PROVE LET parent == retryOfOperationId(q) IN
                   /\ scopeRevision'[q] > 0 => scopeRevision'[parent] > 0
                   /\ scopeRevision'[q] > 0 /\ rows[parent].status # "absent"
                        => rows[q].status # "absent"
                   /\ rows[q].status # "absent" /\ rows[parent].status # "absent" =>
                        /\ rows[parent].status \in {"failed", "rejected"}
                        /\ rows[parent].eventSeq < rows[q].eventSeq
                        /\ rows[parent].presentation < rows[q].presentation
      BY DEF ChainsOrdered
    <2> DEFINE parent == retryOfOperationId(q)
    <2>1. parent \in OpIds /\ parent # q
      BY RetryIds
    <2>2. /\ scopeRevision[q] > 0 => scopeRevision[parent] > 0
          /\ scopeRevision[q] > 0 /\ operations[parent].status # "absent"
               => operations[q].status # "absent"
          /\ operations[q].status # "absent" /\ operations[parent].status # "absent" =>
               /\ operations[parent].status \in {"failed", "rejected"}
               /\ operations[parent].eventSeq < operations[q].eventSeq
               /\ operations[parent].presentation < operations[q].presentation
      BY <1>1 DEF Consistent, ChainsOrdered
    <2>3. CASE q = op
      <3>1. /\ operations[parent].status \in {"failed", "rejected"}
            /\ presentation = operations[parent].presentation + 1
        BY <2>3
      <3> HIDE DEF parent
      <3>2. /\ scopeRevision[parent] > 0 /\ operations[parent].eventSeq <= seq
            /\ operations[parent] \in Row
        BY <1>1, <2>1, <3>1 DEF Consistent, RowsCurrent, TypeOK, NoRow
      <3>3. rows[parent] = operations[parent] /\ scopeRevision'[parent] = scopeRevision[parent]
        BY <1>1, <1>4, <1>8, <2>1, <2>3 DEF TypeOK
      <3>4. row.status # "absent"
        BY <1>3, <1>5
      <3>5. rows[q] = row /\ isRetry(op)
        BY <1>8, <2>3
      <3>6. rows[parent].eventSeq < rows[q].eventSeq
        BY <1>1, <1>5, <3>2, <3>3, <3>5 DEF Row, TypeOK
      <3>7. rows[parent].presentation < rows[q].presentation
        BY <1>5, <3>1, <3>2, <3>3, <3>5 DEF Row
      <3> QED
        BY <3>1, <3>2, <3>3, <3>4, <3>5, <3>6, <3>7 DEF parent
    <2>4. CASE q # op /\ parent = op
      <3>1. ~(scopeRevision[q] > 0) /\ operations[q].status = "absent"
        BY <1>1, <1>2, <2>2, <2>4 DEF Consistent, RowsCurrent
      <3> QED
        BY <1>1, <1>4, <1>8, <2>4, <3>1 DEF TypeOK
    <2>5. CASE q # op /\ parent # op
      <3> HIDE DEF parent
      <3>1. /\ rows[q] = operations[q] /\ rows[parent] = operations[parent]
            /\ scopeRevision'[q] = scopeRevision[q] /\ scopeRevision'[parent] = scopeRevision[parent]
        BY <1>1, <1>4, <1>8, <2>1, <2>5 DEF TypeOK
      <3> QED
        BY <2>2, <3>1 DEF parent
    <2> QED
      BY <2>3, <2>4, <2>5
  <1>14. OutcomesKept(rows, producerReceipts')
    <2> SUFFICES ASSUME NEW k \in DOMAIN producerReceipts', final(k)
                 PROVE  rows[k[2]].status \in {k[4], "absent"}
      BY DEF OutcomesKept
    <2>1. k \in DOMAIN producerReceipts /\ k \in EventKeys /\ k[1] = "receipt"
      BY <1>1, <1>4 DEF final, admitKey, TypeOK
    <2>2. k[2] \in OpIds /\ k[2] # op
      BY <1>1, <1>2, <2>1, ReceiptKey DEF Consistent, KeysUsed
    <2> QED
      BY <1>1, <1>8, <2>1, <2>2 DEF Consistent, OutcomesKept
  <1> QED
    BY <1>1, <1>2, <1>4, <1>8, <1>9, <1>10, <1>11, <1>12, <1>13, <1>14, CommitConsistent
    DEF Consistent, IInv, TypeOK

(* A transition moves only an operation whose receipt is open.              *)
LEMMA TransitionConsistent ==
  ASSUME IInv, TypeOK', NEW op \in OpIds, NEW status \in (Live \cup Settled) \ {"pending"},
         NEW turn \in TurnRef \cup {Undefined},
         TransitionOperation(op, status, turn)
  PROVE  IInv'
  <1> DEFINE c == transitionConsequence(op, status)
             row == movedRow(op, status, turn)
             rows == [operations EXCEPT ![op] = row]
             effects == IF outbox[op].state = "none" THEN outbox
                          ELSE [outbox EXCEPT ![op] = movedEffect(op, status, turn)]
             last == lastSeq(receiptKey(op, status), c)
  <1>1. TypeOK /\ Consistent(operations, outbox, producerReceipts, scopeRevision, seq)
    BY DEF IInv
  <1>2. /\ appendReceipt(receiptKey(op, status), op, c) /\ commit(rows, effects, last)
        /\ admitted(op) /\ operations[op].status \in Live /\ operations[op] \in Row
    BY <1>1 DEF TransitionOperation, queueing, beginning, completing, Live, TypeOK, admitted, NoRow
  <1>3. /\ receiptKey(op, status) \in EventKeys /\ consequenceOK(c) /\ row \in Row
        /\ outbox[op].state # "none" => movedEffect(op, status, turn) \in Effect
    BY <1>1, <1>2, MovedTypes
  <1>4. fresh(receiptKey(op, status))
    <2>1. SUFFICES ASSUME receiptKey(op, status) \in DOMAIN producerReceipts PROVE FALSE
      BY DEF fresh
    <2>2. operations[op].revision + 1 <= scopeRevision[op]
      BY <1>1, <2>1 DEF Consistent, KeysUsed, receiptKey
    <2>3. operations[op].revision = scopeRevision[op]
      BY <1>1, <1>2 DEF Consistent, RowsCurrent, admitted
    <2> QED
      BY <1>2, <2>2, <2>3 DEF Row
  <1>5. /\ receiptEvent(receiptKey(op, status), op)
             = [seq |-> seq + 1, revision |-> scopeRevision[op] + 1]
        /\ scopeRevision' = [scopeRevision EXCEPT ![op] = scopeRevision[op] + 1]
        /\ last \in Nat /\ last > seq
        /\ \A k \in DOMAIN producerReceipts' :
             \/ k \in DOMAIN producerReceipts \/ k = receiptKey(op, status)
             \/ k[1] \notin {"admit", "receipt"}
    BY <1>1, <1>3, <1>2, <1>4, AppendFresh
  <1>6. /\ row.status = status /\ row.eventSeq = seq + 1 /\ row.revision = scopeRevision[op] + 1
        /\ isRetry(op) => row.presentation = operations[op].presentation + 1
    BY <1>5 DEF movedRow
  <1>7. outbox[op].state = "pending"
    BY <1>1, <1>2 DEF Consistent, EffectsMatch
  <1>8. /\ rows \in [OpIds -> Row \cup {NoRow}] /\ rows[op] = row
        /\ \A q \in OpIds : q # op => rows[q] = operations[q]
    BY <1>1, <1>3 DEF TypeOK
  <1>9. /\ effects \in [OpIds -> Effect \cup {NoEffect}]
        /\ effects[op].state = "pending" <=> status \in Live
        /\ \A q \in OpIds : q # op => effects[q] = outbox[q]
    <2>1. movedEffect(op, status, turn).state = "pending" <=> status \in Live
      BY <1>2, <1>7 DEF movedEffect, completing, Live
    <2> QED
      BY <1>1, <1>3, <1>7, <2>1 DEF TypeOK
  <1>10. \A q \in OpIds : /\ scopeRevision[q] \in Nat /\ scopeRevision'[q] \in Nat
                          /\ scopeRevision[q] <= scopeRevision'[q]
                          /\ q # op => scopeRevision'[q] = scopeRevision[q]
                          /\ q = op => scopeRevision'[q] = scopeRevision[op] + 1
    BY <1>1, <1>5 DEF TypeOK
  <1> HIDE DEF rows, effects, last, row, c
  <1>11. EffectsMatch(rows, effects, scopeRevision')
    BY <1>1, <1>6, <1>8, <1>9, <1>10 DEF Consistent, EffectsMatch
  <1>12. RowsCurrent(rows, scopeRevision', last)
    BY <1>1, <1>5, <1>6, <1>8, <1>10 DEF Consistent, RowsCurrent, TypeOK, Row, NoRow
  <1>13. KeysUsed(producerReceipts', scopeRevision')
    <2>1. ASSUME NEW k \in DOMAIN producerReceipts'
          PROVE  /\ k[1] = "receipt" => k[3] > 0 /\ k[3] <= scopeRevision'[k[2]]
                 /\ k[1] = "admit" /\ k[2] \in OpIds => scopeRevision'[k[2]] > 0
      <3>1. CASE k \in DOMAIN producerReceipts
        <4>1. k \in EventKeys
          BY <1>1, <3>1 DEF TypeOK
        <4>2. /\ k[1] = "receipt" => k[3] > 0 /\ k[3] <= scopeRevision[k[2]]
              /\ k[1] = "admit" /\ k[2] \in OpIds => scopeRevision[k[2]] > 0
          BY <1>1, <3>1 DEF Consistent, KeysUsed
        <4> QED
          BY <1>10, <4>1, <4>2, ReceiptKey
      <3>2. CASE k = receiptKey(op, status)
        <4>1. k[1] = "receipt" /\ k[2] = op /\ k[3] = operations[op].revision + 1
          BY <3>2 DEF receiptKey
        <4>2. operations[op].revision = scopeRevision[op]
          BY <1>1, <1>2 DEF Consistent, RowsCurrent, admitted
        <4> QED
          BY <1>10, <4>1, <4>2
      <3> QED
        BY <1>5, <3>1, <3>2
    <2> QED
      BY <2>1 DEF KeysUsed
  <1>14. ChainsOrdered(rows, scopeRevision')
    <2> SUFFICES ASSUME NEW q \in OpIds, isRetry(q)
                 PROVE LET parent == retryOfOperationId(q) IN
                   /\ scopeRevision'[q] > 0 => scopeRevision'[parent] > 0
                   /\ scopeRevision'[q] > 0 /\ rows[parent].status # "absent"
                        => rows[q].status # "absent"
                   /\ rows[q].status # "absent" /\ rows[parent].status # "absent" =>
                        /\ rows[parent].status \in {"failed", "rejected"}
                        /\ rows[parent].eventSeq < rows[q].eventSeq
                        /\ rows[parent].presentation < rows[q].presentation
      BY DEF ChainsOrdered
    <2> DEFINE parent == retryOfOperationId(q)
    <2>1. parent \in OpIds /\ parent # q
      BY RetryIds
    <2>2. /\ scopeRevision[q] > 0 => scopeRevision[parent] > 0
          /\ scopeRevision[q] > 0 /\ operations[parent].status # "absent"
               => operations[q].status # "absent"
          /\ operations[q].status # "absent" /\ operations[parent].status # "absent" =>
               /\ operations[parent].status \in {"failed", "rejected"}
               /\ operations[parent].eventSeq < operations[q].eventSeq
               /\ operations[parent].presentation < operations[q].presentation
      BY <1>1 DEF Consistent, ChainsOrdered
    <2> HIDE DEF parent
    <2>3. CASE q = op
      <3>1. /\ rows[parent] = operations[parent] /\ scopeRevision'[parent] = scopeRevision[parent]
            /\ rows[q] = row /\ row.status # "absent"
        BY <1>6, <1>8, <1>10, <2>1, <2>3 DEF Live, Settled
      <3>2. scopeRevision[q] > 0 /\ operations[q].status # "absent"
        BY <1>1, <1>2, <2>3 DEF Consistent, RowsCurrent, admitted
      <3>3. operations[parent].status # "absent" =>
              operations[parent] \in Row /\ operations[parent].eventSeq <= seq
        BY <1>1, <2>1 DEF Consistent, RowsCurrent, TypeOK, NoRow
      <3>4. operations[parent].status # "absent" =>
              /\ operations[parent].eventSeq < row.eventSeq
              /\ operations[parent].presentation < row.presentation
        <4>1. isRetry(op)
          BY <2>3
        <4> QED
          BY <1>1, <1>2, <1>6, <2>2, <2>3, <3>2, <3>3, <4>1 DEF TypeOK, Row
      <3> QED
        BY <2>2, <3>1, <3>2, <3>4 DEF parent
    <2>4. CASE parent = op
      <3>1. operations[q].status = "absent" /\ ~(scopeRevision[q] > 0)
        BY <1>2, <2>2, <2>4 DEF Live, admitted
      <3>2. rows[q] = operations[q] /\ scopeRevision'[q] = scopeRevision[q]
        BY <1>8, <1>10, <2>1, <2>4
      <3> QED
        BY <3>1, <3>2 DEF parent
    <2>5. CASE q # op /\ parent # op
      <3>1. /\ rows[q] = operations[q] /\ rows[parent] = operations[parent]
            /\ scopeRevision'[q] = scopeRevision[q] /\ scopeRevision'[parent] = scopeRevision[parent]
        BY <1>8, <1>10, <2>1, <2>5
      <3> QED
        BY <2>2, <3>1 DEF parent
    <2> QED
      BY <2>3, <2>4, <2>5
  <1>15. OutcomesKept(rows, producerReceipts')
    <2> SUFFICES ASSUME NEW k \in DOMAIN producerReceipts', final(k)
                 PROVE  rows[k[2]].status \in {k[4], "absent"}
      BY DEF OutcomesKept
    <2>1. CASE k \in DOMAIN producerReceipts
      <3>1. k \in EventKeys /\ k[1] = "receipt" /\ k[4] \in {"delivered", "answered", "interrupted"}
        BY <1>1, <2>1 DEF final, TypeOK
      <3>2. k[2] \in OpIds /\ operations[k[2]].status \in {k[4], "absent"}
        BY <1>1, <2>1, <3>1, ReceiptKey DEF Consistent, OutcomesKept
      <3>3. k[2] # op
        BY <1>2, <3>1, <3>2 DEF Live, admitted
      <3> QED
        BY <1>8, <3>2, <3>3
    <2>2. CASE k = receiptKey(op, status)
      <3>1. k[2] = op /\ k[4] = status
        BY <2>2 DEF receiptKey
      <3> QED
        BY <1>6, <1>8, <3>1
    <2> QED
      BY <1>5, <2>1, <2>2 DEF final
  <1> QED
    BY <1>1, <1>2, <1>5, <1>8, <1>9, <1>11, <1>12, <1>13, <1>14, <1>15, CommitConsistent
    DEF Consistent, IInv, TypeOK

(* Events that only move the log and the projections, whether published by  *)
(* the Viewer or appended by a new host, leave the tables consistent.       *)
LEMMA LogMovesOn ==
  ASSUME IInv, TypeOK', NEW last \in Nat, last >= seq,
         producerReceipts' = producerReceipts, scopeRevision' = scopeRevision,
         commit(operations, outbox, last) \/ (seq' = last /\ UNCHANGED <<operations, outbox>>)
  PROVE  IInv'
  <1>1. TypeOK /\ Consistent(operations, outbox, producerReceipts, scopeRevision, seq)
    BY DEF IInv
  <1>2. RowsCurrent(operations, scopeRevision, last)
    <2>1. \A op \in OpIds : operations[op].eventSeq \in Nat
      BY <1>1 DEF TypeOK, Row, NoRow
    <2> QED
      BY <1>1, <2>1 DEF Consistent, RowsCurrent, TypeOK
  <1>3. Consistent(operations, outbox, producerReceipts', scopeRevision', last)
    BY <1>1, <1>2 DEF Consistent
  <1>4. CASE commit(operations, outbox, last)
    BY <1>1, <1>3, <1>4, CommitConsistent DEF TypeOK, IInv
  <1>5. CASE seq' = last /\ UNCHANGED <<operations, outbox>>
    BY <1>3, <1>5 DEF IInv
  <1> QED
    BY <1>4, <1>5

(* An empty journal is consistent.                                          *)
LEMMA InitConsistent == Init => IInv
  <1> SUFFICES ASSUME Init PROVE IInv
    OBVIOUS
  <1>1. TypeOK
    BY InitType
  <1>2. /\ \A op \in OpIds : /\ operations[op].status = "absent" /\ outbox[op].state = "none"
                             /\ scopeRevision[op] = 0
        /\ DOMAIN producerReceipts = {}
    BY DEF Init, NoRow, NoEffect
  <1>3. EffectsMatch(operations, outbox, scopeRevision)
    BY <1>2 DEF EffectsMatch, Live
  <1>4. RowsCurrent(operations, scopeRevision, seq)
    BY <1>2 DEF RowsCurrent
  <1>5. KeysUsed(producerReceipts, scopeRevision)
    BY <1>2 DEF KeysUsed
  <1>6. ChainsOrdered(operations, scopeRevision)
    BY <1>2, RetryIds DEF ChainsOrdered
  <1>7. OutcomesKept(operations, producerReceipts)
    BY <1>2 DEF OutcomesKept
  <1> QED
    BY <1>1, <1>3, <1>4, <1>5, <1>6, <1>7 DEF IInv, Consistent

(* Every transaction keeps the tables consistent, provided clients do not   *)
(* use a key again after its row was compacted and retries carry a key.     *)
LEMMA NextConsistent ==
  ASSUME ~ReusesOldKeys, ~RetriesInPlace, IInv, [Next]_vars
  PROVE  IInv'
  <1>1. TypeOK /\ Consistent(operations, outbox, producerReceipts, scopeRevision, seq)
    BY DEF IInv
  <1>2. TypeOK'
    BY <1>1, NextType
  <1>3. ASSUME NEW op \in OpIds, NEW key \in ClientKeys, NEW req \in Requests,
               ExecuteOperation(op, key, req)
        PROVE  IInv'
    <2>1. /\ key \in Keys /\ ~isRetry(op) /\ neverUsed(op, key)
          /\ executeOperationWithLineage(op, key, req, 0)
      BY <1>3 DEF ExecuteOperation, Keys
    <2> QED
      BY <1>2, <2>1, AdmissionConsistent
  <1>4. ASSUME NEW op \in OpIds, RetryOperation(op)
        PROVE  IInv'
    <2> DEFINE next == terminalRetryOperationId(op)
    <2>1. operations[op] \in Row
      BY <1>1, <1>4 DEF RetryOperation, retryable, TypeOK, NoRow
    <2>2. /\ operations[op].request \in Requests
          /\ nextPresentation(operations[op]) \in Nat
      BY <2>1 DEF Row, nextPresentation
    <2>3. /\ next \in OpIds /\ next \in Keys /\ ~admitted(next)
          /\ executeOperationWithLineage(next, next, operations[op].request,
                                         nextPresentation(operations[op]))
      BY <1>4 DEF RetryOperation, retryable, Keys, executeOperationWithLineage
    <2>4. isRetry(next) /\ retryOfOperationId(next) = op
      BY RetryIds
    <2>5. operations[op].status \in {"failed", "rejected"}
      BY <1>4 DEF RetryOperation, retryable
    <2> HIDE DEF next
    <2>6. scopeRevision[next] = 0
      <3>1. ~(scopeRevision[next] > 0)
        BY <1>1, <2>3, <2>4, <2>5 DEF Consistent, ChainsOrdered, admitted
      <3> QED
        BY <1>1, <2>3, <3>1 DEF TypeOK
    <2>7. fresh(admitKey(next))
      <3>1. SUFFICES ASSUME admitKey(next) \in DOMAIN producerReceipts PROVE FALSE
        BY DEF fresh
      <3>2. scopeRevision[next] > 0
        BY <1>1, <2>3, <3>1 DEF Consistent, KeysUsed, admitKey
      <3> QED
        BY <2>6, <3>2
    <2>8. neverUsed(next, next)
      BY <2>6, <2>7 DEF neverUsed
    <2> QED
      BY <1>2, <2>2, <2>3, <2>4, <2>5, <2>8, AdmissionConsistent DEF nextPresentation
  <1>5. ASSUME NEW op \in OpIds, RetryInPlace(op)
        PROVE  IInv'
    BY <1>5 DEF RetryInPlace
  <1>6. CASE Transitions
    <2>1. PICK op \in OpIds : admitted(op) /\
            \E status \in outcomes(operations[op].request.kind) :
              \E turn \in reportedTurns(op, status) : TransitionOperation(op, status, turn)
      BY <1>6 DEF Transitions
    <2>2. PICK status \in outcomes(operations[op].request.kind) :
            \E turn \in reportedTurns(op, status) : TransitionOperation(op, status, turn)
      BY <2>1
    <2>3. PICK turn \in reportedTurns(op, status) : TransitionOperation(op, status, turn)
      BY <2>2
    <2>4. status \in (Live \cup Settled) \ {"pending"} /\ turn \in TurnRef \cup {Undefined}
      BY <2>2, <2>3 DEF outcomes, reportedTurns, Live, Settled
    <2> QED
      BY <1>2, <2>3, <2>4, TransitionConsistent
  <1>7. ASSUME NEW s, NEW a, publish(s, a)
        PROVE  IInv'
    <2>1. seq + 1 \in Nat /\ seq + 1 >= seq
      BY <1>1 DEF TypeOK
    <2> QED
      BY <1>2, <1>7, <2>1, LogMovesOn DEF publish
  <1>8. CASE ClaimHostEpoch
    <2>1. seq + 1 \in Nat /\ seq + 1 >= seq
      BY <1>1 DEF TypeOK
    <2> QED
      BY <1>2, <1>8, <2>1, LogMovesOn DEF ClaimHostEpoch
  <1>9. CASE UNCHANGED vars
    <2>1. seq \in Nat /\ seq >= seq
      BY <1>1 DEF TypeOK
    <2> QED
      BY <1>2, <1>9, <2>1, LogMovesOn DEF vars
  <1> QED
    BY <1>3, <1>4, <1>5, <1>6, <1>7, <1>8, <1>9
    DEF Next, PublishSession, PublishTurn, PublishAttention, AppendElsewhere

(* What consistency says of the properties the runs check.                  *)
LEMMA ConsistencyImplies ==
  IInv => /\ EffectHasOperation /\ ReceiptHasEffect /\ OutcomeIsFinal
          /\ OneLiveAttempt /\ PresentationAdvances /\ ReplacementOutlivesParent
  <1> SUFFICES ASSUME IInv
               PROVE  /\ EffectHasOperation /\ ReceiptHasEffect /\ OutcomeIsFinal
                      /\ OneLiveAttempt /\ PresentationAdvances /\ ReplacementOutlivesParent
    OBVIOUS
  <1>1. TypeOK /\ Consistent(operations, outbox, producerReceipts, scopeRevision, seq)
    BY DEF IInv
  <1>2. EffectHasOperation /\ ReceiptHasEffect
    BY <1>1 DEF Consistent, EffectsMatch, EffectHasOperation, ReceiptHasEffect, live
  <1>3. OutcomeIsFinal
    BY <1>1 DEF Consistent, OutcomesKept, OutcomeIsFinal
  <1>4. OneLiveAttempt
    BY <1>1, RetryIds DEF Consistent, ChainsOrdered, OneLiveAttempt, admitted
  <1>5. PresentationAdvances
    <2>1. \A op \in OpIds : operations[op].presentation \in Nat
      BY <1>1 DEF TypeOK, Row, NoRow
    <2> QED
      BY <1>1, <2>1, RetryIds DEF Consistent, ChainsOrdered, PresentationAdvances, admitted
  <1>6. ReplacementOutlivesParent
    BY <1>1, RetryIds DEF Consistent, ChainsOrdered, ReplacementOutlivesParent, admitted
  <1> QED
    BY <1>2, <1>3, <1>4, <1>5, <1>6

(* Under the same provisos consistency is an invariant of the journal.      *)
THEOREM Consistency ==
  ASSUME ~ReusesOldKeys, ~RetriesInPlace
  PROVE  Spec => []IInv
  <1>1. Init => IInv
    BY InitConsistent
  <1>2. IInv /\ [Next]_vars => IInv'
    BY NextConsistent
  <1> QED
    BY <1>1, <1>2, PTL DEF Spec

(* An operation is open exactly as long as an effect is there for it to be  *)
(* acted on: no accepted command is forgotten and none acts without a row.  *)
THEOREM ReceiptsAndEffects ==
  ASSUME ~ReusesOldKeys, ~RetriesInPlace
  PROVE  Spec => [](EffectHasOperation /\ ReceiptHasEffect)
  BY Consistency, ConsistencyImplies, PTL

(* A recorded outcome is never replaced by another.                         *)
THEOREM OutcomesAreFinal ==
  ASSUME ~ReusesOldKeys, ~RetriesInPlace
  PROVE  Spec => []OutcomeIsFinal
  BY Consistency, ConsistencyImplies, PTL

(* A chain of retries has one open attempt, and the latest is the one       *)
(* presented.                                                               *)
THEOREM RetryChains ==
  ASSUME ~ReusesOldKeys, ~RetriesInPlace
  PROVE  Spec => [](OneLiveAttempt /\ PresentationAdvances)
  BY Consistency, ConsistencyImplies, PTL

(* Compaction removes the attempts of a chain from the oldest on: while a   *)
(* failed operation can be retried, its earlier replacement is found.       *)
THEOREM ReplacementsAreFound ==
  ASSUME ~ReusesOldKeys, ~RetriesInPlace
  PROVE  Spec => []ReplacementOutlivesParent
  BY Consistency, ConsistencyImplies, PTL

---------------------------------------------------------------------------
(* Fences, for every client, also one that reuses keys or retries in place. *)

(* What a transaction writes before compaction, and what it may do to the   *)
(* fence of a pending effect.                                               *)
fenced(rows, effects) ==
  \A op \in OpIds : effects[op].state = "pending" =>
    /\ rows[op].status \in Live
    /\ rows[op].status = "delivering" /\ carriesMessage(rows[op].request)
         => effects[op].turnId = rows[op].turnId
keepsFences(effects) ==
  \A op \in OpIds : outbox[op].state = "pending" /\ effects[op].state = "pending"
                      /\ outbox[op].turnId # Undefined
                    => effects[op].turnId = outbox[op].turnId
Fenced == fenced(operations, outbox)
FenceStep == fenced(operations', outbox') /\ keepsFences(outbox')

(* Compaction drops completed effects and no row of a pending one.          *)
LEMMA CommitFenced ==
  ASSUME NEW rows \in [OpIds -> Row \cup {NoRow}],
         NEW effects \in [OpIds -> Effect \cup {NoEffect}],
         NEW last \in Nat, anchor \in Nat,
         commit(rows, effects, last), fenced(rows, effects), keepsFences(effects)
  PROVE  FenceStep
  <1>1. \A op \in OpIds : /\ outbox'[op] \in {effects[op], NoEffect}
                          /\ effects[op].state = "pending" => operations'[op] = rows[op]
    BY CommitFacts
  <1>2. \A op \in OpIds : outbox'[op].state = "pending" =>
          outbox'[op] = effects[op] /\ operations'[op] = rows[op]
    BY <1>1 DEF NoEffect
  <1> QED
    BY <1>2 DEF FenceStep, fenced, keepsFences

(* Every transaction keeps pending effects with open receipts and keeps the *)
(* turn they were first fenced to.                                          *)
LEMMA NextFenced ==
  ASSUME TypeOK, Fenced, [Next]_vars
  PROVE  FenceStep
  <1>1. ASSUME NEW op \in OpIds, NEW key \in Keys, NEW req \in Requests,
               NEW presentation \in Nat,
               executeOperationWithLineage(op, key, req, presentation)
        PROVE  FenceStep
    <2> DEFINE c == operationConsequence(op, req, operationReceipt(req))
               row == admittedRow(op, key, req, presentation)
               rows == [operations EXCEPT ![op] = row]
               effects == IF insertsEffect(op, key, req)
                            THEN [outbox EXCEPT ![op] = insertedEffect(op, key, req)] ELSE outbox
    <2>1. /\ operationReceipt(req).status
                \in {"pending", "queued", "rejected", "interrupted", "answered"}
          /\ operationReceipt(req).turnId \in TurnRef
      BY ReceiptType
    <2>2. /\ admitKey(key) \in EventKeys /\ consequenceOK(c)
          /\ appendReceipt(admitKey(key), op, c)
          /\ commit(rows, effects, lastSeq(admitKey(key), c)) /\ ~admitted(op)
      BY <1>1, <2>1, ConsequenceTypes DEF executeOperationWithLineage, EventKeys, admitKey
    <2>3. /\ receiptEvent(admitKey(key), op) \in Event
          /\ lastSeq(admitKey(key), c) \in Nat
      BY <2>2, AppendTypes
    <2>4. row \in Row /\ row.status = operationReceipt(req).status
      BY <2>1, <2>3 DEF admittedRow, Row, Event, Live, Settled
    <2>5. insertedEffect(op, key, req) \in Effect
      <3>1. effectFence(req, operationReceipt(req)) \in TurnRef \cup {Undefined}
        BY <2>1, JournalAssumption DEF effectFence, RequestType, TurnRef
      <3> QED
        BY <2>3, <3>1 DEF insertedEffect, Effect, Event
    <2>6. outbox[op].state # "pending"
      BY <2>2 DEF Fenced, fenced, admitted, Live
    <2>7. /\ rows \in [OpIds -> Row \cup {NoRow}] /\ rows[op] = row
          /\ \A q \in OpIds : q # op => rows[q] = operations[q]
      BY <2>4 DEF TypeOK
    <2>8. /\ effects \in [OpIds -> Effect \cup {NoEffect}]
          /\ effects[op].state = "pending" => row.status \in {"pending", "queued"}
          /\ \A q \in OpIds : q # op => effects[q] = outbox[q]
      BY <2>4, <2>5, <2>6 DEF TypeOK, insertsEffect
    <2> HIDE DEF c, row, rows, effects
    <2>9. fenced(rows, effects) /\ keepsFences(effects)
      BY <2>6, <2>7, <2>8 DEF Fenced, fenced, keepsFences, Live
    <2> QED
      BY <2>2, <2>3, <2>7, <2>8, <2>9, CommitFenced DEF TypeOK
  <1>2. ASSUME NEW op \in OpIds, NEW status \in outcomes(operations[op].request.kind),
               NEW turn \in reportedTurns(op, status), TransitionOperation(op, status, turn)
        PROVE  FenceStep
    <2> DEFINE c == transitionConsequence(op, status)
               row == movedRow(op, status, turn)
               effect == movedEffect(op, status, turn)
               rows == [operations EXCEPT ![op] = row]
               effects == IF outbox[op].state = "none" THEN outbox
                            ELSE [outbox EXCEPT ![op] = effect]
    <2>1. status \in Live \cup Settled /\ turn \in TurnRef \cup {Undefined}
      BY DEF outcomes, reportedTurns, Live, Settled
    <2>2. /\ admitted(op) /\ appendReceipt(receiptKey(op, status), op, c)
          /\ commit(rows, effects, lastSeq(receiptKey(op, status), c))
          /\ \/ queueing(operations[op].status, status)
             \/ beginning(operations[op].status, status)
             \/ completing(operations[op].status, status)
          /\ fences(op, status, turn) => fenceAllows(op, turn)
      BY <1>2 DEF TransitionOperation
    <2>3. /\ receiptKey(op, status) \in EventKeys /\ consequenceOK(c) /\ row \in Row
          /\ outbox[op].state # "none" => effect \in Effect
      BY <2>1, <2>2, MovedTypes
    <2>4. lastSeq(receiptKey(op, status), c) \in Nat
      BY <2>2, <2>3, AppendTypes
    <2>5. /\ row.status = status /\ row.request = operations[op].request
          /\ turn # Undefined => row.turnId = turn
      BY DEF movedRow
    <2>6. outbox[op].state # "none" /\ effect.state = "pending" =>
            /\ outbox[op].state = "pending" /\ status \in {"queued", "delivering"}
            /\ status = "queued" => effect.turnId = outbox[op].turnId
            /\ outbox[op].turnId # Undefined => effect.turnId = outbox[op].turnId
            /\ status = "delivering" /\ carriesMessage(row.request) => effect.turnId = turn
      <3>1. fences(op, status, turn) =>
              outbox[op].turnId = Undefined \/ outbox[op].turnId = turn
        BY <2>2 DEF fenceAllows
      <3>2. Undefined \notin TurnRef
        BY JournalAssumption DEF TurnRef
      <3>3. status = "delivering" /\ carriesMessage(row.request) => fences(op, status, turn)
        BY <2>2, <2>5, <3>2 DEF queueing, beginning, completing, fences, reportedTurns, carriesMessage
      <3> QED
        BY <2>2, <3>1, <3>3
        DEF movedEffect, queueing, beginning, completing, fences
    <2>7. status = "delivering" /\ carriesMessage(row.request) => row.turnId = turn
      BY <2>5, JournalAssumption DEF reportedTurns, carriesMessage, TurnRef
    <2>8. /\ rows \in [OpIds -> Row \cup {NoRow}] /\ rows[op] = row
          /\ effects \in [OpIds -> Effect \cup {NoEffect}]
          /\ effects[op] = IF outbox[op].state = "none" THEN outbox[op] ELSE effect
          /\ \A q \in OpIds : q # op => rows[q] = operations[q] /\ effects[q] = outbox[q]
      BY <2>3 DEF TypeOK
    <2> HIDE DEF c, row, effect, rows, effects
    <2>9. fenced(rows, effects) /\ keepsFences(effects)
      BY <2>5, <2>6, <2>7, <2>8 DEF Fenced, fenced, keepsFences, Live
    <2> QED
      BY <2>2, <2>4, <2>8, <2>9, CommitFenced DEF TypeOK
  <1>3. ASSUME NEW op \in OpIds, RetryInPlace(op)
        PROVE  FenceStep
    <2> DEFINE row == movedRow(op, "queued", Undefined)
               rows == [operations EXCEPT ![op] = row]
               effects == [outbox EXCEPT ![op] = requeuedEffect(op)]
    <2>1. /\ admitted(op) /\ operations[op].status = "failed"
          /\ appendReceipt(receiptKey(op, "queued"), op, NoConsequence)
          /\ commit(rows, effects, lastSeq(receiptKey(op, "queued"), NoConsequence))
      BY <1>3 DEF RetryInPlace, admitted
    <2>2. "queued" \in Live \cup Settled /\ consequenceOK(NoConsequence)
      BY DEF Live, consequenceOK, happens, NoConsequence
    <2>3. /\ receiptKey(op, "queued") \in EventKeys /\ row \in Row /\ row.status = "queued"
          /\ receiptEvent(receiptKey(op, "queued"), op) \in Event
      BY <2>1, <2>2, MovedTypes DEF movedRow
    <2>4. lastSeq(receiptKey(op, "queued"), NoConsequence) \in Nat
      BY <2>1, <2>2, <2>3, AppendTypes
    <2>5. requeuedEffect(op) \in Effect
      BY <2>1, <2>3 DEF requeuedEffect, Effect, TypeOK, Row, NoRow, Event, admitted
    <2>6. outbox[op].state # "pending"
      BY <2>1 DEF Fenced, fenced, Live
    <2>7. /\ rows \in [OpIds -> Row \cup {NoRow}] /\ rows[op] = row
          /\ effects \in [OpIds -> Effect \cup {NoEffect}]
          /\ \A q \in OpIds : q # op => rows[q] = operations[q] /\ effects[q] = outbox[q]
      BY <2>3, <2>5 DEF TypeOK
    <2> HIDE DEF row, rows, effects
    <2>8. fenced(rows, effects) /\ keepsFences(effects)
      BY <2>3, <2>6, <2>7 DEF Fenced, fenced, keepsFences, Live
    <2> QED
      BY <2>1, <2>4, <2>7, <2>8, CommitFenced DEF TypeOK
  <1>4. ASSUME NEW last \in Nat, commit(operations, outbox, last)
        PROVE  FenceStep
    BY <1>4, CommitFenced DEF Fenced, keepsFences, TypeOK
  <1>5. CASE UNCHANGED <<operations, outbox>>
    BY <1>5 DEF Fenced, FenceStep, keepsFences
  <1>6. ASSUME NEW op \in OpIds, NEW key \in ClientKeys, NEW req \in Requests,
               ExecuteOperation(op, key, req)
        PROVE  FenceStep
    BY <1>1, <1>6 DEF ExecuteOperation, Keys
  <1>7. ASSUME NEW op \in OpIds, RetryOperation(op)
        PROVE  FenceStep
    <2> DEFINE next == terminalRetryOperationId(op)
    <2>1. operations[op] \in Row
      BY <1>7 DEF RetryOperation, retryable, TypeOK, NoRow
    <2>2. /\ operations[op].request \in Requests
          /\ nextPresentation(operations[op]) \in Nat
      BY <2>1 DEF Row, nextPresentation
    <2>3. /\ next \in OpIds /\ next \in Keys
          /\ executeOperationWithLineage(next, next, operations[op].request,
                                         nextPresentation(operations[op]))
      BY <1>7 DEF RetryOperation, retryable, Keys
    <2> HIDE DEF next
    <2> QED
      BY <1>1, <2>2, <2>3
  <1>8. CASE Transitions
    <2>1. PICK op \in OpIds : \E status \in outcomes(operations[op].request.kind) :
            \E turn \in reportedTurns(op, status) : TransitionOperation(op, status, turn)
      BY <1>8 DEF Transitions
    <2>2. PICK status \in outcomes(operations[op].request.kind) :
            \E turn \in reportedTurns(op, status) : TransitionOperation(op, status, turn)
      BY <2>1
    <2> QED
      BY <1>2, <2>2
  <1>9. ASSUME NEW s, NEW a, publish(s, a)
        PROVE  FenceStep
    BY <1>4, <1>9 DEF publish, TypeOK
  <1>10. CASE ClaimHostEpoch
    BY <1>5, <1>10 DEF ClaimHostEpoch
  <1>11. CASE UNCHANGED vars
    BY <1>5, <1>11 DEF vars
  <1> QED
    BY <1>3, <1>6, <1>7, <1>8, <1>9, <1>10, <1>11
    DEF Next, PublishSession, PublishTurn, PublishAttention, AppendElsewhere

(* No effect outlives its operation's open receipt, and the receipt of a    *)
(* message being delivered shows the turn its durable effect is fenced to.  *)
THEOREM FencesAgree == Spec => [](EffectHasOperation /\ FenceAgrees)
  <1>1. Init => Fenced
    BY DEF Init, Fenced, fenced, NoEffect
  <1>2. TypeOK /\ Fenced /\ [Next]_vars => Fenced'
    BY NextFenced DEF FenceStep, Fenced
  <1>3. Fenced => EffectHasOperation /\ FenceAgrees
    BY DEF Fenced, fenced, EffectHasOperation, FenceAgrees, live
  <1> QED
    BY <1>1, <1>2, <1>3, Typing, PTL DEF Spec

(* A pending effect never changes the turn it is fenced to.                 *)
THEOREM FencesKept == Spec => FenceIsKept
  <1>1. Init => Fenced
    BY DEF Init, Fenced, fenced, NoEffect
  <1>2. TypeOK /\ Fenced /\ [Next]_vars => Fenced'
    BY NextFenced DEF FenceStep, Fenced
  <1>3. TypeOK /\ Fenced /\ [Next]_vars =>
          [\A op \in OpIds :
             outbox[op].state = "pending" /\ outbox'[op].state = "pending"
               /\ outbox[op].turnId # Undefined
             => outbox'[op].turnId = outbox[op].turnId]_vars
    BY NextFenced DEF FenceStep, keepsFences
  <1> QED
    BY <1>1, <1>2, <1>3, Typing, PTL DEF Spec, FenceIsKept

---------------------------------------------------------------------------
(* Launches, for every client that makes fresh keys.  A session shown as    *)
(* registering is traced to the launch that put it there: that one has not  *)
(* failed, and would take the session with it, which needs that the key its *)
(* end is published under was not used before.                              *)
launchKey(op) == <<"session-placeholder", op>>
deadKey(op) == <<"session-dead", op>>
appended(key) == key \in DOMAIN producerReceipts

(* Ids named by a key were used.                                            *)
IdsUsed ==
  /\ \A key \in DOMAIN producerReceipts : key[2] \in OpIds => scopeRevision[key[2]] > 0
  /\ \A op \in OpIds : admitted(op) =>
       scopeRevision[op] > 0 /\ (isRetry(op) => carriesMessage(operations[op].request))
(* An operation that ended a session is not a message, and is settled.      *)
EndsAreSettled ==
  \A op \in OpIds : appended(deadKey(op)) =>
    ~isRetry(op) /\ (admitted(op) => ~carriesMessage(operations[op].request) /\ ~live(op))
registers(op) ==
  /\ ~isRetry(op) /\ appended(launchKey(op)) /\ ~failedLaunch(op)
  /\ admitted(op) => operations[op].request.kind = "spawn" /\ operations[op].request.gen = Null
Launched ==
  session.host = "registering" /\ session.gen = Null => \E op \in OpIds : registers(op)
LaunchInv == TypeOK /\ IdsUsed /\ EndsAreSettled /\ Launched

LEMMA KeyParts ==
  /\ \A op : launchKey(op)[1] = "session-placeholder" /\ launchKey(op)[2] = op
  /\ \A op : deadKey(op)[1] = "session-dead" /\ deadKey(op)[2] = op
  /\ \A key : admitKey(key)[1] = "admit" /\ admitKey(key)[2] = key
  /\ \A op, status : /\ receiptKey(op, status)[1] = "receipt" /\ receiptKey(op, status)[2] = op
                     /\ receiptKey(op, status)[4] = status
  BY DEF launchKey, deadKey, admitKey, receiptKey

(* The keys and revisions an append leaves.                                 *)
LEMMA Appends ==
  ASSUME TypeOK, NEW op \in OpIds, NEW eventKey, NEW c, appendReceipt(eventKey, op, c)
  PROVE  /\ \A key : appended(key)' <=> appended(key) \/ key = eventKey \/ (happens(c) /\ key = c.key)
         /\ \A x \in OpIds : scopeRevision[x] > 0 => scopeRevision'[x] > 0
         /\ ~appended(eventKey) => scopeRevision'[op] > 0
         /\ happens(c) => session' = c.session
         /\ ~happens(c) => session' = session
  <1>1. scopeRevision \in [OpIds -> Nat]
    BY DEF TypeOK
  <1>2. \A key : appended(key)' <=> appended(key) \/ key = eventKey \/ (happens(c) /\ key = c.key)
    BY DEF appendReceipt, appended, with, fresh
  <1>3. /\ \A x \in OpIds : scopeRevision[x] > 0 => scopeRevision'[x] > 0
        /\ ~appended(eventKey) => scopeRevision'[op] > 0
    BY <1>1 DEF appendReceipt, appended, receiptEvent, fresh
  <1> QED
    BY <1>2, <1>3 DEF appendReceipt

(* Rows that are kept, and what a transaction leaves of the others.         *)
LEMMA RowsLeft ==
  ASSUME TypeOK, NEW rows \in [OpIds -> Row \cup {NoRow}],
         NEW effects \in [OpIds -> Effect \cup {NoEffect}], NEW last \in Nat,
         commit(rows, effects, last)
  PROVE  \A op \in OpIds : admitted(op)' => operations'[op] = rows[op]
  <1>1. \A op \in OpIds : operations'[op] \in {rows[op], NoRow}
    BY CommitFacts DEF TypeOK
  <1> QED
    BY <1>1 DEF admitted, NoRow

(* What an admission writes.                                                *)
LEMMA AdmittedTypes ==
  ASSUME TypeOK, NEW op \in OpIds, NEW key \in Keys, NEW req \in Requests,
         NEW presentation \in Nat,
         appendReceipt(admitKey(key), op, operationConsequence(op, req, operationReceipt(req)))
  PROVE  LET rows == [operations EXCEPT ![op] = admittedRow(op, key, req, presentation)]
             effects == IF insertsEffect(op, key, req)
                          THEN [outbox EXCEPT ![op] = insertedEffect(op, key, req)] ELSE outbox
         IN /\ rows \in [OpIds -> Row \cup {NoRow}] /\ rows[op].request = req
            /\ \A x \in OpIds : x # op => rows[x] = operations[x]
            /\ effects \in [OpIds -> Effect \cup {NoEffect}]
            /\ lastSeq(admitKey(key), operationConsequence(op, req, operationReceipt(req))) \in Nat
  <1> DEFINE c == operationConsequence(op, req, operationReceipt(req))
  <1>1. /\ operationReceipt(req).status \in Live \cup Settled
        /\ operationReceipt(req).turnId \in TurnRef
    BY ReceiptType DEF Live, Settled
  <1>2. admitKey(key) \in EventKeys
    BY DEF EventKeys, admitKey
  <1>3. consequenceOK(c)
    BY <1>1, ConsequenceTypes
  <1>5. /\ receiptEvent(admitKey(key), op) \in Event
        /\ lastSeq(admitKey(key), c) \in Nat
    BY <1>2, <1>3, AppendTypes
  <1>6. admittedRow(op, key, req, presentation) \in Row
           /\ admittedRow(op, key, req, presentation).request = req
    BY <1>1, <1>5 DEF admittedRow, Row, Event
  <1>7. insertedEffect(op, key, req) \in Effect
    <2>1. effectFence(req, operationReceipt(req)) \in TurnRef \cup {Undefined}
      BY <1>1, JournalAssumption DEF effectFence, RequestType, TurnRef
    <2> QED
      BY <1>5, <2>1 DEF insertedEffect, Effect, Event
  <1> HIDE DEF c
  <1> QED
    BY <1>5, <1>6, <1>7 DEF TypeOK, c

(* A command is admitted under an id and a key of its own.                  *)
LEMMA AdmissionLaunched ==
  ASSUME LaunchInv, TypeOK', NEW op \in OpIds, NEW key \in Keys, NEW req \in Requests,
         NEW presentation \in Nat, executeOperationWithLineage(op, key, req, presentation),
         \/ ~isRetry(op) /\ neverUsed(op, key) /\ key \notin OpIds
         \/ isRetry(op) /\ key = op /\ carriesMessage(req)
  PROVE  LaunchInv'
  <1> DEFINE r == operationReceipt(req)
             c == operationConsequence(op, req, r)
             rows == [operations EXCEPT ![op] = admittedRow(op, key, req, presentation)]
             effects == IF insertsEffect(op, key, req)
                          THEN [outbox EXCEPT ![op] = insertedEffect(op, key, req)] ELSE outbox
  <1> USE DEF LaunchInv
  <1>1. /\ ~admitted(op) /\ appendReceipt(admitKey(key), op, c)
        /\ commit(rows, effects, lastSeq(admitKey(key), c))
    BY DEF executeOperationWithLineage
  <1>2. /\ rows \in [OpIds -> Row \cup {NoRow}] /\ rows[op].request = req
        /\ \A x \in OpIds : x # op => rows[x] = operations[x]
        /\ effects \in [OpIds -> Effect \cup {NoEffect}] /\ lastSeq(admitKey(key), c) \in Nat
    BY AdmittedTypes, <1>1
  <1>3. /\ happens(c) => c.key[2] = op /\ c.key[1] \notin {"admit", "receipt", "session-dead"}
        /\ \/ c.session.host = session.host /\ c.session.gen = session.gen
           \/ c.key = launchKey(op) /\ req.kind = "spawn" /\ c.session.gen = req.gen
    BY DEF operationConsequence, NoConsequence, happens, launchKey, placeholder
  <1> HIDE DEF c, rows, effects
  <1>4. /\ \A k : appended(k)' <=> appended(k) \/ k = admitKey(key) \/ (happens(c) /\ k = c.key)
        /\ \A x \in OpIds : scopeRevision[x] > 0 => scopeRevision'[x] > 0
        /\ ~appended(admitKey(key)) => scopeRevision'[op] > 0
        /\ happens(c) => session' = c.session
        /\ ~happens(c) => session' = session
    BY <1>1, Appends
  <1>5. \A x \in OpIds : admitted(x)' => operations'[x] = rows[x]
    BY <1>1, <1>2, RowsLeft
  <1>6. /\ \A k : appended(k) /\ k[2] \in OpIds => scopeRevision[k[2]] > 0
        /\ \A x \in OpIds : admitted(x) => scopeRevision[x] > 0
                              /\ (isRetry(x) => carriesMessage(operations[x].request))
    BY DEF IdsUsed, appended
  <1>7. scopeRevision'[op] > 0
    BY <1>4, <1>6, KeyParts DEF neverUsed, fresh, appended
  <1>8. ~isRetry(op) => \A k : appended(k) => k[2] # op
    BY <1>6 DEF neverUsed
  <1>9. \A x \in OpIds : x # op /\ admitted(x)' => admitted(x) /\ operations'[x] = operations[x]
    BY <1>2, <1>5 DEF admitted
  <1>10. \A k : appended(k)' => appended(k) \/ k = admitKey(key) \/ (k[2] = op /\ k[1] # "receipt"
                                                                     /\ k[1] # "session-dead")
    BY <1>3, <1>4
  <1>11. IdsUsed'
    <2>1. ASSUME NEW k, appended(k)', k[2] \in OpIds
          PROVE  scopeRevision'[k[2]] > 0
      BY <1>4, <1>6, <1>7, <1>10, <2>1, KeyParts
    <2>2. ASSUME NEW x \in OpIds, admitted(x)'
          PROVE  /\ scopeRevision'[x] > 0
                 /\ isRetry(x) => carriesMessage(operations'[x].request)
      <3>1. CASE x = op
        BY <1>2, <1>5, <1>7, <2>2, <3>1
      <3>2. CASE x # op
        BY <1>4, <1>6, <1>9, <2>2, <3>2
      <3> QED
        BY <3>1, <3>2
    <2> QED
      BY <2>1, <2>2 DEF IdsUsed, appended
  <1>12. EndsAreSettled'
    <2> SUFFICES ASSUME NEW x \in OpIds, appended(deadKey(x))'
                 PROVE  /\ ~isRetry(x)
                        /\ admitted(x)' => ~carriesMessage(operations'[x].request) /\ ~live(x)'
      BY DEF EndsAreSettled
    <2>1. appended(deadKey(x))
      BY <1>10, KeyParts
    <2>2. ~isRetry(x) /\ x # op
      BY <1>8, <2>1, KeyParts DEF EndsAreSettled
    <2> QED
      BY <1>9, <2>1, <2>2 DEF EndsAreSettled, live
  <1>13. \A x \in OpIds : failedLaunch(x)' => failedLaunch(x)
    BY <1>10, KeyParts DEF failedLaunch, appended
  <1>14. Launched'
    <2> SUFFICES ASSUME session'.host = "registering", session'.gen = Null
                 PROVE  \E x \in OpIds : registers(x)'
      BY DEF Launched
    <2>1. CASE session.host = "registering" /\ session.gen = Null
      <3>1. PICK x \in OpIds : registers(x)
        BY <2>1 DEF Launched
      <3>2. x # op
        BY <1>8, <3>1, KeyParts DEF registers
      <3>3. ~failedLaunch(x)' /\ appended(launchKey(x))'
        BY <1>4, <1>13, <3>1 DEF registers
      <3>4. registers(x)'
        BY <1>9, <3>1, <3>2, <3>3 DEF registers
      <3> QED
        BY <3>4
    <2>2. CASE ~(session.host = "registering" /\ session.gen = Null)
      <3>1. happens(c) /\ c.key = launchKey(op) /\ req.kind = "spawn" /\ req.gen = Null
        BY <1>3, <1>4, <2>2
      <3>2. ~isRetry(op)
        BY <3>1 DEF carriesMessage
      <3>3. ~failedLaunch(op)'
        BY <1>8, <1>13, <3>2 DEF failedLaunch, appended
      <3>4. registers(op)'
        BY <1>2, <1>4, <1>5, <3>1, <3>2, <3>3 DEF registers
      <3> QED
        BY <3>4
    <2> QED
      BY <2>1, <2>2
  <1> QED
    BY <1>11, <1>12, <1>14

(* What happens to an admitted operation: only its own row changes, and a   *)
(* launch that fails takes the session it registered with it.               *)
LEMMA MoveLaunched ==
  ASSUME LaunchInv, TypeOK', NEW op \in OpIds, admitted(op), NEW status, NEW c,
         appendReceipt(receiptKey(op, status), op, c),
         \A x \in OpIds : admitted(x)' =>
           /\ admitted(x) /\ operations'[x].request = operations[x].request
           /\ x # op => operations'[x] = operations[x]
           /\ x = op => operations'[x].status = status,
         happens(c) => c.key[2] = op /\ c.key[1] # "receipt",
         happens(c) /\ c.key[1] = "session-dead" =>
           operations[op].request.kind \in {"spawn", "kill"} /\ status \notin Live,
         \/ c.session.host = session.host /\ c.session.gen = session.gen
         \/ c.session.host = "dead",
         status \in Live => live(op) \/ carriesMessage(operations[op].request),
         status = "failed" => live(op),
         status = "failed" /\ operations[op].request.kind = "spawn"
             /\ operations[op].request.gen = Null /\ session.host = "registering" =>
           c.key = deadKey(op) /\ c.session.host = "dead"
  PROVE  LaunchInv'
  <1> USE DEF LaunchInv
  <1>1. /\ \A k : appended(k)' <=> appended(k) \/ k = receiptKey(op, status)
                                     \/ (happens(c) /\ k = c.key)
        /\ \A x \in OpIds : scopeRevision[x] > 0 => scopeRevision'[x] > 0
        /\ happens(c) => session' = c.session
        /\ ~happens(c) => session' = session
    BY Appends
  <1>2. scopeRevision[op] > 0 /\ (isRetry(op) => carriesMessage(operations[op].request))
    BY DEF IdsUsed
  <1>3. IdsUsed'
    <2>1. ASSUME NEW k, appended(k)', k[2] \in OpIds
          PROVE  scopeRevision'[k[2]] > 0
      <3>1. CASE appended(k)
        BY <1>1, <2>1, <3>1 DEF IdsUsed, appended
      <3>2. CASE k[2] = op
        BY <1>1, <1>2, <3>2
      <3> QED
        BY <1>1, <2>1, <3>1, <3>2, KeyParts
    <2>2. \A x \in OpIds : admitted(x)' =>
            scopeRevision'[x] > 0 /\ (isRetry(x) => carriesMessage(operations'[x].request))
      BY <1>1 DEF IdsUsed
    <2> QED
      BY <2>1, <2>2 DEF IdsUsed, appended
  <1>4. EndsAreSettled'
    <2> SUFFICES ASSUME NEW x \in OpIds, appended(deadKey(x))'
                 PROVE  /\ ~isRetry(x)
                        /\ admitted(x)' => ~carriesMessage(operations'[x].request) /\ ~live(x)'
      BY DEF EndsAreSettled
    <2>1. CASE appended(deadKey(x))
      BY <2>1 DEF EndsAreSettled, live
    <2>2. CASE ~appended(deadKey(x))
      <3>1. happens(c) /\ c.key = deadKey(x) /\ x = op
        BY <1>1, <2>2, KeyParts
      <3>2. operations[op].request.kind \in {"spawn", "kill"} /\ status \notin Live
        BY <3>1, KeyParts
      <3> QED
        BY <1>2, <3>1, <3>2 DEF carriesMessage, live
    <2> QED
      BY <2>1, <2>2
  <1>5. \A x \in OpIds : failedLaunch(x)' => failedLaunch(x) \/ (x = op /\ status = "failed")
    BY <1>1, KeyParts DEF failedLaunch, appended
  <1>6. Launched'
    <2> SUFFICES ASSUME session'.host = "registering", session'.gen = Null
                 PROVE  \E x \in OpIds : registers(x)'
      BY DEF Launched
    <2>1. session.host = "registering" /\ session.gen = Null
      BY <1>1
    <2>2. PICK x \in OpIds : registers(x)
      BY <2>1 DEF Launched
    <2>3. ~(x = op /\ status = "failed")
      <3> SUFFICES ASSUME x = op, status = "failed"
                   PROVE  FALSE
        OBVIOUS
      <3>1. c.key = deadKey(op) /\ c.session.host = "dead"
        BY <2>1, <2>2 DEF registers
      <3>2. ~happens(c)
        BY <1>1, <3>1
      <3>3. appended(deadKey(op))
        <4>1. deadKey(op) # Null
          <5>1. deadKey(op) \in {"session-dead"} \X OpIds
            BY DEF deadKey
          <5> QED
            BY <5>1, LaunchAssumption
        <4> QED
          BY <3>1, <3>2, <4>1 DEF happens, fresh, appended
      <3> QED
        BY <3>3 DEF EndsAreSettled
    <2>4. registers(x)'
      BY <1>1, <1>5, <2>2, <2>3 DEF registers
    <2> QED
      BY <2>4
  <1> QED
    BY <1>3, <1>4, <1>6

LEMMA TransitionLaunched ==
  ASSUME LaunchInv, TypeOK', NEW op \in OpIds, NEW status \in Live \cup Settled,
         NEW turn \in TurnRef \cup {Undefined}, TransitionOperation(op, status, turn)
  PROVE  LaunchInv'
  <1> DEFINE c == transitionConsequence(op, status)
             rows == [operations EXCEPT ![op] = movedRow(op, status, turn)]
             effects == IF outbox[op].state = "none" THEN outbox
                          ELSE [outbox EXCEPT ![op] = movedEffect(op, status, turn)]
  <1>1. /\ admitted(op) /\ TypeOK
        /\ appendReceipt(receiptKey(op, status), op, c)
        /\ commit(rows, effects, lastSeq(receiptKey(op, status), c))
    BY DEF TransitionOperation, LaunchInv
  <1>2. /\ lastSeq(receiptKey(op, status), c) \in Nat
        /\ rows \in [OpIds -> Row \cup {NoRow}]
        /\ effects \in [OpIds -> Effect \cup {NoEffect}]
    <2>1. lastSeq(receiptKey(op, status), c) \in Nat
      BY <1>1, MovedTypes, AppendTypes
    <2> QED
      BY <1>1, <2>1, MovedTypes DEF TypeOK
  <1>3. /\ rows[op].request = operations[op].request /\ rows[op].status = status
        /\ \A x \in OpIds : x # op => rows[x] = operations[x]
    BY <1>1 DEF TypeOK, movedRow
  <1>4. live(op)
    BY DEF TransitionOperation, queueing, beginning, completing, live, Live
  <1>5. /\ happens(c) => c.key[2] = op /\ c.key[1] # "receipt"
        /\ happens(c) /\ c.key[1] = "session-dead" =>
             operations[op].request.kind \in {"spawn", "kill"} /\ status \notin Live
        /\ \/ c.session.host = session.host /\ c.session.gen = session.gen
           \/ c.session.host = "dead"
        /\ status = "failed" /\ operations[op].request.kind = "spawn"
             /\ operations[op].request.gen = Null /\ session.host = "registering" =>
             c.key = deadKey(op) /\ c.session.host = "dead"
    <2>1. session \in Session /\ retired.host = "dead"
      BY <1>1 DEF TypeOK, Session, retired
    <2>2. status = "failed" => completing(operations[op].status, status)
      BY <1>4 DEF completing, live
    <2>3. completing(operations[op].status, status) /\ status \in {"failed", "delivered"}
            => status \notin Live
      BY DEF completing, Live
    <2> QED
      BY <2>1, <2>2, <2>3
      DEF transitionConsequence, completionConsequence, NoConsequence, happens, deadKey,
          retiresPlaceholder
  <1> HIDE DEF c, rows, effects
  <1>6. \A x \in OpIds : admitted(x)' => operations'[x] = rows[x]
    BY <1>1, <1>2, RowsLeft
  <1>7. \A x \in OpIds : admitted(x)' =>
          /\ admitted(x) /\ operations'[x].request = operations[x].request
          /\ x # op => operations'[x] = operations[x]
          /\ x = op => operations'[x].status = status
    BY <1>1, <1>3, <1>6 DEF admitted
  <1> QED
    BY <1>1, <1>4, <1>5, <1>7, MoveLaunched

LEMMA RetryLaunched ==
  ASSUME LaunchInv, TypeOK', NEW op \in OpIds, RetryInPlace(op)
  PROVE  LaunchInv'
  <1> DEFINE rows == [operations EXCEPT ![op] = movedRow(op, "queued", Undefined)]
             effects == [outbox EXCEPT ![op] = requeuedEffect(op)]
             c == NoConsequence
  <1>1. /\ admitted(op) /\ TypeOK /\ carriesMessage(operations[op].request)
        /\ appendReceipt(receiptKey(op, "queued"), op, c)
        /\ commit(rows, effects, lastSeq(receiptKey(op, "queued"), c))
    BY DEF RetryInPlace, admitted, LaunchInv
  <1>2. /\ rows \in [OpIds -> Row \cup {NoRow}]
        /\ effects \in [OpIds -> Effect \cup {NoEffect}]
        /\ lastSeq(receiptKey(op, "queued"), c) \in Nat
    <2>1. "queued" \in Live \cup Settled /\ consequenceOK(c)
      BY DEF Live, consequenceOK, happens, NoConsequence
    <2>2. /\ receiptKey(op, "queued") \in EventKeys
          /\ receiptEvent(receiptKey(op, "queued"), op) \in Event
          /\ movedRow(op, "queued", Undefined) \in Row
      BY <1>1, <2>1, MovedTypes
    <2>3. lastSeq(receiptKey(op, "queued"), c) \in Nat
      BY <1>1, <2>1, <2>2, AppendTypes
    <2>4. requeuedEffect(op) \in Effect
      BY <1>1, <2>2 DEF requeuedEffect, Effect, TypeOK, Row, NoRow, Event, admitted
    <2> QED
      BY <1>1, <2>2, <2>3, <2>4 DEF TypeOK
  <1>3. /\ rows[op].request = operations[op].request /\ rows[op].status = "queued"
        /\ \A x \in OpIds : x # op => rows[x] = operations[x]
    BY <1>1 DEF TypeOK, movedRow
  <1>4. ~happens(c) /\ c.session.host = session.host /\ c.session.gen = session.gen
    BY DEF happens, NoConsequence
  <1> HIDE DEF c, rows, effects
  <1>5. \A x \in OpIds : admitted(x)' => operations'[x] = rows[x]
    BY <1>1, <1>2, RowsLeft
  <1>6. \A x \in OpIds : admitted(x)' =>
          /\ admitted(x) /\ operations'[x].request = operations[x].request
          /\ x # op => operations'[x] = operations[x]
          /\ x = op => operations'[x].status = "queued"
    BY <1>1, <1>3, <1>5 DEF admitted
  <1> QED
    BY <1>1, <1>4, <1>6, MoveLaunched

(* What leaves operations, keys and revisions alone.                        *)
LEMMA ProjectionLaunched ==
  ASSUME LaunchInv, TypeOK', UNCHANGED <<producerReceipts, scopeRevision>>,
         \A x \in OpIds : admitted(x)' => operations'[x] = operations[x],
         session'.host = "registering" /\ session'.gen = Null =>
           session.host = "registering" /\ session.gen = Null
  PROVE  LaunchInv'
  <1> USE DEF LaunchInv
  <1>1. \A x \in OpIds : admitted(x)' => admitted(x) /\ operations'[x] = operations[x]
    BY DEF admitted
  <1>2. IdsUsed'
    BY <1>1 DEF IdsUsed
  <1>3. EndsAreSettled'
    BY <1>1 DEF EndsAreSettled, appended, live
  <1>4. Launched'
    BY <1>1 DEF Launched, registers, failedLaunch, appended
  <1> QED
    BY <1>2, <1>3, <1>4

LEMMA NextLaunched ==
  ASSUME ~ReusesOldKeys, LaunchInv, [Next]_vars
  PROVE  LaunchInv'
  <1>0. TypeOK /\ TypeOK'
    BY NextType DEF LaunchInv
  <1>1. ASSUME NEW op \in OpIds, NEW key \in ClientKeys, NEW req \in Requests,
               ExecuteOperation(op, key, req)
        PROVE  LaunchInv'
    <2>1. /\ key \in Keys /\ ~isRetry(op) /\ neverUsed(op, key) /\ key \notin OpIds
          /\ executeOperationWithLineage(op, key, req, 0)
      BY <1>1, JournalAssumption DEF ExecuteOperation, Keys
    <2> QED
      BY <1>0, <2>1, AdmissionLaunched
  <1>2. ASSUME NEW op \in OpIds, RetryOperation(op)
        PROVE  LaunchInv'
    <2> DEFINE next == terminalRetryOperationId(op)
    <2>1. operations[op] \in Row
      BY <1>0, <1>2 DEF RetryOperation, retryable, TypeOK, NoRow
    <2>2. /\ operations[op].request \in Requests /\ carriesMessage(operations[op].request)
          /\ nextPresentation(operations[op]) \in Nat
      BY <1>2, <2>1 DEF Row, nextPresentation, RetryOperation
    <2>3. /\ next \in OpIds /\ next \in Keys
          /\ executeOperationWithLineage(next, next, operations[op].request,
                                         nextPresentation(operations[op]))
      BY <1>2 DEF RetryOperation, retryable, Keys
    <2>4. isRetry(next)
      BY RetryIds
    <2> HIDE DEF next
    <2> QED
      BY <1>0, <2>2, <2>3, <2>4, AdmissionLaunched
  <1>3. ASSUME NEW op \in OpIds, RetryInPlace(op)
        PROVE  LaunchInv'
    BY <1>0, <1>3, RetryLaunched
  <1>4. CASE Transitions
    <2>1. PICK op \in OpIds : admitted(op) /\
            \E status \in outcomes(operations[op].request.kind) :
              \E turn \in reportedTurns(op, status) : TransitionOperation(op, status, turn)
      BY <1>4 DEF Transitions
    <2>2. PICK status \in outcomes(operations[op].request.kind) :
            \E turn \in reportedTurns(op, status) : TransitionOperation(op, status, turn)
      BY <2>1
    <2>3. PICK turn \in reportedTurns(op, status) : TransitionOperation(op, status, turn)
      BY <2>2
    <2>4. status \in Live \cup Settled /\ turn \in TurnRef \cup {Undefined}
      BY <2>2, <2>3 DEF outcomes, reportedTurns, Live, Settled
    <2> QED
      BY <1>0, <2>3, <2>4, TransitionLaunched
  <1>5. ASSUME NEW s, NEW a, publish(s, a),
               s.host = "registering" /\ s.gen = Null =>
                 session.host = "registering" /\ session.gen = Null
        PROVE  LaunchInv'
    <2>1. commit(operations, outbox, seq + 1) /\ seq + 1 \in Nat
      BY <1>0, <1>5 DEF TypeOK, publish
    <2>2. \A x \in OpIds : admitted(x)' => operations'[x] = operations[x]
      BY <1>0, <2>1, RowsLeft DEF TypeOK
    <2> QED
      BY <1>0, <1>5, <2>2, ProjectionLaunched DEF publish
  <1>6. ASSUME NEW report \in SessionReports, PublishSession(report)
        PROVE  LaunchInv'
    BY <1>5, <1>6, LaunchAssumption DEF PublishSession
  <1>7. ASSUME NEW turn \in TurnRef, PublishTurn(turn)
        PROVE  LaunchInv'
    <2> DEFINE s == [session EXCEPT !.host = baseHost, !.activeTurnId = turn,
                                    !.turn = IF turn = Null THEN "idle" ELSE "running"]
    <2>1. s.host = baseHost /\ s.gen = session.gen /\ publish(s, attention)
      BY <1>0, <1>7 DEF PublishTurn, TypeOK, Session
    <2> HIDE DEF s
    <2> QED
      BY <1>5, <2>1 DEF baseHost
  <1>8. ASSUME NEW state \in {"open", "resolved"}, PublishAttention(state)
        PROVE  LaunchInv'
    <2> DEFINE s == [session EXCEPT !.host = baseHost]
               a == [state |-> state, turnId |-> IF state = "open" THEN session.activeTurnId
                                                                   ELSE attention.turnId]
    <2>1. s.host = baseHost /\ s.gen = session.gen /\ publish(s, a)
      BY <1>0, <1>8 DEF PublishAttention, TypeOK, Session
    <2> HIDE DEF s, a
    <2> QED
      BY <1>5, <2>1 DEF baseHost
  <1>9. CASE AppendElsewhere
    BY <1>5, <1>9 DEF AppendElsewhere
  <1>10. CASE ClaimHostEpoch
    <2>1. session'.host = "dead" /\ UNCHANGED <<operations, producerReceipts, scopeRevision>>
      BY <1>0, <1>10 DEF ClaimHostEpoch, retired, TypeOK, Session
    <2> QED
      BY <1>0, <2>1, ProjectionLaunched
  <1>11. CASE UNCHANGED vars
    BY <1>0, <1>11, ProjectionLaunched DEF vars
  <1> QED
    BY <1>1, <1>2, <1>3, <1>4, <1>6, <1>7, <1>8, <1>9, <1>10, <1>11 DEF Next

(* A conversation shown as registering under its placeholder identity has a *)
(* launch that did not fail, whatever is compacted and retried in between.  *)
THEOREM PlaceholdersAreLaunched ==
  ASSUME ~ReusesOldKeys
  PROVE  Spec => []PlaceholderHasLaunch
  <1>1. Init => LaunchInv
    <2> SUFFICES ASSUME Init
                 PROVE  LaunchInv
      OBVIOUS
    <2>1. \A op \in OpIds : ~admitted(op)
      BY DEF Init, admitted, NoRow
    <2>2. DOMAIN producerReceipts = {} /\ session.host = "none"
      BY DEF Init
    <2> QED
      BY <2>1, <2>2, InitType DEF LaunchInv, IdsUsed, EndsAreSettled, Launched, appended
  <1>2. LaunchInv /\ [Next]_vars => LaunchInv'
    BY NextLaunched
  <1>3. LaunchInv => PlaceholderHasLaunch
    BY DEF LaunchInv, Launched, registers, appended, launchKey, PlaceholderHasLaunch
  <1> QED
    BY <1>1, <1>2, <1>3, PTL DEF Spec
=============================================================================
