---------------------------- MODULE OperationJournal ----------------------------
(***************************************************************************)
(* The runtime host's durable journal (runtime-host/journal.ts), seen from *)
(* one conversation: the operations table with its receipts, the outbox of *)
(* effects the Viewer drains, the producer receipts that make appends      *)
(* idempotent, the session and attention projections an operation is       *)
(* admitted against, and the event log with its compaction.                *)
(*                                                                         *)
(* Every public method is one SQLite transaction followed, where the code  *)
(* does so, by compaction; each is one action.  Events of other scopes     *)
(* (other conversations, flows, deployments) are one action that only      *)
(* moves the log on, which is what makes compaction reach old rows.        *)
(***************************************************************************)
EXTENDS Integers, FiniteSets

CONSTANTS
  ClientOps,      \* operation ids chosen by clients
  ClientKeys,     \* idempotency keys chosen by clients
  MaxRetries,     \* bound: length of a chain of retry attempts
  Requests,       \* the commands clients send
  SessionReports, \* the session-status payloads a structured host publishes
  Turns,          \* engine turn ids
  Generations,    \* engine session ids of the conversation
  CanSteer,       \* the conversation's engine accepts input into a running turn
  MaxEvents,      \* events kept by compaction (options.maxEvents)
  EventBudget,    \* bound: events appended in a behaviour
  ReusesOldKeys,  \* a client may send again a key or id whose row is compacted
  RetriesInPlace, \* a client may call operation-retry without a fresh key
  Null,           \* JSON null
  Undefined       \* an absent JSON member

(* terminalRetryOperationId hashes the parent's id: an injective map that   *)
(* never meets an id of a client.  The n-th attempt of a client's operation *)
(* is <<id, n>>.                                                            *)
OpIds == ClientOps \X (0 .. MaxRetries)
terminalRetryOperationId(op) == <<op[1], op[2] + 1>>
isRetry(op) == op[2] > 0
retryOfOperationId(op) == <<op[1], op[2] - 1>>
Keys == ClientKeys \cup OpIds   \* a retry's default key is the hash as well

Kinds == {"send", "steer", "interrupt", "answer", "kill", "spawn"}
Policies == {"queue", "steer-if-active", "interrupt-active"}
RequestType == [kind : Kinds, policy : Policies, turnId : Turns \cup {Undefined},
                gen : Generations \cup {Null}]

Live == {"pending", "queued", "delivering"}
Settled == {"delivered", "interrupted", "answered", "failed", "rejected"}
TurnRef == Turns \cup {Null}

Hosts == {"none", "unhosted", "registering", "hosted", "conflict", "dead"}
TurnAxis == {"unknown", "idle", "running", "interrupt_requested"}
Session == [host : Hosts, structured : BOOLEAN, turn : TurnAxis,
            activeTurnId : TurnRef, gen : Generations \cup {Null}]
Attention == [state : {"none", "open", "resolving", "resolved"}, turnId : TurnRef]

ASSUME JournalAssumption ==
  /\ MaxRetries \in Nat /\ MaxEvents \in Nat \ {0} /\ EventBudget \in Nat
  /\ Requests \subseteq RequestType
  /\ SessionReports \subseteq Session
  /\ CanSteer \in BOOLEAN /\ ReusesOldKeys \in BOOLEAN /\ RetriesInPlace \in BOOLEAN
  /\ Null \notin Turns /\ Undefined \notin Turns \cup {Null}
  /\ Null \notin Generations /\ Null \notin RequestType /\ Null \notin Keys
  /\ ClientKeys \cap OpIds = {}
(* Only the journal itself shows a session as registering; the key of a     *)
(* session's end is not Null.                                               *)
ASSUME LaunchAssumption ==
  /\ \A report \in SessionReports : report.host # "registering"
  /\ Null \notin {"session-dead"} \X OpIds

VARIABLES
  operations,       \* op -> row of table operations: its receipt and request
  outbox,           \* op -> row "effect:<op>" of table outbox
  producerReceipts, \* producer event key -> the event first appended under it
  scopeRevision,    \* op -> revision of scope operation:<op>
  session,          \* entity "session" of the conversation
  attention,        \* entity "attention" of the conversation
  seq,              \* meta seq = published_seq: last event
  anchor            \* meta anchor_seq: last event removed by compaction

tables == <<operations, outbox, producerReceipts, scopeRevision>>
projections == <<session, attention>>
vars == <<operations, outbox, producerReceipts, scopeRevision, session, attention,
          seq, anchor>>

Row == [status : Live \cup Settled, key : Keys, request : Requests, turnId : TurnRef,
        eventSeq : Nat, revision : Nat, presentation : Nat]
NoRow == [status |-> "absent", key |-> Null, request |-> Null, turnId |-> Null,
          eventSeq |-> 0, revision |-> 0, presentation |-> 0]
Effect == [state : {"pending", "completed"}, turnId : TurnRef \cup {Undefined}, eventSeq : Nat]
NoEffect == [state |-> "none", turnId |-> Undefined, eventSeq |-> 0]
Event == [seq : Nat, revision : Nat]

admitted(op) == operations[op].status # "absent"
live(op) == operations[op].status \in Live
carriesMessage(req) == req.kind \in {"send", "steer"}

---------------------------------------------------------------------------
(* The log: idempotent append, and compaction after the commit.             *)

fresh(eventKey) == eventKey \notin DOMAIN producerReceipts

(* The event a receipt append returns: a new one, or the one stored when    *)
(* the producer key was first used.                                         *)
receiptEvent(eventKey, op) ==
  IF fresh(eventKey) THEN [seq |-> seq + 1, revision |-> scopeRevision[op] + 1]
                     ELSE producerReceipts[eventKey]

with(f, k, v) == [x \in DOMAIN f \cup {k} |-> IF x = k THEN v ELSE f[x]]

(* A transaction appends a receipt event and possibly one more event whose  *)
(* projection is the operation's consequence.                               *)
NoConsequence == [key |-> Null, session |-> session, attention |-> attention]
happens(c) == c.key # Null /\ fresh(c.key)

appendReceipt(eventKey, op, c) ==
  LET event == receiptEvent(eventKey, op)
      first == IF fresh(eventKey) THEN with(producerReceipts, eventKey, event)
                                  ELSE producerReceipts
      follow == [seq |-> seq + (IF fresh(eventKey) THEN 2 ELSE 1), revision |-> 0]
  IN /\ producerReceipts' = IF happens(c) THEN with(first, c.key, follow) ELSE first
     /\ scopeRevision' = IF fresh(eventKey)
                           THEN [scopeRevision EXCEPT ![op] = event.revision]
                           ELSE scopeRevision
     /\ session' = IF happens(c) THEN c.session ELSE session
     /\ attention' = IF happens(c) THEN c.attention ELSE attention

lastSeq(eventKey, c) ==
  seq + (IF fresh(eventKey) THEN 1 ELSE 0) + (IF happens(c) THEN 1 ELSE 0)

(* compact: completed effects and settled operations at or below the new    *)
(* anchor go; an operation whose effect is still pending stays.             *)
keepFailedRow(row, e, cut) ==                                   \* mutant
  row.eventSeq > cut \/ e.state = "pending" \/ row.status = "failed"

keepEffect(e, cut) == ~(e.state = "completed" /\ e.eventSeq <= cut)
keepRow(row, e, cut) == row.eventSeq > cut \/ e.state = "pending"

compact(rows, effects, cut) ==
  /\ anchor' = cut
  /\ outbox' = [op \in OpIds |-> IF keepEffect(effects[op], cut) THEN effects[op] ELSE NoEffect]
  /\ operations' = [op \in OpIds |-> IF keepRow(rows[op], effects[op], cut) THEN rows[op] ELSE NoRow]

commit(rows, effects, last) ==
  /\ seq' = last
  /\ IF last - anchor > MaxEvents
       THEN compact(rows, effects, last - MaxEvents)
       ELSE anchor' = anchor /\ outbox' = effects /\ operations' = rows

---------------------------------------------------------------------------
(* Admission: operationReceipt decides the first receipt of a command       *)
(* against the projected session.                                           *)

hosted == session.host = "hosted"
staleTurn(req) == req.turnId # Undefined /\ req.turnId # session.activeTurnId
commandTurn(req) == req.turnId                                  \* mutant
namedTurn(req) == IF req.turnId # Undefined THEN req.turnId ELSE session.activeTurnId
receipt(status, turn) == [status |-> status, turnId |-> turn]

sendReceipt(req) ==
  IF session.structured THEN receipt("queued", Null)
  ELSE IF req.policy # "queue" /\ session.turn = "running" /\ CanSteer
    THEN receipt("pending", session.activeTurnId)
  ELSE IF session.turn = "running" THEN receipt("queued", namedTurn(req))
  ELSE IF session.turn = "idle" THEN receipt("pending", Null)
  ELSE receipt("rejected", namedTurn(req))

steerReceipt(req) ==
  IF session.turn = "running" /\ CanSteer THEN receipt("pending", session.activeTurnId)
                                          ELSE receipt("rejected", namedTurn(req))

interruptReceipt(req) ==
  IF session.turn \in {"running", "interrupt_requested"}
    THEN receipt("pending", session.activeTurnId)
    ELSE receipt("interrupted", IF req.turnId = Undefined THEN Null ELSE req.turnId)

answerReceipt(req) ==
  LET turn == IF attention.turnId # Null THEN attention.turnId ELSE namedTurn(req)
  IN CASE attention.state = "none"      -> receipt("rejected", namedTurn(req))
       [] attention.state = "resolving" -> receipt("rejected", turn)
       [] attention.state = "resolved"  -> receipt("answered", turn)
       [] attention.state = "open"      -> receipt(IF hosted THEN "pending" ELSE "rejected",
                                                   IF hosted THEN turn ELSE namedTurn(req))

operationReceipt(req) ==
  CASE req.kind = "kill"   -> receipt("queued", Null)
    [] req.kind = "spawn"  -> receipt("queued", namedTurn(req))
    [] req.kind = "answer" -> answerReceipt(req)
    [] req.kind \in {"send", "steer", "interrupt"} ->
         IF ~hosted \/ staleTurn(req) THEN receipt("rejected", namedTurn(req))
         ELSE IF req.kind = "send" THEN sendReceipt(req)
         ELSE IF req.kind = "steer" THEN steerReceipt(req)
         ELSE interruptReceipt(req)

(* The turn fence of the effect: the receipt's turn when it names one, else *)
(* whatever the client's command carried.                                   *)
effectFence(req, r) ==
  IF carriesMessage(req) /\ r.turnId # Null THEN r.turnId ELSE req.turnId

placeholder(req) ==
  [host |-> "registering", structured |-> TRUE, turn |-> "unknown",
   activeTurnId |-> Null, gen |-> req.gen]
retired == [session EXCEPT !.host = "dead", !.turn = "idle", !.activeTurnId = Null]

operationConsequence(op, req, r) ==
  IF r.status = "rejected" THEN NoConsequence
  ELSE CASE req.kind = "answer" /\ r.status = "pending" ->
              [NoConsequence EXCEPT !.key = <<"attention-resolving", op>>,
                                    !.attention = [attention EXCEPT !.state = "resolving"]]
         [] req.kind = "interrupt" ->
              [NoConsequence EXCEPT !.key = <<"interrupt-requested", op>>,
                 !.session = [session EXCEPT !.turn = "interrupt_requested", !.activeTurnId = r.turnId]]
         [] req.kind = "spawn" ->
              [NoConsequence EXCEPT !.key = <<"session-placeholder", op>>,
                                    !.session = placeholder(req)]
         [] OTHER -> NoConsequence

---------------------------------------------------------------------------
(* executeOperation and the operation a retry admits.  A command whose key  *)
(* already has a row only reads; one whose key or id belongs to another     *)
(* request is refused: neither is a step.                                   *)

keyIsFree(key) == \A op \in OpIds : operations[op].key # key

budget == seq + 2 <= EventBudget

admitKey(key) == <<"admit", key>>
neverUsed(op, key) == scopeRevision[op] = 0 /\ fresh(admitKey(key))

admittedRow(op, key, req, presentation) ==
  LET event == receiptEvent(admitKey(key), op)
      r == operationReceipt(req)
  IN [status |-> r.status, key |-> key, request |-> req, turnId |-> r.turnId,
      eventSeq |-> event.seq, revision |-> event.revision,
      presentation |-> IF isRetry(op) THEN presentation ELSE event.revision]

insertsEffect(op, key, req) ==
  /\ operationReceipt(req).status \in {"pending", "queued"}
  /\ fresh(admitKey(key))
  /\ outbox[op].state = "none"
insertedEffect(op, key, req) ==
  [state |-> "pending", turnId |-> effectFence(req, operationReceipt(req)),
   eventSeq |-> receiptEvent(admitKey(key), op).seq]

executeOperationWithLineage(op, key, req, presentation) ==
  LET c == operationConsequence(op, req, operationReceipt(req))
  IN /\ ~admitted(op) /\ keyIsFree(key)
     /\ budget
     /\ appendReceipt(admitKey(key), op, c)
     /\ commit([operations EXCEPT ![op] = admittedRow(op, key, req, presentation)],
               IF insertsEffect(op, key, req)
                 THEN [outbox EXCEPT ![op] = insertedEffect(op, key, req)] ELSE outbox,
               lastSeq(admitKey(key), c))

ExecuteOperation(op, key, req) ==
  /\ ~isRetry(op) /\ key \in ClientKeys
  /\ ReusesOldKeys \/ neverUsed(op, key)
  /\ executeOperationWithLineage(op, key, req, 0)

(* retryOperation with a fresh key: a settled failure gets one replacement, *)
(* admitted only while the conversation is hosted again.                    *)
notDelivered(row) == row.status \in {"queued", "failed", "rejected"} \* mutant
retryable(row) == row.status \in {"failed", "rejected"}

nextPresentation(row) == row.presentation + 1

RetryOperation(op) ==
  LET next == terminalRetryOperationId(op)
  IN /\ retryable(operations[op])
     /\ carriesMessage(operations[op].request)
     /\ next \in OpIds
     /\ hosted /\ session.structured
     /\ executeOperationWithLineage(next, next, operations[op].request,
                                    nextPresentation(operations[op]))

(* transitionOperation: the Viewer reports what happened to an effect.      *)
(* details.turnId is Undefined when the caller gives no turn.               *)
queueing(previous, status) == status = "queued" /\ previous \in {"delivering", "pending"}
recording(previous, status) ==                                  \* mutant
  status \notin {"delivering", "queued"} /\ previous # status
beginning(previous, status) == status = "delivering" /\ previous \in {"pending", "queued"}
completing(previous, status) == status \notin {"delivering", "queued"} /\ previous \in Live

retiresResumed(req, status) ==                                  \* mutant
  req.kind = "spawn" /\ req.gen # Null /\ status = "failed" /\ session.host = "registering"
retiresPlaceholder(req, status) ==
  req.kind = "spawn" /\ req.gen = Null /\ status = "failed" /\ session.host = "registering"

completionConsequence(op, req, status) ==
  CASE retiresPlaceholder(req, status) ->
         [NoConsequence EXCEPT !.key = <<"session-dead", op>>, !.session = retired]
    [] req.kind = "kill" /\ status = "delivered" /\ session.host # "none"
         /\ session.gen = req.gen /\ session # retired ->
         [NoConsequence EXCEPT !.key = <<"session-dead", op>>, !.session = retired]
    [] req.kind = "answer" /\ status = "answered" /\ attention.state # "none" ->
         [NoConsequence EXCEPT !.key = <<"attention-resolved", op>>,
                               !.attention = [attention EXCEPT !.state = "resolved"]]
    [] OTHER -> NoConsequence

fencesSteers(op, status, turn) ==                               \* mutant
  beginning(operations[op].status, status)
    /\ operations[op].request.kind = "steer" /\ turn # Undefined
fences(op, status, turn) ==
  beginning(operations[op].status, status)
    /\ carriesMessage(operations[op].request) /\ turn # Undefined

hasEffect(op, turn) == outbox[op].state # "none"                \* mutant
fenceAllows(op, turn) == outbox[op].state # "none" /\ outbox[op].turnId \in {Undefined, turn}

receiptKey(op, status) == <<"receipt", op, operations[op].revision + 1, status>>

movedRow(op, status, turn) ==
  LET row == operations[op]
      event == receiptEvent(receiptKey(op, status), op)
  IN [status |-> status, key |-> row.key, request |-> row.request,
      turnId |-> IF turn = Undefined THEN row.turnId ELSE turn,
      eventSeq |-> event.seq, revision |-> event.revision,
      presentation |-> IF isRetry(op) THEN row.presentation + 1 ELSE event.revision]

movedEffect(op, status, turn) ==
  LET completes == completing(operations[op].status, status)
  IN [state |-> IF completes THEN "completed" ELSE outbox[op].state,
      turnId |-> IF completes THEN Undefined
                 ELSE IF fences(op, status, turn) THEN turn ELSE outbox[op].turnId,
      eventSeq |-> outbox[op].eventSeq]

transitionConsequence(op, status) ==
  IF completing(operations[op].status, status)
    THEN completionConsequence(op, operations[op].request, status) ELSE NoConsequence

TransitionOperation(op, status, turn) ==
  LET previous == operations[op].status
  IN /\ admitted(op)
     /\ queueing(previous, status) \/ beginning(previous, status) \/ completing(previous, status)
     /\ fences(op, status, turn) => fenceAllows(op, turn)
     /\ budget
     /\ appendReceipt(receiptKey(op, status), op, transitionConsequence(op, status))
     /\ commit([operations EXCEPT ![op] = movedRow(op, status, turn)],
               IF outbox[op].state = "none" THEN outbox
                 ELSE [outbox EXCEPT ![op] = movedEffect(op, status, turn)],
               lastSeq(receiptKey(op, status), transitionConsequence(op, status)))

(* retryOperation without a key: a failed send or steer is queued again     *)
(* under its own id, its outbox row written anew.                           *)
settledEffect(op) == outbox[op]                                 \* mutant
requeuedEffect(op) ==
  [state |-> "pending", turnId |-> operations[op].turnId,
   eventSeq |-> receiptEvent(receiptKey(op, "queued"), op).seq]

RetryInPlace(op) ==
  /\ RetriesInPlace
  /\ operations[op].status = "failed" /\ carriesMessage(operations[op].request)
  /\ budget
  /\ appendReceipt(receiptKey(op, "queued"), op, NoConsequence)
  /\ commit([operations EXCEPT ![op] = movedRow(op, "queued", Undefined)],
            [outbox EXCEPT ![op] = requeuedEffect(op)],
            lastSeq(receiptKey(op, "queued"), NoConsequence))

---------------------------------------------------------------------------
(* Events appended by the Viewer and by the host itself.                    *)

publish(projectedSession, projectedAttention) ==
  /\ budget
  /\ session' = projectedSession /\ attention' = projectedAttention
  /\ commit(operations, outbox, seq + 1)
  /\ UNCHANGED <<producerReceipts, scopeRevision>>

PublishSession(report) == publish(report, attention)

baseHost == IF session.host = "none" THEN "unhosted" ELSE session.host
PublishTurn(turn) ==
  publish([session EXCEPT !.host = baseHost, !.activeTurnId = turn,
                          !.turn = IF turn = Null THEN "idle" ELSE "running"], attention)

PublishAttention(state) ==
  /\ state = "resolved" => attention.state # "none"
  /\ publish([session EXCEPT !.host = baseHost],
             [state |-> state, turnId |-> IF state = "open" THEN session.activeTurnId
                                                            ELSE attention.turnId])

AppendElsewhere == publish(session, attention)

(* claimHostEpoch: a new host retires the placeholder of a launch that      *)
(* never materialized.  It appends without compacting.                      *)
ClaimHostEpoch ==
  /\ session.host = "registering" /\ session.gen = Null
  /\ budget
  /\ session' = retired
  /\ seq' = seq + 1
  /\ UNCHANGED <<operations, outbox, producerReceipts, scopeRevision, attention, anchor>>

---------------------------------------------------------------------------
Init ==
  /\ operations = [op \in OpIds |-> NoRow]
  /\ outbox = [op \in OpIds |-> NoEffect]
  /\ producerReceipts = << >>
  /\ scopeRevision = [op \in OpIds |-> 0]
  /\ session = [host |-> "none", structured |-> FALSE, turn |-> "unknown",
                activeTurnId |-> Null, gen |-> Null]
  /\ attention = [state |-> "none", turnId |-> Null]
  /\ seq = 0 /\ anchor = 0

(* What the Viewer reports of each kind of operation.                       *)
outcomes(kind) ==
  {"queued", "delivering", "failed"}
    \cup CASE kind = "interrupt" -> {"interrupted"}
           [] kind = "answer"    -> {"answered"}
           [] OTHER              -> {"delivered"}

reportedTurns(op, status) ==
  IF status \in {"queued", "failed"} THEN {Undefined}
  ELSE IF operations[op].request.kind \in {"send", "steer", "interrupt"} THEN TurnRef
  ELSE {Undefined}

Transitions ==
  \E op \in OpIds : admitted(op) /\
    \E status \in outcomes(operations[op].request.kind) :
      \E turn \in reportedTurns(op, status) : TransitionOperation(op, status, turn)

Next ==
  \/ \E op \in OpIds, key \in ClientKeys, req \in Requests : ExecuteOperation(op, key, req)
  \/ \E op \in OpIds : RetryOperation(op) \/ RetryInPlace(op)
  \/ Transitions
  \/ \E report \in SessionReports : PublishSession(report)
  \/ \E turn \in TurnRef : PublishTurn(turn)
  \/ \E state \in {"open", "resolved"} : PublishAttention(state)
  \/ AppendElsewhere
  \/ ClaimHostEpoch

Spec == Init /\ [][Next]_vars

---------------------------------------------------------------------------
(* The shape of the tables.                                                 *)
EventKeys == ({"admit"} \X Keys)
  \cup ({"receipt"} \X OpIds \X Nat \X (Live \cup Settled))
  \cup ({"attention-resolving", "attention-resolved", "interrupt-requested",
         "session-placeholder", "session-dead"} \X OpIds)

TypeOK ==
  /\ operations \in [OpIds -> Row \cup {NoRow}]
  /\ outbox \in [OpIds -> Effect \cup {NoEffect}]
  /\ DOMAIN producerReceipts \subseteq EventKeys
  /\ \A key \in DOMAIN producerReceipts : producerReceipts[key] \in Event
  /\ scopeRevision \in [OpIds -> Nat]
  /\ session \in Session /\ attention \in Attention
  /\ seq \in Nat /\ anchor \in Nat

(* An effect the Viewer may still act on belongs to an operation whose      *)
(* receipt is still open: compaction never drops the row of an operation in *)
(* flight, and settling it always retires the effect.                       *)
EffectHasOperation == \A op \in OpIds : outbox[op].state = "pending" => live(op)

(* An operation the journal reports as accepted and not yet settled has an  *)
(* effect that will be acted on; otherwise its receipt says "queued" for    *)
(* ever.                                                                    *)
ReceiptHasEffect == \A op \in OpIds : live(op) => outbox[op].state = "pending"

(* Once the journal recorded that an operation was delivered, answered or   *)
(* interrupted, no later read of its receipt says anything else, however    *)
(* far compaction, retries and late transitions went in the meantime.       *)
final(key) == key[1] = "receipt" /\ key[4] \in {"delivered", "answered", "interrupted"}
OutcomeIsFinal ==
  \A key \in DOMAIN producerReceipts :
    final(key) => operations[key[2]].status \in {key[4], "absent"}

(* At most one attempt of a chain of retries is open: an operation with a   *)
(* replacement stays failed or rejected, so one message never has two       *)
(* effects in the outbox.                                                   *)
OneLiveAttempt ==
  \A op \in OpIds :
    isRetry(op) /\ admitted(op) =>
      operations[retryOfOperationId(op)].status \in {"failed", "rejected", "absent"}

(* A replacement's presentation revision is above its parent's, so a reader *)
(* that keeps the highest revision of a presented message shows the latest  *)
(* attempt.                                                                 *)
PresentationAdvances ==
  \A op \in OpIds :
    isRetry(op) /\ admitted(op) /\ admitted(retryOfOperationId(op)) =>
      operations[op].presentation > operations[retryOfOperationId(op)].presentation

(* Compaction removes an attempt before its replacement: as long as a       *)
(* failed operation can still be retried, its earlier replacement is there  *)
(* to be found, and a second one is not admitted.                           *)
ReplacementOutlivesParent ==
  \A op \in OpIds :
    isRetry(op) /\ scopeRevision[op] > 0 /\ admitted(retryOfOperationId(op)) => admitted(op)

(* The turn a message was first sent towards is kept for every later        *)
(* attempt of the same effect, through requeues, Viewer restarts and        *)
(* concurrent transitions: a message is never redirected to another turn.   *)
FenceIsKept ==
  [][\A op \in OpIds :
       outbox[op].state = "pending" /\ outbox'[op].state = "pending"
         /\ outbox[op].turnId # Undefined
       => outbox'[op].turnId = outbox[op].turnId]_vars

(* While a message is being delivered the receipt and the durable effect    *)
(* agree on its turn, so a Viewer that restarts continues with the fence    *)
(* the receipt shows.                                                       *)
FenceAgrees ==
  \A op \in OpIds :
    /\ operations[op].status = "delivering" /\ carriesMessage(operations[op].request)
    /\ outbox[op].state = "pending"
    => outbox[op].turnId = operations[op].turnId

(* A conversation shown as registering under its placeholder identity has a *)
(* launch that did not fail (issue 367: failed launches were left parked).  *)
failedLaunch(op) ==
  \E key \in DOMAIN producerReceipts : key[1] = "receipt" /\ key[2] = op /\ key[4] = "failed"
PlaceholderHasLaunch ==
  session.host = "registering" /\ session.gen = Null =>
    \E op \in OpIds :
      <<"session-placeholder", op>> \in DOMAIN producerReceipts /\ ~failedLaunch(op)
=============================================================================
