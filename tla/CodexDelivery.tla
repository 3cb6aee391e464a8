----------------------------- MODULE CodexDelivery -----------------------------
(***************************************************************************)
(* The delivery of one conversation's messages to a Codex engine: the same *)
(* StructuredDeliveryQueue as in StructuredDelivery, over                  *)
(* CodexAppServerHost, which keeps no ledger of its own but asks the       *)
(* app-server by JSON-RPC.  A message counts as delivered when the thread  *)
(* holds a user item with its client id; the host learns that from the     *)
(* item's notification, from thread/read, or from thread/resume.           *)
(*                                                                         *)
(* An answer on stdout settles a promise, and what awaits it runs only     *)
(* after all lines of the same chunk: here any number of lines may be read *)
(* between the answer and the step of the drain that takes it.  Admission  *)
(* and kick are one step, as in StructuredDelivery.                        *)
(***************************************************************************)
EXTENDS Integers, Sequences, FiniteSets, SequencesExt

CONSTANTS
  MessageCount,     \* bound: messages of a behaviour
  Policies,         \* the delivery policies senders choose from
  Illustrated,      \* messages with an image
  MaxFaults,        \* bound: failures of a behaviour
  Null,             \* JSON null: no turn
  Undefined         \* no fence was recorded yet

ASSUME CodexAssumption ==
  /\ MessageCount \in Nat /\ MaxFaults \in Nat /\ Illustrated \subseteq 1 .. MessageCount
  /\ Policies \subseteq {"queue", "steer-if-active", "interrupt-active"}
  /\ Null # Undefined /\ {Null, Undefined} \cap Nat = {}

Messages == 1 .. MessageCount
(* A turn is named by the message that started it.                          *)
Turn == Messages \cup {Null}
Fence == Turn \cup {Undefined}
Requests ==
  [method : {"model/list", "thread/read", "turn/start", "turn/steer", "turn/interrupt"},
   message : Messages, turn : Turn]

(* Null is neither a request nor the outcome of one.                        *)
ASSUME NullAssumption == Null \notin Requests /\ Null \notin {"ok", "error", "stale"}

VARIABLES
  receipt,      \* journal: message -> status of its operation
  policy,       \* journal: message -> policy of its command
  fence,        \* journal: message -> turnId of its effect
  thread,       \* rollout file: the user messages of the thread
  ledgerTurn,   \* event store: the turn it shows as started and not ended
  child,        \* the app-server: none, attached, or detached from a host
  request,      \* the request it has not answered, or Null
  turn,         \* the turn it runs
  input,        \* the message it took and has not put in the thread
  stdout,       \* lines it wrote that the host has not read
  viewer,       \* the Viewer process runs
  host,         \* the host object: none, up or dead
  activeTurnId, \* the turn the host takes for active
  confirmed,    \* confirmedDeliveries: messages it knows to be in the thread
  imageInput,   \* imageInputSupport: supported, or unknown after a failed probe
  drain,        \* the drain in progress
  due,          \* a drain is scheduled, or asked for during the present one
  acknowledged, \* messages whose interrupt the engine acknowledged
  overtaken,    \* this host read the end of a turn before taking its start's answer
  misjudged,    \* messages of the thread failed for want of an image probe
  faults        \* failures so far

journal == <<receipt, policy, fence>>
files == <<thread, ledgerTurn>>
engine == <<child, request, turn, input, stdout>>
broker == <<host, activeTurnId, confirmed, imageInput, overtaken>>
queue == <<drain, due, acknowledged>>
vars == <<journal, files, engine, viewer, broker, queue, misjudged, faults>>

open(m) == receipt[m] \in {"queued", "delivering"}
pending == {m \in Messages : open(m)}
current == CHOOSE m \in pending : \A other \in pending : m <= other

fault == faults < MaxFaults /\ faults' = faults + 1

---------------------------------------------------------------------------
(* The app-server's protocol, as the host uses it.                          *)

Answer(outcome) == [type |-> "answer", of |-> outcome]
Started(t) == [type |-> "turn/started", of |-> t]
Item(m) == [type |-> "item/completed", of |-> m]
Completed(t) == [type |-> "turn/completed", of |-> t]

written(line) == line \in ToSet(stdout)

ask(method, m, t) == request' = [method |-> method, message |-> m, turn |-> t]
asked(method) == child # "none" /\ request # Null /\ request.method = method
print(lines) == stdout' = IF child = "attached" THEN stdout \o lines ELSE stdout

(* A change of the host's state asks for a drain.                           *)
becomes(status, t) ==
  /\ host' = status /\ activeTurnId' = t
  /\ due' = (due \/ <<status, t>> # <<host, activeTurnId>>)

---------------------------------------------------------------------------
(* The drain.  pc is the await it is in: the "next" effect, the delivering  *)
(* transition that has "begun" it, the requests "probing" (model/list),     *)
(* "reading" (thread/read), "starting", "steering" and "interrupting" a     *)
(* turn, "confirming" the delivery, and the closing transitions.  `answer`  *)
(* is the outcome of the request once it was read from stdout.              *)

Idle == [pc |-> "off", turn |-> Null, fence |-> Null, interrupts |-> FALSE,
         live |-> FALSE, again |-> FALSE, answer |-> Null]
Closing == {"requeue", "retry", "settle", "fail"}
goto(pc) == drain' = [drain EXCEPT !.pc = pc, !.answer = Null]

TimerFires ==
  /\ viewer /\ due /\ drain.pc = "off"
  /\ drain' = [Idle EXCEPT !.pc = "next"] /\ due' = FALSE
  /\ UNCHANGED <<journal, files, engine, viewer, broker, acknowledged, misjudged, faults>>

maySteer(m) == activeTurnId # Null /\ policy[m] = "steer-if-active"
mayInterrupt(m) ==
  /\ activeTurnId # Null /\ policy[m] = "interrupt-active"
  /\ fence[m] \in {Undefined, activeTurnId}
  /\ m \notin acknowledged
ready(m) == activeTurnId = Null \/ maySteer(m) \/ mayInterrupt(m)
effectFence(m) == fence[m]                                          \* mutant
deliveryFence(m) ==
  IF fence[m] # Undefined THEN fence[m]
  ELSE IF policy[m] = "interrupt-active" /\ ~mayInterrupt(m) THEN Null
  ELSE activeTurnId

(* The host's health and the delivering transition: the journal's check of  *)
(* the fence is passed whatever happens meanwhile (OperationJournal).       *)
NextEffect ==
  /\ drain.pc = "next"
  /\ IF pending = {} \/ host = "none" THEN drain' = Idle /\ UNCHANGED <<journal, acknowledged>>
     ELSE IF host = "dead" THEN goto("requeue") /\ UNCHANGED <<journal, acknowledged>>
     ELSE IF ~ready(current) THEN drain' = Idle /\ UNCHANGED <<journal, acknowledged>>
     ELSE /\ drain' = [Idle EXCEPT !.pc = "begun", !.turn = activeTurnId, !.live = TRUE,
                                   !.fence = deliveryFence(current),
                                   !.interrupts = mayInterrupt(current)]
          /\ receipt' = [receipt EXCEPT ![current] = "delivering"]
          /\ fence' = [fence EXCEPT ![current] = deliveryFence(current)]
          /\ acknowledged' = IF activeTurnId = Null THEN acknowledged \ {current}
                                                    ELSE acknowledged
          /\ UNCHANGED policy
  /\ UNCHANGED <<files, engine, viewer, broker, due, misjudged, faults>>

(* host.send up to its first request.  The image check comes first, also    *)
(* for a message the host knows to be delivered.                            *)
lookUp(m) ==
  IF m \in confirmed THEN goto("settle") /\ UNCHANGED request
  ELSE IF ~drain.live THEN goto("requeue") /\ UNCHANGED request
  ELSE goto("reading") /\ ask("thread/read", m, Null)

send(m) ==
  IF ~drain.live THEN goto("requeue") /\ UNCHANGED request
  ELSE IF m \in Illustrated /\ ~imageInput
    THEN goto("probing") /\ ask("model/list", m, Null)
  ELSE lookUp(m)

Send ==
  /\ drain.pc = "begun" /\ ~drain.interrupts
  /\ send(current)
  /\ UNCHANGED <<journal, files, child, turn, input, stdout, viewer, broker, due, acknowledged,
                 misjudged, faults>>

Interrupt ==
  /\ drain.pc = "begun" /\ drain.interrupts
  /\ IF drain.live /\ activeTurnId = drain.turn
       THEN /\ goto("interrupting") /\ ask("turn/interrupt", current, drain.turn)
            /\ UNCHANGED acknowledged
       ELSE /\ goto(IF drain.live THEN "retry" ELSE "requeue") /\ UNCHANGED request
            /\ acknowledged' = acknowledged \ {current}
  /\ UNCHANGED <<journal, files, child, turn, input, stdout, viewer, broker, due, misjudged,
                 faults>>

(* After an acknowledged interrupt the message is sent only to an idle      *)
(* host; until then it goes back to the queue.                              *)
InterruptAnswered ==
  /\ drain.pc = "interrupting" /\ drain.answer # Null
  /\ IF drain.answer # "ok" \/ ~drain.live
       THEN /\ goto(IF drain.live THEN "retry" ELSE "requeue")
            /\ acknowledged' = acknowledged \ {current} /\ UNCHANGED request
     ELSE IF activeTurnId # Null
       THEN goto("requeue") /\ acknowledged' = acknowledged \cup {current} /\ UNCHANGED request
     ELSE send(current) /\ acknowledged' = acknowledged \ {current}
  /\ UNCHANGED <<journal, files, child, turn, input, stdout, viewer, broker, due, misjudged,
                 faults>>

ProbeAnswered ==
  /\ drain.pc = "probing" /\ drain.answer # Null
  /\ IF drain.answer = "ok"
       THEN /\ lookUp(current) /\ imageInput' = (imageInput \/ drain.live)
            /\ UNCHANGED misjudged
       ELSE /\ goto(IF drain.live THEN "fail" ELSE "requeue") /\ UNCHANGED <<request, imageInput>>
            /\ misjudged' = IF drain.live /\ current \in ToSet(thread)
                              THEN misjudged \cup {current} ELSE misjudged
  /\ UNCHANGED <<journal, files, child, turn, input, stdout, viewer, host, activeTurnId,
                 confirmed, overtaken, due, acknowledged, faults>>

(* rememberConfirmedDeliveries: the client ids in a thread's turns.         *)
nothing(turns) == {}                                                \* mutant
deliveries(turns) == ToSet(turns)

(* A message not in the thread is sent: a turn other than the one it is     *)
(* fenced to is refused, an active turn is steered, else one is started.    *)
expectedTurn == IF policy[current] = "interrupt-active" THEN Null ELSE drain.fence
staleTurn == goto(IF policy[current] = "steer-if-active" THEN "fail" ELSE "requeue")

ReadAnswered ==
  /\ drain.pc = "reading" /\ drain.answer # Null
  /\ IF ~drain.live THEN goto("requeue") /\ UNCHANGED <<request, confirmed>>
     ELSE IF drain.answer # "ok" THEN goto("fail") /\ UNCHANGED <<request, confirmed>>
     ELSE /\ confirmed' = confirmed \cup deliveries(thread)
          /\ IF current \in confirmed' THEN goto("settle") /\ UNCHANGED request
             ELSE IF expectedTurn # activeTurnId THEN staleTurn /\ UNCHANGED request
             ELSE IF activeTurnId # Null
               THEN goto("steering") /\ ask("turn/steer", current, activeTurnId)
             ELSE goto("starting") /\ ask("turn/start", current, Null)
  /\ UNCHANGED <<journal, files, child, turn, input, stdout, viewer, host, activeTurnId,
                 imageInput, overtaken, due, acknowledged, misjudged, faults>>

(* thread/read is not answered in time: the message is sent once more, then *)
(* put back with another drain.  A late answer is dropped.                  *)
ReadTimesOut ==
  /\ drain.pc = "reading" /\ drain.answer = Null /\ fault
  /\ drain' = [drain EXCEPT !.pc = IF drain.again THEN "retry" ELSE "begun",
                            !.interrupts = FALSE, !.again = TRUE]
  /\ request' = Null /\ stdout' = RemoveFirstMatch(stdout, LAMBDA line : line.type = "answer")
  /\ UNCHANGED <<journal, files, child, turn, input, viewer, broker, due, acknowledged,
                 misjudged>>

(* awaitDeliveryConfirmation: settled if the item was read before.          *)
awaitConfirmation == goto(IF current \in confirmed THEN "settle" ELSE "confirming")

StartAnswered ==
  /\ drain.pc = "starting" /\ drain.answer # Null
  /\ IF drain.answer = "ok"
       THEN /\ awaitConfirmation
            /\ IF drain.live
                 THEN /\ becomes(host, current)
                      /\ overtaken' = (overtaken \/ (turn # current /\ ~written(Completed(current))))
                 ELSE UNCHANGED <<host, activeTurnId, overtaken, due>>
       ELSE /\ goto(IF drain.live THEN "fail" ELSE "requeue")
            /\ UNCHANGED <<host, activeTurnId, overtaken, due>>
  /\ UNCHANGED <<journal, files, engine, viewer, confirmed, imageInput, acknowledged, misjudged,
                 faults>>

SteerAnswered ==
  /\ drain.pc = "steering" /\ drain.answer # Null
  /\ IF drain.answer = "ok" THEN awaitConfirmation ELSE staleTurn
  /\ UNCHANGED <<journal, files, engine, viewer, broker, due, acknowledged, misjudged, faults>>

report(status) == receipt' = [receipt EXCEPT ![current] = status] /\ UNCHANGED <<policy, fence>>

(* A message put back keeps its place: the pass ends behind it.             *)
neverSoon == FALSE                                                  \* mutant
retrySoon == drain.pc = "retry"
Requeue ==
  /\ drain.pc \in {"requeue", "retry"} /\ report("queued")
  /\ drain' = Idle /\ due' = (due \/ retrySoon)
  /\ UNCHANGED <<files, engine, viewer, broker, acknowledged, misjudged, faults>>

Settle ==
  /\ drain.pc = "settle" /\ report("delivered") /\ drain' = [Idle EXCEPT !.pc = "next"]
  /\ UNCHANGED <<files, engine, viewer, broker, due, acknowledged, misjudged, faults>>

Fail ==
  /\ drain.pc = "fail" /\ report("failed") /\ drain' = [Idle EXCEPT !.pc = "next"]
  /\ UNCHANGED <<files, engine, viewer, broker, due, acknowledged, misjudged, faults>>

---------------------------------------------------------------------------
(* The host reads stdout.                                                   *)

read(type) ==
  /\ host = "up" /\ stdout # << >> /\ Head(stdout).type = type
  /\ stdout' = Tail(stdout)

AcceptAnswer ==
  /\ read("answer")
  /\ drain' = [drain EXCEPT !.answer = Head(stdout).of]
  /\ UNCHANGED <<journal, files, child, request, turn, input, viewer, broker, due, acknowledged,
                 misjudged, faults>>

AcceptStarted ==
  /\ read("turn/started")
  /\ becomes(host, Head(stdout).of) /\ ledgerTurn' = Head(stdout).of
  /\ UNCHANGED <<journal, thread, child, request, turn, input, viewer, confirmed, imageInput,
                 overtaken, drain, acknowledged, misjudged, faults>>

(* rememberConfirmedDelivery, which also settles the delivery awaiting it.  *)
AcceptItem ==
  /\ read("item/completed")
  /\ confirmed' = confirmed \cup {Head(stdout).of}
  /\ IF drain.pc = "confirming" /\ drain.live /\ Head(stdout).of = current
       THEN goto("settle") ELSE UNCHANGED drain
  /\ UNCHANGED <<journal, files, child, request, turn, input, viewer, host, activeTurnId,
                 imageInput, overtaken, due, acknowledged, misjudged, faults>>

AcceptCompleted ==
  /\ read("turn/completed")
  /\ becomes(host, IF activeTurnId = Head(stdout).of THEN Null ELSE activeTurnId)
  /\ ledgerTurn' = IF ledgerTurn = Head(stdout).of THEN Null ELSE ledgerTurn
  /\ UNCHANGED <<journal, thread, child, request, turn, input, viewer, confirmed, imageInput,
                 overtaken, drain, acknowledged, misjudged, faults>>

(* fail: whoever awaits the host now is rejected and finds it dead; the     *)
(* ledger notes a dead session; the child is told to end.                   *)
hostDies ==
  /\ becomes("dead", Null) /\ overtaken' = FALSE
  /\ ledgerTurn' = Null
  /\ drain' = [drain EXCEPT !.live = FALSE,
                 !.pc = IF drain.answer = Null /\ drain.pc \in
                             {"probing", "reading", "starting", "steering", "interrupting",
                              "confirming"}
                          THEN "requeue" ELSE @]
  /\ acknowledged' = IF drain.pc = "interrupting" /\ drain.answer = Null
                       THEN acknowledged \ {current} ELSE acknowledged
  /\ stdout' = << >>
  /\ UNCHANGED <<journal, thread, viewer, confirmed, imageInput, misjudged>>

(* A system error or malformed line, a request to start, steer or interrupt *)
(* that times out, a store that cannot be written.                          *)
HostFails ==
  /\ host = "up" /\ fault /\ hostDies
  /\ child' = IF child = "attached" THEN "detached" ELSE child
  /\ UNCHANGED <<request, turn, input>>

(* The confirmation's deadline, in the cases it is not a failure of its     *)
(* own: the engine accepted the message and lost it.                        *)
ConfirmationTimesOut ==
  /\ host = "up" /\ drain.pc = "confirming" /\ drain.live
  /\ input # current /\ ~written(Item(current)) /\ current \notin ToSet(thread)
  /\ hostDies
  /\ child' = IF child = "attached" THEN "detached" ELSE child
  /\ UNCHANGED <<request, turn, input, faults>>

HostSeesExit ==
  /\ host = "up" /\ child = "none" /\ stdout = << >> /\ drain.answer = Null
  /\ hostDies
  /\ UNCHANGED <<child, request, turn, input, faults>>

---------------------------------------------------------------------------
(* The app-server: it takes one request at a time, runs one turn at a time, *)
(* and puts a message it took in the thread some time later.                *)

answered(outcome) == request' = Null /\ print(<<Answer(outcome)>>)

EngineLists ==
  /\ asked("model/list")
  /\ \E outcome \in {"ok", "error"} : answered(outcome)
  /\ UNCHANGED <<journal, files, child, turn, input, viewer, broker, queue, misjudged, faults>>

EngineReads ==
  /\ asked("thread/read") /\ answered("ok")
  /\ UNCHANGED <<journal, files, child, turn, input, viewer, broker, queue, misjudged, faults>>

EngineRefuses ==
  /\ asked("thread/read") \/ asked("turn/start")
  /\ fault /\ answered("error")
  /\ UNCHANGED <<journal, files, child, turn, input, viewer, broker, queue, misjudged>>

EngineStarts ==
  /\ asked("turn/start") /\ turn = Null
  /\ request' = Null /\ turn' = request.message /\ input' = request.message
  /\ print(<<Answer("ok"), Started(turn')>>)
  /\ UNCHANGED <<journal, files, child, viewer, broker, queue, misjudged, faults>>

EngineSteers ==
  /\ asked("turn/steer")
  /\ IF turn = request.turn
       THEN answered("ok") /\ input' = request.message
       ELSE answered("stale") /\ UNCHANGED input
  /\ UNCHANGED <<journal, files, child, turn, viewer, broker, queue, misjudged, faults>>

EngineInterrupts ==
  /\ asked("turn/interrupt")
  /\ IF turn = request.turn
       THEN /\ request' = Null /\ turn' = Null /\ input' = Null
            /\ print(<<Answer("ok"), Completed(turn)>>)
       ELSE answered("stale") /\ UNCHANGED <<turn, input>>
  /\ UNCHANGED <<journal, files, child, viewer, broker, queue, misjudged, faults>>

EngineRecords ==
  /\ child # "none" /\ input # Null
  /\ thread' = Append(thread, input) /\ input' = Null /\ print(<<Item(input)>>)
  /\ UNCHANGED <<journal, ledgerTurn, child, request, turn, viewer, broker, queue, misjudged,
                 faults>>

EngineFinishes ==
  /\ child # "none" /\ turn # Null /\ input = Null
  /\ turn' = Null /\ print(<<Completed(turn)>>)
  /\ UNCHANGED <<journal, files, child, request, input, viewer, broker, queue, misjudged, faults>>

(* A turn that breaks off, for want of quota say, loses what it took.       *)
TurnBreaksOff ==
  /\ child # "none" /\ turn # Null /\ input # Null /\ fault
  /\ turn' = Null /\ input' = Null /\ print(<<Completed(turn)>>)
  /\ UNCHANGED <<journal, files, child, request, viewer, broker, queue, misjudged>>

EngineExits ==
  /\ child # "none"
  /\ IF child = "attached" THEN fault ELSE UNCHANGED faults
  /\ child' = "none" /\ request' = Null /\ turn' = Null /\ input' = Null
  /\ UNCHANGED <<journal, files, stdout, viewer, broker, queue, misjudged>>

---------------------------------------------------------------------------
Submit(m, p) ==
  /\ viewer /\ receipt[m] = "unsent" /\ \A n \in 1 .. m - 1 : receipt[n] # "unsent"
  /\ receipt' = [receipt EXCEPT ![m] = "queued"]
  /\ policy' = [policy EXCEPT ![m] = p]
  /\ due' = TRUE
  /\ UNCHANGED <<fence, files, engine, viewer, broker, drain, acknowledged, misjudged, faults>>

ViewerCrashes ==
  /\ viewer /\ viewer' = FALSE /\ fault
  /\ host' = "none" /\ activeTurnId' = Null /\ confirmed' = {} /\ imageInput' = FALSE
  /\ overtaken' = FALSE /\ stdout' = << >>
  /\ drain' = Idle /\ due' = FALSE /\ acknowledged' = {}
  /\ child' = IF child = "attached" THEN "detached" ELSE child
  /\ UNCHANGED <<journal, files, request, turn, input, misjudged>>

ViewerStarts ==
  /\ ~viewer /\ viewer' = TRUE /\ due' = TRUE
  /\ UNCHANGED <<journal, files, engine, broker, drain, acknowledged, misjudged, faults>>

(* adopt: a new app-server resumes the thread.  What the ledger shows as    *)
(* running is ended unless the resumed thread runs it, and a process that   *)
(* just started runs nothing.  Its model/list may fail.                     *)
fromLedger(restored, resumed) == restored                           \* mutant
reconcileAfterOpen(restored, resumed) == IF restored = resumed THEN restored ELSE resumed

Recover(supported) ==
  /\ viewer /\ host # "up" /\ child = "none" /\ drain.answer = Null
  /\ IF supported THEN UNCHANGED faults ELSE fault
  /\ child' = "attached" /\ request' = Null /\ turn' = Null /\ input' = Null /\ stdout' = << >>
  /\ host' = "up" /\ activeTurnId' = reconcileAfterOpen(ledgerTurn, turn')
  /\ ledgerTurn' = activeTurnId'
  /\ confirmed' = deliveries(thread) /\ imageInput' = supported /\ overtaken' = FALSE
  /\ due' = TRUE
  /\ UNCHANGED <<journal, thread, viewer, drain, acknowledged, misjudged>>

Init ==
  /\ receipt = [m \in Messages |-> "unsent"]
  /\ policy = [m \in Messages |-> "queue"]
  /\ fence = [m \in Messages |-> Undefined]
  /\ thread = << >> /\ ledgerTurn = Null
  /\ child = "attached" /\ request = Null /\ turn = Null /\ input = Null /\ stdout = << >>
  /\ viewer = TRUE /\ host = "up" /\ activeTurnId = Null /\ confirmed = {} /\ imageInput = TRUE
  /\ drain = Idle /\ due = FALSE /\ acknowledged = {}
  /\ overtaken = FALSE /\ misjudged = {} /\ faults = 0

---------------------------------------------------------------------------
DrainStep ==
  \/ NextEffect
  \/ Send
  \/ Interrupt
  \/ InterruptAnswered
  \/ ProbeAnswered
  \/ ReadAnswered
  \/ StartAnswered
  \/ SteerAnswered
  \/ Requeue
  \/ Settle
  \/ Fail

ReadStdout == AcceptAnswer \/ AcceptStarted \/ AcceptItem \/ AcceptCompleted

EngineAnswers ==
  EngineLists \/ EngineReads \/ EngineStarts \/ EngineSteers \/ EngineInterrupts

Failure == ReadTimesOut \/ HostFails \/ EngineRefuses \/ TurnBreaksOff \/ ViewerCrashes

Next ==
  \/ TimerFires
  \/ DrainStep
  \/ ReadStdout
  \/ ConfirmationTimesOut
  \/ HostSeesExit
  \/ EngineAnswers
  \/ EngineRecords
  \/ EngineFinishes
  \/ EngineExits
  \/ \E m \in Messages, p \in Policies : Submit(m, p)
  \/ ViewerStarts
  \/ \E supported \in BOOLEAN : Recover(supported)
  \/ Failure

Spec == Init /\ [][Next]_vars

(* The event loop runs what is due and reads what arrived, deadlines pass,  *)
(* and a live app-server answers, records what it took and ends its turns.  *)
Fairness ==
  /\ WF_vars(TimerFires) /\ WF_vars(DrainStep) /\ WF_vars(ReadStdout)
  /\ WF_vars(ConfirmationTimesOut) /\ WF_vars(HostSeesExit)
  /\ WF_vars(EngineAnswers) /\ WF_vars(EngineRecords) /\ WF_vars(EngineFinishes)

FairSpec == Spec /\ Fairness

---------------------------------------------------------------------------
TypeOK ==
  /\ receipt \in [Messages -> {"unsent", "queued", "delivering", "delivered", "failed"}]
  /\ policy \in [Messages -> Policies \cup {"queue"}] /\ fence \in [Messages -> Fence]
  /\ thread \in Seq(Messages) /\ ledgerTurn \in Turn
  /\ child \in {"none", "attached", "detached"} /\ turn \in Turn /\ input \in Turn
  /\ request \in {Null} \cup Requests
  /\ stdout \in Seq([type : {"answer"}, of : {"ok", "error", "stale"}] \cup
       [type : {"turn/started", "item/completed", "turn/completed"}, of : Messages])
  /\ viewer \in BOOLEAN /\ host \in {"none", "up", "dead"} /\ activeTurnId \in Turn
  /\ confirmed \subseteq Messages /\ imageInput \in BOOLEAN
  /\ drain \in [pc : {"off", "next", "begun", "probing", "reading", "starting", "steering",
                      "interrupting", "confirming"} \cup Closing,
                turn : Turn, fence : Turn, interrupts : BOOLEAN, live : BOOLEAN,
                again : BOOLEAN, answer : {Null, "ok", "error", "stale"}]
  /\ due \in BOOLEAN /\ acknowledged \subseteq Messages
  /\ overtaken \in BOOLEAN /\ misjudged \subseteq Messages /\ faults \in 0 .. MaxFaults

(* Delivery to Codex keeps the promises of MessageDelivery as delivery to   *)
(* Claude does: though the host keeps no record of what it sent, a message  *)
(* is put in the thread at most once and in order, and what its writer is   *)
(* shown of it is true whatever fails between any two steps.  Messages of   *)
(* `misjudged` are known not to be.                                         *)
shownStatus(m) == IF open(m) \/ m \in misjudged THEN "open" ELSE receipt[m]
Delivery == INSTANCE MessageDelivery WITH
  shown <- [m \in Messages |-> shownStatus(m)], received <- thread
DeliversAsPromised == Delivery!Spec

(* The host's idea of the active turn, which every fence and interrupt is   *)
(* checked against, lags behind the engine's only by lines not read yet: it *)
(* shows no turn that ended and misses none that runs, across restarts and  *)
(* answers that arrive before or after the notifications.                   *)
TurnIsTracked ==
  host = "up" /\ child = "attached" =>
    /\ activeTurnId # Null =>
         turn = activeTurnId \/ written(Completed(activeTurnId)) \/ overtaken
    /\ turn # Null =>
         activeTurnId = turn \/ written(Started(turn))

(* Every message is settled once Viewer, host and app-server stay up: no    *)
(* lost answer, stale turn or interrupt leaves one waiting.  A host that    *)
(* takes an ended turn for active, and a drain whose host died between an   *)
(* answer and the step that awaits it, are known to wait for ever.          *)
stable == viewer /\ host = "up" /\ child = "attached"
hung == drain.pc = "confirming" /\ ~drain.live
EventuallySettled ==
  <>[](stable /\ ~overtaken /\ ~hung) => \A m \in Messages : open(m) ~> ~open(m)
=============================================================================
