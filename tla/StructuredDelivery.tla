--------------------------- MODULE StructuredDelivery ---------------------------
(***************************************************************************)
(* The delivery of one conversation's messages to a Claude engine:         *)
(* StructuredDeliveryQueue drains the journal's effects one await at a     *)
(* time, StructuredDeliveryController wakes it when the host's state       *)
(* changes, ClaudeStreamBrokerHost records each message in its ledger and  *)
(* writes it to the engine child's stdin.  The Viewer (queue, controller   *)
(* and host object), the engine child and the journal fail separately.     *)
(*                                                                         *)
(* Receipts and effects are those of OperationJournal, reduced to what a   *)
(* message needs: its receipt and the turn its effect is fenced to.  A     *)
(* message is admitted and the queue kicked in one step: an answer of the  *)
(* admission that is lost, after which there is no kick until the held     *)
(* delivery is reconciled, is left out.                                    *)
(***************************************************************************)
EXTENDS Integers, Sequences, FiniteSets

CONSTANTS
  MessageCount,     \* bound: messages of a behaviour
  Policies,         \* the delivery policies senders choose from
  Unreadable,       \* messages with an attached image that is gone
  MaxFaults,        \* bound: failures of a behaviour
  SyncFails,        \* publishing a host state to the journal may fail
  Null,             \* JSON null: no turn
  Undefined         \* no fence was recorded yet

ASSUME DeliveryAssumption ==
  /\ MessageCount \in Nat /\ MaxFaults \in Nat /\ SyncFails \in BOOLEAN
  /\ Policies \subseteq {"queue", "steer-if-active", "interrupt-active"}
  /\ Null # Undefined /\ {Null, Undefined} \cap Nat = {}

Messages == 1 .. MessageCount
(* A Claude turn is named by the entry id that started it.                  *)
Turn == Messages \cup {Null}
Fence == Turn \cup {Undefined}

VARIABLES
  receipt,    \* journal: message -> status of its operation
  policy,     \* journal: message -> policy of its command
  fence,      \* journal: message -> turnId of its effect
  ledger,     \* ledger file: message -> its delivery state
  queuedAt,   \* ledger file: message -> when it was recorded
  transcript, \* transcript file: the user messages the engine took
  child,      \* the engine process: none, attached, or detached from a host
  pipe,       \* its stdin: messages written and not read yet
  working,    \* turns it owes a result
  stdout,     \* lines it wrote that the host has not read
  viewer,     \* the Viewer process runs
  host,       \* the broker host object: none, up or dead
  turnQueue,  \* its turns; the first is the active one
  drain,      \* the drain in progress
  rerun,      \* a drain was asked for meanwhile
  timer,      \* a drain is scheduled
  acknowledged, \* messages whose interrupt the engine acknowledged
  notices,    \* host states not published yet
  seen,       \* host state the controller published last
  faults      \* failures so far

journal == <<receipt, policy, fence>>
files == <<ledger, queuedAt, transcript>>
engine == <<child, pipe, working, stdout>>
broker == <<host, turnQueue>>
queue == <<drain, rerun, acknowledged>>
controller == <<timer, notices, seen>>
vars == <<journal, files, engine, viewer, broker, queue, controller, faults>>

open(m) == receipt[m] \in {"queued", "delivering"}
pending == {m \in Messages : open(m)}
first(set) == CHOOSE m \in set : \A other \in set : m <= other

activeTurn(turns) == IF turns = << >> THEN Null ELSE Head(turns)
active == activeTurn(turnQueue)

fault == faults < MaxFaults /\ faults' = faults + 1

---------------------------------------------------------------------------
(* The host tells the controller its state with every event.  The           *)
(* controller handles them in order: it publishes a state that differs from *)
(* the last one it published and then asks for a drain.                     *)

hostState(status, turns) == [status |-> status, turn |-> activeTurn(turns)]
needless(states) == notices = << >> /\ states = <<seen>>
notify(states) == notices' = IF needless(states) THEN notices ELSE notices \o states

PublishNotice ==
  /\ notices # << >>
  /\ notices' = Tail(notices)
  /\ seen' = Head(notices) /\ timer' = (timer \/ Head(notices) # seen)
  /\ UNCHANGED <<journal, files, engine, viewer, broker, queue, faults>>

(* A publication that fails is logged; nothing is scheduled.                *)
PublicationFails ==
  /\ SyncFails /\ fault
  /\ notices # << >> /\ Head(notices) # seen
  /\ notices' = Tail(notices)
  /\ UNCHANGED <<journal, files, engine, viewer, broker, queue, timer, seen>>

---------------------------------------------------------------------------
(* The drain.  pc says which await it is in: "fetch" the pending effects,   *)
(* "next" effect of the page, "begin" the delivering transition, "begun"    *)
(* its answer, "acking" an interrupt, "acked" its answer, "sending" the     *)
(* message, and "requeue", "retry", "settle" and "fail" the closing         *)
(* transitions, of which "retry" also schedules another drain.              *)

Idle == [pc |-> "off", page |-> {}, turn |-> Null, fence |-> Null,
         interrupts |-> FALSE, live |-> FALSE]
current == first(drain.page)

TimerFires ==
  /\ viewer /\ timer /\ timer' = FALSE
  /\ IF drain.pc = "off"
       THEN drain' = [Idle EXCEPT !.pc = "fetch"] /\ rerun' = FALSE
       ELSE drain' = drain /\ rerun' = TRUE
  /\ UNCHANGED <<journal, files, engine, viewer, broker, acknowledged, notices, seen, faults>>

endOnce == drain' = Idle /\ rerun' = FALSE                           \* mutant
endPass ==
  /\ drain' = IF rerun THEN [Idle EXCEPT !.pc = "fetch"] ELSE Idle
  /\ rerun' = FALSE

FetchEffects ==
  /\ drain.pc = "fetch"
  /\ IF pending = {} THEN endPass
     ELSE drain' = [drain EXCEPT !.pc = "next", !.page = pending] /\ UNCHANGED rerun
  /\ UNCHANGED <<journal, files, engine, viewer, broker, acknowledged, controller, faults>>

Closing == {"requeue", "retry", "settle", "fail"}

(* A request to the journal that fails, whether it was carried out or not,  *)
(* ends the drain; drainWithRetry schedules the next one.                   *)
drainStops == drain' = Idle /\ UNCHANGED <<rerun, controller>>        \* mutant
drainThrows == drain' = Idle /\ timer' = TRUE /\ UNCHANGED <<rerun, notices, seen>>

RequestFails ==
  /\ drain.pc \in {"fetch", "begin"} \cup Closing
  /\ fault /\ drainThrows
  /\ UNCHANGED <<journal, files, engine, viewer, broker, acknowledged>>

(* Whether the head of the page may go to the host now, read from one       *)
(* health snapshot, and the turn it is fenced to.                           *)
maySteer(m) == active # Null /\ policy[m] = "steer-if-active"
ownTurn(m) ==                                                       \* mutant
  /\ active # Null /\ policy[m] = "interrupt-active"
  /\ m \notin acknowledged
mayInterrupt(m) ==
  /\ active # Null /\ policy[m] = "interrupt-active"
  /\ fence[m] \in {Undefined, active}
  /\ m \notin acknowledged
ready(m) == active = Null \/ maySteer(m) \/ mayInterrupt(m)
effectFence(m) == fence[m]                                          \* mutant
deliveryFence(m) ==
  IF fence[m] # Undefined THEN fence[m]
  ELSE IF policy[m] = "interrupt-active" /\ ~mayInterrupt(m) THEN Null
  ELSE active

NextEffect ==
  /\ drain.pc = "next"
  /\ IF drain.page = {} \/ host = "none" THEN endPass /\ UNCHANGED acknowledged
     ELSE IF host = "dead"
       THEN drain' = [drain EXCEPT !.pc = "requeue"] /\ UNCHANGED <<rerun, acknowledged>>
     ELSE IF ~ready(current) THEN endPass /\ UNCHANGED acknowledged
     ELSE /\ drain' = [drain EXCEPT !.pc = "begin", !.turn = active, !.live = TRUE,
                                    !.fence = deliveryFence(current),
                                    !.interrupts = mayInterrupt(current)]
          /\ acknowledged' = IF active = Null THEN acknowledged \ {current} ELSE acknowledged
          /\ UNCHANGED rerun
  /\ UNCHANGED <<journal, files, engine, viewer, broker, controller, faults>>

(* The journal refuses to begin a delivery whose effect is fenced to        *)
(* another turn.                                                            *)
BeginDelivery ==
  /\ drain.pc = "begin"
  /\ IF receipt[current] = "queued" /\ fence[current] \notin {Undefined, drain.fence}
       THEN drainThrows /\ UNCHANGED journal
       ELSE /\ receipt' = [receipt EXCEPT ![current] = "delivering"]
            /\ fence' = [fence EXCEPT ![current] = IF receipt[current] = "queued"
                                                     THEN drain.fence ELSE @]
            /\ drain' = [drain EXCEPT !.pc = "begun"]
            /\ UNCHANGED <<policy, rerun, controller>>
  /\ UNCHANGED <<files, engine, viewer, broker, acknowledged, faults>>

(* host.interrupt on the turn of the snapshot: refused when the host died   *)
(* or the turn is no longer active.                                         *)
Interrupt ==
  /\ drain.pc = "begun" /\ drain.interrupts
  /\ IF drain.live /\ active = drain.turn
       THEN drain' = [drain EXCEPT !.pc = "acking"] /\ UNCHANGED acknowledged
       ELSE /\ drain' = [drain EXCEPT !.pc = IF drain.live THEN "retry" ELSE "requeue"]
            /\ acknowledged' = acknowledged \ {current}
  /\ UNCHANGED <<journal, files, engine, viewer, broker, rerun, controller, faults>>

(* ClaudeStreamBrokerHost.send: the fence is checked for a message the      *)
(* ledger does not know yet; a confirmed one is answered from the ledger;   *)
(* any other is recorded, durably, before it is written to stdin.           *)
expectedTurn == IF policy[current] = "interrupt-active" THEN Null ELSE drain.fence
recordQueued(m) ==
  /\ ledger' = [ledger EXCEPT ![m] = "queued"]
  /\ queuedAt' = [queuedAt EXCEPT ![m] = IF ledger[m] = "none" THEN Len(transcript) ELSE @]
  /\ UNCHANGED transcript

send(m) ==
  LET becomes(pc) == drain' = [drain EXCEPT !.pc = pc] /\ UNCHANGED <<files, engine, broker, notices>>
  IN IF ~drain.live THEN becomes("requeue")
     ELSE IF ledger[m] = "none" /\ expectedTurn # active
       THEN becomes(IF policy[m] = "steer-if-active" THEN "fail" ELSE "requeue")
     ELSE IF ledger[m] = "delivered" THEN becomes("settle")
     ELSE IF m \in Unreadable THEN becomes("fail")
     ELSE /\ recordQueued(m)
          /\ pipe' = Append(pipe, m)
          /\ turnQueue' = Append(turnQueue, m) /\ notify(<<hostState(host, turnQueue')>>)
          /\ drain' = [drain EXCEPT !.pc = "sending"]
          /\ UNCHANGED <<child, working, stdout, host>>

Send ==
  /\ drain.pc = "begun" /\ ~drain.interrupts
  /\ send(current)
  /\ UNCHANGED <<journal, viewer, rerun, acknowledged, timer, seen, faults>>

(* After an acknowledged interrupt the message is sent only once the host   *)
(* is idle; until then it goes back to the queue.                           *)
AfterInterrupt ==
  /\ drain.pc = "acked"
  /\ IF drain.live /\ active = Null
       THEN send(current)
       ELSE /\ drain' = [drain EXCEPT !.pc = "requeue"]
            /\ UNCHANGED <<files, engine, broker, notices>>
  /\ acknowledged' = IF drain.live /\ active # Null THEN acknowledged
                                                   ELSE acknowledged \ {current}
  /\ UNCHANGED <<journal, viewer, rerun, timer, seen, faults>>

report(status) == receipt' = [receipt EXCEPT ![current] = status] /\ UNCHANGED <<policy, fence>>

nextOfPage == drain' = [drain EXCEPT !.pc = "next", !.page = drain.page \ {current},
                                     !.live = FALSE]
skipHead == nextOfPage /\ UNCHANGED rerun                            \* mutant

(* A message put back keeps its place: the pass ends behind it.             *)
closePass == endPass
Requeue ==
  /\ drain.pc \in {"requeue", "retry"} /\ report("queued") /\ closePass
  /\ timer' = (timer \/ drain.pc = "retry")
  /\ UNCHANGED <<files, engine, viewer, broker, acknowledged, notices, seen, faults>>

Settle ==
  /\ drain.pc = "settle" /\ report("delivered") /\ nextOfPage
  /\ UNCHANGED <<files, engine, viewer, broker, rerun, acknowledged, controller, faults>>

Fail ==
  /\ drain.pc = "fail" /\ report("failed") /\ nextOfPage
  /\ UNCHANGED <<files, engine, viewer, broker, rerun, acknowledged, controller, faults>>

(* The journal carries the transition out and the answer is lost.           *)
AnswerLost ==
  /\ drain.pc \in {"begin"} \cup Closing
  /\ fault /\ drainThrows
  /\ CASE drain.pc = "begin"   -> /\ receipt[current] = "queued"
                                  /\ receipt' = [receipt EXCEPT ![current] = "delivering"]
                                  /\ fence' = [fence EXCEPT ![current] = drain.fence]
                                  /\ UNCHANGED policy
       [] drain.pc \in {"requeue", "retry"} -> report("queued")
       [] drain.pc = "settle"  -> report("delivered")
       [] drain.pc = "fail"    -> report("failed")
  /\ UNCHANGED <<files, engine, viewer, broker, acknowledged>>

---------------------------------------------------------------------------
(* The broker host reads the engine's stdout.                               *)

line(kind) == host = "up" /\ stdout # << >> /\ Head(stdout) = kind /\ stdout' = Tail(stdout)

(* An echo confirms the oldest unconfirmed delivery with that content.      *)
unconfirmed == {m \in Messages : ledger[m] = "queued"}

AcceptEcho ==
  /\ line("user")
  /\ IF unconfirmed = {} THEN UNCHANGED <<ledger, drain>>
     ELSE LET delivery == first(unconfirmed) IN
       /\ ledger' = [ledger EXCEPT ![delivery] = "delivered"]
       /\ drain' = IF drain.pc = "sending" /\ drain.live /\ delivery = current
                     THEN [drain EXCEPT !.pc = "settle"] ELSE drain
  /\ notify(<<hostState(host, turnQueue)>>)
  /\ UNCHANGED <<journal, queuedAt, transcript, child, pipe, working, viewer, broker, rerun,
                 acknowledged, timer, seen, faults>>

AcceptResult ==
  /\ line("result")
  /\ IF turnQueue = << >> THEN UNCHANGED <<turnQueue, notices>>
     ELSE /\ turnQueue' = Tail(turnQueue)
          /\ notify(<<hostState(host, turnQueue), hostState(host, turnQueue')>>)
  /\ UNCHANGED <<journal, files, child, pipe, working, viewer, host, queue, timer, seen, faults>>

AcceptAcknowledgement ==
  /\ line("control_response")
  /\ IF drain.pc = "acking"
       THEN /\ drain' = [drain EXCEPT !.pc = "acked"]
            /\ acknowledged' = acknowledged \cup {current}
       ELSE UNCHANGED <<drain, acknowledged>>
  /\ UNCHANGED <<journal, files, child, pipe, working, viewer, broker, rerun, controller, faults>>

unanswered == \A i \in DOMAIN stdout : stdout[i] # "control_response"

InterruptRefused ==
  /\ drain.pc = "acking" /\ unanswered /\ fault
  /\ drain' = [drain EXCEPT !.pc = "retry"]
  /\ acknowledged' = acknowledged \ {current}
  /\ UNCHANGED <<journal, files, engine, viewer, broker, rerun, controller>>

(* fail: the host object is dead for good, whoever awaits it is rejected    *)
(* and finds it dead, and its child is told to end.                         *)
hostDies ==
  /\ host' = "dead" /\ turnQueue' = << >> /\ notify(<<hostState("dead", << >>)>>)
  /\ drain' = [drain EXCEPT !.live = FALSE,
                            !.pc = IF drain.pc \in {"sending", "acking"} THEN "requeue" ELSE @]
  /\ acknowledged' = IF drain.pc = "acking" THEN acknowledged \ {current} ELSE acknowledged
  /\ stdout' = << >>
  /\ UNCHANGED <<journal, files, viewer, rerun, timer, seen>>

(* A timeout, malformed output, or a ledger that cannot be written.         *)
HostFails ==
  /\ host = "up" /\ fault /\ hostDies
  /\ child' = IF child = "attached" THEN "detached" ELSE child
  /\ UNCHANGED <<pipe, working>>

(* The child's exit is noticed after its output was read.                   *)
HostSeesExit ==
  /\ host = "up" /\ child = "none" /\ stdout = << >> /\ hostDies
  /\ UNCHANGED <<child, pipe, working, faults>>

---------------------------------------------------------------------------
(* The engine child: it reads stdin in order, notes each message in the     *)
(* transcript before it echoes it, and answers each with one result.        *)

print(kind) == stdout' = IF child = "attached" THEN Append(stdout, kind) ELSE stdout

EngineReads ==
  /\ child # "none" /\ pipe # << >>
  /\ transcript' = Append(transcript, Head(pipe))
  /\ pipe' = Tail(pipe) /\ working' = working + 1
  /\ print("user")
  /\ UNCHANGED <<journal, ledger, queuedAt, child, viewer, broker, queue, controller, faults>>

EngineFinishes ==
  /\ child # "none" /\ working > 0
  /\ working' = working - 1 /\ print("result")
  /\ UNCHANGED <<journal, files, child, pipe, viewer, broker, queue, controller, faults>>

EngineAcknowledges ==
  /\ child = "attached" /\ drain.pc = "acking" /\ unanswered
  /\ print("control_response")
  /\ UNCHANGED <<journal, files, child, pipe, working, viewer, broker, queue, controller, faults>>

(* The child ends: a failure while a host is attached to it, otherwise      *)
(* because its stdin was closed or it was told to.                          *)
EngineExits ==
  /\ child # "none"
  /\ IF child = "attached" THEN fault ELSE UNCHANGED faults
  /\ child' = "none" /\ pipe' = << >> /\ working' = 0
  /\ IF host = "dead" THEN notify(<<hostState("dead", << >>)>>) ELSE UNCHANGED notices
  /\ UNCHANGED <<journal, files, stdout, viewer, broker, queue, timer, seen>>

---------------------------------------------------------------------------
(* Submission, Viewer crashes, and recovery of the conversation's host.     *)

Submit(m, p) ==
  /\ viewer /\ receipt[m] = "unsent" /\ \A n \in 1 .. m - 1 : receipt[n] # "unsent"
  /\ receipt' = [receipt EXCEPT ![m] = "queued"]
  /\ policy' = [policy EXCEPT ![m] = p]
  /\ timer' = TRUE
  /\ UNCHANGED <<fence, files, engine, viewer, broker, queue, notices, seen, faults>>

ViewerCrashes ==
  /\ viewer /\ viewer' = FALSE /\ fault
  /\ host' = "none" /\ turnQueue' = << >> /\ stdout' = << >>
  /\ drain' = Idle /\ rerun' = FALSE /\ acknowledged' = {}
  /\ timer' = FALSE /\ notices' = << >> /\ seen' = hostState("none", << >>)
  /\ child' = IF child = "attached" THEN "detached" ELSE child
  /\ UNCHANGED <<journal, files, pipe, working>>

ViewerStarts ==
  /\ ~viewer /\ viewer' = TRUE /\ timer' = TRUE
  /\ UNCHANGED <<journal, files, engine, broker, queue, notices, seen, faults>>

(* A host is opened only when the registry sees the former child gone.  It  *)
(* reads the ledger, and confirms from the transcript what the engine took: *)
(* each unconfirmed delivery claims the first unclaimed user message that   *)
(* is not older than itself.                                                *)
anyEarlier(m) == ledger[m] = "queued" /\ transcript # << >>         \* mutant
reconciled(m) == ledger[m] = "queued" /\ Len(transcript) > queuedAt[m]

Recover ==
  /\ viewer /\ host # "up" /\ child = "none"
  /\ child' = "attached" /\ pipe' = << >> /\ working' = 0 /\ stdout' = << >>
  /\ host' = "up" /\ turnQueue' = << >>
  /\ ledger' = [m \in Messages |-> IF reconciled(m) THEN "delivered" ELSE ledger[m]]
  /\ notices' = << >> /\ seen' = hostState("up", << >>) /\ timer' = TRUE
  /\ UNCHANGED <<journal, queuedAt, transcript, viewer, queue, faults>>

Init ==
  /\ receipt = [m \in Messages |-> "unsent"]
  /\ policy = [m \in Messages |-> "queue"]
  /\ fence = [m \in Messages |-> Undefined]
  /\ ledger = [m \in Messages |-> "none"] /\ queuedAt = [m \in Messages |-> 0]
  /\ transcript = << >>
  /\ child = "attached" /\ pipe = << >> /\ working = 0 /\ stdout = << >>
  /\ viewer = TRUE /\ host = "up" /\ turnQueue = << >>
  /\ drain = Idle /\ rerun = FALSE /\ acknowledged = {}
  /\ timer = FALSE /\ notices = << >> /\ seen = hostState("up", << >>)
  /\ faults = 0

---------------------------------------------------------------------------
(* The thread of control of the drain: one of its steps at a time.          *)
DrainStep ==
  \/ FetchEffects
  \/ NextEffect
  \/ BeginDelivery
  \/ Interrupt
  \/ Send
  \/ AfterInterrupt
  \/ Requeue
  \/ Settle
  \/ Fail

ReadStdout == AcceptEcho \/ AcceptResult \/ AcceptAcknowledgement

Failure ==
  \/ RequestFails
  \/ AnswerLost
  \/ PublicationFails
  \/ InterruptRefused
  \/ HostFails
  \/ ViewerCrashes

Next ==
  \/ PublishNotice
  \/ TimerFires
  \/ DrainStep
  \/ ReadStdout
  \/ HostSeesExit
  \/ EngineReads
  \/ EngineFinishes
  \/ EngineAcknowledges
  \/ EngineExits
  \/ \E m \in Messages, p \in Policies : Submit(m, p)
  \/ ViewerStarts
  \/ Recover
  \/ Failure

Spec == Init /\ [][Next]_vars

(* The event loop of the Viewer runs whatever is due, timers fire, and an   *)
(* engine that is alive reads its stdin, ends its turns and answers an      *)
(* interrupt.  Nothing makes an engine exit, a crashed Viewer restart or a  *)
(* dead host recover: that is left to the writer.                           *)
Fairness ==
  /\ WF_vars(PublishNotice) /\ WF_vars(TimerFires) /\ WF_vars(DrainStep)
  /\ WF_vars(ReadStdout) /\ WF_vars(HostSeesExit)
  /\ WF_vars(EngineReads) /\ WF_vars(EngineFinishes) /\ WF_vars(EngineAcknowledges)

FairSpec == Spec /\ Fairness

---------------------------------------------------------------------------
HostState == [status : {"none", "up", "dead"}, turn : Turn]
Pc == {"off", "fetch", "next", "begin", "begun", "acking", "acked", "sending"} \cup Closing
DrainState == [pc : Pc, page : SUBSET Messages, turn : Turn, fence : Turn,
               interrupts : BOOLEAN, live : BOOLEAN]

TypeOK ==
  /\ receipt \in [Messages -> {"unsent", "queued", "delivering", "delivered", "failed"}]
  /\ policy \in [Messages -> Policies \cup {"queue"}] /\ fence \in [Messages -> Fence]
  /\ ledger \in [Messages -> {"none", "queued", "delivered"}]
  /\ queuedAt \in [Messages -> Nat]
  /\ transcript \in Seq(Messages) /\ pipe \in Seq(Messages) /\ turnQueue \in Seq(Messages)
  /\ child \in {"none", "attached", "detached"} /\ working \in Nat
  /\ stdout \in Seq({"user", "result", "control_response"})
  /\ viewer \in BOOLEAN /\ host \in {"none", "up", "dead"}
  /\ drain \in DrainState
  /\ rerun \in BOOLEAN /\ timer \in BOOLEAN /\ acknowledged \subseteq Messages
  /\ notices \in Seq(HostState) /\ seen \in HostState
  /\ faults \in 0 .. MaxFaults

(* Delivery keeps the promises of MessageDelivery: whichever of Viewer,     *)
(* host, engine and journal request fails between any two steps, a message  *)
(* reaches the engine at most once and in order, one shown delivered was    *)
(* taken, and one shown failed never will be.                               *)
shownStatus(m) == IF open(m) THEN "open" ELSE receipt[m]
Delivery == INSTANCE MessageDelivery WITH
  shown <- [m \in Messages |-> shownStatus(m)], received <- transcript
DeliversAsPromised == Delivery!Spec

(* An interrupt is asked for only on the turn its message is fenced to,     *)
(* never on the turn the message itself started, and never again once the   *)
(* message was recorded for the engine.  Which turn the engine then ends is *)
(* its own matter: the request names none (claudeStreamBrokerHost.ts).      *)
InterruptsFencedTurn ==
  drain.pc = "acking" =>
    /\ drain.turn = fence[current] /\ drain.turn # current
    /\ ledger[current] = "none"

(* The ledger holds at most one delivery whose outcome is unknown, and it   *)
(* is the oldest message still open: echo and transcript matching by        *)
(* content can then only confirm the right one.                             *)
OneUncertainDelivery ==
  \A m \in unconfirmed : \A n \in pending : m <= n

(* No lost wake-up: a message is never left waiting for an idle host that   *)
(* nothing is going to look at again.                                       *)
asleep == drain.pc = "off" /\ ~timer /\ notices = << >>
IdleHostHasNoBacklog ==
  viewer /\ host = "up" /\ child = "attached" /\ stdout = << >> /\ active = Null /\ asleep
    => pending = {}

(* As long as the Viewer, the host and the journal stay up, every message   *)
(* is settled: no order of engine events, state changes and drains leaves   *)
(* one waiting for ever.                                                    *)
stable == viewer /\ host = "up" /\ child = "attached"
EventuallySettled ==
  <>[]stable => \A m \in Messages : open(m) ~> ~open(m)
=============================================================================
