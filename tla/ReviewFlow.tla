------------------------------- MODULE ReviewFlow -------------------------------
(***************************************************************************)
(* One review loop of lib/flows with headless Codex reviewers: the poller  *)
(* clones flows.json, moves the flow on, and merges its clone back into    *)
(* the file; operators and the creation of other flows write the same      *)
(* file; reviewers are detached processes that outlive the Viewer.         *)
(*                                                                         *)
(* One Viewer at a time runs, and it can end between any two steps.  The   *)
(* other flows of the file appear as what they cause here: while the       *)
(* poller waits for one of them its clone of this flow grows old, and the  *)
(* request that creates one holds a copy of the whole file.  Left out:     *)
(* pane reviewers, roles, accounts, notes, paths, the findings' text, the  *)
(* adoption of another Viewer's launch, rounds before the last.            *)
(***************************************************************************)
EXTENDS Integers, FiniteSets

CONSTANTS
  Limits,         \* round limits a flow is created with
  Manual,         \* whether it is created in manual mode
  MaxRounds,      \* bound: rounds of a flow
  MaxReviewers,   \* bound: reviewer processes of a behaviour
  MaxFaults,      \* bound: restarts, failed launches and failed relays
  MaxRequests     \* bound: operator requests and creations of other flows

ASSUME FlowAssumption ==
  /\ MaxRounds \in Nat \ {0} /\ MaxReviewers \in Nat /\ MaxFaults \in Nat
  /\ MaxRequests \in Nat /\ Limits \subseteq 1 .. MaxRounds /\ Manual \subseteq BOOLEAN

Rounds == 1 .. MaxRounds
Reviewers == 1 .. MaxReviewers
Verdicts == {"APPROVE", "REQUEST_CHANGES", "COMMENT"}
Terminal == {"approved", "done_comment", "needs_decision", "closed"}
Active == {"waiting_ready", "spawn_pending", "spawning", "reviewing", "relay_pending",
           "relaying", "fixing"}
States == Terminal \cup Active \cup {"paused"}

VARIABLES
  disk,      \* the flow in flows.json
  tick,      \* the poller: step, clone it works on, what it started from
  creating,  \* the copy of the flow a createFlowFromRequest holds
  runs,      \* memory: round -> the child process started for it
  relayed,   \* memory: relayStartedThisProcess
  reviewer,  \* the reviewer processes
  artifact,  \* round -> its last-message file
  relays,    \* round -> how often its findings reached the implementer
  resumed,   \* history: rounds whose relay an operator had resumed
  strays,    \* history: reviewers a restart left without an owner
  disowned,  \* history: reviewers the flow moved on from while they ran
  reverted,  \* history: the creation of another flow undid a save of this one
  budget     \* failures and requests so far

memory == <<tick, creating, runs, relayed>>
processes == <<reviewer, artifact>>
history == <<relays, resumed, strays, disowned, reverted>>
vars == <<disk, memory, processes, history, budget>>

NewRound ==
  [started |-> FALSE, lease |-> FALSE, pid |-> 0, ident |-> FALSE, verdict |-> "none",
   relaying |-> FALSE, relayed |-> FALSE, error |-> FALSE, retries |-> 0]
Round ==
  [started : BOOLEAN, lease : BOOLEAN, pid : 0 .. MaxReviewers, ident : BOOLEAN,
   verdict : Verdicts \cup {"none"}, relaying : BOOLEAN, relayed : BOOLEAN,
   error : BOOLEAN, retries : 0 .. 1]

(* from is pausedState; why tells the round limit from other parkings.      *)
Flow ==
  [state : States, from : States, why : {"none", "limit", "other"}, manual : BOOLEAN,
   limit : 0 .. MaxRounds, n : 0 .. MaxRounds, round : Round]
NewFlow ==
  [state |-> "waiting_ready", from |-> "waiting_ready", why |-> "none", manual |-> FALSE,
   limit |-> MaxRounds, n |-> 0, round |-> NewRound]

fault == budget.faults < MaxFaults /\ budget' = [budget EXCEPT !.faults = @ + 1]

---------------------------------------------------------------------------
(* Reviewer processes and what the Viewer can tell of them.                 *)

alive(r) == r # 0 /\ reviewer[r].status \in {"running", "dying"}
running(r) == reviewer[r].status = "running"
child(f) == IF runs[f.n] # 0 THEN runs[f.n] ELSE f.round.pid

(* headlessReviewStatus.  A pid without its identity proves nothing after a *)
(* restart.                                                                 *)
status(f) ==
  CASE artifact[f.n] # "none" -> "done"
    [] runs[f.n] = 0 /\ alive(f.round.pid) /\ ~f.round.ident -> "lost"
    [] alive(child(f)) -> "running"
    [] child(f) = 0 -> "lost"
    [] OTHER -> "ended"

(* The verdict a review left: its last-message file, else its transcript.   *)
spoken(f) == IF child(f) = 0 THEN "none" ELSE reviewer[child(f)].said
review(f) == IF artifact[f.n] # "none" THEN artifact[f.n] ELSE spoken(f)

(* forgetHeadlessReview: the owned child, or the process the round names if *)
(* its identity is known.                                                   *)
owned(f) == IF runs[f.n] # 0 THEN runs[f.n] ELSE IF f.round.ident THEN f.round.pid ELSE 0
stop(r) == IF r # 0 /\ running(r) THEN [reviewer EXCEPT ![r].status = "dying"] ELSE reviewer
forget(f) == runs' = [runs EXCEPT ![f.n] = 0] /\ reviewer' = stop(owned(f))
clearArtifacts(n) == artifact' = [artifact EXCEPT ![n] = "none"]
unforgotten == UNCHANGED <<runs, processes>>

---------------------------------------------------------------------------
(* persistTickFlows: the clone lands unless an operator took the flow over. *)
movedAhead(base) == disk.n > base.n                                     \* mutant
takenOver(base) == disk.state # base.state \/ disk.n # base.n
merge(f, base) ==
  IF f = base \/ takenOver(base) THEN disk
  ELSE [f EXCEPT !.manual = disk.manual, !.limit = disk.limit]

park(f, why) == [f EXCEPT !.state = "needs_decision", !.why = why]
parkError(f) == [park(f, "other") EXCEPT !.round.error = TRUE]

Idle == [pc |-> "idle", base |-> NewFlow, flow |-> NewFlow]
at(pc) == tick.pc = pc
continues(pc, f) ==
  tick' = [tick EXCEPT !.pc = pc, !.flow = f] /\ disk' = merge(f, tick.base)
(* The flow is done for this poll; other flows may still be waited for, and *)
(* a flow that changed is saved once more at the end.                       *)
yields(f) ==
  /\ disk' = merge(f, tick.base)
  /\ tick' = IF f = tick.base THEN Idle ELSE [tick EXCEPT !.pc = "rest", !.flow = f]

(* Steps of the poller that no request of the same process can interrupt.   *)
quiet == tick.pc \notin {"launch", "spawned"}

TickStarts ==
  /\ at("idle") /\ disk.state \in Active
  /\ tick' = [pc |-> "begun", base |-> disk, flow |-> disk]
  /\ UNCHANGED <<disk, creating, runs, relayed, processes, history, budget>>

(* The final save of the poll.                                              *)
TickEnds ==
  /\ at("rest") /\ tick' = Idle /\ disk' = merge(tick.flow, tick.base)
  /\ UNCHANGED <<creating, runs, relayed, processes, history, budget>>

turn(state) == at("begun") /\ tick.flow.state = state
calm == UNCHANGED <<creating, relayed, history, budget>>

(* The scanner does not list the implementer.                               *)
ImplementerMissing ==
  /\ at("begun") /\ fault
  /\ yields([tick.flow EXCEPT !.state = "paused", !.from = tick.flow.state, !.why = "other"])
  /\ unforgotten /\ UNCHANGED <<creating, relayed, history>>

NothingToDo ==
  /\ at("begun")
  /\ tick.flow.state \in {"waiting_ready", "fixing", "spawn_pending", "relay_pending"}
  /\ tick' = Idle /\ UNCHANGED disk /\ unforgotten /\ calm

withRound(f) ==
  [f EXCEPT !.n = @ + 1, !.round = NewRound, !.why = "none",
            !.state = IF f.manual THEN "spawn_pending" ELSE "spawning"]

MarkerSeen ==
  /\ turn("waiting_ready") \/ turn("fixing")
  /\ tick.flow.n < MaxRounds
  /\ yields(withRound(tick.flow)) /\ unforgotten /\ calm

---------------------------------------------------------------------------
(* Spawning.                                                                *)

handled(f) == f.round.pid # 0
waitsForProof(f) == f.round.started /\ ~handled(f) /\ status(f) = "lost" \* mutant
leaseHolds(f) == f.round.started /\ ~handled(f) /\ f.round.lease /\ status(f) = "lost"

(* A launch an earlier process began is adopted or given up, not repeated.  *)
begunIfHandled(f) == f.round.started /\ handled(f)                      \* mutant
begunBefore(f) == f.round.started

AwaitLease ==
  /\ turn("spawning") /\ leaseHolds(tick.flow)
  /\ tick' = Idle /\ UNCHANGED disk /\ unforgotten /\ calm

AdoptLaunch ==
  /\ turn("spawning") /\ begunBefore(tick.flow) /\ ~leaseHolds(tick.flow)
  /\ yields(IF status(tick.flow) = "lost" THEN park(tick.flow, "other")
            ELSE [tick.flow EXCEPT !.state = "reviewing", !.why = "none"])
  /\ unforgotten /\ calm

ReserveReviewer ==
  /\ turn("spawning") /\ ~begunBefore(tick.flow) /\ ~leaseHolds(tick.flow)
  /\ continues("launch", [tick.flow EXCEPT !.round.started = TRUE, !.round.lease = TRUE])
  /\ unforgotten /\ calm

(* No account, no clean commit, or the process does not start.              *)
LaunchFails ==
  /\ (turn("spawning") /\ ~begunBefore(tick.flow)) \/ at("launch")
  /\ fault /\ yields(parkError(tick.flow))
  /\ unforgotten /\ UNCHANGED <<creating, relayed, history>>

fresh(r) == reviewer[r].status = "none" /\ \A s \in 1 .. r - 1 : reviewer[s].status # "none"
launched(f, r, ident) ==
  [f EXCEPT !.state = "reviewing", !.why = "none", !.round.pid = r, !.round.ident = ident,
            !.round.lease = IF ident THEN FALSE ELSE @]

(* The identity of the new process may not be readable yet.                 *)
StartHeadlessReview(r, ident) ==
  /\ at("launch") /\ fresh(r) /\ runs[tick.flow.n] = 0
  /\ reviewer' = [reviewer EXCEPT ![r] = [status |-> "running", round |-> tick.flow.n,
                                          said |-> "none"]]
  /\ clearArtifacts(tick.flow.n)
  /\ runs' = [runs EXCEPT ![tick.flow.n] = r]
  /\ tick' = [tick EXCEPT !.pc = "spawned", !.flow = launched(tick.flow, r, ident)]
  /\ UNCHANGED disk /\ calm

(* A child of the round that was never forgotten stands for the new one.    *)
ReuseChild ==
  /\ at("launch") /\ runs[tick.flow.n] # 0
  /\ tick' = [tick EXCEPT !.pc = "spawned", !.flow.state = "reviewing", !.flow.why = "none"]
  /\ UNCHANGED disk /\ unforgotten /\ calm

(* reviewerLaunchPersisted and abandonLaunch: a launch that a pause or a    *)
(* close overtook is undone.                                                *)
launchSaved(f, d) == d.n = f.n                                          \* mutant
launchPersisted(f, d) == IF f.round.pid = 0 THEN d.state # "closed" ELSE d.round.pid = f.round.pid
abandoned(d) ==
  IF d.state = "closed" THEN d
  ELSE [d EXCEPT !.round.started = FALSE, !.round.lease = FALSE, !.round.pid = 0]
PersistLaunch ==
  LET f == tick.flow  d == merge(f, tick.base) IN
  /\ at("spawned") /\ tick' = [tick EXCEPT !.pc = "rest"]
  /\ IF launchPersisted(f, d)
       THEN disk' = d /\ unforgotten
       ELSE disk' = abandoned(d) /\ forget(f) /\ UNCHANGED artifact
  /\ calm

---------------------------------------------------------------------------
(* Reviewing.                                                               *)

applyVerdict(f, v) ==
  [f EXCEPT !.round.verdict = v, !.why = "none",
            !.state = IF f.manual THEN "relay_pending" ELSE "relaying"]

(* While the child is owned its identity is looked up again.                *)
identified(f) ==
  IF runs[f.n] # 0 /\ alive(runs[f.n])
    THEN [f EXCEPT !.round.ident = f.round.pid # 0, !.round.lease = FALSE] ELSE f

ReviewerRuns ==
  /\ turn("reviewing") /\ status(tick.flow) = "running"
  /\ yields(identified(tick.flow)) /\ unforgotten /\ calm

ReviewerLost ==
  LET f == tick.flow IN
  /\ turn("reviewing") /\ status(f) = "lost"
  /\ IF f.round.lease THEN tick' = Idle /\ UNCHANGED disk
     ELSE yields(IF spoken(f) # "none" THEN applyVerdict(f, spoken(f)) ELSE park(f, "other"))
  /\ unforgotten /\ calm

VerdictFound ==
  LET f == tick.flow IN
  /\ turn("reviewing") /\ status(f) \in {"done", "ended"} /\ review(f) # "none"
  /\ forget(f) /\ UNCHANGED artifact
  /\ yields(applyVerdict(f, review(f))) /\ calm

retryRound(f) ==
  [f EXCEPT !.round = [NewRound EXCEPT !.retries = f.round.retries + 1],
            !.state = "spawning", !.why = "other"]

(* An exit without a verdict is retried once.                               *)
retriesTwice(f) == f.round.retries <= 1                                  \* mutant
retryLeft(f) == f.round.retries < 1
ReviewerSilent ==
  LET f == tick.flow IN
  /\ turn("reviewing") /\ status(f) = "ended" /\ review(f) = "none"
  /\ forget(f)
  /\ IF retryLeft(f)
       THEN yields(retryRound(f)) /\ clearArtifacts(f.n)
       ELSE yields(parkError(f)) /\ UNCHANGED artifact
  /\ calm

---------------------------------------------------------------------------
(* Relaying.                                                                *)

neverInterrupted(f) == f.round.relayed /\ f.n \notin relayed             \* mutant
interrupted(f) == f.round.relaying /\ ~f.round.relayed /\ f.n \notin relayed

RelayInterrupted ==
  /\ turn("relaying") /\ interrupted(tick.flow)
  /\ yields(park(tick.flow, "other")) /\ unforgotten /\ calm

StartRelay ==
  /\ turn("relaying") /\ ~interrupted(tick.flow)
  /\ relayed' = relayed \cup {tick.flow.n}
  /\ continues("relay", [tick.flow EXCEPT !.round.relaying = TRUE])
  /\ unforgotten /\ UNCHANGED <<creating, history, budget>>

deliver == relays' = [relays EXCEPT ![tick.flow.n] = IF @ < 2 THEN @ + 1 ELSE @]

Delivered ==
  /\ at("relay") /\ deliver
  /\ tick' = [tick EXCEPT !.pc = "delivered"]
  /\ unforgotten
  /\ UNCHANGED <<disk, creating, relayed, resumed, strays, disowned, reverted, budget>>

(* relayFixOrPark reads the limit from the file.                            *)
afterRelay(f) ==
  LET done == [f EXCEPT !.round.relayed = TRUE] IN
  CASE f.round.verdict = "APPROVE" -> [done EXCEPT !.state = "approved"]
    [] f.round.verdict = "COMMENT" -> [done EXCEPT !.state = "done_comment"]
    [] disk.limit > 0 /\ f.n >= disk.limit -> park(done, "limit")
    [] OTHER -> [done EXCEPT !.state = "fixing", !.why = "none"]

FinishRelay ==
  /\ at("delivered") /\ yields(afterRelay(tick.flow)) /\ unforgotten /\ calm

(* The delivery failed, or its answer did.                                  *)
RelayFails ==
  /\ at("relay") /\ fault
  /\ deliver \/ UNCHANGED relays
  /\ yields([tick.flow EXCEPT !.state = "paused", !.from = "relaying", !.why = "other",
                              !.round.error = TRUE])
  /\ unforgotten /\ UNCHANGED <<creating, relayed, resumed, strays, disowned, reverted>>

---------------------------------------------------------------------------
(* patchFlow, cancelRound and closeFlow.                                    *)

request == quiet /\ budget.requests < MaxRequests
             /\ budget' = [budget EXCEPT !.requests = @ + 1]
saves(f) ==
  disk' = IF f.state = "spawning" THEN [f EXCEPT !.round.error = FALSE] ELSE f
plain == UNCHANGED <<memory, processes, history>>
unpark ==
  disowned' = IF disk.state = "needs_decision"
                THEN disowned \cup {r \in Reviewers : reviewer'[r].status = "running"}
                ELSE disowned

Pause ==
  /\ request /\ disk.state \notin {"paused", "closed"}
  /\ saves([disk EXCEPT !.state = "paused", !.from = disk.state, !.why = "other"]) /\ plain

Resume ==
  /\ request /\ disk.state = "paused"
  /\ saves([disk EXCEPT !.state = disk.from, !.from = "waiting_ready", !.why = "none"])
  /\ resumed' = IF disk.from = "relaying" THEN resumed \cup {disk.n} ELSE resumed
  /\ UNCHANGED <<memory, processes, relays, strays, disowned, reverted>>

SetMode == request /\ saves([disk EXCEPT !.manual = ~@]) /\ plain

Advance ==
  /\ request
  /\ \/ disk.state = "waiting_ready" /\ disk.n < MaxRounds /\ saves(withRound(disk))
     \/ disk.state = "spawn_pending" /\ saves([disk EXCEPT !.state = "spawning", !.why = "none"])
     \/ disk.state = "relay_pending" /\ saves([disk EXCEPT !.state = "relaying", !.why = "none"])
  /\ plain

(* The round begins anew; its findings may be relayed again.                *)
RetryRound ==
  /\ request /\ disk.state = "needs_decision" /\ disk.n > 0
  /\ forget(disk) /\ clearArtifacts(disk.n)
  /\ saves([disk EXCEPT !.round = NewRound, !.why = "none",
                        !.state = IF disk.manual THEN "spawn_pending" ELSE "spawning"])
  /\ relays' = [relays EXCEPT ![disk.n] = 0]
  /\ resumed' = resumed \ {disk.n}
  /\ unpark /\ UNCHANGED <<tick, creating, relayed, strays, reverted>>

Extend ==
  /\ request
  /\ LET wider == [disk EXCEPT !.limit = IF @ \in 1 .. MaxRounds - 1 THEN @ + 1 ELSE @] IN
     saves(IF disk.state = "needs_decision"
             THEN [wider EXCEPT !.state = "waiting_ready", !.why = "none"] ELSE wider)
  /\ UNCHANGED <<memory, processes, relays, resumed, strays, reverted>> /\ unpark

SetRoundLimit(raw) ==
  LET limit == IF raw = 0 \/ raw >= disk.n THEN raw ELSE disk.n IN
  /\ request
  /\ saves(IF disk.state = "needs_decision" /\ disk.why = "limit" /\ (limit = 0 \/ limit > disk.n)
             THEN [disk EXCEPT !.limit = limit, !.state = "waiting_ready", !.why = "none"]
             ELSE [disk EXCEPT !.limit = limit])
  /\ plain

AnotherRound ==
  /\ request /\ disk.state = "done_comment"
  /\ saves([disk EXCEPT !.state = "waiting_ready", !.why = "none"]) /\ plain

CancelRound ==
  /\ request /\ disk.state = "reviewing"
  /\ forget(disk) /\ UNCHANGED artifact
  /\ disk' = parkError(disk)
  /\ UNCHANGED <<tick, creating, relayed, history>>

CloseFlow ==
  /\ request /\ disk.state # "closed"
  /\ IF disk.n > 0 /\ disk.round.verdict = "none" /\ ~disk.round.error
       THEN /\ forget(disk) /\ UNCHANGED artifact
            /\ disk' = [disk EXCEPT !.state = "closed", !.why = "none", !.round.error = TRUE]
       ELSE unforgotten /\ disk' = [disk EXCEPT !.state = "closed", !.why = "none"]
  /\ UNCHANGED <<tick, creating, relayed, history>>

(* createFlowFromRequest of another flow: the file as it was read is saved  *)
(* at once and again after the kickoff was delivered.                       *)
None == [on |-> FALSE, copy |-> NewFlow]
CreateFlow ==
  /\ request /\ ~creating.on
  /\ creating' = [on |-> TRUE, copy |-> disk]
  /\ UNCHANGED <<disk, tick, runs, relayed, processes, history>>

KickoffDelivered ==
  /\ quiet /\ creating.on /\ creating' = None /\ disk' = creating.copy
  /\ reverted' = (reverted \/ disk # creating.copy)
  /\ UNCHANGED <<tick, runs, relayed, processes, relays, resumed, strays, disowned, budget>>

---------------------------------------------------------------------------
(* The Viewer and the reviewers.                                            *)

recorded(r) == disk.round.pid = r /\ disk.round.ident
(* Started by a launch whose reservation was overtaken, and not undone yet. *)
orphan == IF at("spawned") /\ takenOver(tick.base) THEN {runs[tick.flow.n]} \ {0} ELSE {}
ViewerRestarts ==
  /\ fault
  /\ tick' = Idle /\ creating' = None /\ relayed' = {}
  /\ runs' = [n \in Rounds |-> 0]
  /\ strays' = strays \cup {r \in Reviewers : running(r) /\ ~recorded(r)}
  /\ disowned' = disowned \cup orphan
  /\ UNCHANGED <<disk, processes, relays, resumed, reverted>>

LeaseExpires ==
  /\ disk.round.lease
  /\ disk' = [disk EXCEPT !.round.lease = FALSE]
  /\ UNCHANGED <<memory, processes, history, budget>>

(* A reviewer that is told to stop may still finish first.  One that is     *)
(* killed as it ends leaves its verdict in the transcript only.  The file   *)
(* is its round's: written late, it ends the round of another one as well.  *)
misread(r) == {s \in Reviewers \ {r} : running(s) /\ reviewer[s].round = reviewer[r].round}
ReviewerConcludes(r, v, written) ==
  /\ alive(r)
  /\ reviewer' = [reviewer EXCEPT ![r].status = "gone", ![r].said = v]
  /\ artifact' = IF written THEN [artifact EXCEPT ![reviewer[r].round] = v] ELSE artifact
  /\ disowned' = IF written THEN disowned \cup misread(r) ELSE disowned
  /\ UNCHANGED <<disk, memory, relays, resumed, strays, reverted, budget>>

ReviewerExits(r) ==
  /\ alive(r) /\ reviewer' = [reviewer EXCEPT ![r].status = "gone"]
  /\ UNCHANGED <<disk, memory, artifact, history, budget>>

Init ==
  /\ disk \in [state : {"waiting_ready"}, from : {"waiting_ready"}, why : {"none"},
               manual : Manual, limit : Limits, n : {0}, round : {NewRound}]
  /\ tick = Idle /\ creating = None
  /\ runs = [n \in Rounds |-> 0] /\ relayed = {}
  /\ reviewer = [r \in Reviewers |-> [status |-> "none", round |-> 1, said |-> "none"]]
  /\ artifact = [n \in Rounds |-> "none"] /\ relays = [n \in Rounds |-> 0]
  /\ resumed = {} /\ strays = {} /\ disowned = {} /\ reverted = FALSE
  /\ budget = [faults |-> 0, requests |-> 0]

TickStep ==
  \/ TickEnds \/ NothingToDo \/ AwaitLease \/ AdoptLaunch \/ ReserveReviewer
  \/ ReuseChild \/ PersistLaunch
  \/ \E r \in Reviewers, ident \in BOOLEAN : StartHeadlessReview(r, ident)
  \/ ReviewerRuns \/ ReviewerLost \/ VerdictFound \/ ReviewerSilent
  \/ RelayInterrupted \/ StartRelay \/ Delivered \/ FinishRelay

Operator ==
  \/ Pause \/ Resume \/ SetMode \/ Advance \/ RetryRound \/ Extend \/ AnotherRound
  \/ \E raw \in 0 .. MaxRounds : SetRoundLimit(raw)
  \/ CancelRound \/ CloseFlow

ReviewerStep ==
  \E r \in Reviewers :
    ReviewerExits(r) \/ \E v \in Verdicts, written \in BOOLEAN : ReviewerConcludes(r, v, written)

Next ==
  \/ TickStarts \/ TickStep \/ MarkerSeen \/ ImplementerMissing
  \/ LaunchFails \/ RelayFails \/ ViewerRestarts \/ LeaseExpires
  \/ Operator \/ CreateFlow \/ KickoffDelivered \/ ReviewerStep

Spec == Init /\ [][Next]_vars

(* The poller polls, a lease runs out, and a reviewer ends or is stopped by *)
(* its time limit.                                                          *)
FairSpec ==
  Spec /\ WF_vars(TickStarts) /\ WF_vars(TickStep) /\ WF_vars(LeaseExpires)
       /\ WF_vars(ReviewerStep)

---------------------------------------------------------------------------
TypeOK ==
  /\ disk \in Flow
  /\ tick \in [pc : {"idle", "begun", "launch", "spawned", "relay", "delivered", "rest"},
               base : Flow, flow : Flow]
  /\ creating \in [on : BOOLEAN, copy : Flow]
  /\ runs \in [Rounds -> 0 .. MaxReviewers] /\ relayed \subseteq Rounds
  /\ reviewer \in [Reviewers -> [status : {"none", "running", "dying", "gone"},
                                 round : Rounds, said : Verdicts \cup {"none"}]]
  /\ artifact \in [Rounds -> Verdicts \cup {"none"}] /\ relays \in [Rounds -> 0 .. 2]
  /\ resumed \subseteq Rounds /\ strays \subseteq Reviewers
  /\ disowned \subseteq Reviewers /\ reverted \in BOOLEAN
  /\ budget \in [faults : 0 .. MaxFaults, requests : 0 .. MaxRequests]

(* The flow never has two reviewers running, not even over a restart that   *)
(* forgets one (engine.ts: "adopt it instead of spawning a duplicate"),     *)
(* unless the file was reverted, and but for one the flow moved on from: an *)
(* operator ended its parking, the verdict another one left in their        *)
(* round's file ended its round, or the Viewer died as it was starting it   *)
(* for a flow an operator had just paused.                                  *)
OneReviewer == reverted \/ Cardinality({r \in Reviewers : running(r)} \ disowned) <= 1

(* No reviewer of a closed flow runs, but for one that is just being        *)
(* started and one a restart forgot, unless the file was reverted.          *)
ClosedStopsReviewer ==
  ~at("spawned") /\ disk.state = "closed" /\ ~reverted
    => {r \in Reviewers : running(r)} \subseteq strays

(* The findings of a round reach the implementer again only after an        *)
(* operator retried the round or resumed its relay, or the file was         *)
(* reverted.                                                                *)
RelaysAgainOnlyIfAsked ==
  [][\A n \in Rounds :
       relays[n] = 1 /\ relays'[n] = 2 => n \in resumed \/ reverted]_vars

(* "A close is never reopened" (engine.ts), by no poll and no request.      *)
ClosedStaysClosed == [][disk.state = "closed" => disk'.state = "closed"]_vars

(* No poll, no request and no restart reopens it, unless the file is        *)
(* reverted.                                                                *)
OnlyRevertReopens ==
  [][disk.state = "closed" /\ disk'.state # "closed" => KickoffDelivered]_vars

(* A round ends: it is not left spawning, reviewing or relaying, as long as *)
(* the bound leaves it a reviewer to start.                                 *)
busy == disk.state \in {"spawning", "reviewing", "relaying"}
exhausted == \A r \in Reviewers : reviewer[r].status # "none"
RoundsEnd == busy ~> (~busy \/ exhausted)
=============================================================================
