------------------------- MODULE ReviewFlow_proofs -------------------------
(***************************************************************************)
(* Machine-checked theorems about ReviewFlow, for every number of rounds,  *)
(* reviewers, requests and failures: its types, that a flow has one        *)
(* reviewer and none once closed, that findings are relayed once, and that *)
(* a close is final.                                                       *)
(***************************************************************************)
EXTENDS ReviewFlow, FiniteSetTheorems, TLAPS

Pcs == {"idle", "begun", "launch", "spawned", "relay", "delivered", "rest"}

(* What a paused flow goes back to is as good as its state.                 *)
stage(f) == IF f.state = "paused" THEN f.from ELSE f.state

(* A flow that is fit to be worked on: its round exists when a step needs   *)
(* one, a pid belongs to a launch, no verdict precedes the review and no    *)
(* relayed round is reviewed or relayed.                                    *)
Early == {"spawn_pending", "spawning", "reviewing"}
Unsent == Early \cup {"relay_pending"}
fit(f) ==
  /\ f \in Flow
  /\ f.state = "paused" => f.from \notin {"paused", "closed"}
  /\ stage(f) \in Unsent \cup {"relaying"} => f.n \in Rounds
  /\ f.round.pid # 0 => f.round.started
  /\ stage(f) \in Early => ~f.round.error /\ f.round.verdict = "none"
  /\ f.why = "limit" => f.state = "needs_decision"
  /\ f.round.relayed => stage(f) \notin Unsent \cup {"relaying"}
Fit == fit(disk) /\ fit(tick.base) /\ fit(tick.flow) /\ fit(creating.copy)

Stepped ==
  tick = [pc |-> tick.pc, base |-> tick.base, flow |-> tick.flow] /\ tick.pc \in Pcs
Created == creating = [on |-> creating.on, copy |-> creating.copy] /\ creating.on \in BOOLEAN
Process == [status : {"none", "running", "dying", "gone"}, round : Rounds,
            said : Verdicts \cup {"none"}]
Processes ==
  /\ runs \in [Rounds -> 0 .. MaxReviewers] /\ reviewer \in [Reviewers -> Process]
  /\ artifact \in [Rounds -> Verdicts \cup {"none"}]
Histories ==
  /\ relayed \subseteq Rounds /\ relays \in [Rounds -> 0 .. 2] /\ resumed \subseteq Rounds
  /\ strays \subseteq Reviewers /\ disowned \subseteq Reviewers /\ reverted \in BOOLEAN
Budgeted == budget \in [faults : 0 .. MaxFaults, requests : 0 .. MaxRequests]
Typed == Stepped /\ Created /\ Processes /\ Histories /\ Budgeted

(* What the poller's step says of the clone it works on.                    *)
Based ==
  /\ tick.base.state \in Active
  /\ at("begun") => tick.flow = tick.base
  /\ at("launch") =>
       /\ tick.base.state = "spawning" /\ tick.flow.state = "spawning"
       /\ tick.flow.n = tick.base.n /\ tick.flow.round.started /\ tick.flow.round.pid = 0
  /\ at("spawned") =>
       /\ tick.base.state = "spawning" /\ tick.flow.state = "reviewing"
       /\ tick.flow.n = tick.base.n /\ tick.flow.round.started
  /\ at("relay") \/ at("delivered") =>
       /\ tick.base.state = "relaying" /\ tick.flow.state = "relaying"
       /\ tick.flow.n = tick.base.n /\ tick.flow.round.relaying

(* Who runs has said nothing yet, and a pid is that of a process.           *)
known(f) == f.round.pid # 0 => reviewer[f.round.pid].status # "none"
Silent ==
  /\ \A r \in Reviewers : running(r) => reviewer[r].said = "none"
  /\ ~reverted => known(disk) /\ known(tick.flow)

(* The flow's one reviewer: unless it is disowned, the flow has not left    *)
(* its round and nothing else is taken for it.                              *)
launching(f) == stage(f) = "reviewing" \/ (stage(f) = "spawning" /\ f.round.started)
holding(f) == launching(f) \/ stage(f) \in {"needs_decision", "closed"}
ours(r) == running(r) /\ r \notin disowned
heldBy(f, r) ==
  /\ f.n = reviewer[r].round /\ holding(f) /\ f.why # "limit"
  /\ artifact[f.n] = "none" /\ runs[f.n] \in {0, r} /\ f.round.pid \in {0, r}
tracked(f) == \A r \in Reviewers : ours(r) => heldBy(f, r)

(* A reviewer that no restart forgot is the one the flow would stop.        *)
watched(r) == running(r) /\ r \notin strays
named(f) ==
  \A r \in Reviewers :
    watched(r) => f.n = reviewer[r].round /\ launching(f) /\ owned(f) = r

(* While a launch is under way its reviewer is the only one.                *)
awaited(r) == ours(r) \/ watched(r)
Launching ==
  at("launch") \/ at("spawned") =>
    /\ ~takenOver(tick.base) => disk.round.started /\ disk.round.pid = 0
    /\ at("launch") => \A r \in Reviewers : ~awaited(r)
    /\ at("spawned") => \A r \in Reviewers : awaited(r) =>
         /\ runs[tick.flow.n] = r /\ reviewer[r].round = tick.flow.n
         /\ tick.flow.round.pid = r /\ disk.round.pid # r
         /\ ours(r) => artifact[tick.flow.n] = "none"
Single == \A r, s \in Reviewers : ours(r) /\ ours(s) => r = s
Tracked ==
  ~reverted =>
    /\ Launching /\ Single
    /\ ~at("launch") /\ ~at("spawned") => tracked(disk) /\ named(disk)
    /\ tick.pc \in {"begun", "relay", "delivered", "rest"} => tracked(tick.flow) /\ named(tick.flow)

(* A round whose findings were sent is not sent again unasked: it is never  *)
(* back before its relay, and one left in the middle of it shows so.        *)
told(n) == n \in Rounds /\ relays[n] # 0 /\ n \notin resumed
settled(f) ==
  /\ told(f.n) => stage(f) \notin Unsent
  /\ told(f.n) /\ f.state = "relaying" => f.round.relaying
midRelay == at("relay") \/ at("delivered")
Relaying ==
  /\ at("begun") \/ midRelay => (tick.base.state = "relaying" =>
       /\ disk.n = tick.base.n /\ stage(disk) \in {"relaying", "closed"}
       /\ disk.state = "relaying" /\ disk.n \notin resumed =>
            disk.round.relaying = tick.flow.round.relaying)
  /\ at("relay") => ~told(tick.flow.n)
  /\ at("rest") /\ tick.flow.state = "relaying" => ~told(tick.flow.n)
Sent ==
  /\ settled(disk) /\ (~at("idle") => settled(tick.flow)) /\ Relaying
  /\ \A n \in Rounds : told(n) => n <= disk.n /\ (~at("idle") => n <= tick.flow.n)
  /\ told(disk.n) /\ disk.state = "relaying" /\ ~midRelay => disk.n \notin relayed
  /\ at("begun") /\ told(tick.flow.n) /\ tick.flow.state = "relaying" =>
       tick.flow.n \notin relayed
Relayed == ~reverted => Sent

IInv == Typed /\ Fit /\ Based /\ Silent /\ Tracked /\ Relayed

---------------------------------------------------------------------------
(* What becomes of a flow, one lemma per change the code makes to it.       *)
sameRound(g, f) ==
  /\ g.n = f.n /\ g.round.pid = f.round.pid /\ g.round.started = f.round.started
  /\ g.round.ident = f.round.ident /\ g.round.relaying = f.round.relaying
newRound(g) == g.round.pid = 0 /\ ~g.round.started /\ ~g.round.relaying

LEMMA NewRoundIs ==
  /\ NewRound \in Round /\ NewRound.pid = 0 /\ NewRound.started = FALSE
  /\ NewRound.error = FALSE /\ NewRound.verdict = "none" /\ NewRound.relaying = FALSE
  /\ NewRound.relayed = FALSE /\ NewRound.retries = 0
  BY FlowAssumption DEF NewRound, Round, Verdicts

LEMMA NewFlowFits ==
  fit(NewFlow) /\ NewFlow.state = "waiting_ready"
  <1> PICK q : q = NewRound
    OBVIOUS
  <1>1. /\ q \in Round /\ q.pid = 0 /\ q.started = FALSE
        /\ q.error = FALSE /\ q.verdict = "none" /\ q.relaying = FALSE /\ q.relayed = FALSE
    BY NewRoundIs
  <1>2. NewFlow \in Flow /\ NewFlow.state = "waiting_ready" /\ NewFlow.round = q
        /\ NewFlow.n = 0 /\ NewFlow.why = "none"
    BY <1>1, FlowAssumption DEF NewFlow, Flow, States, Active
  <1> QED
    BY <1>1, <1>2 DEF fit, stage, Unsent, Early

LEMMA ParkIs ==
  ASSUME NEW f, fit(f), NEW why \in {"limit", "other"}, NEW g, g = park(f, why)
  PROVE  fit(g) /\ g.state = "needs_decision" /\ g.why = why /\ sameRound(g, f)
  <1>1. /\ g \in Flow /\ g.state = "needs_decision" /\ g.why = why
        /\ g.n = f.n /\ g.round = f.round
    BY DEF park, fit, Flow, States, Terminal
  <1> QED
    BY <1>1 DEF fit, stage, Unsent, Early, sameRound

LEMMA ParkErrorIs ==
  ASSUME NEW f, fit(f), NEW g, g = parkError(f)
  PROVE  fit(g) /\ g.state = "needs_decision" /\ g.why = "other" /\ sameRound(g, f)
  <1>1. /\ g \in Flow /\ g.state = "needs_decision" /\ g.why = "other" /\ sameRound(g, f)
    BY DEF parkError, park, fit, Flow, Round, States, Terminal, sameRound
  <1> QED
    BY <1>1 DEF fit, stage, Unsent, Early, sameRound

LEMMA PausedIs ==
  ASSUME NEW f, fit(f), f.state \notin {"paused", "closed"},
         NEW g, g = [f EXCEPT !.state = "paused", !.from = f.state, !.why = "other"]
  PROVE  /\ fit(g) /\ g.state = "paused" /\ stage(g) = f.state /\ g.why = "other"
         /\ sameRound(g, f)
  <1>1. /\ g \in Flow /\ g.state = "paused" /\ g.from = f.state /\ g.why = "other"
        /\ g.n = f.n /\ g.round = f.round
    BY DEF fit, Flow, States
  <1> QED
    BY <1>1 DEF fit, stage, Unsent, Early, sameRound

LEMMA RelayFailedIs ==
  ASSUME NEW f, fit(f), f.state = "relaying",
         NEW g, g = [f EXCEPT !.state = "paused", !.from = "relaying", !.why = "other",
                              !.round.error = TRUE]
  PROVE  /\ fit(g) /\ g.state = "paused" /\ stage(g) = "relaying" /\ g.why = "other"
         /\ sameRound(g, f)
  <1>1. /\ g \in Flow /\ g.state = "paused" /\ g.from = "relaying" /\ g.why = "other"
        /\ sameRound(g, f) /\ g.round.relayed = f.round.relayed
    BY DEF fit, Flow, States, Active, Round, sameRound
  <1> QED
    BY <1>1 DEF fit, stage, Unsent, Early, sameRound

LEMMA WithRoundIs ==
  ASSUME NEW f, fit(f), f.n < MaxRounds, NEW g, g = withRound(f)
  PROVE  /\ fit(g) /\ g.state \in {"spawning", "spawn_pending"} /\ g.why = "none"
         /\ g.n = f.n + 1 /\ newRound(g)
  <1> PICK q : q = NewRound
    OBVIOUS
  <1>1. /\ q \in Round /\ q.pid = 0 /\ q.started = FALSE
        /\ q.error = FALSE /\ q.verdict = "none" /\ q.relaying = FALSE /\ q.relayed = FALSE
    BY NewRoundIs
  <1>2. f.n + 1 \in Rounds /\ f.n + 1 \in 0 .. MaxRounds
    BY FlowAssumption DEF fit, Flow, Rounds
  <1>3. PICK st \in {"spawning", "spawn_pending"} :
          st = IF f.manual THEN "spawn_pending" ELSE "spawning"
    OBVIOUS
  <1>4. g = [f EXCEPT !.n = f.n + 1, !.round = q, !.why = "none", !.state = st]
    BY <1>3 DEF withRound, fit, Flow
  <1>5. g \in Flow /\ g.n = f.n + 1 /\ g.round = q /\ g.why = "none" /\ g.state = st
    BY <1>1, <1>2, <1>4 DEF fit, Flow, States, Active
  <1> QED
    BY <1>1, <1>2, <1>5 DEF fit, stage, Unsent, Early, newRound

LEMMA ReviewingIs ==
  ASSUME NEW f, fit(f), f.state = "spawning",
         NEW g, g = [f EXCEPT !.state = "reviewing", !.why = "none"]
  PROVE  fit(g) /\ g.state = "reviewing" /\ g.why = "none" /\ sameRound(g, f)
  <1>1. /\ g \in Flow /\ g.state = "reviewing" /\ g.why = "none"
        /\ g.n = f.n /\ g.round = f.round
    BY DEF fit, Flow, States, Active
  <1> QED
    BY <1>1 DEF fit, stage, Unsent, Early, sameRound

LEMMA ReservedIs ==
  ASSUME NEW f, fit(f), f.state = "spawning",
         NEW g, g = [f EXCEPT !.round.started = TRUE, !.round.lease = TRUE]
  PROVE  /\ fit(g) /\ g.state = "spawning" /\ g.n = f.n /\ g.round.started
         /\ g.round.pid = f.round.pid
  <1>1. /\ g \in Flow /\ g.state = "spawning" /\ g.n = f.n /\ g.round.started
        /\ g.round.pid = f.round.pid /\ g.why = f.why /\ g.round.error = f.round.error
        /\ g.round.verdict = f.round.verdict /\ g.round.relayed = f.round.relayed
    BY DEF fit, Flow, Round
  <1> QED
    BY <1>1 DEF fit, stage, Unsent, Early

LEMMA LaunchedIs ==
  ASSUME NEW f, fit(f), f.state = "spawning", f.round.started, NEW r \in Reviewers,
         NEW ident \in BOOLEAN, NEW g, g = launched(f, r, ident)
  PROVE  /\ fit(g) /\ g.state = "reviewing" /\ g.why = "none" /\ g.n = f.n
         /\ g.round.pid = r /\ g.round.started
  <1> DEFINE q == [f.round EXCEPT !.pid = r, !.ident = ident,
                                  !.lease = IF ident THEN FALSE ELSE @]
  <1>1. f \in Flow /\ f.round \in Round
    BY DEF fit, Flow
  <1>2. r \in 0 .. MaxReviewers
    BY FlowAssumption DEF Reviewers
  <1>3. /\ q \in Round /\ q.pid = r /\ q.started = f.round.started /\ q.relayed = f.round.relayed
        /\ q.error = f.round.error /\ q.verdict = f.round.verdict
    BY <1>1, <1>2 DEF Round
  <1>4. g = [f EXCEPT !.state = "reviewing", !.why = "none", !.round = q]
    BY <1>1 DEF launched, Flow
  <1> HIDE DEF q
  <1>5. /\ g \in Flow /\ g.state = "reviewing" /\ g.why = "none" /\ g.n = f.n /\ g.round = q
    BY <1>1, <1>3, <1>4 DEF Flow, States, Active
  <1> QED
    BY <1>3, <1>5 DEF fit, stage, Unsent, Early

LEMMA AbandonedIs ==
  ASSUME NEW f, fit(f), NEW g, g = abandoned(f)
  PROVE  /\ fit(g) /\ g.state = f.state /\ stage(g) = stage(f) /\ g.n = f.n /\ g.why = f.why
         /\ g.round.relaying = f.round.relaying
         /\ f.state = "closed" => g = f
         /\ f.state # "closed" => g.round.pid = 0 /\ ~g.round.started
  <1>1. CASE f.state = "closed"
    BY <1>1 DEF abandoned
  <1>2. CASE f.state # "closed"
    <2> DEFINE q == [f.round EXCEPT !.started = FALSE, !.lease = FALSE, !.pid = 0]
    <2>2. f \in Flow /\ f.round \in Round
      BY DEF fit, Flow
    <2>5. 0 \in 0 .. MaxReviewers
      BY FlowAssumption
    <2>3. /\ q \in Round /\ q.pid = 0 /\ q.started = FALSE /\ q.error = f.round.error
          /\ q.verdict = f.round.verdict /\ q.relayed = f.round.relayed
          /\ q.relaying = f.round.relaying
      BY <2>2, <2>5 DEF Round
    <2>4. g = [f EXCEPT !.round = q]
      BY <1>2, <2>2 DEF abandoned, Flow
    <2> HIDE DEF q
    <2>1. /\ g \in Flow /\ g.state = f.state /\ g.from = f.from /\ g.n = f.n /\ g.why = f.why
          /\ g.round = q
      BY <2>2, <2>3, <2>4 DEF Flow
    <2> QED
      BY <1>2, <2>1, <2>3 DEF fit, stage, Unsent, Early
  <1> QED
    BY <1>1, <1>2

LEMMA VerdictIs ==
  ASSUME NEW f, fit(f), f.state = "reviewing", NEW v \in Verdicts \cup {"none"},
         NEW g, g = applyVerdict(f, v)
  PROVE  /\ fit(g) /\ g.state \in {"relaying", "relay_pending"} /\ g.why = "none"
         /\ sameRound(g, f)
  <1>1. PICK st \in {"relaying", "relay_pending"} :
          st = IF f.manual THEN "relay_pending" ELSE "relaying"
    OBVIOUS
  <1> DEFINE q == [f.round EXCEPT !.verdict = v]
  <1>2. f \in Flow /\ f.round \in Round
    BY DEF fit, Flow
  <1>3. /\ q \in Round /\ q.pid = f.round.pid /\ q.started = f.round.started
        /\ q.ident = f.round.ident /\ q.relaying = f.round.relaying
        /\ q.relayed = f.round.relayed
    BY <1>2 DEF Round
  <1>4. g = [f EXCEPT !.round = q, !.why = "none", !.state = st]
    BY <1>1, <1>2 DEF applyVerdict, Flow
  <1> HIDE DEF q
  <1>5. g \in Flow /\ g.state = st /\ g.why = "none" /\ g.n = f.n /\ g.round = q
    BY <1>2, <1>3, <1>4 DEF Flow, States, Active
  <1> QED
    BY <1>3, <1>5 DEF fit, stage, Unsent, Early, sameRound

LEMMA IdentifiedIs ==
  ASSUME NEW f, fit(f), NEW g, g = identified(f)
  PROVE  /\ fit(g) /\ g.state = f.state /\ stage(g) = stage(f) /\ g.why = f.why /\ g.n = f.n
         /\ g.round.pid = f.round.pid /\ g.round.started = f.round.started
         /\ g.round.relaying = f.round.relaying
         /\ g # f => runs[f.n] # 0
  <1>1. CASE runs[f.n] # 0 /\ alive(runs[f.n])
    <2>1. PICK u \in BOOLEAN : u = (f.round.pid # 0)
      OBVIOUS
    <2> DEFINE q == [f.round EXCEPT !.ident = u, !.lease = FALSE]
    <2>2. f \in Flow /\ f.round \in Round
      BY DEF fit, Flow
    <2>3. /\ q \in Round /\ q.pid = f.round.pid /\ q.started = f.round.started
          /\ q.error = f.round.error /\ q.relaying = f.round.relaying
          /\ q.relayed = f.round.relayed /\ q.verdict = f.round.verdict
      BY <2>2 DEF Round
    <2>4. g = [f EXCEPT !.round = q]
      BY <1>1, <2>1, <2>2 DEF identified, Flow
    <2> HIDE DEF q
    <2>5. /\ g \in Flow /\ g.state = f.state /\ g.from = f.from /\ g.n = f.n /\ g.why = f.why
          /\ g.round = q
      BY <2>2, <2>3, <2>4 DEF Flow
    <2> QED
      BY <1>1, <2>3, <2>5 DEF fit, stage, Unsent, Early
  <1>2. CASE ~(runs[f.n] # 0 /\ alive(runs[f.n]))
    BY <1>2 DEF identified
  <1> QED
    BY <1>1, <1>2

LEMMA RetryRoundIs ==
  ASSUME NEW f, fit(f), f.state = "reviewing", retryLeft(f), NEW g, g = retryRound(f)
  PROVE  fit(g) /\ g.state = "spawning" /\ g.why = "other" /\ g.n = f.n /\ newRound(g)
  <1> DEFINE q == [NewRound EXCEPT !.retries = f.round.retries + 1]
  <1>1. f \in Flow /\ f.round \in Round
    BY DEF fit, Flow
  <1>2. f.round.retries + 1 \in 0 .. 1
    BY <1>1 DEF Round, retryLeft
  <1>3. /\ q \in Round /\ q.pid = 0 /\ q.started = FALSE /\ q.error = FALSE
        /\ q.verdict = "none" /\ q.relaying = FALSE /\ q.relayed = FALSE
    <2> PICK p : p = NewRound
      OBVIOUS
    <2>1. /\ p \in Round /\ p.pid = 0 /\ p.started = FALSE /\ p.error = FALSE
          /\ p.verdict = "none" /\ p.relaying = FALSE /\ p.relayed = FALSE
      BY NewRoundIs
    <2> QED
      BY <1>2, <2>1 DEF Round
  <1>4. g = [f EXCEPT !.round = q, !.state = "spawning", !.why = "other"]
    BY DEF retryRound
  <1> HIDE DEF q
  <1>5. g \in Flow /\ g.state = "spawning" /\ g.why = "other" /\ g.n = f.n /\ g.round = q
    BY <1>1, <1>3, <1>4 DEF Flow, States, Active
  <1> QED
    BY <1>3, <1>5 DEF fit, stage, Unsent, Early, newRound

LEMMA RelayStartedIs ==
  ASSUME NEW f, fit(f), NEW g, g = [f EXCEPT !.round.relaying = TRUE]
  PROVE  /\ fit(g) /\ g.state = f.state /\ stage(g) = stage(f) /\ g.n = f.n /\ g.why = f.why
         /\ g.round.relaying = TRUE
  <1>1. /\ g \in Flow /\ g.state = f.state /\ g.from = f.from /\ g.n = f.n /\ g.why = f.why
        /\ g.round.relaying = TRUE /\ g.round.pid = f.round.pid
        /\ g.round.started = f.round.started /\ g.round.relayed = f.round.relayed
        /\ g.round.error = f.round.error /\ g.round.verdict = f.round.verdict
    BY DEF fit, Flow, Round
  <1> QED
    BY <1>1 DEF fit, stage, Unsent, Early

LEMMA AfterRelayIs ==
  ASSUME NEW f, fit(f), f.state = "relaying", NEW g, g = afterRelay(f)
  PROVE  /\ fit(g) /\ g.state \in {"approved", "done_comment", "needs_decision", "fixing"}
         /\ g.n = f.n
  <1> DEFINE q == [f.round EXCEPT !.relayed = TRUE]
  <1>1. f \in Flow /\ f.round \in Round
    BY DEF fit, Flow
  <1>2. /\ q \in Round /\ q.pid = f.round.pid /\ q.started = f.round.started
    BY <1>1 DEF Round
  <1> DEFINE d == [f EXCEPT !.round = q]
  <1>3. /\ d \in Flow /\ d.n = f.n /\ d.round = q /\ d.why = f.why /\ d.state = "relaying"
        /\ d.from = f.from
    BY <1>1, <1>2 DEF Flow
  <1>4. \/ g = [d EXCEPT !.state = "approved"] \/ g = [d EXCEPT !.state = "done_comment"]
        \/ g = park(d, "limit") \/ g = [d EXCEPT !.state = "fixing", !.why = "none"]
    BY DEF afterRelay
  <1> HIDE DEF q, d
  <1>5. f.why # "limit"
    BY DEF fit
  <1>6. /\ g \in Flow /\ g.state \in {"approved", "done_comment", "needs_decision", "fixing"}
        /\ g.n = f.n /\ g.round = q /\ (g.why = "limit" => g.state = "needs_decision")
    BY <1>3, <1>4, <1>5 DEF park, Flow, States, Active, Terminal
  <1> QED
    BY <1>2, <1>6 DEF fit, stage, Unsent, Early

twin(g, f) ==
  g.state = f.state /\ stage(g) = stage(f) /\ g.why = f.why /\ sameRound(g, f)

LEMMA MergeIs ==
  ASSUME fit(disk), NEW f, fit(f), NEW base, NEW g, g = merge(f, base)
  PROVE  /\ fit(g)
         /\ g = disk \/ (twin(g, f) /\ f # base /\ ~takenOver(base))
         /\ f # base /\ ~takenOver(base) => twin(g, f)
  <1>1. CASE f = base \/ takenOver(base)
    BY <1>1 DEF merge
  <1>2. CASE ~(f = base \/ takenOver(base))
    <2>1. g = [f EXCEPT !.manual = disk.manual, !.limit = disk.limit]
      BY <1>2 DEF merge
    <2>2. /\ g \in Flow /\ g.state = f.state /\ g.from = f.from /\ g.why = f.why
          /\ g.n = f.n /\ g.round = f.round
      BY <2>1 DEF fit, Flow
    <2> QED
      BY <1>2, <2>2 DEF fit, stage, Unsent, Early, twin, sameRound
  <1> QED
    BY <1>1, <1>2

LEMMA SavesIs ==
  ASSUME NEW f, fit(f), saves(f), NEW g, g = disk'
  PROVE  fit(g) /\ twin(g, f)
  <1>1. CASE f.state = "spawning"
    <2> DEFINE q == [f.round EXCEPT !.error = FALSE]
    <2>1. f \in Flow /\ f.round \in Round
      BY DEF fit, Flow
    <2>2. /\ q \in Round /\ q.pid = f.round.pid /\ q.started = f.round.started
          /\ q.ident = f.round.ident /\ q.relaying = f.round.relaying /\ q.error = FALSE
          /\ q.relayed = f.round.relayed /\ q.verdict = f.round.verdict
      BY <2>1 DEF Round
    <2>3. g = [f EXCEPT !.round = q]
      BY <1>1, <2>1 DEF saves, Flow
    <2> HIDE DEF q
    <2>4. /\ g \in Flow /\ g.state = f.state /\ g.from = f.from /\ g.why = f.why
          /\ g.n = f.n /\ g.round = q
      BY <2>1, <2>2, <2>3 DEF Flow
    <2> QED
      BY <2>2, <2>4 DEF fit, stage, Unsent, Early, twin, sameRound
  <1>2. CASE f.state # "spawning"
    BY <1>2 DEF saves, twin, sameRound
  <1> QED
    BY <1>1, <1>2

LEMMA SettingIs ==
  ASSUME NEW f, fit(f), NEW g, NEW u \in BOOLEAN, NEW l \in 0 .. MaxRounds,
         g = [f EXCEPT !.manual = u] \/ g = [f EXCEPT !.limit = l]
  PROVE  fit(g) /\ twin(g, f)
  <1>1. /\ g \in Flow /\ g.state = f.state /\ g.from = f.from /\ g.why = f.why
        /\ g.n = f.n /\ g.round = f.round
    BY DEF fit, Flow
  <1> QED
    BY <1>1 DEF fit, stage, Unsent, Early, twin, sameRound

LEMMA ResumedIs ==
  ASSUME NEW f, fit(f), f.state = "paused",
         NEW g, g = [f EXCEPT !.state = f.from, !.from = "waiting_ready", !.why = "none"]
  PROVE  fit(g) /\ g.state = f.from /\ stage(g) = stage(f) /\ g.why = "none" /\ sameRound(g, f)
  <1>1. /\ g \in Flow /\ g.state = f.from /\ g.why = "none" /\ g.n = f.n /\ g.round = f.round
    BY DEF fit, Flow, States, Active
  <1> QED
    BY <1>1 DEF fit, stage, Unsent, Early, sameRound

LEMMA WaitingIs ==
  ASSUME NEW f, fit(f), NEW g, g = [f EXCEPT !.state = "waiting_ready", !.why = "none"]
  PROVE  fit(g) /\ g.state = "waiting_ready" /\ sameRound(g, f)
  <1>1. /\ g \in Flow /\ g.state = "waiting_ready" /\ g.why = "none" /\ g.n = f.n
        /\ g.round = f.round
    BY DEF fit, Flow, States, Active
  <1> QED
    BY <1>1 DEF fit, stage, Unsent, Early, sameRound

LEMMA AdvancedIs ==
  ASSUME NEW f, fit(f), NEW g,
         \/ f.state = "spawn_pending" /\ g = [f EXCEPT !.state = "spawning", !.why = "none"]
         \/ f.state = "relay_pending" /\ g = [f EXCEPT !.state = "relaying", !.why = "none"]
  PROVE  /\ fit(g) /\ g.why = "none" /\ sameRound(g, f)
         /\ f.state = "spawn_pending" => g.state = "spawning"
         /\ f.state = "relay_pending" => g.state = "relaying"
  <1>1. /\ g \in Flow /\ g.why = "none" /\ g.n = f.n /\ g.round = f.round
        /\ f.state = "spawn_pending" => g.state = "spawning"
        /\ f.state = "relay_pending" => g.state = "relaying"
    BY DEF fit, Flow, States, Active
  <1> QED
    BY <1>1 DEF fit, stage, Unsent, Early, sameRound

LEMMA RestartedIs ==
  ASSUME NEW f, fit(f), f.n > 0,
         NEW g, g = [f EXCEPT !.round = NewRound, !.why = "none",
                              !.state = IF f.manual THEN "spawn_pending" ELSE "spawning"]
  PROVE  fit(g) /\ g.state \in {"spawn_pending", "spawning"} /\ g.n = f.n /\ newRound(g)
  <1> PICK q : q = NewRound
    OBVIOUS
  <1>1. /\ q \in Round /\ q.pid = 0 /\ q.started = FALSE
        /\ q.error = FALSE /\ q.verdict = "none" /\ q.relaying = FALSE /\ q.relayed = FALSE
    BY NewRoundIs
  <1>2. f.n \in Rounds
    BY FlowAssumption DEF fit, Flow, Rounds
  <1>3. PICK st \in {"spawning", "spawn_pending"} :
          st = IF f.manual THEN "spawn_pending" ELSE "spawning"
    OBVIOUS
  <1>4. g = [f EXCEPT !.round = q, !.why = "none", !.state = st]
    BY <1>3
  <1>5. g \in Flow /\ g.n = f.n /\ g.round = q /\ g.why = "none" /\ g.state = st
    BY <1>1, <1>4 DEF fit, Flow, States, Active
  <1> QED
    BY <1>1, <1>2, <1>5 DEF fit, stage, Unsent, Early, newRound

LEMMA ClosedIs ==
  ASSUME NEW f, fit(f), NEW g,
         \/ g = [f EXCEPT !.state = "closed", !.why = "none", !.round.error = TRUE]
         \/ g = [f EXCEPT !.state = "closed", !.why = "none"]
  PROVE  fit(g) /\ g.state = "closed" /\ g.why = "none" /\ sameRound(g, f)
  <1>1. CASE g = [f EXCEPT !.state = "closed", !.why = "none", !.round.error = TRUE]
    <2>1. /\ g \in Flow /\ g.state = "closed" /\ g.why = "none" /\ sameRound(g, f)
      BY <1>1 DEF fit, Flow, Round, States, Terminal, sameRound
    <2> QED
      BY <2>1 DEF fit, stage, Unsent, Early, sameRound
  <1>2. CASE g = [f EXCEPT !.state = "closed", !.why = "none"]
    <2>1. /\ g \in Flow /\ g.state = "closed" /\ g.why = "none" /\ sameRound(g, f)
      BY <1>2 DEF fit, Flow, States, Terminal, sameRound
    <2> QED
      BY <2>1 DEF fit, stage, Unsent, Early, sameRound
  <1> QED
    BY <1>1, <1>2

LEMMA ExpiredIs ==
  ASSUME NEW f, fit(f), NEW g, g = [f EXCEPT !.round.lease = FALSE]
  PROVE  fit(g) /\ twin(g, f)
  <1>1. /\ g \in Flow /\ g.state = f.state /\ g.from = f.from /\ g.why = f.why
        /\ sameRound(g, f) /\ g.round.error = f.round.error
        /\ g.round.verdict = f.round.verdict /\ g.round.relayed = f.round.relayed
    BY DEF fit, Flow, Round, sameRound
  <1> QED
    BY <1>1 DEF fit, stage, Unsent, Early, twin, sameRound

---------------------------------------------------------------------------
(* How the poller's step, the processes and the counters change.            *)
LEMMA TickIs ==
  ASSUME Stepped, NEW pc \in Pcs, NEW f, tick' = [tick EXCEPT !.pc = pc, !.flow = f]
  PROVE  Stepped' /\ tick'.pc = pc /\ tick'.flow = f /\ tick'.base = tick.base
  BY DEF Stepped

LEMMA TickGoes ==
  ASSUME Stepped, NEW pc \in Pcs, tick' = [tick EXCEPT !.pc = pc]
  PROVE  Stepped' /\ tick'.pc = pc /\ tick'.flow = tick.flow /\ tick'.base = tick.base
  BY DEF Stepped

LEMMA IdleIs ==
  ASSUME tick' = Idle
  PROVE  Stepped' /\ tick'.pc = "idle" /\ tick'.flow = NewFlow /\ tick'.base = NewFlow
  BY DEF Stepped, Idle, Pcs

(* The flow the file holds after a merge of f.                              *)
merged(d, f) ==
  /\ fit(d) /\ (d = disk \/ (twin(d, f) /\ f # tick.base /\ ~takenOver(tick.base)))
  /\ f # tick.base /\ ~takenOver(tick.base) => twin(d, f)

LEMMA YieldsIs ==
  ASSUME Stepped, Fit, NEW f, fit(f), yields(f)
  PROVE  /\ Stepped' /\ merged(disk', f) /\ tick'.pc \in {"idle", "rest"}
         /\ tick'.pc = "idle" => tick'.flow = NewFlow /\ tick'.base = NewFlow
         /\ tick'.pc = "rest" => tick'.flow = f /\ tick'.base = tick.base
         /\ fit(tick'.flow) /\ fit(tick'.base)
         /\ tick.base.state \in Active => tick'.base.state \in Active
  <1>1. merged(disk', f)
    <2> PICK g : g = disk'
      OBVIOUS
    <2>1. g = merge(f, tick.base) /\ fit(disk)
      BY DEF yields, Fit
    <2> QED
      BY <2>1, MergeIs DEF merged
  <1>2. tick' = Idle \/ tick' = [tick EXCEPT !.pc = "rest", !.flow = f]
    BY DEF yields
  <1>3. CASE tick' = Idle
    BY <1>1, <1>3, IdleIs, NewFlowFits DEF Active
  <1>4. CASE tick' = [tick EXCEPT !.pc = "rest", !.flow = f]
    <2>1. "rest" \in Pcs
      BY DEF Pcs
    <2> QED
      BY <1>1, <1>4, <2>1, TickIs DEF Fit
  <1> QED
    BY <1>2, <1>3, <1>4

LEMMA ContinuesIs ==
  ASSUME Stepped, Fit, NEW f, fit(f), NEW pc \in Pcs, continues(pc, f)
  PROVE  /\ Stepped' /\ merged(disk', f)
         /\ tick'.pc = pc /\ tick'.flow = f /\ tick'.base = tick.base
  <1> PICK g : g = disk'
    OBVIOUS
  <1>1. g = merge(f, tick.base) /\ fit(disk)
    BY DEF continues, Fit
  <1>2. merged(disk', f)
    BY <1>1, MergeIs DEF merged
  <1> QED
    BY <1>2, TickIs DEF continues

(* What the flow would stop is the round's child or the process it names.   *)
LEMMA StopIs ==
  ASSUME Processes, NEW x, reviewer' = stop(x)
  PROVE  /\ reviewer' \in [Reviewers -> Process]
         /\ \A r \in Reviewers :
              /\ reviewer'[r].round = reviewer[r].round /\ reviewer'[r].said = reviewer[r].said
              /\ (running(r))' => running(r) /\ r # x
              /\ reviewer[r].status # "none" => reviewer'[r].status # "none"
  <1>1. 0 \notin Reviewers
    BY FlowAssumption DEF Reviewers
  <1>2. CASE x # 0 /\ running(x)
    <2>1. reviewer' = [reviewer EXCEPT ![x].status = "dying"]
      BY <1>2 DEF stop
    <2>2. \A r \in Reviewers : reviewer[r] \in Process
      BY DEF Processes
    <2>3. \A r \in Reviewers : reviewer'[r] =
            IF r = x THEN [reviewer[r] EXCEPT !.status = "dying"] ELSE reviewer[r]
      BY <2>1 DEF Processes
    <2>4. \A r \in Reviewers : [reviewer[r] EXCEPT !.status = "dying"] \in Process
      BY <2>2 DEF Process
    <2>5. \A r \in Reviewers : reviewer'[r] \in Process
      BY <2>2, <2>3, <2>4
    <2>6. reviewer' \in [Reviewers -> Process]
      BY <2>1, <2>5 DEF Processes
    <2>7. \A r \in Reviewers :
            /\ reviewer'[r].round = reviewer[r].round /\ reviewer'[r].said = reviewer[r].said
            /\ r = x => reviewer'[r].status = "dying"
            /\ r # x => reviewer'[r].status = reviewer[r].status
      BY <2>2, <2>3 DEF Process
    <2> QED
      BY <2>6, <2>7 DEF running
  <1>3. CASE ~(x # 0 /\ running(x))
    <2>1. reviewer' = reviewer
      BY <1>3 DEF stop
    <2> QED
      BY <1>1, <1>3, <2>1 DEF running, Processes
  <1> QED
    BY <1>2, <1>3

LEMMA ForgetIs ==
  ASSUME Processes, NEW f, forget(f)
  PROVE  /\ runs' \in [Rounds -> 0 .. MaxReviewers]
         /\ \A n \in Rounds : runs'[n] = IF n = f.n THEN 0 ELSE runs[n]
         /\ reviewer' \in [Reviewers -> Process]
         /\ \A r \in Reviewers :
              /\ reviewer'[r].round = reviewer[r].round /\ reviewer'[r].said = reviewer[r].said
              /\ (running(r))' => running(r) /\ r # owned(f)
              /\ reviewer[r].status # "none" => reviewer'[r].status # "none"
  <1>1. runs' = [runs EXCEPT ![f.n] = 0] /\ reviewer' = stop(owned(f))
    BY DEF forget
  <1>2. 0 \in 0 .. MaxReviewers
    BY FlowAssumption
  <1>3. /\ runs' \in [Rounds -> 0 .. MaxReviewers]
        /\ \A n \in Rounds : runs'[n] = IF n = f.n THEN 0 ELSE runs[n]
    BY <1>1, <1>2 DEF Processes
  <1> PICK x : x = owned(f)
    OBVIOUS
  <1>4. reviewer' = stop(x)
    BY <1>1
  <1> QED
    BY <1>3, <1>4, StopIs

LEMMA ClearsIs ==
  ASSUME Processes, NEW n, clearArtifacts(n)
  PROVE  /\ artifact' \in [Rounds -> Verdicts \cup {"none"}]
         /\ \A m \in Rounds : artifact'[m] = IF m = n THEN "none" ELSE artifact[m]
  BY DEF clearArtifacts, Processes

LEMMA FaultIs ==
  ASSUME Budgeted, fault
  PROVE  Budgeted'
  <1>1. budget.faults \in 0 .. MaxFaults /\ budget.faults < MaxFaults
    BY DEF Budgeted, fault
  <1>2. budget.faults + 1 \in 0 .. MaxFaults
    BY <1>1, FlowAssumption
  <1> QED
    BY <1>2 DEF Budgeted, fault

LEMMA RequestIs ==
  ASSUME Budgeted, request
  PROVE  Budgeted' /\ ~at("launch") /\ ~at("spawned")
  <1>1. budget.requests \in 0 .. MaxRequests /\ budget.requests < MaxRequests
    BY DEF Budgeted, request
  <1>2. budget.requests + 1 \in 0 .. MaxRequests
    BY <1>1, FlowAssumption
  <1> QED
    BY <1>2 DEF Budgeted, request, quiet, at

---------------------------------------------------------------------------
(* Types, fitness and the poller's step are kept.                           *)
Sound == Typed /\ Fit /\ Based

LEMMA YieldsSound ==
  ASSUME Stepped, Fit, Based, NEW f, fit(f), yields(f), UNCHANGED creating
  PROVE  Stepped' /\ Fit' /\ Based'
  <1>1. /\ Stepped' /\ merged(disk', f) /\ tick'.pc \in {"idle", "rest"}
        /\ fit(tick'.flow) /\ fit(tick'.base) /\ tick'.base.state \in Active
    BY YieldsIs DEF Based
  <1>2. fit(disk') /\ fit(creating'.copy)
    BY <1>1 DEF merged, Fit
  <1>3. Fit'
    BY <1>1, <1>2 DEF Fit
  <1>4. Based'
    BY <1>1 DEF Based, at
  <1> QED
    BY <1>1, <1>3, <1>4

LEMMA SpokenIs ==
  ASSUME Processes, NEW f, fit(f), f.n \in Rounds
  PROVE  spoken(f) \in Verdicts \cup {"none"} /\ review(f) \in Verdicts \cup {"none"}
  <1>1. f.round.pid \in 0 .. MaxReviewers /\ runs[f.n] \in 0 .. MaxReviewers
    BY DEF fit, Flow, Round, Processes
  <1>2. child(f) \in 0 .. MaxReviewers
    BY <1>1 DEF child
  <1>3. child(f) # 0 => child(f) \in Reviewers
    BY <1>2, FlowAssumption DEF Reviewers
  <1>4. \A r \in Reviewers : reviewer[r].said \in Verdicts \cup {"none"}
    BY DEF Processes, Process
  <1>5. spoken(f) \in Verdicts \cup {"none"}
    BY <1>3, <1>4 DEF spoken
  <1> QED
    BY <1>5 DEF review, Processes

LEMMA StartsSound ==
  ASSUME Sound, TickStarts
  PROVE  Sound'
  <1>1. tick' = [pc |-> "begun", base |-> disk, flow |-> disk] /\ disk.state \in Active
    BY DEF TickStarts
  <1>2. Stepped' /\ tick'.pc = "begun" /\ tick'.base = disk /\ tick'.flow = disk
    BY <1>1 DEF Stepped, Pcs
  <1>3. Fit' /\ Based'
    BY <1>1, <1>2 DEF Sound, Fit, Based, at, TickStarts
  <1>4. Created' /\ Processes' /\ Histories' /\ Budgeted'
    BY DEF TickStarts, Sound, Typed, Created, Processes, Histories, Budgeted, processes, history
  <1> QED
    BY <1>2, <1>3, <1>4 DEF Sound, Typed

LEMMA EndsSound ==
  ASSUME Sound, TickEnds
  PROVE  Sound'
  <1>1. tick' = Idle /\ UNCHANGED creating
    BY DEF TickEnds
  <1>2. Stepped' /\ tick'.pc = "idle" /\ tick'.flow = NewFlow /\ tick'.base = NewFlow
    BY <1>1, IdleIs
  <1>3. fit(disk')
    <2> PICK g : g = disk'
      OBVIOUS
    <2>1. g = merge(tick.flow, tick.base) /\ fit(disk) /\ fit(tick.flow)
      BY DEF TickEnds, Sound, Fit
    <2> QED
      BY <2>1, MergeIs
  <1>4. Fit' /\ Based'
    BY <1>1, <1>2, <1>3, NewFlowFits DEF Sound, Fit, Based, at, Active
  <1>5. Created' /\ Processes' /\ Histories' /\ Budgeted'
    BY DEF TickEnds, Sound, Typed, Created, Processes, Histories, Budgeted, processes, history
  <1> QED
    BY <1>2, <1>4, <1>5 DEF Sound, Typed

(* The poller goes on to the next flow.                                     *)
LEMMA RestsSound ==
  ASSUME Sound, tick' = Idle,
         UNCHANGED <<disk, creating, relayed, processes, runs, history, budget>>
  PROVE  Sound'
  <1>1. Stepped' /\ tick'.pc = "idle" /\ tick'.flow = NewFlow /\ tick'.base = NewFlow
    BY IdleIs
  <1>2. Fit' /\ Based'
    BY <1>1, NewFlowFits DEF Sound, Fit, Based, at, Active
  <1>3. Created' /\ Processes' /\ Histories' /\ Budgeted'
    BY DEF Sound, Typed, Created, Processes, Histories, Budgeted, processes, history
  <1> QED
    BY <1>1, <1>2, <1>3 DEF Sound, Typed

(* The poller is done with the flow, whatever it did to the processes.      *)
LEMMA DoneSound ==
  ASSUME Sound, NEW f, fit(f), yields(f), UNCHANGED creating, Processes', Histories', Budgeted'
  PROVE  Sound'
  <1>1. Stepped' /\ Fit' /\ Based'
    BY YieldsSound DEF Sound, Typed
  <1> QED
    BY <1>1 DEF Sound, Typed, Created

LEMMA Unforgotten ==
  ASSUME Processes, unforgotten
  PROVE  Processes'
  BY DEF Processes, unforgotten, processes

LEMMA Calm ==
  ASSUME Sound, calm
  PROVE  Created' /\ Histories' /\ Budgeted' /\ UNCHANGED <<creating, relayed, relays, resumed,
                                                           strays, disowned, reverted, budget>>
  BY DEF Sound, Typed, Created, Histories, Budgeted, calm, history

LEMMA BegunIs ==
  ASSUME Sound, at("begun")
  PROVE  fit(tick.flow) /\ tick.flow = tick.base /\ tick.flow.state \in Active
         /\ stage(tick.flow) = tick.flow.state
  BY DEF Sound, Fit, Based, Active, stage

LEMMA MissingSound ==
  ASSUME Sound, ImplementerMissing
  PROVE  Sound'
  <1> PICK f : f = [tick.flow EXCEPT !.state = "paused", !.from = tick.flow.state, !.why = "other"]
    OBVIOUS
  <1>1. at("begun") /\ fault /\ yields(f) /\ unforgotten /\ UNCHANGED <<creating, relayed, history>>
    BY DEF ImplementerMissing
  <1>2. fit(f)
    <2> PICK h : h = tick.flow
      OBVIOUS
    <2>1. fit(h) /\ h.state \notin {"paused", "closed"}
      BY <1>1, BegunIs DEF Active
    <2>2. f = [h EXCEPT !.state = "paused", !.from = h.state, !.why = "other"]
      OBVIOUS
    <2> QED
      BY <2>1, <2>2, PausedIs
  <1>3. Processes' /\ Budgeted' /\ Histories'
    BY <1>1, Unforgotten, FaultIs DEF Sound, Typed, Histories, history
  <1> QED
    BY <1>1, <1>2, <1>3, DoneSound

LEMMA NothingSound ==
  ASSUME Sound, NothingToDo \/ AwaitLease
  PROVE  Sound'
  <1>1. tick' = Idle /\ UNCHANGED disk /\ unforgotten /\ calm
    BY DEF NothingToDo, AwaitLease
  <1> QED
    BY <1>1, RestsSound DEF unforgotten, calm, processes, history

LEMMA MarkerSound ==
  ASSUME Sound, MarkerSeen
  PROVE  Sound'
  <1> PICK h : h = tick.flow
    OBVIOUS
  <1> PICK f : f = withRound(h)
    OBVIOUS
  <1>1. at("begun") /\ h.n < MaxRounds /\ yields(f) /\ unforgotten /\ calm
    BY DEF MarkerSeen, turn
  <1>2. fit(f)
    BY <1>1, BegunIs, WithRoundIs
  <1>3. Processes' /\ Budgeted' /\ Histories' /\ UNCHANGED creating
    BY <1>1, Unforgotten, Calm DEF Sound, Typed
  <1> QED
    BY <1>1, <1>2, <1>3, DoneSound

LEMMA AdoptSound ==
  ASSUME Sound, AdoptLaunch
  PROVE  Sound'
  <1> PICK h : h = tick.flow
    OBVIOUS
  <1> PICK f : f = IF status(h) = "lost" THEN park(h, "other")
                   ELSE [h EXCEPT !.state = "reviewing", !.why = "none"]
    OBVIOUS
  <1>1. at("begun") /\ h.state = "spawning" /\ yields(f) /\ unforgotten /\ calm
    BY DEF AdoptLaunch, turn
  <1>2. fit(f)
    BY <1>1, BegunIs, ParkIs, ReviewingIs
  <1>3. Processes' /\ Budgeted' /\ Histories' /\ UNCHANGED creating
    BY <1>1, Unforgotten, Calm DEF Sound, Typed
  <1> QED
    BY <1>1, <1>2, <1>3, DoneSound

LEMMA ReserveSound ==
  ASSUME Sound, ReserveReviewer
  PROVE  Sound'
  <1> PICK h : h = tick.flow
    OBVIOUS
  <1> PICK f : f = [h EXCEPT !.round.started = TRUE, !.round.lease = TRUE]
    OBVIOUS
  <1>1. /\ at("begun") /\ h.state = "spawning" /\ ~h.round.started
        /\ continues("launch", f) /\ unforgotten /\ calm
    BY DEF ReserveReviewer, turn, begunBefore
  <1>2. fit(h) /\ h = tick.base
    BY <1>1, BegunIs
  <1>3. /\ fit(f) /\ f.state = "spawning" /\ f.n = h.n /\ f.round.started
        /\ f.round.pid = h.round.pid
    BY <1>1, <1>2, ReservedIs
  <1>4. "launch" \in Pcs
    BY DEF Pcs
  <1>5. /\ Stepped' /\ fit(disk') /\ tick'.pc = "launch" /\ tick'.flow = f
        /\ tick'.base = tick.base
    BY <1>1, <1>3, <1>4, ContinuesIs DEF Sound, Typed, merged
  <1>6. f.round.pid = 0
    BY <1>1, <1>2, <1>3 DEF fit
  <1>7. UNCHANGED creating
    BY <1>1, Calm
  <1>8. Fit' /\ Based'
    BY <1>1, <1>2, <1>3, <1>5, <1>6, <1>7 DEF Sound, Fit, Based, at
  <1>9. Processes' /\ Budgeted' /\ Histories' /\ Created'
    BY <1>1, Unforgotten, Calm DEF Sound, Typed
  <1> QED
    BY <1>5, <1>8, <1>9 DEF Sound, Typed

LEMMA LaunchFailsSound ==
  ASSUME Sound, LaunchFails
  PROVE  Sound'
  <1> PICK h : h = tick.flow
    OBVIOUS
  <1> PICK f : f = parkError(h)
    OBVIOUS
  <1>1. fault /\ yields(f) /\ unforgotten /\ UNCHANGED <<creating, relayed, history>>
    BY DEF LaunchFails
  <1>2. fit(f)
    BY ParkErrorIs DEF Sound, Fit
  <1>3. Processes' /\ Budgeted' /\ Histories'
    BY <1>1, Unforgotten, FaultIs DEF Sound, Typed, Histories, history
  <1> QED
    BY <1>1, <1>2, <1>3, DoneSound

LEMMA StartSound ==
  ASSUME Sound, NEW r \in Reviewers, NEW ident \in BOOLEAN, StartHeadlessReview(r, ident)
  PROVE  Sound' /\ tick'.pc = "spawned"
  <1> PICK h : h = tick.flow
    OBVIOUS
  <1> PICK f : f = launched(h, r, ident)
    OBVIOUS
  <1>1. /\ at("launch") /\ clearArtifacts(h.n) /\ runs' = [runs EXCEPT ![h.n] = r]
        /\ reviewer' = [reviewer EXCEPT
             ![r] = [status |-> "running", round |-> h.n, said |-> "none"]]
        /\ tick' = [tick EXCEPT !.pc = "spawned", !.flow = f] /\ UNCHANGED disk /\ calm
    BY DEF StartHeadlessReview
  <1>2. /\ fit(h) /\ h.state = "spawning" /\ h.n = tick.base.n /\ h.round.started
        /\ tick.base.state = "spawning"
    BY <1>1 DEF Sound, Fit, Based
  <1>3. /\ fit(f) /\ f.state = "reviewing" /\ f.n = h.n /\ f.round.started
    BY <1>2, LaunchedIs
  <1>4. "spawned" \in Pcs
    BY DEF Pcs
  <1>5. Stepped' /\ tick'.pc = "spawned" /\ tick'.flow = f /\ tick'.base = tick.base
    BY <1>1, <1>4, TickIs DEF Sound, Typed
  <1>6. Created' /\ Histories' /\ Budgeted' /\ UNCHANGED creating
    BY <1>1, Calm
  <1>7. Fit' /\ Based'
    BY <1>1, <1>2, <1>3, <1>5, <1>6 DEF Sound, Fit, Based, at
  <1>8. h.n \in Rounds
    BY <1>2 DEF fit, stage, Unsent, Early
  <1>9. Processes'
    <2>1. [status |-> "running", round |-> h.n, said |-> "none"] \in Process
      BY <1>8 DEF Process
    <2>2. reviewer' \in [Reviewers -> Process]
      BY <1>1, <2>1 DEF Sound, Typed, Processes
    <2>3. r \in 0 .. MaxReviewers
      BY FlowAssumption DEF Reviewers
    <2>4. runs' \in [Rounds -> 0 .. MaxReviewers]
      BY <1>1, <2>3 DEF Sound, Typed, Processes
    <2> QED
      BY <1>1, <2>2, <2>4, ClearsIs DEF Processes, Sound, Typed
  <1> QED
    BY <1>5, <1>6, <1>7, <1>9 DEF Sound, Typed

LEMMA ReuseSound ==
  ASSUME Sound, ReuseChild
  PROVE  Sound' /\ tick'.pc = "spawned"
  <1> PICK h : h = tick.flow
    OBVIOUS
  <1> PICK f : f = [h EXCEPT !.state = "reviewing", !.why = "none"]
    OBVIOUS
  <1>1. /\ at("launch") /\ UNCHANGED disk /\ unforgotten /\ calm
        /\ tick' = [tick EXCEPT !.pc = "spawned", !.flow.state = "reviewing", !.flow.why = "none"]
    BY DEF ReuseChild
  <1>2. /\ fit(h) /\ h.state = "spawning" /\ h.n = tick.base.n /\ h.round.started
        /\ tick.base.state = "spawning"
    BY <1>1 DEF Sound, Fit, Based
  <1>3. /\ fit(f) /\ f.state = "reviewing" /\ f.n = h.n /\ f.round.started
    <2>1. fit(f) /\ f.state = "reviewing" /\ sameRound(f, h)
      BY <1>2, ReviewingIs
    <2> QED
      BY <1>2, <2>1 DEF sameRound
  <1>4. "spawned" \in Pcs
    BY DEF Pcs
  <1>5. tick' = [tick EXCEPT !.pc = "spawned", !.flow = f]
    BY <1>1 DEF Sound, Typed, Stepped
  <1>6. Stepped' /\ tick'.pc = "spawned" /\ tick'.flow = f /\ tick'.base = tick.base
    BY <1>5, <1>4, TickIs DEF Sound, Typed
  <1>7. Created' /\ Histories' /\ Budgeted' /\ UNCHANGED creating
    BY <1>1, Calm
  <1>8. Fit' /\ Based'
    <2>1. Fit'
      BY <1>1, <1>3, <1>6, <1>7 DEF Sound, Fit
    <2>2. Based'
      BY <1>2, <1>3, <1>6 DEF Sound, Based, at, Active
    <2> QED
      BY <2>1, <2>2
  <1>9. Processes'
    BY <1>1, Unforgotten DEF Sound, Typed
  <1> QED
    BY <1>6, <1>7, <1>8, <1>9 DEF Sound, Typed

LEMMA PersistSound ==
  ASSUME Sound, PersistLaunch
  PROVE  Sound'
  <1> PICK f : f = tick.flow
    OBVIOUS
  <1> PICK d : d = merge(f, tick.base)
    OBVIOUS
  <1>1. /\ at("spawned") /\ tick' = [tick EXCEPT !.pc = "rest"] /\ calm
        /\ \/ disk' = d /\ unforgotten
           \/ disk' = abandoned(d) /\ forget(f) /\ UNCHANGED artifact
    BY DEF PersistLaunch
  <1>2. "rest" \in Pcs
    BY DEF Pcs
  <1>3. Stepped' /\ tick'.pc = "rest" /\ tick'.flow = tick.flow /\ tick'.base = tick.base
    BY <1>1, <1>2, TickGoes DEF Sound, Typed
  <1>4. fit(d)
    BY MergeIs DEF Sound, Fit
  <1>5. fit(disk')
    <2> PICK g : g = disk'
      OBVIOUS
    <2>1. g = d \/ g = abandoned(d)
      BY <1>1
    <2> QED
      BY <1>4, <2>1, AbandonedIs
  <1>6. Created' /\ Histories' /\ Budgeted' /\ UNCHANGED creating
    BY <1>1, Calm
  <1>7. Fit' /\ Based'
    BY <1>3, <1>5, <1>6 DEF Sound, Fit, Based, at
  <1>8. Processes'
    <2>1. CASE unforgotten
      BY <2>1, Unforgotten DEF Sound, Typed
    <2>2. CASE forget(f) /\ UNCHANGED artifact
      BY <2>2, ForgetIs DEF Sound, Typed, Processes
    <2> QED
      BY <1>1, <2>1, <2>2
  <1> QED
    BY <1>3, <1>6, <1>7, <1>8 DEF Sound, Typed

LEMMA ReviewSound ==
  ASSUME Sound, ReviewerRuns \/ ReviewerLost \/ VerdictFound \/ ReviewerSilent
  PROVE  Sound'
  <1> PICK h : h = tick.flow
    OBVIOUS
  <1>1. at("begun") /\ h.state = "reviewing" /\ calm
    BY DEF ReviewerRuns, ReviewerLost, VerdictFound, ReviewerSilent, turn
  <1>2. fit(h) /\ h.n \in Rounds
    BY <1>1, BegunIs DEF fit, stage, Unsent, Early
  <1>3. spoken(h) \in Verdicts \cup {"none"} /\ review(h) \in Verdicts \cup {"none"}
    BY <1>2, SpokenIs DEF Sound, Typed
  <1>4. Created' /\ Histories' /\ Budgeted' /\ UNCHANGED creating
    BY <1>1, Calm
  <1>5. CASE ReviewerRuns
    <2> PICK f : f = identified(h)
      OBVIOUS
    <2>1. yields(f) /\ unforgotten
      BY <1>5 DEF ReviewerRuns
    <2>2. fit(f)
      BY <1>2, IdentifiedIs
    <2> QED
      BY <1>4, <2>1, <2>2, Unforgotten, DoneSound DEF Sound, Typed
  <1>6. CASE ReviewerLost
    <2> PICK f : f = IF spoken(h) # "none" THEN applyVerdict(h, spoken(h)) ELSE park(h, "other")
      OBVIOUS
    <2>1. unforgotten /\ ((tick' = Idle /\ UNCHANGED disk) \/ yields(f))
      BY <1>6 DEF ReviewerLost
    <2>2. fit(f)
      BY <1>1, <1>2, <1>3, ParkIs, VerdictIs
    <2>3. CASE tick' = Idle /\ UNCHANGED disk
      BY <1>1, <2>1, <2>3, RestsSound DEF unforgotten, calm, processes, history
    <2>4. CASE yields(f)
      BY <1>4, <2>1, <2>2, <2>4, Unforgotten, DoneSound DEF Sound, Typed
    <2> QED
      BY <2>1, <2>3, <2>4
  <1>7. CASE VerdictFound
    <2> PICK f : f = applyVerdict(h, review(h))
      OBVIOUS
    <2>1. yields(f) /\ forget(h) /\ UNCHANGED artifact
      BY <1>7 DEF VerdictFound
    <2>2. fit(f)
      BY <1>1, <1>2, <1>3, VerdictIs
    <2>3. Processes'
      BY <2>1, ForgetIs DEF Sound, Typed, Processes
    <2> QED
      BY <1>4, <2>1, <2>2, <2>3, DoneSound
  <1>8. CASE ReviewerSilent
    <2>1. forget(h)
      BY <1>8 DEF ReviewerSilent
    <2>2. CASE retryLeft(h)
      <3> PICK f : f = retryRound(h)
        OBVIOUS
      <3>1. yields(f) /\ clearArtifacts(h.n)
        BY <1>8, <2>2 DEF ReviewerSilent
      <3>2. fit(f)
        BY <1>1, <1>2, <2>2, RetryRoundIs
      <3>3. Processes'
        BY <2>1, <3>1, ForgetIs, ClearsIs DEF Sound, Typed, Processes
      <3> QED
        BY <1>4, <3>1, <3>2, <3>3, DoneSound
    <2>3. CASE ~retryLeft(h)
      <3> PICK f : f = parkError(h)
        OBVIOUS
      <3>1. yields(f) /\ UNCHANGED artifact
        BY <1>8, <2>3 DEF ReviewerSilent
      <3>2. fit(f)
        BY <1>2, ParkErrorIs
      <3>3. Processes'
        BY <2>1, <3>1, ForgetIs DEF Sound, Typed, Processes
      <3> QED
        BY <1>4, <3>1, <3>2, <3>3, DoneSound
    <2> QED
      BY <2>2, <2>3
  <1> QED
    BY <1>5, <1>6, <1>7, <1>8

LEMMA RelayingIs ==
  ASSUME Sound, at("relay") \/ at("delivered")
  PROVE  /\ fit(tick.flow) /\ tick.flow.state = "relaying" /\ tick.flow.n \in Rounds
         /\ stage(tick.flow) = "relaying"
         /\ tick.flow.n = tick.base.n /\ tick.base.state = "relaying"
         /\ tick.flow.round.relaying
  BY DEF Sound, Fit, Based, fit, stage

LEMMA DeliverIs ==
  ASSUME Histories, deliver, tick.flow.n \in Rounds
  PROVE  /\ relays' \in [Rounds -> 0 .. 2]
         /\ \A n \in Rounds : n # tick.flow.n => relays'[n] = relays[n]
         /\ relays[tick.flow.n] = 1 => relays'[tick.flow.n] = 2
         /\ relays[tick.flow.n] = 0 => relays'[tick.flow.n] = 1
  <1> PICK n : n = tick.flow.n
    OBVIOUS
  <1>1. relays[n] \in 0 .. 2 /\ relays \in [Rounds -> 0 .. 2] /\ n \in Rounds
    BY DEF Histories
  <1>2. PICK c : c = IF relays[n] < 2 THEN relays[n] + 1 ELSE relays[n]
    OBVIOUS
  <1>3. c \in 0 .. 2 /\ (relays[n] = 1 => c = 2) /\ (relays[n] = 0 => c = 1)
    BY <1>1, <1>2
  <1>4. relays' = [relays EXCEPT ![n] = c]
    BY <1>2 DEF deliver
  <1> QED
    BY <1>1, <1>3, <1>4

LEMMA RelaySound ==
  ASSUME Sound, RelayInterrupted \/ StartRelay \/ Delivered \/ FinishRelay \/ RelayFails
  PROVE  Sound'
  <1> PICK h : h = tick.flow
    OBVIOUS
  <1>1. unforgotten
    BY DEF RelayInterrupted, StartRelay, Delivered, FinishRelay, RelayFails
  <1>2. Processes'
    BY <1>1, Unforgotten DEF Sound, Typed
  <1>3. CASE RelayInterrupted
    <2> PICK f : f = park(h, "other")
      OBVIOUS
    <2>1. at("begun") /\ yields(f) /\ calm
      BY <1>3 DEF RelayInterrupted, turn
    <2>2. fit(f)
      BY <2>1, BegunIs, ParkIs
    <2> QED
      BY <1>2, <2>1, <2>2, Calm, DoneSound
  <1>4. CASE StartRelay
    <2> PICK f : f = [h EXCEPT !.round.relaying = TRUE]
      OBVIOUS
    <2>1. /\ at("begun") /\ h.state = "relaying" /\ continues("relay", f)
          /\ relayed' = relayed \cup {h.n} /\ UNCHANGED <<creating, history, budget>>
      BY <1>4 DEF StartRelay, turn
    <2>2. fit(h) /\ h = tick.base /\ h.n \in Rounds
      BY <2>1, BegunIs DEF fit, stage
    <2>3. fit(f) /\ f.state = h.state /\ f.n = h.n /\ f.round.relaying = TRUE
      BY <2>2, RelayStartedIs
    <2>4. "relay" \in Pcs
      BY DEF Pcs
    <2>5. /\ Stepped' /\ fit(disk') /\ tick'.pc = "relay" /\ tick'.flow = f
          /\ tick'.base = tick.base
      BY <2>1, <2>3, <2>4, ContinuesIs DEF Sound, Typed, merged
    <2>6. Fit'
      BY <2>1, <2>3, <2>5 DEF Sound, Fit
    <2>7. Based'
      BY <2>1, <2>2, <2>3, <2>5 DEF Sound, Based, at, Active
    <2>8. Histories'
      BY <2>1, <2>2 DEF Sound, Typed, Histories, history
    <2> QED
      BY <1>2, <2>1, <2>5, <2>6, <2>7, <2>8 DEF Sound, Typed, Created, Budgeted
  <1>5. CASE Delivered
    <2>1. /\ at("relay") /\ deliver /\ tick' = [tick EXCEPT !.pc = "delivered"]
          /\ UNCHANGED <<disk, creating, relayed, resumed, strays, disowned, reverted, budget>>
      BY <1>5 DEF Delivered
    <2>2. "delivered" \in Pcs
      BY DEF Pcs
    <2>3. /\ Stepped' /\ tick'.pc = "delivered" /\ tick'.flow = tick.flow
          /\ tick'.base = tick.base
      BY <2>1, <2>2, TickGoes DEF Sound, Typed
    <2>4. h.n \in Rounds
      BY <2>1, RelayingIs
    <2>5. Histories'
      BY <2>1, <2>4, DeliverIs DEF Sound, Typed, Histories
    <2>6. Fit'
      BY <2>1, <2>3 DEF Sound, Fit
    <2>7. Based'
      BY <2>1, <2>3 DEF Sound, Based, at
    <2> QED
      BY <1>2, <2>1, <2>3, <2>5, <2>6, <2>7 DEF Sound, Typed, Created, Budgeted
  <1>6. CASE FinishRelay
    <2> PICK f : f = afterRelay(h)
      OBVIOUS
    <2>1. at("delivered") /\ yields(f) /\ calm
      BY <1>6 DEF FinishRelay
    <2>2. fit(f)
      BY <2>1, RelayingIs, AfterRelayIs
    <2> QED
      BY <1>2, <2>1, <2>2, Calm, DoneSound
  <1>7. CASE RelayFails
    <2> PICK f : f = [h EXCEPT !.state = "paused", !.from = "relaying", !.why = "other",
                               !.round.error = TRUE]
      OBVIOUS
    <2>1. /\ at("relay") /\ fault /\ (deliver \/ UNCHANGED relays) /\ yields(f)
          /\ UNCHANGED <<creating, relayed, resumed, strays, disowned, reverted>>
      BY <1>7 DEF RelayFails
    <2>2. fit(f) /\ h.n \in Rounds
      BY <2>1, RelayingIs, RelayFailedIs
    <2>3. Histories'
      BY <2>1, <2>2, DeliverIs DEF Sound, Typed, Histories
    <2>4. Budgeted'
      BY <2>1, FaultIs DEF Sound, Typed
    <2> QED
      BY <1>2, <2>1, <2>2, <2>3, <2>4, DoneSound
  <1> QED
    BY <1>3, <1>4, <1>5, <1>6, <1>7

(* A request that leaves the poller alone.                                  *)
LEMMA AskedSound ==
  ASSUME Sound, fit(disk'), UNCHANGED <<tick, creating>>, Processes', Histories', Budgeted'
  PROVE  Sound'
  <1>1. Fit'
    BY DEF Sound, Fit
  <1>2. Based'
    BY DEF Sound, Based, at
  <1> QED
    BY <1>1, <1>2 DEF Sound, Typed, Stepped, Created

LEMMA PlainIs ==
  ASSUME Sound, plain
  PROVE  UNCHANGED <<tick, creating>> /\ Processes' /\ Histories'
  BY DEF plain, memory, processes, history, Sound, Typed, Processes, Histories

LEMMA UnparkIs ==
  ASSUME Histories, unpark
  PROVE  disowned' \subseteq Reviewers /\ disowned \subseteq disowned'
  BY DEF unpark, Histories

LEMMA PauseSound ==
  ASSUME Sound, Pause \/ Resume \/ SetMode \/ AnotherRound
  PROVE  Sound'
  <1> PICK h : h = disk
    OBVIOUS
  <1>1. fit(h)
    BY DEF Sound, Fit
  <1>2. Budgeted'
    BY RequestIs DEF Pause, Resume, SetMode, AnotherRound, Sound, Typed
  <1>3. CASE Pause
    <2> PICK f : f = [h EXCEPT !.state = "paused", !.from = h.state, !.why = "other"]
      OBVIOUS
    <2>1. h.state \notin {"paused", "closed"} /\ saves(f) /\ plain
      BY <1>3 DEF Pause
    <2>2. fit(f)
      BY <1>1, <2>1, PausedIs
    <2>3. fit(disk')
      BY <2>1, <2>2, SavesIs
    <2> QED
      BY <1>2, <2>1, <2>3, PlainIs, AskedSound
  <1>4. CASE Resume
    <2> PICK f : f = [h EXCEPT !.state = h.from, !.from = "waiting_ready", !.why = "none"]
      OBVIOUS
    <2>1. /\ h.state = "paused" /\ saves(f)
          /\ resumed' = IF h.from = "relaying" THEN resumed \cup {h.n} ELSE resumed
          /\ UNCHANGED <<memory, processes, relays, strays, disowned, reverted>>
      BY <1>4 DEF Resume
    <2>2. fit(f)
      BY <1>1, <2>1, ResumedIs
    <2>3. fit(disk')
      BY <2>1, <2>2, SavesIs
    <2>4. h.from = "relaying" => h.n \in Rounds
      BY <1>1, <2>1 DEF fit, stage
    <2>5. Histories'
      BY <2>1, <2>4 DEF Sound, Typed, Histories, memory
    <2>6. UNCHANGED <<tick, creating>> /\ Processes'
      BY <2>1 DEF memory, processes, Sound, Typed, Processes
    <2> QED
      BY <1>2, <2>3, <2>5, <2>6, AskedSound
  <1>5. CASE SetMode
    <2> PICK u \in BOOLEAN : u = ~h.manual
      OBVIOUS
    <2> PICK f : f = [h EXCEPT !.manual = u]
      OBVIOUS
    <2>1. saves(f) /\ plain
      BY <1>1, <1>5 DEF SetMode, fit, Flow
    <2>2. 0 \in 0 .. MaxRounds
      BY FlowAssumption
    <2>3. fit(f)
      BY <1>1, <2>2, SettingIs
    <2>4. fit(disk')
      BY <2>1, <2>3, SavesIs
    <2> QED
      BY <1>2, <2>1, <2>4, PlainIs, AskedSound
  <1>6. CASE AnotherRound
    <2> PICK f : f = [h EXCEPT !.state = "waiting_ready", !.why = "none"]
      OBVIOUS
    <2>1. saves(f) /\ plain
      BY <1>6 DEF AnotherRound
    <2>2. fit(f)
      BY <1>1, WaitingIs
    <2>3. fit(disk')
      BY <2>1, <2>2, SavesIs
    <2> QED
      BY <1>2, <2>1, <2>3, PlainIs, AskedSound
  <1> QED
    BY <1>3, <1>4, <1>5, <1>6

LEMMA AdvanceSound ==
  ASSUME Sound, Advance
  PROVE  Sound'
  <1> PICK h : h = disk
    OBVIOUS
  <1>1. fit(h)
    BY DEF Sound, Fit
  <1>2. Budgeted' /\ plain
    BY RequestIs DEF Advance, Sound, Typed
  <1>3. fit(disk')
    <2>1. CASE h.state = "waiting_ready" /\ h.n < MaxRounds /\ saves(withRound(h))
      BY <1>1, <2>1, WithRoundIs, SavesIs
    <2>2. CASE h.state = "spawn_pending" /\ saves([h EXCEPT !.state = "spawning", !.why = "none"])
      BY <1>1, <2>2, AdvancedIs, SavesIs
    <2>3. CASE h.state = "relay_pending" /\ saves([h EXCEPT !.state = "relaying", !.why = "none"])
      BY <1>1, <2>3, AdvancedIs, SavesIs
    <2> QED
      BY <2>1, <2>2, <2>3 DEF Advance
  <1> QED
    BY <1>2, <1>3, PlainIs, AskedSound

LEMMA RetrySound ==
  ASSUME Sound, RetryRound
  PROVE  Sound'
  <1> PICK h : h = disk
    OBVIOUS
  <1> PICK f : f = [h EXCEPT !.round = NewRound, !.why = "none",
                             !.state = IF h.manual THEN "spawn_pending" ELSE "spawning"]
    OBVIOUS
  <1>1. /\ request /\ h.n > 0 /\ forget(h) /\ clearArtifacts(h.n) /\ saves(f)
        /\ relays' = [relays EXCEPT ![h.n] = 0] /\ resumed' = resumed \ {h.n}
        /\ unpark /\ UNCHANGED <<tick, creating, relayed, strays, reverted>>
    BY DEF RetryRound
  <1>2. fit(h)
    BY DEF Sound, Fit
  <1>3. fit(f)
    BY <1>1, <1>2, RestartedIs
  <1>4. fit(disk')
    BY <1>1, <1>3, SavesIs
  <1>5. Processes'
    BY <1>1, ForgetIs, ClearsIs DEF Sound, Typed, Processes
  <1>6. relays' \in [Rounds -> 0 .. 2]
    <2> PICK n : n = h.n
      OBVIOUS
    <2>1. relays \in [Rounds -> 0 .. 2] /\ 0 \in 0 .. 2
      BY DEF Sound, Typed, Histories
    <2>2. relays' = [relays EXCEPT ![n] = 0]
      BY <1>1
    <2> QED
      BY <2>1, <2>2
  <1>7. Histories'
    BY <1>1, <1>6, UnparkIs DEF Sound, Typed, Histories
  <1> QED
    BY <1>1, <1>4, <1>5, <1>7, RequestIs, AskedSound DEF Sound, Typed

LEMMA LimitSound ==
  ASSUME Sound, Extend \/ \E raw \in 0 .. MaxRounds : SetRoundLimit(raw)
  PROVE  Sound'
  <1> PICK h : h = disk
    OBVIOUS
  <1>1. fit(h)
    BY DEF Sound, Fit
  <1>2. CASE Extend
    <2> PICK l : l = IF h.limit \in 1 .. MaxRounds - 1 THEN h.limit + 1 ELSE h.limit
      OBVIOUS
    <2>1. l \in 0 .. MaxRounds
      <3>1. h.limit \in 0 .. MaxRounds
        BY <1>1 DEF fit, Flow
      <3> QED
        BY <3>1, FlowAssumption
    <2> PICK w : w = [h EXCEPT !.limit = l]
      OBVIOUS
    <2>2. fit(w)
      BY <1>1, <2>1, SettingIs
    <2> PICK f : f = IF h.state = "needs_decision"
                       THEN [w EXCEPT !.state = "waiting_ready", !.why = "none"] ELSE w
      OBVIOUS
    <2>3. fit(f)
      BY <2>2, WaitingIs
    <2>4. /\ request /\ saves(f) /\ unpark
          /\ UNCHANGED <<memory, processes, relays, resumed, strays, reverted>>
      BY <1>2 DEF Extend
    <2>5. fit(disk')
      BY <2>3, <2>4, SavesIs
    <2>6. UNCHANGED <<tick, creating>> /\ Processes' /\ Histories'
      BY <2>4, UnparkIs DEF Sound, Typed, Histories, Processes, memory, processes
    <2> QED
      BY <2>4, <2>5, <2>6, RequestIs, AskedSound DEF Sound, Typed
  <1>3. CASE \E raw \in 0 .. MaxRounds : SetRoundLimit(raw)
    <2> PICK raw \in 0 .. MaxRounds : SetRoundLimit(raw)
      BY <1>3
    <2> PICK l : l = IF raw = 0 \/ raw >= h.n THEN raw ELSE h.n
      OBVIOUS
    <2>1. l \in 0 .. MaxRounds
      BY <1>1 DEF fit, Flow
    <2> PICK w : w = [h EXCEPT !.limit = l]
      OBVIOUS
    <2> PICK f : f = [h EXCEPT !.limit = l, !.state = "waiting_ready", !.why = "none"]
      OBVIOUS
    <2>2. fit(w)
      BY <1>1, <2>1, SettingIs
    <2>3. f = [w EXCEPT !.state = "waiting_ready", !.why = "none"]
      BY <1>1 DEF fit, Flow
    <2>4. fit(f)
      BY <2>2, <2>3, WaitingIs
    <2>5. request /\ plain /\ (saves(f) \/ saves(w))
      BY DEF SetRoundLimit
    <2>6. fit(disk')
      BY <2>2, <2>4, <2>5, SavesIs
    <2> QED
      BY <2>5, <2>6, RequestIs, PlainIs, AskedSound DEF Sound, Typed
  <1> QED
    BY <1>2, <1>3

LEMMA StopsSound ==
  ASSUME Sound, CancelRound \/ CloseFlow
  PROVE  Sound'
  <1> PICK h : h = disk
    OBVIOUS
  <1>1. fit(h)
    BY DEF Sound, Fit
  <1>2. request /\ UNCHANGED <<tick, creating, relayed, history>>
    BY DEF CancelRound, CloseFlow
  <1>3. Budgeted' /\ Histories'
    BY <1>2, RequestIs DEF Sound, Typed, Histories, history
  <1>4. Processes'
    <2>1. (forget(h) /\ UNCHANGED artifact) \/ unforgotten
      BY DEF CancelRound, CloseFlow
    <2> QED
      BY <2>1, ForgetIs, Unforgotten DEF Sound, Typed, Processes
  <1>5. fit(disk')
    <2> PICK g : g = disk'
      OBVIOUS
    <2>1. \/ g = parkError(h)
          \/ g = [h EXCEPT !.state = "closed", !.why = "none", !.round.error = TRUE]
          \/ g = [h EXCEPT !.state = "closed", !.why = "none"]
      BY DEF CancelRound, CloseFlow
    <2> QED
      BY <1>1, <2>1, ParkErrorIs, ClosedIs
  <1> QED
    BY <1>2, <1>3, <1>4, <1>5, AskedSound

LEMMA CreationSound ==
  ASSUME Sound, CreateFlow \/ KickoffDelivered
  PROVE  Sound'
  <1>1. CASE CreateFlow
    <2>1. /\ request /\ creating' = [on |-> TRUE, copy |-> disk]
          /\ UNCHANGED <<disk, tick, runs, relayed, processes, history>>
      BY <1>1 DEF CreateFlow
    <2>2. Created' /\ Stepped' /\ Processes' /\ Histories'
      BY <2>1 DEF Created, Sound, Typed, Stepped, Processes, Histories, processes, history
    <2>3. Fit'
      BY <2>1 DEF Sound, Fit
    <2>4. Based'
      BY <2>1 DEF Sound, Based, at
    <2> QED
      BY <2>1, <2>2, <2>3, <2>4, RequestIs DEF Sound, Typed
  <1>2. CASE KickoffDelivered
    <2>1. /\ creating' = None /\ disk' = creating.copy
          /\ reverted' = (reverted \/ disk # creating.copy)
          /\ UNCHANGED <<tick, runs, relayed, processes, relays, resumed, strays, disowned, budget>>
      BY <1>2 DEF KickoffDelivered
    <2>2. Created' /\ creating'.copy = NewFlow
      BY <2>1 DEF Created, None
    <2>3. PICK u \in BOOLEAN : u = (reverted \/ disk # creating.copy)
      OBVIOUS
    <2>4. Stepped' /\ Processes' /\ Histories' /\ Budgeted'
      BY <2>1, <2>3 DEF Sound, Typed, Stepped, Processes, Histories, Budgeted, processes
    <2>5. Fit'
      BY <2>1, <2>2, NewFlowFits DEF Sound, Fit
    <2>6. Based'
      BY <2>1 DEF Sound, Based, at
    <2> QED
      BY <2>2, <2>4, <2>5, <2>6 DEF Sound, Typed
  <1> QED
    BY <1>1, <1>2

LEMMA OutsideSound ==
  ASSUME Sound, ViewerRestarts \/ LeaseExpires \/ ReviewerStep
  PROVE  Sound'
  <1>1. CASE ViewerRestarts
    <2>1. /\ fault /\ tick' = Idle /\ creating' = None /\ relayed' = {}
          /\ runs' = [n \in Rounds |-> 0]
          /\ strays' = strays \cup {r \in Reviewers : running(r) /\ ~recorded(r)}
          /\ disowned' = disowned \cup orphan
          /\ UNCHANGED <<disk, processes, relays, resumed, reverted>>
      BY <1>1 DEF ViewerRestarts
    <2>2. Stepped' /\ tick'.pc = "idle" /\ tick'.flow = NewFlow /\ tick'.base = NewFlow
      BY <2>1, IdleIs
    <2>3. Created' /\ creating'.copy = NewFlow
      BY <2>1 DEF Created, None
    <2>4. Processes'
      <3>1. 0 \in 0 .. MaxReviewers
        BY FlowAssumption
      <3> QED
        BY <2>1, <3>1 DEF Sound, Typed, Processes, processes
    <2>5. orphan \subseteq Reviewers
      <3>1. at("spawned") => runs[tick.flow.n] \in 0 .. MaxReviewers
        <4> SUFFICES ASSUME at("spawned")
                     PROVE  runs[tick.flow.n] \in 0 .. MaxReviewers
          OBVIOUS
        <4>1. tick.flow.state = "reviewing" /\ fit(tick.flow)
          BY DEF Sound, Based, Fit
        <4>2. tick.flow.n \in Rounds
          BY <4>1 DEF fit, stage, Unsent, Early
        <4> QED
          BY <4>2 DEF Sound, Typed, Processes
      <3> QED
        BY <3>1, FlowAssumption DEF orphan, Reviewers
    <2>6. Histories'
      BY <2>1, <2>5 DEF Sound, Typed, Histories
    <2>7. Fit'
      BY <2>1, <2>2, <2>3, NewFlowFits DEF Sound, Fit
    <2>8. Based'
      BY <2>2, NewFlowFits DEF Based, at, Active
    <2> QED
      BY <2>1, <2>2, <2>3, <2>4, <2>6, <2>7, <2>8, FaultIs DEF Sound, Typed
  <1>2. CASE LeaseExpires
    <2> PICK h : h = disk
      OBVIOUS
    <2> PICK g : g = [h EXCEPT !.round.lease = FALSE]
      OBVIOUS
    <2>1. disk' = g /\ UNCHANGED <<memory, processes, history, budget>>
      BY <1>2 DEF LeaseExpires
    <2>2. fit(g)
      BY ExpiredIs DEF Sound, Fit
    <2>3. UNCHANGED <<tick, creating>> /\ Processes' /\ Histories' /\ Budgeted'
      BY <2>1 DEF Sound, Typed, Processes, Histories, Budgeted, memory, processes, history
    <2> QED
      BY <2>1, <2>2, <2>3, AskedSound
  <1>3. CASE ReviewerStep
    <2>1. UNCHANGED <<disk, memory, relays, resumed, strays, reverted, budget>>
      BY <1>3 DEF ReviewerStep, ReviewerExits, ReviewerConcludes, history
    <2> PICK r \in Reviewers :
          \/ ReviewerExits(r)
          \/ \E v \in Verdicts, written \in BOOLEAN : ReviewerConcludes(r, v, written)
      BY <1>3 DEF ReviewerStep
    <2>2. CASE ReviewerExits(r)
      <3>1. /\ reviewer' = [reviewer EXCEPT ![r].status = "gone"] /\ UNCHANGED artifact
            /\ UNCHANGED <<memory, history>>
        BY <2>2 DEF ReviewerExits
      <3>2. reviewer' \in [Reviewers -> Process]
        BY <3>1 DEF Sound, Typed, Processes, Process
      <3>3. Processes' /\ Histories'
        BY <3>1, <3>2 DEF Sound, Typed, Processes, Histories, memory, history
      <3> QED
        BY <2>1, <3>3, AskedSound DEF Sound, Typed, Fit, memory, Budgeted
    <2>3. CASE \E v \in Verdicts, written \in BOOLEAN : ReviewerConcludes(r, v, written)
      <3> PICK v \in Verdicts, written \in BOOLEAN : ReviewerConcludes(r, v, written)
        BY <2>3
      <3>1. /\ reviewer' = [reviewer EXCEPT ![r].status = "gone", ![r].said = v]
            /\ artifact' = IF written THEN [artifact EXCEPT ![reviewer[r].round] = v] ELSE artifact
            /\ disowned' = IF written THEN disowned \cup misread(r) ELSE disowned
        BY DEF ReviewerConcludes
      <3>2. reviewer' \in [Reviewers -> Process]
        BY <3>1 DEF Sound, Typed, Processes, Process
      <3>3. artifact' \in [Rounds -> Verdicts \cup {"none"}]
        BY <3>1 DEF Sound, Typed, Processes
      <3>4. disowned' \subseteq Reviewers
        BY <3>1 DEF misread, Sound, Typed, Histories
      <3>5. Processes' /\ Histories'
        BY <2>1, <3>2, <3>3, <3>4 DEF Sound, Typed, Processes, Histories, memory
      <3> QED
        BY <2>1, <3>5, AskedSound DEF Sound, Typed, Fit, memory, Budgeted
    <2> QED
      BY <2>2, <2>3
  <1> QED
    BY <1>1, <1>2, <1>3

LEMMA SoundKept ==
  ASSUME Sound, [Next]_vars
  PROVE  Sound'
  <1>1. CASE UNCHANGED vars
    BY <1>1 DEF vars, memory, processes, history, Sound, Typed, Stepped, Created, Processes,
                Histories, Budgeted, Fit, Based, at
  <1>2. CASE TickStep
    <2>1. CASE \E r \in Reviewers, ident \in BOOLEAN : StartHeadlessReview(r, ident)
      BY <2>1, StartSound
    <2>2. CASE ~\E r \in Reviewers, ident \in BOOLEAN : StartHeadlessReview(r, ident)
      BY <1>2, <2>2, EndsSound, NothingSound, AdoptSound, ReserveSound, ReuseSound, PersistSound,
         ReviewSound, RelaySound DEF TickStep
    <2> QED
      BY <2>1, <2>2
  <1>3. CASE TickStarts \/ MarkerSeen \/ ImplementerMissing \/ LaunchFails \/ RelayFails
    BY <1>3, StartsSound, MarkerSound, MissingSound, LaunchFailsSound, RelaySound
  <1>4. CASE Operator
    BY <1>4, PauseSound, AdvanceSound, RetrySound, LimitSound, StopsSound DEF Operator
  <1>5. CASE ViewerRestarts \/ LeaseExpires \/ CreateFlow \/ KickoffDelivered \/ ReviewerStep
    BY <1>5, OutsideSound, CreationSound
  <1> QED
    BY <1>1, <1>2, <1>3, <1>4, <1>5 DEF Next

LEMMA InitSound ==
  ASSUME Init
  PROVE  Sound
  <1>1. /\ disk.state = "waiting_ready" /\ disk.from = "waiting_ready" /\ disk.why = "none"
        /\ disk.n = 0 /\ disk.round = NewRound /\ disk \in Flow
    <2>1. disk \in [state : {"waiting_ready"}, from : {"waiting_ready"}, why : {"none"},
                    manual : Manual, limit : Limits, n : {0}, round : {NewRound}]
      BY DEF Init
    <2>2. Manual \subseteq BOOLEAN /\ Limits \subseteq 0 .. MaxRounds /\ 0 \in 0 .. MaxRounds
      BY FlowAssumption
    <2> QED
      BY <2>1, <2>2, NewRoundIs DEF Flow, States, Active
  <1>2. fit(disk)
    <2> PICK q : q = NewRound
      OBVIOUS
    <2>1. /\ q.pid = 0 /\ q.started = FALSE /\ q.error = FALSE /\ q.verdict = "none"
          /\ q.relayed = FALSE /\ disk.round = q
      BY <1>1, NewRoundIs
    <2> QED
      BY <1>1, <2>1 DEF fit, stage, Unsent, Early
  <1>3. tick = Idle /\ creating = None
    BY DEF Init
  <1>4. /\ Stepped /\ tick.pc = "idle" /\ tick.flow = NewFlow /\ tick.base = NewFlow
        /\ Created /\ creating.copy = NewFlow
    BY <1>3 DEF Stepped, Created, Idle, None, Pcs
  <1>5. Fit /\ Based
    BY <1>2, <1>4, NewFlowFits DEF Fit, Based, at, Active
  <1>6. Processes
    <2>1. /\ runs = [n \in Rounds |-> 0]
          /\ reviewer = [r \in Reviewers |-> [status |-> "none", round |-> 1, said |-> "none"]]
          /\ artifact = [n \in Rounds |-> "none"]
      BY DEF Init
    <2>2. 0 \in 0 .. MaxReviewers /\ 1 \in Rounds
      BY FlowAssumption DEF Rounds
    <2> QED
      BY <2>1, <2>2 DEF Processes, Process
  <1>7. Histories
    <2>1. /\ relayed = {} /\ relays = [n \in Rounds |-> 0] /\ resumed = {} /\ strays = {}
          /\ disowned = {} /\ reverted = FALSE
      BY DEF Init
    <2>2. relays \in [Rounds -> 0 .. 2]
      BY <2>1
    <2> QED
      BY <2>1, <2>2 DEF Histories
  <1>8. Budgeted
    BY FlowAssumption DEF Init, Budgeted
  <1> QED
    BY <1>4, <1>5, <1>6, <1>7, <1>8 DEF Sound, Typed

LEMMA SoundAlways ==
  Spec => []Sound
  BY InitSound, SoundKept, PTL DEF Spec

(* Every variable keeps its type; a round, a pid and a verdict appear only  *)
(* where the code puts them.                                                *)
THEOREM TypesAlways ==
  Spec => []TypeOK
  <1>1. Sound => TypeOK
    BY DEF Sound, Typed, Fit, fit, Stepped, Created, Processes, Process, Histories, Budgeted,
           TypeOK, Pcs
  <1> QED
    BY <1>1, SoundAlways, PTL

---------------------------------------------------------------------------
(* A close is final.                                                        *)
LEMMA TickLeavesClosed ==
  ASSUME Based, disk.state = "closed", NEW f
  PROVE  merge(f, tick.base) = disk /\ abandoned(disk) = disk
  BY DEF Based, Active, merge, takenOver, abandoned

LEMMA SavesClosed ==
  ASSUME NEW f, fit(f), f.state = "closed", saves(f)
  PROVE  disk'.state = "closed"
  BY DEF saves

LEMMA ClosedKept ==
  ASSUME Sound, Next, disk.state = "closed", ~KickoffDelivered
  PROVE  disk'.state = "closed"
  <1> PICK h : h = disk
    OBVIOUS
  <1>1. fit(h) /\ h.state = "closed" /\ Based
    BY DEF Sound, Fit
  <1>2. ASSUME NEW f, yields(f) PROVE disk'.state = "closed"
    BY <1>1, <1>2, TickLeavesClosed DEF yields
  <1>3. CASE TickStep \/ TickStarts \/ MarkerSeen \/ ImplementerMissing \/ LaunchFails \/ RelayFails
    <2>1. \/ UNCHANGED disk
          \/ \E f : yields(f) \/ disk' = merge(f, tick.base) \/ disk' = abandoned(merge(f, tick.base))
      BY <1>3 DEF TickStep, TickStarts, MarkerSeen, ImplementerMissing, LaunchFails, RelayFails,
           TickEnds, NothingToDo, AwaitLease, AdoptLaunch, ReserveReviewer, ReuseChild,
           PersistLaunch, StartHeadlessReview, ReviewerRuns, ReviewerLost, VerdictFound,
           ReviewerSilent, RelayInterrupted, StartRelay, Delivered, FinishRelay, continues
    <2> QED
      BY <1>1, <1>2, <2>1, TickLeavesClosed
  <1>4. CASE Operator
    <2>1. CASE Pause \/ Resume \/ Advance \/ RetryRound \/ AnotherRound \/ CancelRound \/ CloseFlow
      BY <1>1, <2>1 DEF Pause, Resume, Advance, RetryRound, AnotherRound, CancelRound, CloseFlow
    <2>2. CASE SetMode
      <3>1. PICK u \in BOOLEAN : saves([h EXCEPT !.manual = u])
        BY <1>1, <2>2 DEF SetMode, fit, Flow
      <3>2. [h EXCEPT !.manual = u].state = "closed"
        BY <1>1 DEF fit, Flow
      <3> QED
        BY <3>1, <3>2 DEF saves
    <2>3. CASE Extend
      <3>1. PICK l : saves([h EXCEPT !.limit = l])
        BY <1>1, <2>3 DEF Extend
      <3>2. [h EXCEPT !.limit = l].state = "closed"
        BY <1>1 DEF fit, Flow
      <3> QED
        BY <3>1, <3>2 DEF saves
    <2>4. CASE \E raw \in 0 .. MaxRounds : SetRoundLimit(raw)
      <3>1. PICK l : saves([h EXCEPT !.limit = l])
        BY <1>1, <2>4 DEF SetRoundLimit
      <3>2. [h EXCEPT !.limit = l].state = "closed"
        BY <1>1 DEF fit, Flow
      <3> QED
        BY <3>1, <3>2 DEF saves
    <2> QED
      BY <1>4, <2>1, <2>2, <2>3, <2>4 DEF Operator
  <1>5. CASE ViewerRestarts \/ CreateFlow \/ ReviewerStep
    BY <1>5 DEF ViewerRestarts, CreateFlow, ReviewerStep, ReviewerExits, ReviewerConcludes
  <1>6. CASE LeaseExpires
    BY <1>1, <1>6 DEF LeaseExpires, fit, Flow
  <1> QED
    BY <1>3, <1>4, <1>5, <1>6 DEF Next

(* No poll, request or restart reopens a closed flow, whatever copy of it   *)
(* they were working on; only the second save of a creation of another flow *)
(* can.                                                                     *)
THEOREM CloseIsFinal ==
  Spec => OnlyRevertReopens
  <1>1. Sound /\ [Next]_vars
          => [disk.state = "closed" /\ disk'.state # "closed" => KickoffDelivered]_vars
    BY ClosedKept
  <1> QED
    BY <1>1, SoundAlways, PTL DEF Spec, OnlyRevertReopens

---------------------------------------------------------------------------
(* Findings are relayed once.                                               *)
fewerTold == \A n \in Rounds : told(n)' => told(n)

LEMMA SettledKept ==
  ASSUME NEW f, settled(f), fewerTold
  PROVE  settled(f)'
  BY DEF settled, fewerTold, told

LEMMA SettledTwin ==
  ASSUME NEW f, settled(f), NEW g, twin(g, f)
  PROVE  settled(g)
  BY DEF settled, twin, sameRound

LEMMA SameTold ==
  ASSUME UNCHANGED <<relays, resumed>>
  PROVE  fewerTold
  BY DEF fewerTold, told

LEMMA UntoldWhenUnsent ==
  ASSUME NEW f, settled(f), stage(f) \in Unsent
  PROVE  ~told(f.n)
  BY DEF settled

LEMMA YieldsRelayed ==
  ASSUME Sound, Relayed, NEW f, fit(f), yields(f), UNCHANGED <<relays, resumed, relayed, reverted>>,
         ~reverted => settled(f),
         ~reverted => \A n \in Rounds : told(n) => n <= f.n,
         ~reverted /\ f.state = "relaying" => ~told(f.n) /\ ~midRelay
  PROVE  Relayed'
  <1> SUFFICES ASSUME ~reverted PROVE Sent'
    BY DEF Relayed
  <1> PICK g : g = disk'
    OBVIOUS
  <1>1. /\ merged(g, f) /\ tick'.pc \in {"idle", "rest"} /\ (tick'.pc = "rest" => tick'.flow = f)
    BY YieldsIs DEF Sound, Typed
  <1>2. Sent /\ fewerTold
    BY SameTold DEF Relayed
  <1>3. settled(g) /\ settled(f) /\ (g.n = disk.n \/ g.n = f.n)
    BY <1>1, <1>2, SettledTwin DEF merged, Sent, twin, sameRound
  <1>4. settled(g)' /\ settled(f)'
    BY <1>2, <1>3, SettledKept
  <1>5. settled(disk)' /\ (~at("idle") => settled(tick.flow))'
    BY <1>1, <1>4 DEF settled, told, stage, at
  <1>6. Relaying'
    BY <1>1, <1>2 DEF Relaying, at, midRelay, told
  <1>7. (\A n \in Rounds : told(n) => n <= disk.n /\ (~at("idle") => n <= tick.flow.n))'
    BY <1>1, <1>2, <1>3 DEF Sent, told, at
  <1>8. (told(disk.n) /\ disk.state = "relaying" /\ ~midRelay => disk.n \notin relayed)'
    <2> SUFFICES ASSUME told(g.n), g.state = "relaying" PROVE g.n \notin relayed
      BY DEF told
    <2>1. g = disk
      BY <1>1 DEF merged, twin, sameRound
    <2>2. CASE midRelay
      <3>1. /\ tick.base.state = "relaying" /\ disk.n = tick.base.n
        BY <1>2, <2>2 DEF Sound, Based, Sent, Relaying, midRelay
      <3>2. ~takenOver(tick.base)
        BY <2>1, <3>1 DEF takenOver
      <3>3. f # tick.base
        BY <2>2, <3>1
      <3> QED
        BY <1>1, <2>1, <2>2, <3>2, <3>3 DEF merged, twin
    <2> QED
      BY <1>2, <2>1, <2>2 DEF Sent
  <1> QED
    BY <1>1, <1>5, <1>6, <1>7, <1>8 DEF Sent, at

LEMMA IdleRelayed ==
  ASSUME Sound, Relayed, tick' = Idle, UNCHANGED <<disk, relays, resumed, reverted>>,
         relayed' \subseteq relayed, ~midRelay \/ relayed' = {}
  PROVE  Relayed'
  <1> SUFFICES ASSUME ~reverted PROVE Sent'
    BY DEF Relayed
  <1>1. Sent /\ tick'.pc = "idle"
    BY IdleIs DEF Relayed
  <1> QED
    BY <1>1 DEF Sent, Relaying, settled, told, at, midRelay

LEMMA StartsRelayed ==
  ASSUME Sound, Relayed, TickStarts
  PROVE  Relayed'
  <1> SUFFICES ASSUME ~reverted PROVE Sent'
    BY DEF Relayed, TickStarts, history
  <1>1. /\ at("idle") /\ disk.state \in Active /\ tick' = [pc |-> "begun", base |-> disk, flow |-> disk]
        /\ UNCHANGED <<disk, relays, resumed, relayed>>
    BY DEF TickStarts, history
  <1>2. Sent
    BY DEF Relayed, TickStarts, history
  <1>3. tick'.pc = "begun" /\ tick'.base = disk /\ tick'.flow = disk
    BY <1>1
  <1>4. stage(disk) = disk.state
    BY <1>1 DEF stage, Active
  <1>5. settled(disk)' /\ settled(tick.flow)'
    BY <1>1, <1>2, <1>3 DEF Sent, settled, told, stage
  <1>6. Relaying'
    BY <1>1, <1>3, <1>4 DEF Relaying, at, midRelay, stage
  <1> QED
    BY <1>1, <1>2, <1>3, <1>5, <1>6 DEF Sent, at, midRelay, told

(* The flow the poller works on when its poll began.                        *)
LEMMA BegunSettled ==
  ASSUME Sound, Relayed, ~at("idle"), ~reverted
  PROVE  /\ settled(tick.flow) /\ settled(disk)
         /\ \A n \in Rounds : told(n) => n <= tick.flow.n /\ n <= disk.n
  BY DEF Relayed, Sent

LEMMA TurnRelayed ==
  ASSUME Sound, Relayed,
         ImplementerMissing \/ NothingToDo \/ AwaitLease \/ MarkerSeen \/ AdoptLaunch \/ LaunchFails
  PROVE  Relayed'
  <1> PICK h : h = tick.flow
    OBVIOUS
  <1>1. UNCHANGED <<relays, resumed, relayed, reverted>> /\ ~midRelay
    BY DEF ImplementerMissing, NothingToDo, AwaitLease, MarkerSeen, AdoptLaunch, LaunchFails, calm,
           history, at, midRelay, turn
  <1>2. fit(h) /\ ~at("idle")
    BY DEF ImplementerMissing, NothingToDo, AwaitLease, MarkerSeen, AdoptLaunch, LaunchFails,
           at, turn, Sound, Fit
  <1>3. ~reverted => settled(h) /\ \A n \in Rounds : told(n) => n <= h.n
    BY <1>2, BegunSettled
  <1>4. CASE NothingToDo \/ AwaitLease
    BY <1>1, <1>4, IdleRelayed DEF NothingToDo, AwaitLease
  <1>5. CASE ImplementerMissing
    <2> PICK f : f = [h EXCEPT !.state = "paused", !.from = h.state, !.why = "other"]
      OBVIOUS
    <2>1. at("begun") /\ yields(f)
      BY <1>5 DEF ImplementerMissing
    <2>2. h.state \notin {"paused", "closed"} /\ stage(h) = h.state
      BY <2>1, BegunIs DEF Active
    <2>3. fit(f) /\ f.state = "paused" /\ stage(f) = h.state /\ sameRound(f, h)
      BY <1>2, <2>2, PausedIs
    <2>4. ~reverted => settled(f) /\ \A n \in Rounds : told(n) => n <= f.n
      BY <1>3, <2>2, <2>3 DEF settled, sameRound
    <2> QED
      BY <1>1, <2>1, <2>3, <2>4, YieldsRelayed
  <1>6. CASE MarkerSeen
    <2> PICK f : f = withRound(h)
      OBVIOUS
    <2>1. at("begun") /\ h.n < MaxRounds /\ yields(f)
      BY <1>6 DEF MarkerSeen, turn
    <2>2. fit(f) /\ f.state \in {"spawning", "spawn_pending"} /\ f.n = h.n + 1
      BY <1>2, <2>1, WithRoundIs
    <2>3. h.n \in Nat
      BY <1>2, FlowAssumption DEF fit, Flow
    <2>4. ~reverted => \A n \in Rounds : told(n) => n <= f.n /\ n # f.n
      BY <1>3, <2>2, <2>3, FlowAssumption DEF Rounds
    <2>5. ~reverted => settled(f) /\ ~told(f.n)
      BY <2>4 DEF settled, told
    <2> QED
      BY <1>1, <2>1, <2>2, <2>4, <2>5, YieldsRelayed
  <1>7. CASE AdoptLaunch
    <2> PICK f : f = IF status(h) = "lost" THEN park(h, "other")
                     ELSE [h EXCEPT !.state = "reviewing", !.why = "none"]
      OBVIOUS
    <2>1. at("begun") /\ h.state = "spawning" /\ yields(f)
      BY <1>7 DEF AdoptLaunch, turn
    <2>2. fit(f) /\ sameRound(f, h) /\ f.state \in {"needs_decision", "reviewing"}
      <3>1. f = park(h, "other") \/ f = [h EXCEPT !.state = "reviewing", !.why = "none"]
        OBVIOUS
      <3>2. CASE f = park(h, "other")
        BY <1>2, <3>2, ParkIs
      <3>3. CASE f = [h EXCEPT !.state = "reviewing", !.why = "none"]
        BY <1>2, <2>1, <3>3, ReviewingIs
      <3> QED
        BY <3>1, <3>2, <3>3
    <2>3. ~reverted => ~told(h.n)
      BY <1>3, <2>1 DEF settled, stage, Unsent, Early
    <2>4. ~reverted => settled(f) /\ ~told(f.n) /\ \A n \in Rounds : told(n) => n <= f.n
      BY <1>3, <2>2, <2>3 DEF settled, sameRound
    <2> QED
      BY <1>1, <2>1, <2>2, <2>4, YieldsRelayed
  <1>8. CASE LaunchFails
    <2> PICK f : f = parkError(h)
      OBVIOUS
    <2>1. yields(f)
      BY <1>8 DEF LaunchFails
    <2>2. fit(f) /\ sameRound(f, h) /\ f.state = "needs_decision"
      BY <1>2, ParkErrorIs
    <2>3. ~reverted => settled(f) /\ \A n \in Rounds : told(n) => n <= f.n
      BY <1>3, <2>2 DEF settled, sameRound, stage, Unsent, Early
    <2> QED
      BY <1>1, <2>1, <2>2, <2>3, YieldsRelayed
  <1> QED
    BY <1>4, <1>5, <1>6, <1>7, <1>8

LEMMA EndsRelayed ==
  ASSUME Sound, Relayed, TickEnds
  PROVE  Relayed'
  <1> SUFFICES ASSUME ~reverted PROVE Sent'
    BY DEF Relayed, TickEnds, history
  <1> PICK f : f = tick.flow
    OBVIOUS
  <1> PICK g : g = disk'
    OBVIOUS
  <1>1. /\ at("rest") /\ tick' = Idle /\ g = merge(f, tick.base)
        /\ UNCHANGED <<relays, resumed, relayed, reverted>>
    BY DEF TickEnds, history
  <1>2. tick'.pc = "idle"
    BY <1>1, IdleIs
  <1>3. Sent /\ fewerTold /\ fit(f) /\ fit(disk)
    BY <1>1, SameTold DEF Relayed, Sound, Fit
  <1>4. g = disk \/ twin(g, f)
    BY <1>1, <1>3, MergeIs
  <1>5. settled(f) /\ settled(disk) /\ (f.state = "relaying" => ~told(f.n))
    BY <1>1, <1>3 DEF Sent, at, Relaying
  <1>6. settled(g)'
    BY <1>3, <1>4, <1>5, SettledTwin, SettledKept
  <1>7. settled(disk)'
    BY <1>6 DEF settled, told, stage
  <1>8. (told(disk.n) /\ disk.state = "relaying" /\ ~midRelay => disk.n \notin relayed)'
    BY <1>1, <1>3, <1>4, <1>5 DEF Sent, told, at, midRelay, twin, sameRound
  <1>9. \A n \in Rounds : told(n)' => n <= g.n
    BY <1>1, <1>3, <1>4 DEF Sent, told, at, twin, sameRound
  <1> QED
    BY <1>2, <1>7, <1>8, <1>9 DEF Sent, at, Relaying, midRelay

(* The poller goes from a reserved launch to its reviewer.                  *)
LEMMA LaunchRelayed ==
  ASSUME Sound, Relayed, NEW f, fit(f), stage(f) \in Unsent,
         ~at("idle"), ~midRelay, ~reverted => ~told(f.n) /\ f.n = tick.flow.n,
         tick'.flow = f, tick'.pc \in {"launch", "spawned", "rest"},
         UNCHANGED <<relays, resumed, relayed, reverted>>,
         NEW d, d = disk \/ twin(d, f), NEW g, g = disk',
         g.n = d.n, g.state = d.state, stage(g) = stage(d), g.round.relaying = d.round.relaying
  PROVE  Relayed'
  <1> SUFFICES ASSUME ~reverted PROVE Sent'
    BY DEF Relayed
  <1>1. Sent /\ fewerTold /\ ~told(f.n) /\ settled(f)
    BY SameTold DEF Relayed, settled
  <1>2. settled(d) /\ (d.state = "relaying" => d = disk) /\ (d.n = disk.n \/ d.n = f.n)
    BY <1>1, SettledTwin DEF Sent, twin, sameRound, stage, Unsent, Early
  <1>3. settled(g)
    BY <1>2 DEF settled
  <1>4. settled(g)' /\ settled(f)'
    BY <1>1, <1>3, SettledKept
  <1>5. settled(disk)' /\ settled(tick.flow)'
    BY <1>4 DEF settled, told, stage
  <1>6. f.state # "relaying"
    BY DEF stage, Unsent, Early
  <1>7. Relaying'
    BY <1>6 DEF Relaying, at, midRelay
  <1>8. (\A n \in Rounds : told(n) => n <= disk.n /\ (~at("idle") => n <= tick.flow.n))'
    BY <1>1, <1>2 DEF Sent, told, at
  <1>9. (told(disk.n) /\ disk.state = "relaying" /\ ~midRelay => disk.n \notin relayed)'
    BY <1>1, <1>2 DEF Sent, told, at, midRelay
  <1> QED
    BY <1>5, <1>7, <1>8, <1>9 DEF Sent, at

LEMMA SpawnRelayed ==
  ASSUME Sound, Relayed, ReserveReviewer \/ ReuseChild
           \/ \E r \in Reviewers, ident \in BOOLEAN : StartHeadlessReview(r, ident)
  PROVE  Relayed'
  <1> PICK h : h = tick.flow
    OBVIOUS
  <1> PICK g : g = disk'
    OBVIOUS
  <1>1. /\ at("begun") \/ at("launch")
        /\ UNCHANGED <<relays, resumed, relayed, reverted>> /\ h.state = "spawning"
    BY DEF ReserveReviewer, ReuseChild, StartHeadlessReview, calm, history, turn, Sound, Based
  <1>2. ~at("idle") /\ ~midRelay /\ fit(h)
    BY <1>1 DEF at, midRelay, Sound, Fit
  <1>3. ~reverted => ~told(h.n)
    BY <1>1, <1>2, BegunSettled DEF settled, stage, Unsent, Early
  <1>4. CASE ReserveReviewer
    <2> PICK f : f = [h EXCEPT !.round.started = TRUE, !.round.lease = TRUE]
      OBVIOUS
    <2>1. fit(f) /\ f.state = "spawning" /\ f.n = h.n
      BY <1>1, <1>2, ReservedIs
    <2>2. continues("launch", f) /\ "launch" \in Pcs
      BY <1>4 DEF ReserveReviewer, Pcs
    <2>3. merged(g, f) /\ tick'.pc = "launch" /\ tick'.flow = f
      BY <2>1, <2>2, ContinuesIs DEF Sound, Typed
    <2>4. stage(f) \in Unsent
      BY <2>1 DEF stage, Unsent, Early
    <2>5. g = disk \/ twin(g, f)
      BY <2>3 DEF merged
    <2> QED
      BY <1>1, <1>2, <1>3, <2>1, <2>3, <2>4, <2>5, LaunchRelayed
  <1>5. CASE ReuseChild
    <2> PICK f : f = [h EXCEPT !.state = "reviewing", !.why = "none"]
      OBVIOUS
    <2>1. fit(f) /\ f.state = "reviewing" /\ sameRound(f, h)
      BY <1>1, <1>2, ReviewingIs
    <2>2. tick' = [tick EXCEPT !.pc = "spawned", !.flow = f] /\ "spawned" \in Pcs /\ g = disk
      BY <1>5 DEF ReuseChild, Sound, Typed, Stepped, Pcs
    <2>3. tick'.pc = "spawned" /\ tick'.flow = f
      BY <2>2, TickIs DEF Sound, Typed
    <2>4. stage(f) \in Unsent /\ f.n = h.n
      BY <2>1 DEF stage, Unsent, Early, sameRound
    <2> QED
      BY <1>1, <1>2, <1>3, <2>1, <2>2, <2>3, <2>4, LaunchRelayed
  <1>6. CASE \E r \in Reviewers, ident \in BOOLEAN : StartHeadlessReview(r, ident)
    <2> PICK r \in Reviewers, ident \in BOOLEAN : StartHeadlessReview(r, ident)
      BY <1>6
    <2> PICK f : f = launched(h, r, ident)
      OBVIOUS
    <2>1. at("launch") /\ tick' = [tick EXCEPT !.pc = "spawned", !.flow = f] /\ g = disk
      BY DEF StartHeadlessReview
    <2>2. "spawned" \in Pcs /\ h.round.started
      BY <2>1 DEF Pcs, Sound, Based
    <2>3. fit(f) /\ f.state = "reviewing" /\ f.n = h.n
      BY <1>1, <1>2, <2>2, LaunchedIs
    <2>4. tick'.pc = "spawned" /\ tick'.flow = f
      BY <2>1, <2>2, TickIs DEF Sound, Typed
    <2>5. stage(f) \in Unsent
      BY <2>3 DEF stage, Unsent, Early
    <2> QED
      BY <1>1, <1>2, <1>3, <2>1, <2>3, <2>4, <2>5, LaunchRelayed
  <1> QED
    BY <1>4, <1>5, <1>6

LEMMA PersistRelayed ==
  ASSUME Sound, Relayed, PersistLaunch
  PROVE  Relayed'
  <1> PICK f : f = tick.flow
    OBVIOUS
  <1> PICK d : d = merge(f, tick.base)
    OBVIOUS
  <1> PICK g : g = disk'
    OBVIOUS
  <1>1. /\ at("spawned") /\ tick' = [tick EXCEPT !.pc = "rest"] /\ (g = d \/ g = abandoned(d))
        /\ UNCHANGED <<relays, resumed, relayed, reverted>>
    BY DEF PersistLaunch, calm, history
  <1>2. fit(f) /\ f.state = "reviewing" /\ fit(disk) /\ "rest" \in Pcs
    BY <1>1 DEF Sound, Fit, Based, Pcs
  <1>3. stage(f) \in Unsent /\ ~at("idle") /\ ~midRelay
    BY <1>1, <1>2 DEF stage, Unsent, Early, at, midRelay
  <1>4. ~reverted => ~told(f.n)
    BY <1>3, BegunSettled DEF settled
  <1>5. tick'.pc = "rest" /\ tick'.flow = f
    BY <1>1, <1>2, TickGoes DEF Sound, Typed
  <1>6. fit(d) /\ (d = disk \/ twin(d, f))
    BY <1>2, MergeIs
  <1>7. g.n = d.n /\ g.state = d.state /\ stage(g) = stage(d) /\ g.round.relaying = d.round.relaying
    BY <1>1, <1>6, AbandonedIs
  <1> QED
    BY <1>1, <1>2, <1>3, <1>4, <1>5, <1>6, <1>7, LaunchRelayed

LEMMA ReviewRelayed ==
  ASSUME Sound, Relayed, ReviewerRuns \/ ReviewerLost \/ VerdictFound \/ ReviewerSilent
  PROVE  Relayed'
  <1> PICK h : h = tick.flow
    OBVIOUS
  <1>1. at("begun") /\ h.state = "reviewing" /\ UNCHANGED <<relays, resumed, relayed, reverted>>
    BY DEF ReviewerRuns, ReviewerLost, VerdictFound, ReviewerSilent, turn, calm, history
  <1>2. fit(h) /\ h.n \in Rounds /\ ~at("idle") /\ ~midRelay
    BY <1>1, BegunIs DEF fit, stage, Unsent, Early, at, midRelay
  <1>3. spoken(h) \in Verdicts \cup {"none"} /\ review(h) \in Verdicts \cup {"none"}
    BY <1>2, SpokenIs DEF Sound, Typed
  <1>4. ~reverted => ~told(h.n) /\ \A n \in Rounds : told(n) => n <= h.n
    BY <1>1, <1>2, BegunSettled DEF settled, stage, Unsent, Early
  <1>5. ASSUME NEW f, fit(f), f.n = h.n, yields(f)
        PROVE  Relayed'
    <2>1. ~reverted => settled(f) /\ ~told(f.n) /\ \A n \in Rounds : told(n) => n <= f.n
      BY <1>4, <1>5 DEF settled
    <2> QED
      BY <1>1, <1>2, <1>5, <2>1, YieldsRelayed
  <1>6. CASE ReviewerRuns
    <2> PICK f : f = identified(h)
      OBVIOUS
    <2>1. yields(f)
      BY <1>6 DEF ReviewerRuns
    <2>2. fit(f) /\ f.n = h.n
      BY <1>2, IdentifiedIs
    <2> QED
      BY <1>5, <2>1, <2>2
  <1>7. ASSUME NEW f, NEW v \in Verdicts \cup {"none"}, yields(f),
               f = applyVerdict(h, v) \/ f = park(h, "other") \/ f = parkError(h)
        PROVE  Relayed'
    <2>1. fit(f) /\ sameRound(f, h)
      <3>1. CASE f = applyVerdict(h, v)
        BY <1>1, <1>2, <3>1, VerdictIs
      <3>2. CASE f = park(h, "other")
        BY <1>2, <3>2, ParkIs
      <3>3. CASE f = parkError(h)
        BY <1>2, <3>3, ParkErrorIs
      <3> QED
        BY <1>7, <3>1, <3>2, <3>3
    <2> QED
      BY <1>5, <1>7, <2>1 DEF sameRound
  <1>8. CASE ReviewerLost
    <2>1. \/ tick' = Idle /\ UNCHANGED disk
          \/ yields(applyVerdict(h, spoken(h))) \/ yields(park(h, "other"))
      BY <1>8 DEF ReviewerLost
    <2>2. CASE tick' = Idle /\ UNCHANGED disk
      BY <1>1, <1>2, <2>2, IdleRelayed
    <2>3. CASE yields(applyVerdict(h, spoken(h)))
      <3> PICK f : f = applyVerdict(h, spoken(h))
        OBVIOUS
      <3> QED
        BY <1>3, <1>7, <2>3
    <2>4. CASE yields(park(h, "other"))
      <3> PICK f : f = park(h, "other")
        OBVIOUS
      <3> QED
        BY <1>3, <1>7, <2>4
    <2> QED
      BY <2>1, <2>2, <2>3, <2>4
  <1>9. CASE VerdictFound
    <2> PICK f : f = applyVerdict(h, review(h))
      OBVIOUS
    <2>1. yields(f)
      BY <1>9 DEF VerdictFound
    <2> QED
      BY <1>3, <1>7, <2>1
  <1>10. CASE ReviewerSilent
    <2>1. (retryLeft(h) /\ yields(retryRound(h))) \/ yields(parkError(h))
      BY <1>10 DEF ReviewerSilent
    <2>2. CASE retryLeft(h) /\ yields(retryRound(h))
      <3> PICK f : f = retryRound(h)
        OBVIOUS
      <3>1. fit(f) /\ f.n = h.n
        BY <1>1, <1>2, <2>2, RetryRoundIs
      <3> QED
        BY <1>5, <2>2, <3>1
    <2>3. CASE yields(parkError(h))
      <3> PICK f : f = parkError(h)
        OBVIOUS
      <3> QED
        BY <1>3, <1>7, <2>3
    <2> QED
      BY <2>1, <2>2, <2>3
  <1> QED
    BY <1>6, <1>8, <1>9, <1>10

LEMMA InterruptedRelayed ==
  ASSUME Sound, Relayed, RelayInterrupted
  PROVE  Relayed'
  <1> PICK h : h = tick.flow
    OBVIOUS
  <1> PICK f : f = park(h, "other")
    OBVIOUS
  <1>1. at("begun") /\ h.state = "relaying" /\ yields(f)
        /\ UNCHANGED <<relays, resumed, relayed, reverted>>
    BY DEF RelayInterrupted, turn, calm, history
  <1>2. fit(h) /\ ~at("idle")
    BY <1>1, BegunIs DEF at
  <1>3. fit(f) /\ sameRound(f, h) /\ f.state = "needs_decision"
    BY <1>2, ParkIs
  <1>4. ~reverted => settled(f) /\ \A n \in Rounds : told(n) => n <= f.n
    BY <1>2, <1>3, BegunSettled DEF settled, sameRound, stage, Unsent, Early
  <1> QED
    BY <1>1, <1>3, <1>4, YieldsRelayed

(* Only a round whose findings were not sent, or whose relay was resumed,   *)
(* starts a relay.                                                          *)
LEMMA StartsUntold ==
  ASSUME Sound, Relayed, ~reverted, StartRelay
  PROVE  ~told(tick.flow.n)
  <1>1. at("begun") /\ tick.flow.state = "relaying" /\ ~interrupted(tick.flow)
    BY DEF StartRelay, turn
  <1>2. stage(tick.flow) = "relaying" /\ fit(tick.flow)
    BY <1>1, BegunIs
  <1>3. tick.flow.round.relayed = FALSE
    BY <1>2 DEF fit, Flow, Round
  <1>4. told(tick.flow.n) => tick.flow.round.relaying /\ tick.flow.n \notin relayed
    BY <1>1 DEF Relayed, Sent, settled, at
  <1> QED
    BY <1>1, <1>3, <1>4 DEF interrupted

LEMMA StartRelayed ==
  ASSUME Sound, Relayed, StartRelay
  PROVE  Relayed'
  <1> SUFFICES ASSUME ~reverted PROVE Sent'
    BY DEF Relayed, StartRelay, history
  <1> PICK h : h = tick.flow
    OBVIOUS
  <1> PICK f : f = [h EXCEPT !.round.relaying = TRUE]
    OBVIOUS
  <1> PICK g : g = disk'
    OBVIOUS
  <1>1. /\ at("begun") /\ h.state = "relaying" /\ continues("relay", f) /\ "relay" \in Pcs
        /\ UNCHANGED <<relays, resumed>> /\ fewerTold
    BY SameTold DEF StartRelay, turn, history, Pcs
  <1>2. fit(h) /\ h = tick.base /\ stage(h) = h.state /\ ~told(h.n)
    BY <1>1, BegunIs, StartsUntold
  <1>3. /\ fit(f) /\ f.state = "relaying" /\ stage(f) = "relaying" /\ f.n = h.n
        /\ f.round.relaying = TRUE
    BY <1>1, <1>2, RelayStartedIs
  <1>4. /\ merged(g, f) /\ tick'.pc = "relay" /\ tick'.flow = f /\ tick'.base = tick.base
    BY <1>1, <1>3, ContinuesIs DEF Sound, Typed
  <1>5. Sent /\ settled(disk) /\ settled(f)
    BY <1>2, <1>3 DEF Relayed, Sent, settled
  <1>6. /\ disk.n = h.n /\ stage(disk) \in {"relaying", "closed"}
        /\ disk.state = "relaying" /\ disk.n \notin resumed =>
             disk.round.relaying = h.round.relaying
    BY <1>1, <1>2, <1>5 DEF Sent, Relaying
  <1>7. settled(g)' /\ settled(f)'
    BY <1>1, <1>4, <1>5, SettledTwin, SettledKept DEF merged
  <1>8. settled(disk)' /\ settled(tick.flow)'
    BY <1>4, <1>7 DEF settled, told, stage
  <1>9. g.n = h.n /\ stage(g) \in {"relaying", "closed"}
    BY <1>3, <1>4, <1>6 DEF merged, twin, sameRound
  <1>10. g.state = "relaying" /\ g.n \notin resumed => g.round.relaying = TRUE
    <2>1. CASE g = disk
      <3>1. disk.state = "relaying" => ~takenOver(tick.base)
        BY <1>1, <1>2, <1>6 DEF takenOver
      <3>2. CASE f = tick.base
        BY <1>2, <1>3, <1>6, <2>1, <3>2
      <3>3. CASE f # tick.base
        BY <1>3, <1>4, <2>1, <3>1, <3>3 DEF merged, twin, sameRound
      <3> QED
        BY <3>2, <3>3
    <2>2. CASE twin(g, f)
      BY <1>3, <2>2 DEF twin, sameRound
    <2> QED
      BY <1>4, <2>1, <2>2 DEF merged
  <1>11. Relaying'
    <2>1. (tick.base.state = "relaying" =>
             /\ disk.n = tick.base.n /\ stage(disk) \in {"relaying", "closed"}
             /\ disk.state = "relaying" /\ disk.n \notin resumed =>
                  disk.round.relaying = tick.flow.round.relaying)'
      BY <1>1, <1>2, <1>3, <1>4, <1>9, <1>10 DEF stage
    <2>2. (~told(tick.flow.n))'
      BY <1>1, <1>2, <1>3, <1>4 DEF told
    <2> QED
      BY <1>4, <2>1, <2>2 DEF Relaying, at
  <1>12. (\A n \in Rounds : told(n) => n <= disk.n /\ (~at("idle") => n <= tick.flow.n))'
    BY <1>1, <1>2, <1>3, <1>4, <1>5, <1>6, <1>9 DEF Sent, told, at
  <1> QED
    BY <1>4, <1>8, <1>11, <1>12 DEF Sent, at, midRelay

(* A delivery is only of a round that was not sent yet, or was resumed.     *)
LEMMA DeliveredRelayed ==
  ASSUME Sound, Relayed, Delivered
  PROVE  Relayed'
  <1> SUFFICES ASSUME ~reverted PROVE Sent'
    BY DEF Relayed, Delivered
  <1>1. /\ at("relay") /\ deliver /\ tick' = [tick EXCEPT !.pc = "delivered"]
        /\ "delivered" \in Pcs /\ UNCHANGED <<disk, relayed, resumed>>
    BY DEF Delivered, Pcs
  <1>2. tick'.pc = "delivered" /\ tick'.flow = tick.flow /\ tick'.base = tick.base
    BY <1>1, TickGoes DEF Sound, Typed
  <1>3. /\ fit(tick.flow) /\ tick.flow.state = "relaying" /\ tick.flow.n \in Rounds
        /\ stage(tick.flow) = "relaying" /\ tick.flow.n = tick.base.n
        /\ tick.base.state = "relaying" /\ tick.flow.round.relaying
    BY <1>1, RelayingIs
  <1>4. Sent /\ settled(tick.flow) /\ settled(disk)
    BY <1>1 DEF Relayed, Sent, at
  <1>5. /\ disk.n = tick.base.n /\ stage(disk) \in {"relaying", "closed"}
        /\ disk.state = "relaying" /\ disk.n \notin resumed =>
             disk.round.relaying = tick.flow.round.relaying
    BY <1>1, <1>3, <1>4 DEF Sent, Relaying, midRelay
  <1>6. \A n \in Rounds : n # tick.flow.n => relays'[n] = relays[n]
    BY <1>1, <1>3, DeliverIs DEF Sound, Typed
  <1>7. \A n \in Rounds : told(n)' => told(n) \/ n = tick.flow.n
    BY <1>1, <1>6 DEF told
  <1>8. settled(disk)' /\ settled(tick.flow)'
    BY <1>1, <1>2, <1>3, <1>5 DEF settled, told, stage, Unsent, Early
  <1>9. Relaying'
    BY <1>1, <1>2, <1>3, <1>5 DEF Relaying, at, midRelay, stage
  <1>10. disk.n \in Nat /\ tick.flow.n = disk.n
    BY <1>3, <1>5, FlowAssumption DEF Rounds
  <1>11. (\A n \in Rounds : told(n) => n <= disk.n /\ (~at("idle") => n <= tick.flow.n))'
    <2> SUFFICES ASSUME NEW n \in Rounds, told(n)'
                 PROVE  n <= disk.n
      BY <1>1, <1>2, <1>10 DEF told
    <2>1. told(n) \/ n = disk.n
      BY <1>7, <1>10
    <2>2. told(n) => n <= disk.n
      BY <1>4 DEF Sent
    <2> QED
      BY <1>10, <2>1, <2>2
  <1> QED
    BY <1>2, <1>8, <1>9, <1>11 DEF Sent, at, midRelay

LEMMA FinishRelayed ==
  ASSUME Sound, Relayed, FinishRelay
  PROVE  Relayed'
  <1> PICK h : h = tick.flow
    OBVIOUS
  <1> PICK f : f = afterRelay(h)
    OBVIOUS
  <1>1. at("delivered") /\ yields(f) /\ UNCHANGED <<relays, resumed, relayed, reverted>>
    BY DEF FinishRelay, calm, history
  <1>2. fit(h) /\ h.state = "relaying" /\ ~at("idle")
    BY <1>1, RelayingIs DEF at
  <1>3. /\ fit(f) /\ f.state \in {"approved", "done_comment", "needs_decision", "fixing"}
        /\ f.n = h.n
    BY <1>2, AfterRelayIs
  <1>4. ~reverted => settled(f) /\ \A n \in Rounds : told(n) => n <= f.n
    BY <1>2, <1>3, BegunSettled DEF settled, stage, Unsent, Early
  <1> QED
    BY <1>1, <1>3, <1>4, YieldsRelayed

LEMMA FailsRelayed ==
  ASSUME Sound, Relayed, RelayFails
  PROVE  Relayed'
  <1> SUFFICES ASSUME ~reverted PROVE Sent'
    BY DEF Relayed, RelayFails
  <1> PICK h : h = tick.flow
    OBVIOUS
  <1> PICK f : f = [h EXCEPT !.state = "paused", !.from = "relaying", !.why = "other",
                             !.round.error = TRUE]
    OBVIOUS
  <1> PICK g : g = disk'
    OBVIOUS
  <1>1. /\ at("relay") /\ (deliver \/ UNCHANGED relays) /\ yields(f)
        /\ UNCHANGED <<relayed, resumed>>
    BY DEF RelayFails
  <1>2. /\ fit(h) /\ h.state = "relaying" /\ h.n \in Rounds /\ stage(h) = "relaying"
        /\ h.n = tick.base.n /\ tick.base.state = "relaying" /\ h.round.relaying
    BY <1>1, RelayingIs
  <1>3. /\ fit(f) /\ f.state = "paused" /\ stage(f) = "relaying" /\ sameRound(f, h)
    <2>1. fit(f) /\ f.state = "paused"
      BY <1>2, RelayFailedIs
    <2>2. sameRound(f, h)
      BY <1>2, RelayFailedIs
    <2>3. f.from = "relaying"
      BY <1>2 DEF fit, Flow
    <2> QED
      BY <2>1, <2>2, <2>3 DEF stage
  <1>4. /\ merged(g, f) /\ tick'.pc \in {"idle", "rest"} /\ (tick'.pc = "rest" => tick'.flow = f)
    BY <1>1, <1>3, YieldsIs DEF Sound, Typed
  <1>5. Sent
    BY DEF Relayed
  <1>6. disk.n = tick.base.n /\ stage(disk) \in {"relaying", "closed"}
    BY <1>1, <1>2, <1>5 DEF Sent, Relaying, midRelay
  <1>7. g.n = h.n /\ stage(g) \in {"relaying", "closed"} /\ g.state # "relaying"
    <2>1. CASE twin(g, f)
      BY <1>3, <2>1 DEF twin, sameRound
    <2>2. CASE ~twin(g, f)
      <3>1. takenOver(tick.base) /\ g = disk
        BY <1>2, <1>3, <1>4, <2>2 DEF merged
      <3> QED
        BY <1>2, <1>6, <3>1 DEF takenOver
    <2> QED
      BY <2>1, <2>2
  <1>8. \A n \in Rounds : told(n)' => told(n) \/ n = h.n
    BY <1>1, <1>2, DeliverIs DEF told, Sound, Typed
  <1>9. settled(disk)' /\ (~at("idle") => settled(tick.flow))'
    BY <1>3, <1>4, <1>7 DEF settled, stage, at, Unsent, Early
  <1>10. Relaying'
    BY <1>3, <1>4 DEF Relaying, at, midRelay
  <1>11. h.n \in Nat /\ disk.n = h.n /\ f.n = h.n
    BY <1>2, <1>3, <1>6, FlowAssumption DEF Rounds, sameRound
  <1>12. (\A n \in Rounds : told(n) => n <= disk.n /\ (~at("idle") => n <= tick.flow.n))'
    <2> SUFFICES ASSUME NEW n \in Rounds, told(n)'
                 PROVE  n <= h.n
      BY <1>4, <1>7, <1>11 DEF told, at
    <2>1. told(n) \/ n = h.n
      BY <1>8
    <2>2. told(n) => n <= h.n
      BY <1>5, <1>11 DEF Sent
    <2> QED
      BY <1>11, <2>1, <2>2
  <1> QED
    BY <1>4, <1>7, <1>9, <1>10, <1>12 DEF Sent, at

---------------------------------------------------------------------------
(* Requests: what they may do to the flow the file holds.                   *)
asked(g) ==
  /\ settled(g) /\ (\A n \in Rounds : told(n) => n <= g.n)
  /\ stage(disk) \in {"relaying", "closed"} =>
       g.n = disk.n /\ stage(g) \in {"relaying", "closed"}
  /\ g.state = "relaying" =>
       \/ ~told(g.n) /\ stage(disk) \notin {"relaying", "closed"}
       \/ g.n = disk.n /\ disk.state = "relaying" /\ g.round.relaying = disk.round.relaying

LEMMA AskedRelayed ==
  ASSUME Relayed, UNCHANGED <<tick, relayed, reverted>>, fewerTold, NEW g, g = disk',
         ~reverted => asked(g),
         ~reverted => resumed \subseteq resumed' \/ stage(disk) \notin {"relaying", "closed"}
  PROVE  Relayed'
  <1> SUFFICES ASSUME ~reverted PROVE Sent'
    BY DEF Relayed
  <1>1. Sent /\ asked(g)
    BY DEF Relayed
  <1>2. settled(disk)' /\ (~at("idle") => settled(tick.flow))'
    BY <1>1 DEF asked, Sent, settled, told, stage, fewerTold, at
  <1>3. Relaying'
    <2>1. ((at("begun") \/ midRelay) => (tick.base.state = "relaying" =>
             /\ disk.n = tick.base.n /\ stage(disk) \in {"relaying", "closed"}
             /\ disk.state = "relaying" /\ disk.n \notin resumed =>
                  disk.round.relaying = tick.flow.round.relaying))'
      BY <1>1 DEF asked, Sent, Relaying, at, midRelay, stage
    <2>2. (at("relay") => ~told(tick.flow.n))'
      BY <1>1 DEF Sent, Relaying, at, told, fewerTold
    <2>3. (at("rest") /\ tick.flow.state = "relaying" => ~told(tick.flow.n))'
      BY <1>1 DEF Sent, Relaying, at, told, fewerTold
    <2> QED
      BY <2>1, <2>2, <2>3 DEF Relaying
  <1>4. (\A n \in Rounds : told(n) => n <= disk.n /\ (~at("idle") => n <= tick.flow.n))'
    BY <1>1 DEF asked, Sent, told, fewerTold, at
  <1>5. (told(disk.n) /\ disk.state = "relaying" /\ ~midRelay => disk.n \notin relayed)'
    BY <1>1 DEF asked, Sent, told, fewerTold, at, midRelay
  <1>6. (at("begun") /\ told(tick.flow.n) /\ tick.flow.state = "relaying" =>
           tick.flow.n \notin relayed)'
    BY <1>1 DEF Sent, told, fewerTold, at
  <1> QED
    BY <1>2, <1>3, <1>4, <1>5, <1>6 DEF Sent

LEMMA TwinAsked ==
  ASSUME Relayed, ~reverted, NEW g, twin(g, disk)
  PROVE  asked(g)
  BY SettledTwin DEF Relayed, Sent, asked, twin, sameRound

(* A request that saves a new version f of the flow.                        *)
LEMMA SavesRelayed ==
  ASSUME Relayed, UNCHANGED <<tick, relayed, reverted>>, fewerTold, NEW f, fit(f), saves(f),
         ~reverted => asked(f),
         ~reverted => resumed \subseteq resumed' \/ stage(disk) \notin {"relaying", "closed"}
  PROVE  Relayed'
  <1> PICK g : g = disk'
    OBVIOUS
  <1>1. twin(g, f)
    BY SavesIs
  <1>2. ~reverted => asked(g)
    BY <1>1, SettledTwin DEF asked, twin, sameRound
  <1> QED
    BY <1>2, AskedRelayed

LEMMA PauseRelayed ==
  ASSUME Sound, Relayed, Pause \/ Resume \/ SetMode \/ AnotherRound
  PROVE  Relayed'
  <1> PICK h : h = disk
    OBVIOUS
  <1>1. fit(h) /\ (~reverted => settled(h) /\ \A n \in Rounds : told(n) => n <= h.n)
    BY DEF Sound, Fit, Relayed, Sent
  <1>2. UNCHANGED <<tick, relayed, reverted, relays>>
    BY DEF Pause, Resume, SetMode, AnotherRound, plain, memory, history
  <1>3. CASE Pause
    <2> PICK f : f = [h EXCEPT !.state = "paused", !.from = h.state, !.why = "other"]
      OBVIOUS
    <2>1. h.state \notin {"paused", "closed"} /\ saves(f) /\ UNCHANGED resumed
      BY <1>3 DEF Pause, plain, history
    <2>2. fit(f) /\ f.state = "paused" /\ stage(f) = h.state /\ sameRound(f, h)
      BY <1>1, <2>1, PausedIs
    <2>3. stage(h) = h.state
      BY <2>1 DEF stage
    <2>4. ~reverted => asked(f)
      BY <1>1, <2>2, <2>3 DEF asked, settled, sameRound
    <2> QED
      BY <1>2, <2>1, <2>2, <2>4, SameTold, SavesRelayed
  <1>4. CASE Resume
    <2> PICK f : f = [h EXCEPT !.state = h.from, !.from = "waiting_ready", !.why = "none"]
      OBVIOUS
    <2>1. /\ h.state = "paused" /\ saves(f)
          /\ resumed' = IF h.from = "relaying" THEN resumed \cup {h.n} ELSE resumed
      BY <1>4 DEF Resume
    <2>2. fit(f) /\ f.state = h.from /\ stage(f) = stage(h) /\ sameRound(f, h)
      BY <1>1, <2>1, ResumedIs
    <2>3. PICK g : g = disk'
      OBVIOUS
    <2>4. twin(g, f)
      BY <2>1, <2>2, <2>3, SavesIs
    <2>5. fewerTold
      BY <1>2, <2>1 DEF fewerTold, told
    <2> SUFFICES ASSUME ~reverted PROVE Sent'
      BY <1>2 DEF Relayed
    <2>6. Sent
      BY DEF Relayed
    <2>7. g.n = h.n /\ stage(g) = stage(h)
      BY <2>2, <2>4 DEF twin, sameRound
    <2>8. g.state = "relaying" => g.n \in resumed'
      BY <2>1, <2>2, <2>4, <2>7 DEF twin
    <2>9. settled(disk)' /\ (~at("idle") => settled(tick.flow))'
      <3>1. told(g.n)' => stage(g) \notin Unsent
        BY <2>5, <2>6, <2>7 DEF Sent, settled, told, fewerTold
      <3>2. g.state = "relaying" => ~told(g.n)'
        BY <2>8 DEF told
      <3>3. settled(disk)'
        BY <2>3, <3>1, <3>2 DEF settled, told, stage
      <3>4. (~at("idle") => settled(tick.flow))'
        BY <1>2, <2>5, <2>6 DEF Sent, settled, told, stage, fewerTold, at
      <3> QED
        BY <3>3, <3>4
    <2>10. Relaying'
      <3>1. ((at("begun") \/ midRelay) => (tick.base.state = "relaying" =>
               /\ disk.n = tick.base.n /\ stage(disk) \in {"relaying", "closed"}
               /\ disk.state = "relaying" /\ disk.n \notin resumed =>
                    disk.round.relaying = tick.flow.round.relaying))'
        BY <1>2, <2>3, <2>6, <2>7, <2>8 DEF Sent, Relaying, at, midRelay, stage
      <3>2. (at("relay") => ~told(tick.flow.n))'
        BY <1>2, <2>5, <2>6 DEF Sent, Relaying, at, told, fewerTold
      <3>3. (at("rest") /\ tick.flow.state = "relaying" => ~told(tick.flow.n))'
        BY <1>2, <2>5, <2>6 DEF Sent, Relaying, at, told, fewerTold
      <3> QED
        BY <3>1, <3>2, <3>3 DEF Relaying
    <2>11. (\A n \in Rounds : told(n) => n <= disk.n /\ (~at("idle") => n <= tick.flow.n))'
      BY <1>2, <2>3, <2>5, <2>6, <2>7 DEF Sent, told, fewerTold, at
    <2>12. (told(disk.n) /\ disk.state = "relaying" /\ ~midRelay => disk.n \notin relayed)'
      BY <2>3, <2>8 DEF told
    <2>13. (at("begun") /\ told(tick.flow.n) /\ tick.flow.state = "relaying" =>
             tick.flow.n \notin relayed)'
      BY <1>2, <2>5, <2>6 DEF Sent, told, fewerTold, at
    <2> QED
      BY <2>9, <2>10, <2>11, <2>12, <2>13 DEF Sent
  <1>5. CASE SetMode
    <2> PICK u \in BOOLEAN : u = ~h.manual
      OBVIOUS
    <2> PICK f : f = [h EXCEPT !.manual = u]
      OBVIOUS
    <2>1. saves(f) /\ UNCHANGED resumed
      BY <1>1, <1>5 DEF SetMode, fit, Flow, plain, history
    <2>2. 0 \in 0 .. MaxRounds
      BY FlowAssumption
    <2>3. fit(f) /\ twin(f, h)
      BY <1>1, <2>2, SettingIs
    <2> QED
      BY <1>2, <2>1, <2>3, TwinAsked, SameTold, SavesRelayed
  <1>6. CASE AnotherRound
    <2> PICK f : f = [h EXCEPT !.state = "waiting_ready", !.why = "none"]
      OBVIOUS
    <2>1. saves(f) /\ UNCHANGED resumed /\ h.state = "done_comment"
      BY <1>6 DEF AnotherRound, plain, history
    <2>2. fit(f) /\ f.state = "waiting_ready" /\ sameRound(f, h)
      BY <1>1, WaitingIs
    <2>3. ~reverted => asked(f)
      BY <1>1, <2>1, <2>2 DEF asked, settled, stage, Unsent, Early, sameRound
    <2> QED
      BY <1>2, <2>1, <2>2, <2>3, SameTold, SavesRelayed
  <1> QED
    BY <1>3, <1>4, <1>5, <1>6

LEMMA AdvanceRelayed ==
  ASSUME Sound, Relayed, Advance
  PROVE  Relayed'
  <1> PICK h : h = disk
    OBVIOUS
  <1>1. fit(h) /\ (~reverted => settled(h) /\ \A n \in Rounds : told(n) => n <= h.n)
    BY DEF Sound, Fit, Relayed, Sent
  <1>2. UNCHANGED <<tick, relayed, reverted, relays, resumed>> /\ fewerTold
    BY SameTold DEF Advance, plain, memory, history
  <1>3. ASSUME NEW f, fit(f), saves(f), ~reverted => asked(f)
        PROVE  Relayed'
    BY <1>2, <1>3, SavesRelayed
  <1>4. CASE h.state = "waiting_ready" /\ h.n < MaxRounds /\ saves(withRound(h))
    <2> PICK f : f = withRound(h)
      OBVIOUS
    <2>1. fit(f) /\ f.state \in {"spawning", "spawn_pending"} /\ f.n = h.n + 1
      BY <1>1, <1>4, WithRoundIs
    <2>2. h.n \in Nat
      BY <1>1, FlowAssumption DEF fit, Flow
    <2>3. ~reverted => \A n \in Rounds : told(n) => n <= f.n /\ n # f.n
      BY <1>1, <2>1, <2>2, FlowAssumption DEF Rounds
    <2>4. ~reverted => asked(f)
      BY <1>4, <2>1, <2>3 DEF asked, settled, told, stage
    <2> QED
      BY <1>3, <1>4, <2>1, <2>4
  <1>5. CASE h.state = "spawn_pending" /\ saves([h EXCEPT !.state = "spawning", !.why = "none"])
    <2> PICK f : f = [h EXCEPT !.state = "spawning", !.why = "none"]
      OBVIOUS
    <2>1. fit(f) /\ f.state = "spawning" /\ sameRound(f, h)
      BY <1>1, <1>5, AdvancedIs
    <2>2. ~reverted => asked(f)
      BY <1>1, <1>5, <2>1 DEF asked, settled, stage, Unsent, Early, sameRound
    <2> QED
      BY <1>3, <1>5, <2>1, <2>2
  <1>6. CASE h.state = "relay_pending" /\ saves([h EXCEPT !.state = "relaying", !.why = "none"])
    <2> PICK f : f = [h EXCEPT !.state = "relaying", !.why = "none"]
      OBVIOUS
    <2>1. fit(f) /\ f.state = "relaying" /\ sameRound(f, h)
      BY <1>1, <1>6, AdvancedIs
    <2>2. ~reverted => asked(f)
      BY <1>1, <1>6, <2>1 DEF asked, settled, stage, Unsent, Early, sameRound
    <2> QED
      BY <1>3, <1>6, <2>1, <2>2
  <1> QED
    BY <1>4, <1>5, <1>6 DEF Advance

LEMMA RetryRelayed ==
  ASSUME Sound, Relayed, RetryRound
  PROVE  Relayed'
  <1> PICK h : h = disk
    OBVIOUS
  <1> PICK f : f = [h EXCEPT !.round = NewRound, !.why = "none",
                             !.state = IF h.manual THEN "spawn_pending" ELSE "spawning"]
    OBVIOUS
  <1>1. /\ h.state = "needs_decision" /\ h.n > 0 /\ saves(f)
        /\ relays' = [relays EXCEPT ![h.n] = 0] /\ resumed' = resumed \ {h.n}
        /\ UNCHANGED <<tick, relayed, reverted>>
    BY DEF RetryRound
  <1>2. fit(h) /\ (~reverted => settled(h) /\ \A n \in Rounds : told(n) => n <= h.n)
    BY DEF Sound, Fit, Relayed, Sent
  <1>3. fit(f) /\ f.state \in {"spawn_pending", "spawning"} /\ f.n = h.n
    BY <1>1, <1>2, RestartedIs
  <1>4. \A n \in Rounds : n # h.n => relays'[n] = relays[n]
    <2>1. relays \in [Rounds -> 0 .. 2]
      BY DEF Sound, Typed, Histories
    <2> QED
      BY <1>1, <2>1
  <1>5. \A n \in Rounds : relays'[h.n] = 0 \/ n # h.n
    <2>1. relays \in [Rounds -> 0 .. 2]
      BY DEF Sound, Typed, Histories
    <2> QED
      BY <1>1, <2>1
  <1>6. fewerTold /\ ~told(h.n)'
    BY <1>1, <1>4, <1>5 DEF fewerTold, told
  <1> PICK g : g = disk'
    OBVIOUS
  <1>7. g.state = f.state /\ g.n = h.n
    <2>1. twin(g, f)
      BY <1>1, <1>3, SavesIs
    <2> QED
      BY <1>3, <2>1 DEF twin, sameRound
  <1> SUFFICES ASSUME ~reverted PROVE Sent'
    BY <1>1 DEF Relayed
  <1>8. Sent /\ stage(disk) = "needs_decision"
    BY <1>1 DEF Relayed, stage
  <1>9. settled(disk)' /\ (~at("idle") => settled(tick.flow))'
    BY <1>1, <1>6, <1>7, <1>8 DEF Sent, settled, told, stage, fewerTold, at
  <1>10. Relaying'
    <2>1. ((at("begun") \/ midRelay) => (tick.base.state = "relaying" => FALSE))'
      BY <1>1, <1>8 DEF Sent, Relaying, at, midRelay
    <2>2. (at("relay") => ~told(tick.flow.n))'
      BY <1>1, <1>6, <1>8 DEF Sent, Relaying, at, told, fewerTold
    <2>3. (at("rest") /\ tick.flow.state = "relaying" => ~told(tick.flow.n))'
      BY <1>1, <1>6, <1>8 DEF Sent, Relaying, at, told, fewerTold
    <2> QED
      BY <2>1, <2>2, <2>3 DEF Relaying
  <1>11. (\A n \in Rounds : told(n) => n <= disk.n /\ (~at("idle") => n <= tick.flow.n))'
    BY <1>1, <1>6, <1>7, <1>8 DEF Sent, told, fewerTold, at
  <1>12. (told(disk.n) /\ disk.state = "relaying" /\ ~midRelay => disk.n \notin relayed)'
    BY <1>3, <1>7
  <1>13. (at("begun") /\ told(tick.flow.n) /\ tick.flow.state = "relaying" =>
           tick.flow.n \notin relayed)'
    BY <1>1, <1>6, <1>8 DEF Sent, told, fewerTold, at
  <1> QED
    BY <1>9, <1>10, <1>11, <1>12, <1>13 DEF Sent

LEMMA LimitRelayed ==
  ASSUME Sound, Relayed, Extend \/ \E raw \in 0 .. MaxRounds : SetRoundLimit(raw)
  PROVE  Relayed'
  <1> PICK h : h = disk
    OBVIOUS
  <1>1. fit(h) /\ (~reverted => settled(h) /\ \A n \in Rounds : told(n) => n <= h.n)
    BY DEF Sound, Fit, Relayed, Sent
  <1>2. UNCHANGED <<tick, relayed, reverted, relays, resumed>> /\ fewerTold
    BY SameTold DEF Extend, SetRoundLimit, plain, memory, history
  <1>3. ASSUME NEW w, fit(w), twin(w, h), NEW f, saves(f),
               \/ f = w
               \/ h.state = "needs_decision" /\ f = [w EXCEPT !.state = "waiting_ready", !.why = "none"]
        PROVE  Relayed'
    <2>1. CASE f = w
      <3>1. ~reverted => asked(f)
        BY <1>3, <2>1, TwinAsked
      <3> QED
        BY <1>2, <1>3, <2>1, <3>1, SavesRelayed
    <2>2. CASE h.state = "needs_decision" /\ f = [w EXCEPT !.state = "waiting_ready", !.why = "none"]
      <3>1. fit(f) /\ f.state = "waiting_ready" /\ sameRound(f, w)
        BY <1>3, <2>2, WaitingIs
      <3>2. f.n = h.n
        BY <1>3, <3>1 DEF twin, sameRound
      <3>3. ~reverted => asked(f)
        BY <1>1, <2>2, <3>1, <3>2 DEF asked, settled, stage, Unsent, Early
      <3> QED
        BY <1>2, <1>3, <3>1, <3>3, SavesRelayed
    <2> QED
      BY <1>3, <2>1, <2>2
  <1>4. CASE Extend
    <2> PICK l : l = IF h.limit \in 1 .. MaxRounds - 1 THEN h.limit + 1 ELSE h.limit
      OBVIOUS
    <2>1. l \in 0 .. MaxRounds
      <3>1. h.limit \in 0 .. MaxRounds
        BY <1>1 DEF fit, Flow
      <3> QED
        BY <3>1, FlowAssumption
    <2> PICK w : w = [h EXCEPT !.limit = l]
      OBVIOUS
    <2>2. fit(w) /\ twin(w, h)
      BY <1>1, <2>1, SettingIs
    <2> PICK f : f = IF h.state = "needs_decision"
                       THEN [w EXCEPT !.state = "waiting_ready", !.why = "none"] ELSE w
      OBVIOUS
    <2>3. saves(f)
      BY <1>4 DEF Extend
    <2> QED
      BY <1>3, <2>2, <2>3
  <1>5. CASE \E raw \in 0 .. MaxRounds : SetRoundLimit(raw)
    <2> PICK raw \in 0 .. MaxRounds : SetRoundLimit(raw)
      BY <1>5
    <2> PICK l : l = IF raw = 0 \/ raw >= h.n THEN raw ELSE h.n
      OBVIOUS
    <2>1. l \in 0 .. MaxRounds
      BY <1>1 DEF fit, Flow
    <2> PICK w : w = [h EXCEPT !.limit = l]
      OBVIOUS
    <2> PICK f : f = [h EXCEPT !.limit = l, !.state = "waiting_ready", !.why = "none"]
      OBVIOUS
    <2>2. fit(w) /\ twin(w, h)
      BY <1>1, <2>1, SettingIs
    <2>3. f = [w EXCEPT !.state = "waiting_ready", !.why = "none"]
      BY <1>1 DEF fit, Flow
    <2>4. saves(w) \/ (saves(f) /\ h.state = "needs_decision")
      BY DEF SetRoundLimit
    <2>5. CASE saves(w)
      BY <1>3, <2>2, <2>5
    <2>6. CASE saves(f) /\ h.state = "needs_decision"
      BY <1>3, <2>2, <2>3, <2>6
    <2> QED
      BY <2>4, <2>5, <2>6
  <1> QED
    BY <1>4, <1>5

LEMMA StopsRelayed ==
  ASSUME Sound, Relayed, CancelRound \/ CloseFlow
  PROVE  Relayed'
  <1> PICK h : h = disk
    OBVIOUS
  <1> PICK g : g = disk'
    OBVIOUS
  <1>1. fit(h) /\ (~reverted => settled(h) /\ \A n \in Rounds : told(n) => n <= h.n)
    BY DEF Sound, Fit, Relayed, Sent
  <1>2. UNCHANGED <<tick, relayed, reverted, relays, resumed>> /\ fewerTold
    BY SameTold DEF CancelRound, CloseFlow, history
  <1>3. CASE CancelRound
    <2>1. h.state = "reviewing" /\ g = parkError(h)
      BY <1>3 DEF CancelRound
    <2>2. g.state = "needs_decision" /\ sameRound(g, h)
      BY <1>1, <2>1, ParkErrorIs
    <2>3. ~reverted => asked(g)
      BY <1>1, <2>1, <2>2 DEF asked, settled, stage, Unsent, Early, sameRound
    <2> QED
      BY <1>2, <2>3, AskedRelayed
  <1>4. CASE CloseFlow
    <2>1. \/ g = [h EXCEPT !.state = "closed", !.why = "none", !.round.error = TRUE]
          \/ g = [h EXCEPT !.state = "closed", !.why = "none"]
      BY <1>4 DEF CloseFlow
    <2>2. g.state = "closed" /\ sameRound(g, h)
      BY <1>1, <2>1, ClosedIs
    <2>3. ~reverted => asked(g)
      BY <1>1, <2>2 DEF asked, settled, stage, Unsent, Early, sameRound
    <2> QED
      BY <1>2, <2>3, AskedRelayed
  <1> QED
    BY <1>3, <1>4

LEMMA StandsRelayed ==
  ASSUME Relayed, UNCHANGED <<tick, relayed, reverted, relays, resumed>>,
         UNCHANGED disk \/ LeaseExpires, Sound
  PROVE  Relayed'
  <1> PICK g : g = disk'
    OBVIOUS
  <1> PICK h : h = disk
    OBVIOUS
  <1>1. fewerTold /\ fit(h)
    BY SameTold DEF Sound, Fit
  <1>2. twin(g, disk)
    <2>1. CASE UNCHANGED disk
      BY <2>1 DEF twin, sameRound
    <2>2. CASE LeaseExpires
      <3>1. g = [h EXCEPT !.round.lease = FALSE]
        BY <2>2 DEF LeaseExpires
      <3> QED
        BY <1>1, <3>1, ExpiredIs
    <2> QED
      BY <2>1, <2>2
  <1>3. ~reverted => asked(g)
    BY <1>2, TwinAsked
  <1> QED
    BY <1>1, <1>3, AskedRelayed

LEMMA OutsideRelayed ==
  ASSUME Sound, Relayed,
         ViewerRestarts \/ LeaseExpires \/ ReviewerStep \/ CreateFlow \/ KickoffDelivered
  PROVE  Relayed'
  <1>1. CASE ViewerRestarts
    <2>1. tick' = Idle /\ relayed' = {} /\ UNCHANGED <<disk, relays, resumed, reverted>>
      BY <1>1 DEF ViewerRestarts
    <2> QED
      BY <2>1, IdleRelayed
  <1>2. CASE LeaseExpires \/ CreateFlow \/ ReviewerStep
    <2>1. /\ UNCHANGED <<tick, relayed, reverted, relays, resumed>>
          /\ UNCHANGED disk \/ LeaseExpires
      BY <1>2 DEF LeaseExpires, CreateFlow, ReviewerStep, ReviewerExits, ReviewerConcludes, memory,
                  history
    <2> QED
      BY <2>1, StandsRelayed
  <1>3. CASE KickoffDelivered
    <2>1. /\ disk' = creating.copy /\ reverted' = (reverted \/ disk # creating.copy)
          /\ UNCHANGED <<tick, relayed, relays, resumed>>
      BY <1>3 DEF KickoffDelivered
    <2>2. CASE reverted'
      BY <2>2 DEF Relayed
    <2>3. CASE ~reverted'
      <3>1. UNCHANGED <<disk, reverted>>
        BY <2>1, <2>3 DEF Sound, Typed, Histories
      <3> QED
        BY <2>1, <3>1, StandsRelayed
    <2> QED
      BY <2>2, <2>3
  <1> QED
    BY <1>1, <1>2, <1>3

LEMMA RelayedKept ==
  ASSUME Sound, Relayed, [Next]_vars
  PROVE  Relayed'
  <1>1. CASE UNCHANGED vars
    <2>1. UNCHANGED <<disk, tick, relayed, reverted, relays, resumed>>
      BY <1>1 DEF vars, memory, history
    <2> QED
      BY <2>1, StandsRelayed
  <1>2. CASE TickStep
    BY <1>2, EndsRelayed, TurnRelayed, SpawnRelayed, PersistRelayed, ReviewRelayed,
       InterruptedRelayed, StartRelayed, DeliveredRelayed, FinishRelayed DEF TickStep
  <1>3. CASE TickStarts \/ MarkerSeen \/ ImplementerMissing \/ LaunchFails \/ RelayFails
    BY <1>3, StartsRelayed, TurnRelayed, FailsRelayed
  <1>4. CASE Operator
    BY <1>4, PauseRelayed, AdvanceRelayed, RetryRelayed, LimitRelayed, StopsRelayed DEF Operator
  <1>5. CASE ViewerRestarts \/ LeaseExpires \/ CreateFlow \/ KickoffDelivered \/ ReviewerStep
    BY <1>5, OutsideRelayed
  <1> QED
    BY <1>1, <1>2, <1>3, <1>4, <1>5 DEF Next

LEMMA InitRelayed ==
  ASSUME Init
  PROVE  Relayed
  <1>1. /\ tick.pc = "idle" /\ disk.state = "waiting_ready" /\ relays = [n \in Rounds |-> 0]
    BY DEF Init, Idle
  <1> QED
    BY <1>1 DEF Relayed, Sent, Relaying, settled, told, at, midRelay

LEMMA RelayedAlways ==
  Spec => []Relayed
  <1>1. Init => Relayed
    BY InitRelayed
  <1>2. Sound /\ Relayed /\ [Next]_vars => Relayed'
    BY RelayedKept
  <1> QED
    BY <1>1, <1>2, SoundAlways, PTL DEF Spec

LEMMA RelaysOnce ==
  ASSUME Sound, Relayed, Next, NEW n \in Rounds, relays[n] = 1, relays'[n] = 2
  PROVE  n \in resumed \/ reverted
  <1>1. CASE UNCHANGED relays
    BY <1>1
  <1>2. CASE RetryRound
    <2> PICK m : m = disk.n
      OBVIOUS
    <2>1. relays \in [Rounds -> 0 .. 2] /\ relays' = [relays EXCEPT ![m] = 0]
      BY <1>2 DEF RetryRound, Sound, Typed, Histories
    <2> QED
      BY <2>1
  <1>3. CASE (Delivered \/ RelayFails) /\ deliver
    <2>1. at("relay")
      BY <1>3 DEF Delivered, RelayFails
    <2>2. tick.flow.n \in Rounds
      BY <2>1, RelayingIs
    <2>3. n = tick.flow.n
      BY <1>3, <2>2, DeliverIs DEF Sound, Typed
    <2>4. ~reverted => ~told(n)
      BY <2>1, <2>3 DEF Relayed, Sent, Relaying
    <2> QED
      BY <2>4 DEF told
  <1>4. UNCHANGED relays \/ RetryRound \/ ((Delivered \/ RelayFails) /\ deliver)
    <2>1. CASE TickStep
      BY <2>1 DEF TickStep, TickEnds, NothingToDo, AwaitLease, AdoptLaunch, ReserveReviewer,
         ReuseChild, PersistLaunch, StartHeadlessReview, ReviewerRuns, ReviewerLost, VerdictFound,
         ReviewerSilent, RelayInterrupted, StartRelay, Delivered, FinishRelay, calm, history
    <2>2. CASE TickStarts \/ MarkerSeen \/ ImplementerMissing \/ LaunchFails \/ RelayFails
      BY <2>2 DEF TickStarts, MarkerSeen, ImplementerMissing, LaunchFails, RelayFails, calm, history
    <2>3. CASE Operator
      BY <2>3 DEF Operator, Pause, Resume, SetMode, Advance, Extend, AnotherRound, SetRoundLimit,
         CancelRound, CloseFlow, plain, history
    <2>4. CASE ViewerRestarts \/ LeaseExpires \/ CreateFlow \/ KickoffDelivered \/ ReviewerStep
      BY <2>4 DEF ViewerRestarts, LeaseExpires, CreateFlow, KickoffDelivered, ReviewerStep,
         ReviewerExits, ReviewerConcludes, history
    <2> QED
      BY <2>1, <2>2, <2>3, <2>4 DEF Next
  <1> QED
    BY <1>1, <1>2, <1>3, <1>4

(* The findings of a round reach the implementer a second time only after   *)
(* an operator retried the round or resumed its relay: no restart, merge of *)
(* an old clone or request makes the poller relay them once more.           *)
THEOREM FindingsAreRelayedOnce ==
  Spec => RelaysAgainOnlyIfAsked
  <1>1. Sound /\ Relayed /\ [Next]_vars
          => [\A n \in Rounds :
                relays[n] = 1 /\ relays'[n] = 2 => n \in resumed \/ reverted]_vars
    BY RelaysOnce
  <1> QED
    BY <1>1, SoundAlways, RelayedAlways, PTL DEF Spec, RelaysAgainOnlyIfAsked

---------------------------------------------------------------------------
(* The flow's one reviewer.                                                 *)
good(f) == tracked(f) /\ named(f)
Nobody == \A r \in Reviewers : ~awaited(r)

(* What every step but the start of a reviewer does to the processes.       *)
Fades ==
  /\ \A r \in Reviewers :
       /\ reviewer'[r].round = reviewer[r].round
       /\ (running(r))' => running(r) /\ reviewer'[r].said = reviewer[r].said
       /\ reviewer[r].status # "none" => reviewer'[r].status # "none"
  /\ strays \subseteq strays' /\ disowned \subseteq disowned'
Still == unforgotten /\ UNCHANGED <<strays, disowned>>

LEMMA StillFades ==
  ASSUME Still
  PROVE  Fades /\ (Nobody => Nobody')
  BY DEF Still, unforgotten, processes, Fades, running, Nobody, awaited, ours, watched

LEMMA StillGood ==
  ASSUME Still, NEW f, good(f)
  PROVE  good(f)'
  <1>1. UNCHANGED <<runs, reviewer, artifact, strays, disowned>>
    BY DEF Still, unforgotten, processes
  <1> QED
    BY <1>1 DEF good, tracked, named, ours, watched, running, heldBy, owned, holding, launching, stage

LEMMA NobodyGood ==
  ASSUME NEW f, Nobody'
  PROVE  good(f)'
  BY DEF Nobody, awaited, good, tracked, named

LEMMA FewerAwaited ==
  ASSUME Fades
  PROVE  \A r \in Reviewers :
           /\ reviewer'[r].round = reviewer[r].round
           /\ ours(r)' => ours(r)
           /\ watched(r)' => watched(r)
  BY DEF Fades, ours, watched, running

LEMMA TwinGood ==
  ASSUME NEW f, NEW g, twin(g, f), good(f)'
  PROVE  good(g)'
  <1>1. /\ g.n = f.n /\ stage(g) = stage(f) /\ g.why = f.why /\ g.round.pid = f.round.pid
        /\ g.round.started = f.round.started /\ g.round.ident = f.round.ident
    BY DEF twin, sameRound
  <1>2. (launching(g) <=> launching(f)) /\ (holding(g) <=> holding(f))
    BY <1>1 DEF launching, holding
  <1>3. tracked(g)'
    BY <1>1, <1>2 DEF good, tracked, heldBy
  <1>4. named(g)'
    BY <1>1, <1>2 DEF good, named, owned
  <1> QED
    BY <1>3, <1>4 DEF good

(* A flow that stays the reviewer's.                                        *)
carries(g, f) ==
  /\ g.n = f.n /\ g.round.pid = f.round.pid /\ g.why # "limit"
  /\ (holding(f) => holding(g)) /\ (launching(f) => launching(g)) /\ owned(g) = owned(f)

LEMMA CarriesGood ==
  ASSUME NEW f, NEW g, carries(g, f), good(f)
  PROVE  good(g)
  BY DEF carries, good, tracked, heldBy, named

(* A flow that has no reviewer.                                             *)
vacant(f) == ~launching(f) /\ (~holding(f) \/ f.why = "limit")

LEMMA VacantNobody ==
  ASSUME NEW f, good(f), vacant(f)
  PROVE  Nobody
  BY DEF good, vacant, tracked, heldBy, named, Nobody, awaited

LEMMA SameOwned ==
  ASSUME NEW f, NEW g, sameRound(g, f)
  PROVE  owned(g) = owned(f) /\ g.n = f.n /\ g.round.pid = f.round.pid
         /\ g.round.started = f.round.started
  BY DEF sameRound, owned

LEMMA SilentKept ==
  ASSUME Sound, Sound', Silent, Fades, ~reverted' => ~reverted,
         disk'.round.pid \in {0, disk.round.pid, tick.flow.round.pid},
         tick'.flow.round.pid \in {0, disk.round.pid, tick.flow.round.pid}
  PROVE  Silent'
  <1>1. \A r \in Reviewers : (running(r))' => reviewer'[r].said = "none"
    BY DEF Silent, Fades
  <1>2. ASSUME ~reverted
        PROVE  \A p \in {disk.round.pid, tick.flow.round.pid} :
                 p # 0 => p \in Reviewers /\ reviewer[p].status # "none"
    <2>1. disk.round.pid \in 0 .. MaxReviewers /\ tick.flow.round.pid \in 0 .. MaxReviewers
      BY DEF Sound, Fit, fit, Flow, Round
    <2>2. \A p \in 0 .. MaxReviewers : p # 0 => p \in Reviewers
      BY FlowAssumption DEF Reviewers
    <2>3. known(disk) /\ known(tick.flow)
      BY <1>2 DEF Silent
    <2> QED
      BY <2>1, <2>2, <2>3 DEF known
  <1>3. ~reverted' => known(disk)' /\ known(tick.flow)'
    <2> SUFFICES ASSUME ~reverted' PROVE known(disk)' /\ known(tick.flow)'
      OBVIOUS
    <2>1. \A p \in {disk.round.pid, tick.flow.round.pid} :
            p # 0 => reviewer'[p].status # "none"
      BY <1>2 DEF Fades
    <2> QED
      BY <2>1 DEF known
  <1> QED
    BY <1>1, <1>3 DEF Silent

LEMMA SingleKept ==
  ASSUME Single, Fades
  PROVE  Single'
  BY FewerAwaited DEF Single

LEMMA YieldsHeld ==
  ASSUME Sound, Sound', Silent, Tracked, NEW f, fit(f), yields(f), Fades, reverted' = reverted,
         f.round.pid \in {0, tick.flow.round.pid}, NEW d, d = disk,
         ~reverted => Nobody' \/ (good(f)' /\ good(d)')
  PROVE  Silent' /\ Tracked'
  <1> PICK g : g = disk'
    OBVIOUS
  <1>1. /\ merged(g, f) /\ tick'.pc \in {"idle", "rest"}
        /\ tick'.pc = "idle" => tick'.flow = NewFlow
        /\ tick'.pc = "rest" => tick'.flow = f
    BY YieldsIs DEF Sound, Typed
  <1>2. g = d \/ twin(g, f)
    BY <1>1 DEF merged
  <1>3. Silent'
    <2>1. g.round.pid \in {0, disk.round.pid, tick.flow.round.pid}
      BY <1>2 DEF twin, sameRound
    <2>2. NewFlow.round.pid = 0
      BY NewRoundIs DEF NewFlow
    <2> QED
      BY <1>1, <2>1, <2>2, SilentKept
  <1>4. ASSUME ~reverted PROVE good(f)' /\ good(d)'
    BY <1>4, NobodyGood
  <1>5. ASSUME ~reverted PROVE good(g)'
    BY <1>2, <1>4, <1>5, TwinGood
  <1>6. ASSUME ~reverted PROVE (tracked(disk) /\ named(disk))'
    BY <1>5, <1>6 DEF good, tracked, named, heldBy, owned, holding, launching, stage
  <1>7. ASSUME ~reverted, tick'.pc = "rest" PROVE (tracked(tick.flow) /\ named(tick.flow))'
    BY <1>1, <1>4, <1>7 DEF good, tracked, named, heldBy, owned, holding, launching, stage
  <1>8. ~reverted => Single'
    BY SingleKept DEF Tracked
  <1>9. Launching'
    BY <1>1 DEF Launching, at
  <1> QED
    BY <1>1, <1>3, <1>6, <1>7, <1>8, <1>9 DEF Tracked, at

(* A step that leaves the poller alone and is not taken during a launch.    *)
LEMMA AskedHeld ==
  ASSUME Sound, Sound', Silent, Tracked, UNCHANGED tick, Fades, ~reverted' => ~reverted,
         ~at("launch"), ~at("spawned"), NEW g, g = disk', NEW h, h = tick.flow,
         g.round.pid \in {0, disk.round.pid},
         ~reverted' => Nobody' \/ (good(g)' /\ (good(h) => good(h)'))
  PROVE  Silent' /\ Tracked'
  <1>1. Silent'
    BY SilentKept
  <1>2. ASSUME ~reverted' PROVE good(g)' /\ (good(h) => good(h)')
    BY <1>2, NobodyGood
  <1>3. ASSUME ~reverted' PROVE (tracked(disk) /\ named(disk))'
    BY <1>2, <1>3 DEF good, tracked, named, heldBy, owned, holding, launching, stage
  <1>4. ASSUME ~reverted', tick.pc \in {"begun", "relay", "delivered", "rest"}
        PROVE  (tracked(tick.flow) /\ named(tick.flow))'
    <2>1. good(h)
      BY <1>4 DEF Tracked, good
    <2>2. good(h)' /\ tick'.flow = h
      BY <1>2, <1>4, <2>1
    <2> QED
      BY <2>2 DEF good, tracked, named, heldBy, owned, holding, launching, stage
  <1>5. ~reverted' => Single'
    BY SingleKept DEF Tracked
  <1>6. Launching'
    BY DEF Launching, at
  <1> QED
    BY <1>1, <1>3, <1>4, <1>5, <1>6 DEF Tracked, at

(* What the file holds, and what a poll that is not launching works on, is  *)
(* good.                                                                    *)
LEMMA DiskGood ==
  ASSUME Tracked, ~reverted, ~at("launch"), ~at("spawned")
  PROVE  good(disk)
  BY DEF Tracked, good

LEMMA FlowGood ==
  ASSUME Tracked, ~reverted, at("begun") \/ at("relay") \/ at("delivered") \/ at("rest")
  PROVE  good(tick.flow)
  BY DEF Tracked, good, at

LEMMA LaunchNobody ==
  ASSUME Tracked, ~reverted, at("launch")
  PROVE  Nobody
  BY DEF Tracked, Launching, Nobody

(* The poller is done with a flow it left alone or that carries on.         *)
LEMMA StillYields ==
  ASSUME Sound, Sound', Silent, Tracked, NEW f, fit(f), yields(f), Still, reverted' = reverted,
         f.round.pid \in {0, tick.flow.round.pid},
         ~reverted => Nobody \/ (good(f) /\ ~at("launch") /\ ~at("spawned"))
  PROVE  Silent' /\ Tracked'
  <1> PICK d : d = disk
    OBVIOUS
  <1>1. Fades
    BY StillFades
  <1>2. ~reverted => Nobody' \/ (good(f)' /\ good(d)')
    BY StillFades, StillGood, DiskGood
  <1> QED
    BY <1>1, <1>2, YieldsHeld

LEMMA IdleHeld ==
  ASSUME Sound, Sound', Silent, Tracked, tick' = Idle, UNCHANGED <<disk, reverted>>, Still,
         ~at("launch"), ~at("spawned")
  PROVE  Silent' /\ Tracked'
  <1> PICK d : d = disk
    OBVIOUS
  <1>1. tick'.pc = "idle" /\ tick'.flow = NewFlow /\ NewFlow.round.pid = 0
    BY IdleIs, NewRoundIs DEF NewFlow
  <1>2. Fades /\ (~reverted => good(d)')
    BY StillFades, StillGood, DiskGood
  <1>3. Silent'
    BY <1>1, <1>2, SilentKept
  <1>4. ~reverted => (tracked(disk) /\ named(disk))'
    BY <1>2 DEF good, tracked, named, heldBy, owned, holding, launching, stage
  <1>5. ~reverted => Single'
    BY <1>2, SingleKept DEF Tracked
  <1> QED
    BY <1>1, <1>3, <1>4, <1>5 DEF Tracked, Launching, at

LEMMA StartsHeld ==
  ASSUME Sound, Sound', Silent, Tracked, TickStarts
  PROVE  Silent' /\ Tracked'
  <1> PICK d : d = disk
    OBVIOUS
  <1>1. /\ at("idle") /\ tick' = [pc |-> "begun", base |-> d, flow |-> d]
        /\ UNCHANGED <<disk, reverted>> /\ Still
    BY DEF TickStarts, Still, unforgotten, history, processes
  <1>2. tick'.pc = "begun" /\ tick'.flow = d /\ tick'.base = d
    BY <1>1
  <1>3. Fades /\ (~reverted => good(d)')
    BY <1>1, StillFades, StillGood, DiskGood DEF at
  <1>4. Silent'
    BY <1>1, <1>2, <1>3, SilentKept
  <1>5. ~reverted => (tracked(disk) /\ named(disk))'
    BY <1>1, <1>3 DEF good, tracked, named, heldBy, owned, holding, launching, stage
  <1>6. ~reverted => (tracked(tick.flow) /\ named(tick.flow))'
    BY <1>2, <1>3 DEF good, tracked, named, heldBy, owned, holding, launching, stage
  <1>7. ~reverted => Single'
    BY <1>3, SingleKept DEF Tracked
  <1> QED
    BY <1>1, <1>2, <1>4, <1>5, <1>6, <1>7 DEF Tracked, Launching, at

LEMMA EndsHeld ==
  ASSUME Sound, Sound', Silent, Tracked, TickEnds
  PROVE  Silent' /\ Tracked'
  <1> PICK d : d = disk
    OBVIOUS
  <1> PICK f : f = tick.flow
    OBVIOUS
  <1> PICK g : g = disk'
    OBVIOUS
  <1>1. /\ at("rest") /\ tick' = Idle /\ g = merge(f, tick.base) /\ UNCHANGED reverted /\ Still
    BY DEF TickEnds, Still, unforgotten, history, processes
  <1>2. tick'.pc = "idle" /\ tick'.flow = NewFlow /\ NewFlow.round.pid = 0
    BY <1>1, IdleIs, NewRoundIs DEF NewFlow
  <1>3. g = d \/ twin(g, f)
    <2>1. fit(disk) /\ fit(f)
      BY DEF Sound, Fit
    <2> QED
      BY <1>1, <2>1, MergeIs
  <1>4. Fades /\ (~reverted => good(d)' /\ good(f)')
    BY <1>1, StillFades, StillGood, DiskGood, FlowGood DEF at
  <1>5. Silent'
    BY <1>1, <1>2, <1>3, <1>4, SilentKept DEF twin, sameRound
  <1>6. ~reverted => good(g)'
    BY <1>3, <1>4, TwinGood
  <1>7. ~reverted => (tracked(disk) /\ named(disk))'
    BY <1>6 DEF good, tracked, named, heldBy, owned, holding, launching, stage
  <1>8. ~reverted => Single'
    BY <1>4, SingleKept DEF Tracked
  <1> QED
    BY <1>1, <1>2, <1>5, <1>7, <1>8 DEF Tracked, Launching, at

(* A launch or review that is lost has no reviewer the flow could stop.     *)
LEMMA LostUnwatched ==
  ASSUME Sound, NEW f, f.n \in Rounds, good(f), status(f) = "lost"
  PROVE  \A r \in Reviewers : ~watched(r)
  <1> SUFFICES ASSUME NEW r \in Reviewers, watched(r)
               PROVE  FALSE
    OBVIOUS
  <1>1. owned(f) = r /\ running(r) /\ r # 0
    BY FlowAssumption DEF good, named, watched, Reviewers
  <1>2. runs[f.n] = r \/ (runs[f.n] = 0 /\ f.round.ident /\ f.round.pid = r)
    BY <1>1 DEF owned
  <1>3. child(f) = r /\ alive(child(f))
    BY <1>1, <1>2 DEF child, alive, running
  <1> QED
    BY <1>1, <1>2, <1>3 DEF status

(* A review that ended, or that left its verdict, has no reviewer of ours.  *)
LEMMA EndedNotOurs ==
  ASSUME Sound, NEW f, good(f), status(f) \in {"done", "ended"}
  PROVE  \A r \in Reviewers : ~ours(r)
  <1> SUFFICES ASSUME NEW r \in Reviewers, ours(r)
               PROVE  FALSE
    OBVIOUS
  <1>1. /\ artifact[f.n] = "none" /\ runs[f.n] \in {0, r} /\ f.round.pid \in {0, r}
        /\ running(r) /\ r # 0
    BY FlowAssumption DEF good, tracked, heldBy, ours, Reviewers
  <1>2. child(f) \in {0, r}
    BY <1>1 DEF child
  <1>3. alive(r)
    BY <1>1 DEF alive, running
  <1> QED
    BY <1>1, <1>2, <1>3 DEF status

LEMMA TurnHeld ==
  ASSUME Sound, Sound', Silent, Tracked,
         ImplementerMissing \/ NothingToDo \/ AwaitLease \/ MarkerSeen \/ AdoptLaunch \/ LaunchFails
  PROVE  Silent' /\ Tracked'
  <1> PICK h : h = tick.flow
    OBVIOUS
  <1>1. reverted' = reverted /\ Still
    BY DEF ImplementerMissing, NothingToDo, AwaitLease, MarkerSeen, AdoptLaunch, LaunchFails, calm,
           history, Still
  <1>2. fit(h)
    BY DEF Sound, Fit
  <1>3. CASE NothingToDo \/ AwaitLease
    BY <1>1, <1>3, IdleHeld DEF NothingToDo, AwaitLease, at, turn
  <1>4. CASE ImplementerMissing
    <2> PICK f : f = [h EXCEPT !.state = "paused", !.from = h.state, !.why = "other"]
      OBVIOUS
    <2>1. at("begun") /\ yields(f)
      BY <1>4 DEF ImplementerMissing
    <2>2. h.state \notin {"paused", "closed"} /\ stage(h) = h.state
      BY <2>1, BegunIs DEF Active
    <2>3. /\ fit(f) /\ f.state = "paused" /\ stage(f) = h.state /\ f.why = "other"
          /\ sameRound(f, h)
      BY <1>2, <2>2, PausedIs
    <2>4. carries(f, h)
      BY <2>2, <2>3, SameOwned DEF carries, holding, launching
    <2>5. ~reverted => good(f)
      BY <2>1, <2>4, FlowGood, CarriesGood
    <2>6. f.round.pid = h.round.pid
      BY <2>3, SameOwned
    <2> QED
      BY <1>1, <2>1, <2>3, <2>5, <2>6, StillYields DEF at
  <1>5. CASE MarkerSeen
    <2> PICK f : f = withRound(h)
      OBVIOUS
    <2>1. at("begun") /\ h.state \in {"waiting_ready", "fixing"} /\ h.n < MaxRounds /\ yields(f)
      BY <1>5 DEF MarkerSeen, turn
    <2>2. fit(f) /\ f.round.pid = 0
      BY <1>2, <2>1, WithRoundIs DEF newRound
    <2>3. vacant(h)
      BY <2>1 DEF vacant, holding, launching, stage
    <2>4. ~reverted => Nobody
      BY <2>1, <2>3, FlowGood, VacantNobody
    <2> QED
      BY <1>1, <2>1, <2>2, <2>4, StillYields
  <1>6. CASE AdoptLaunch /\ status(h) # "lost"
    <2> PICK f : f = [h EXCEPT !.state = "reviewing", !.why = "none"]
      OBVIOUS
    <2>1. at("begun") /\ h.state = "spawning" /\ h.round.started /\ yields(f)
      BY <1>6 DEF AdoptLaunch, turn, begunBefore
    <2>2. fit(f) /\ sameRound(f, h) /\ f.state = "reviewing" /\ f.why = "none"
      BY <1>2, <2>1, ReviewingIs
    <2>3. carries(f, h)
      BY <2>1, <2>2, SameOwned DEF carries, holding, launching, stage
    <2>4. ~reverted => good(f)
      BY <2>1, <2>3, FlowGood, CarriesGood
    <2>5. f.round.pid = h.round.pid
      BY <2>2, SameOwned
    <2> QED
      BY <1>1, <2>1, <2>2, <2>4, <2>5, StillYields DEF at
  <1>7. CASE AdoptLaunch /\ status(h) = "lost"
    <2> PICK f : f = park(h, "other")
      OBVIOUS
    <2>1. at("begun") /\ h.state = "spawning" /\ h.round.started /\ yields(f)
      BY <1>7 DEF AdoptLaunch, turn, begunBefore
    <2>2. fit(f) /\ sameRound(f, h) /\ f.state = "needs_decision" /\ f.why = "other"
      BY <1>2, ParkIs
    <2>3. h.n \in Rounds
      BY <1>2, <2>1 DEF fit, stage, Unsent, Early
    <2>4. ~reverted => good(f)
      <3> SUFFICES ASSUME ~reverted PROVE good(f)
        OBVIOUS
      <3>1. good(h)
        BY <2>1, FlowGood
      <3>2. named(f)
        BY <1>7, <2>3, <3>1, LostUnwatched DEF named
      <3>3. /\ f.n = h.n /\ f.round.pid = h.round.pid /\ holding(f)
        BY <2>2, SameOwned DEF holding, stage
      <3>4. tracked(f)
        BY <2>2, <3>1, <3>3 DEF good, tracked, heldBy
      <3> QED
        BY <3>2, <3>4 DEF good
    <2>5. f.round.pid = h.round.pid
      BY <2>2, SameOwned
    <2> QED
      BY <1>1, <2>1, <2>2, <2>4, <2>5, StillYields DEF at
  <1>8. CASE LaunchFails
    <2> PICK f : f = parkError(h)
      OBVIOUS
    <2>1. yields(f) /\ (at("launch") \/ (at("begun") /\ h.state = "spawning" /\ ~h.round.started))
      BY <1>8 DEF LaunchFails, turn, begunBefore
    <2>2. fit(f) /\ f.round.pid = h.round.pid
      BY <1>2, ParkErrorIs DEF sameRound
    <2>3. ~reverted => Nobody
      <3>1. CASE at("launch")
        BY <3>1, LaunchNobody
      <3>2. CASE at("begun") /\ h.state = "spawning" /\ ~h.round.started
        <4>1. vacant(h)
          BY <3>2 DEF vacant, holding, launching, stage
        <4> QED
          BY <3>2, <4>1, FlowGood, VacantNobody
      <3> QED
        BY <2>1, <3>1, <3>2
    <2> QED
      BY <1>1, <2>1, <2>2, <2>3, StillYields
  <1> QED
    BY <1>3, <1>4, <1>5, <1>6, <1>7, <1>8

LEMMA ReserveHeld ==
  ASSUME Sound, Sound', Silent, Tracked, ReserveReviewer
  PROVE  Silent' /\ Tracked'
  <1> PICK h : h = tick.flow
    OBVIOUS
  <1> PICK f : f = [h EXCEPT !.round.started = TRUE, !.round.lease = TRUE]
    OBVIOUS
  <1> PICK g : g = disk'
    OBVIOUS
  <1>1. /\ at("begun") /\ h.state = "spawning" /\ ~h.round.started
        /\ continues("launch", f) /\ Still /\ UNCHANGED reverted /\ "launch" \in Pcs
    BY DEF ReserveReviewer, turn, begunBefore, calm, history, Still, Pcs
  <1>2. fit(h) /\ h = tick.base
    BY <1>1, BegunIs
  <1>3. /\ fit(f) /\ f.state = "spawning" /\ f.n = h.n /\ f.round.started
        /\ f.round.pid = h.round.pid
    BY <1>1, <1>2, ReservedIs
  <1>4. h.round.pid = 0
    BY <1>1, <1>2 DEF fit
  <1>5. merged(g, f) /\ tick'.pc = "launch" /\ tick'.flow = f /\ tick'.base = tick.base
    BY <1>1, <1>3, ContinuesIs DEF Sound, Typed
  <1>6. vacant(h)
    BY <1>1 DEF vacant, holding, launching, stage
  <1>7. Fades /\ (~reverted => Nobody')
    BY <1>1, <1>6, FlowGood, VacantNobody, StillFades
  <1>8. Silent'
    <2>1. g.round.pid \in {0, disk.round.pid}
      BY <1>3, <1>4, <1>5 DEF merged, twin, sameRound
    <2> QED
      BY <1>1, <1>3, <1>4, <1>5, <1>7, <2>1, SilentKept
  <1>9. g.state = tick.base.state /\ g.n = tick.base.n => g.round.started /\ g.round.pid = 0
    <2>1. CASE twin(g, f)
      BY <1>3, <1>4, <2>1 DEF twin, sameRound
    <2>2. CASE ~twin(g, f)
      <3>1. f # tick.base
        BY <1>1, <1>2, <1>3
      <3>2. g = disk /\ takenOver(tick.base)
        BY <1>5, <2>2, <3>1 DEF merged
      <3> QED
        BY <3>2 DEF takenOver
    <2> QED
      BY <2>1, <2>2
  <1>10. (~takenOver(tick.base) => disk.round.started /\ disk.round.pid = 0)'
    BY <1>5, <1>9 DEF takenOver
  <1>11. ~reverted => Launching'
    BY <1>5, <1>7, <1>10 DEF Launching, at, Nobody
  <1>12. ~reverted => Single'
    BY <1>7, SingleKept DEF Tracked
  <1> QED
    BY <1>1, <1>5, <1>8, <1>11, <1>12 DEF Tracked, at

LEMMA StartHeld ==
  ASSUME Sound, Sound', Silent, Tracked, NEW r \in Reviewers, NEW ident \in BOOLEAN,
         StartHeadlessReview(r, ident)
  PROVE  Silent' /\ Tracked'
  <1> PICK h : h = tick.flow
    OBVIOUS
  <1> PICK f : f = launched(h, r, ident)
    OBVIOUS
  <1>1. /\ at("launch") /\ fresh(r) /\ clearArtifacts(h.n) /\ runs' = [runs EXCEPT ![h.n] = r]
        /\ reviewer' = [reviewer EXCEPT
             ![r] = [status |-> "running", round |-> h.n, said |-> "none"]]
        /\ tick' = [tick EXCEPT !.pc = "spawned", !.flow = f]
        /\ UNCHANGED <<disk, strays, disowned, reverted>> /\ "spawned" \in Pcs
    BY DEF StartHeadlessReview, calm, history, Pcs
  <1>2. fit(h) /\ h.state = "spawning" /\ h.round.started
    BY <1>1 DEF Sound, Fit, Based
  <1>3. fit(f) /\ f.n = h.n /\ f.round.pid = r
    BY <1>2, LaunchedIs
  <1>4. tick'.pc = "spawned" /\ tick'.flow = f /\ tick'.base = tick.base
    BY <1>1, TickIs DEF Sound, Typed
  <1>5. h.n \in Rounds
    BY <1>2 DEF fit, stage, Unsent, Early
  <1>6. /\ reviewer'[r].status = "running" /\ reviewer'[r].round = h.n /\ reviewer'[r].said = "none"
        /\ \A s \in Reviewers : s # r => reviewer'[s] = reviewer[s]
    BY <1>1 DEF Sound, Typed, Processes
  <1>7. runs'[h.n] = r /\ artifact'[h.n] = "none"
    BY <1>1, <1>5, ClearsIs DEF Sound, Typed, Processes
  <1>8. reviewer[r].status = "none"
    BY <1>1 DEF fresh
  <1>9. ~reverted => disk.round.pid # r
    BY <1>8 DEF Silent, known, Reviewers, FlowAssumption
  <1>10. Silent'
    <2>1. \A s \in Reviewers : (running(s))' => reviewer'[s].said = "none"
      BY <1>6 DEF Silent, running
    <2>2. ~reverted => known(disk)' /\ known(tick.flow)'
      <3> SUFFICES ASSUME ~reverted PROVE known(disk)' /\ known(tick.flow)'
        OBVIOUS
      <3>1. disk.round.pid \in 0 .. MaxReviewers
        BY DEF Sound, Fit, fit, Flow, Round
      <3>2. disk.round.pid # 0 => disk.round.pid \in Reviewers
        BY <3>1, FlowAssumption DEF Reviewers
      <3>3. known(disk)'
        BY <1>1, <1>6, <1>9, <3>2 DEF Silent, known
      <3>4. known(tick.flow)'
        BY <1>3, <1>4, <1>6 DEF known
      <3> QED
        BY <3>3, <3>4
    <2> QED
      BY <1>1, <2>1, <2>2 DEF Silent
  <1>11. ~reverted => \A s \in Reviewers : awaited(s)' => s = r
    <2> SUFFICES ASSUME ~reverted, NEW s \in Reviewers, awaited(s)', s # r
                 PROVE  FALSE
      OBVIOUS
    <2>1. ~awaited(s)
      BY <1>1, LaunchNobody DEF Nobody
    <2> QED
      BY <1>1, <1>6, <2>1 DEF awaited, ours, watched, running
  <1>12. ~reverted => (~takenOver(tick.base) => disk.round.started /\ disk.round.pid = 0)'
    BY <1>1, <1>4 DEF Tracked, Launching, takenOver
  <1>13. ~reverted => Launching'
    BY <1>1, <1>3, <1>4, <1>6, <1>7, <1>9, <1>11, <1>12 DEF Launching, at
  <1>14. ~reverted => Single'
    BY <1>11 DEF Single, awaited
  <1> QED
    BY <1>1, <1>4, <1>10, <1>13, <1>14 DEF Tracked, at

LEMMA ReuseHeld ==
  ASSUME Sound, Sound', Silent, Tracked, ReuseChild
  PROVE  Silent' /\ Tracked'
  <1> PICK h : h = tick.flow
    OBVIOUS
  <1> PICK f : f = [h EXCEPT !.state = "reviewing", !.why = "none"]
    OBVIOUS
  <1>1. /\ at("launch") /\ Still /\ UNCHANGED <<disk, reverted>> /\ "spawned" \in Pcs
        /\ tick' = [tick EXCEPT !.pc = "spawned", !.flow = f]
    BY DEF ReuseChild, calm, history, Still, Pcs, Sound, Typed, Stepped
  <1>2. fit(h) /\ h.state = "spawning"
    BY <1>1 DEF Sound, Fit, Based
  <1>3. fit(f) /\ f.round.pid = h.round.pid
    <2>1. fit(f) /\ sameRound(f, h)
      BY <1>2, ReviewingIs
    <2> QED
      BY <2>1, SameOwned
  <1>4. tick'.pc = "spawned" /\ tick'.flow = f /\ tick'.base = tick.base
    BY <1>1, TickIs DEF Sound, Typed
  <1>5. Fades /\ (~reverted => Nobody')
    BY <1>1, LaunchNobody, StillFades
  <1>6. Silent'
    BY <1>1, <1>3, <1>4, <1>5, SilentKept
  <1>7. ~reverted => (~takenOver(tick.base) => disk.round.started /\ disk.round.pid = 0)'
    BY <1>1, <1>4 DEF Tracked, Launching, takenOver
  <1>8. ~reverted => Launching'
    BY <1>4, <1>5, <1>7 DEF Launching, at, Nobody
  <1>9. ~reverted => Single'
    BY <1>5, SingleKept DEF Tracked
  <1> QED
    BY <1>1, <1>4, <1>6, <1>8, <1>9 DEF Tracked, at

(* Either the launch is saved and the flow names its reviewer, or it is     *)
(* undone and the reviewer stopped.                                         *)
LEMMA PersistHeld ==
  ASSUME Sound, Sound', Silent, Tracked, PersistLaunch
  PROVE  Silent' /\ Tracked'
  <1> PICK f : f = tick.flow
    OBVIOUS
  <1> PICK d : d = merge(f, tick.base)
    OBVIOUS
  <1> PICK g : g = disk'
    OBVIOUS
  <1>1. /\ at("spawned") /\ tick' = [tick EXCEPT !.pc = "rest"] /\ "rest" \in Pcs
        /\ UNCHANGED <<strays, disowned, reverted>>
        /\ \/ launchPersisted(f, d) /\ g = d /\ unforgotten
           \/ ~launchPersisted(f, d) /\ g = abandoned(d) /\ forget(f) /\ UNCHANGED artifact
    BY DEF PersistLaunch, calm, history, Pcs
  <1>2. tick'.pc = "rest" /\ tick'.flow = f /\ tick'.base = tick.base
    BY <1>1, TickGoes DEF Sound, Typed
  <1>3. /\ fit(f) /\ f.state = "reviewing" /\ tick.base.state = "spawning" /\ fit(disk)
        /\ f.n = tick.base.n /\ f.n \in Rounds
    <2>1. /\ fit(f) /\ f.state = "reviewing" /\ tick.base.state = "spawning" /\ fit(disk)
          /\ f.n = tick.base.n
      BY <1>1 DEF Sound, Fit, Based
    <2> QED
      BY <2>1 DEF fit, stage, Unsent, Early
  <1>4. /\ fit(d) /\ (d = disk \/ twin(d, f)) /\ (~takenOver(tick.base) => twin(d, f))
        /\ takenOver(tick.base) => d = disk
    BY <1>3, MergeIs
  <1>5. Fades
    <2>1. CASE unforgotten
      <3>1. Still
        BY <1>1, <2>1 DEF Still
      <3> QED
        BY <3>1, StillFades
    <2>2. CASE forget(f)
      BY <1>1, <2>2, ForgetIs DEF Fades, Sound, Typed
    <2> QED
      BY <1>1, <2>1, <2>2
  <1>6. g.round.pid \in {0, disk.round.pid, tick.flow.round.pid}
    <2>1. d.round.pid \in {disk.round.pid, tick.flow.round.pid}
      BY <1>4 DEF twin, sameRound
    <2>2. g = d \/ g.round.pid = 0
      BY <1>1, <1>4, AbandonedIs
    <2> QED
      BY <2>1, <2>2
  <1>7. Silent'
    BY <1>1, <1>2, <1>5, <1>6, SilentKept
  <1>8. ~reverted => Single'
    BY <1>5, SingleKept DEF Tracked
  <1>9. ASSUME ~reverted
        PROVE  good(f)' /\ good(g)'
    <2>1. /\ \A r \in Reviewers : awaited(r) =>
               /\ runs[f.n] = r /\ reviewer[r].round = f.n
               /\ f.round.pid = r /\ disk.round.pid # r
               /\ ours(r) => artifact[f.n] = "none"
      BY <1>1, <1>9 DEF Tracked, Launching
    <2>2. CASE Nobody
      <3>1. Nobody'
        BY <1>5, <2>2, FewerAwaited DEF Nobody, awaited
      <3> QED
        BY <3>1, NobodyGood
    <2>3. CASE ~Nobody
      <3> PICK r \in Reviewers : awaited(r)
        BY <2>3 DEF Nobody
      <3>1. r # 0 /\ f.round.pid = r /\ runs[f.n] = r /\ disk.round.pid # r
        BY <2>1, FlowAssumption DEF Reviewers
      <3>2. CASE takenOver(tick.base)
        <4>1. ~launchPersisted(f, d)
          BY <1>4, <3>1, <3>2 DEF launchPersisted
        <4>2. forget(f) /\ owned(f) = r
          BY <1>1, <3>1, <4>1 DEF owned
        <4>3. \A s \in Reviewers : (running(s))' => running(s) /\ s # r
          BY <4>2, ForgetIs DEF Sound, Typed
        <4>4. Nobody'
          <5> SUFFICES ASSUME NEW s \in Reviewers, awaited(s)'
                       PROVE  FALSE
            BY DEF Nobody
          <5>1. awaited(s) /\ s # r
            BY <1>5, <4>3, FewerAwaited DEF awaited, ours, watched
          <5> QED
            BY <2>1, <3>1, <5>1
        <4> QED
          BY <4>4, NobodyGood
      <3>3. CASE ~takenOver(tick.base)
        <4>1. twin(d, f) /\ launchPersisted(f, d)
          BY <1>4, <3>1, <3>3 DEF launchPersisted, twin, sameRound
        <4>2. g = d /\ Still
          BY <1>1, <4>1 DEF Still
        <4>3. launching(f) /\ holding(f) /\ f.why # "limit"
          BY <1>3 DEF launching, holding, stage, fit
        <4>4. good(f)
          <5>1. tracked(f)
            BY <2>1, <3>1, <4>3 DEF tracked, heldBy, awaited
          <5>2. named(f)
            BY <2>1, <3>1, <4>3 DEF named, owned, awaited
          <5> QED
            BY <5>1, <5>2 DEF good
        <4>5. good(f)'
          BY <4>2, <4>4, StillGood
        <4> QED
          BY <4>1, <4>2, <4>5, TwinGood
      <3> QED
        BY <3>2, <3>3
    <2> QED
      BY <2>2, <2>3
  <1>10. ~reverted => (tracked(disk) /\ named(disk))'
    BY <1>9 DEF good, tracked, named, heldBy, owned, holding, launching, stage
  <1>11. ~reverted => (tracked(tick.flow) /\ named(tick.flow))'
    BY <1>2, <1>9 DEF good, tracked, named, heldBy, owned, holding, launching, stage
  <1> QED
    BY <1>1, <1>2, <1>7, <1>8, <1>10, <1>11 DEF Tracked, Launching, at

(* A poll that ended the review stopped whom it could, and left nobody.     *)
LEMMA ForgottenNobody ==
  ASSUME Sound, NEW f, good(f), forget(f), UNCHANGED <<strays, disowned>>,
         status(f) \in {"done", "ended"}
  PROVE  Fades /\ Nobody'
  <1>1. \A r \in Reviewers :
          /\ reviewer'[r].round = reviewer[r].round /\ reviewer'[r].said = reviewer[r].said
          /\ (running(r))' => running(r) /\ r # owned(f)
          /\ reviewer[r].status # "none" => reviewer'[r].status # "none"
    BY ForgetIs DEF Sound, Typed
  <1>2. Fades
    BY <1>1 DEF Fades
  <1>3. ASSUME NEW r \in Reviewers, awaited(r)' PROVE FALSE
    <2>1. ~ours(r)
      BY EndedNotOurs
    <2>2. ~watched(r)'
      BY <1>1, <1>2, FewerAwaited DEF good, named, watched
    <2> QED
      BY <1>2, <1>3, <2>1, <2>2, FewerAwaited DEF awaited
  <1> QED
    BY <1>2, <1>3 DEF Nobody

LEMMA ReviewHeld ==
  ASSUME Sound, Sound', Silent, Tracked,
         ReviewerRuns \/ ReviewerLost \/ VerdictFound \/ ReviewerSilent
  PROVE  Silent' /\ Tracked'
  <1> PICK h : h = tick.flow
    OBVIOUS
  <1> PICK d : d = disk
    OBVIOUS
  <1>1. /\ at("begun") /\ h.state = "reviewing" /\ UNCHANGED <<strays, disowned, reverted>>
    BY DEF ReviewerRuns, ReviewerLost, VerdictFound, ReviewerSilent, turn, calm, history
  <1>2. fit(h) /\ h.n \in Rounds /\ ~at("launch") /\ ~at("spawned")
    BY <1>1, BegunIs DEF fit, stage, Unsent, Early, at
  <1>3. spoken(h) \in Verdicts \cup {"none"} /\ review(h) \in Verdicts \cup {"none"}
    BY <1>2, SpokenIs DEF Sound, Typed
  <1>4. ~reverted => good(h)
    BY <1>1, FlowGood
  <1>5. h.why # "limit"
    BY <1>1, <1>2 DEF fit
  <1>6. CASE ReviewerRuns
    <2> PICK f : f = identified(h)
      OBVIOUS
    <2>1. yields(f) /\ Still
      BY <1>1, <1>6 DEF ReviewerRuns, Still
    <2>2. /\ fit(f) /\ stage(f) = stage(h) /\ f.why = h.why /\ f.n = h.n
          /\ f.round.pid = h.round.pid /\ f.round.started = h.round.started
          /\ f # h => runs[h.n] # 0
      BY <1>2, IdentifiedIs
    <2>3. owned(f) = owned(h)
      BY <2>2 DEF owned
    <2>4. carries(f, h)
      BY <1>5, <2>2, <2>3 DEF carries, holding, launching
    <2>5. ~reverted => good(f)
      BY <1>4, <2>4, CarriesGood
    <2> QED
      BY <1>1, <1>2, <2>1, <2>2, <2>5, StillYields
  <1>7. CASE ReviewerLost
    <2>1. /\ Still /\ status(h) = "lost"
          /\ \/ tick' = Idle /\ UNCHANGED disk
             \/ spoken(h) # "none" /\ yields(applyVerdict(h, spoken(h)))
             \/ yields(park(h, "other"))
      BY <1>1, <1>7 DEF ReviewerLost, Still
    <2>2. ~reverted => \A r \in Reviewers : ~watched(r)
      BY <1>2, <1>4, <2>1, LostUnwatched
    <2>3. CASE tick' = Idle /\ UNCHANGED disk
      BY <1>1, <1>2, <2>1, <2>3, IdleHeld
    <2>4. CASE spoken(h) # "none" /\ yields(applyVerdict(h, spoken(h)))
      <3> PICK f : f = applyVerdict(h, spoken(h))
        OBVIOUS
      <3>1. fit(f) /\ sameRound(f, h)
        BY <1>1, <1>2, <1>3, VerdictIs
      <3>2. ASSUME ~reverted, NEW r \in Reviewers, ours(r) PROVE FALSE
        <4>1. /\ artifact[h.n] = "none" /\ runs[h.n] \in {0, r} /\ h.round.pid \in {0, r}
              /\ running(r) /\ reviewer[r].said = "none" /\ r # 0
          BY <1>4, <3>2, FlowAssumption DEF good, tracked, heldBy, ours, Silent, Reviewers
        <4>2. child(h) \in {0, r}
          BY <4>1 DEF child
        <4> QED
          BY <2>4, <4>1, <4>2 DEF spoken
      <3>3. ~reverted => Nobody
        BY <2>2, <3>2 DEF Nobody, awaited
      <3>4. f.round.pid = h.round.pid
        BY <3>1, SameOwned
      <3> QED
        BY <1>1, <2>1, <2>4, <3>1, <3>3, <3>4, StillYields
    <2>5. CASE yields(park(h, "other"))
      <3> PICK f : f = park(h, "other")
        OBVIOUS
      <3>1. fit(f) /\ sameRound(f, h) /\ f.state = "needs_decision" /\ f.why = "other"
        BY <1>2, ParkIs
      <3>2. f.n = h.n /\ f.round.pid = h.round.pid /\ holding(f)
        BY <3>1, SameOwned DEF holding, stage
      <3>3. ~reverted => good(f)
        <4>1. ~reverted => tracked(f)
          BY <1>4, <3>1, <3>2 DEF good, tracked, heldBy
        <4>2. ~reverted => named(f)
          BY <2>2 DEF named
        <4> QED
          BY <4>1, <4>2 DEF good
      <3> QED
        BY <1>1, <1>2, <2>1, <2>5, <3>1, <3>2, <3>3, StillYields
    <2> QED
      BY <2>1, <2>3, <2>4, <2>5
  <1>8. ASSUME NEW f, fit(f), yields(f), f.round.pid \in {0, h.round.pid}, forget(h),
               status(h) \in {"done", "ended"}
        PROVE  Silent' /\ Tracked'
    <2>1. ~reverted => Nobody'
      BY <1>1, <1>4, <1>8, ForgottenNobody
    <2>2. Fades
      BY <1>1, <1>8, ForgetIs DEF Fades, Sound, Typed
    <2> QED
      BY <1>1, <1>8, <2>1, <2>2, YieldsHeld
  <1>9. CASE VerdictFound
    <2> PICK f : f = applyVerdict(h, review(h))
      OBVIOUS
    <2>1. yields(f) /\ forget(h) /\ status(h) \in {"done", "ended"}
      BY <1>9 DEF VerdictFound
    <2>2. fit(f) /\ sameRound(f, h)
      BY <1>1, <1>2, <1>3, VerdictIs
    <2>3. f.round.pid = h.round.pid
      BY <2>2, SameOwned
    <2> QED
      BY <1>8, <2>1, <2>2, <2>3
  <1>10. CASE ReviewerSilent
    <2>1. /\ forget(h) /\ status(h) \in {"done", "ended"}
          /\ (retryLeft(h) /\ yields(retryRound(h))) \/ yields(parkError(h))
      BY <1>10 DEF ReviewerSilent
    <2>2. CASE retryLeft(h) /\ yields(retryRound(h))
      <3> PICK f : f = retryRound(h)
        OBVIOUS
      <3>1. fit(f) /\ f.round.pid = 0
        BY <1>1, <1>2, <2>2, RetryRoundIs DEF newRound
      <3> QED
        BY <1>8, <2>1, <2>2, <3>1
    <2>3. CASE yields(parkError(h))
      <3> PICK f : f = parkError(h)
        OBVIOUS
      <3>1. fit(f) /\ sameRound(f, h)
        BY <1>2, ParkErrorIs
      <3>2. f.round.pid = h.round.pid
        BY <3>1, SameOwned
      <3> QED
        BY <1>8, <2>1, <2>3, <3>1, <3>2
    <2> QED
      BY <2>1, <2>2, <2>3
  <1> QED
    BY <1>6, <1>7, <1>9, <1>10

(* No reviewer runs while the flow relays.                                  *)
LEMMA RelayNobody ==
  ASSUME Sound, Tracked, ~reverted, tick.flow.state = "relaying",
         at("begun") \/ at("relay") \/ at("delivered")
  PROVE  Nobody
  <1> PICK h : h = tick.flow
    OBVIOUS
  <1>1. good(h)
    BY FlowGood
  <1>2. vacant(h)
    BY DEF vacant, holding, launching, stage
  <1> QED
    BY <1>1, <1>2, VacantNobody

LEMMA RelayHeld ==
  ASSUME Sound, Sound', Silent, Tracked,
         RelayInterrupted \/ StartRelay \/ Delivered \/ FinishRelay \/ RelayFails
  PROVE  Silent' /\ Tracked'
  <1> PICK h : h = tick.flow
    OBVIOUS
  <1> PICK g : g = disk'
    OBVIOUS
  <1>1. Still /\ reverted' = reverted
    BY DEF RelayInterrupted, StartRelay, Delivered, FinishRelay, RelayFails, Still, calm, history
  <1>2. fit(h) /\ h.state = "relaying" /\ (at("begun") \/ at("relay") \/ at("delivered"))
    BY RelayingIs, BegunIs
       DEF RelayInterrupted, StartRelay, Delivered, FinishRelay, RelayFails, turn, Sound, Fit
  <1>3. ~reverted => Nobody
    BY <1>2, RelayNobody
  <1>4. ASSUME NEW f, fit(f), yields(f), f.round.pid = h.round.pid
        PROVE  Silent' /\ Tracked'
    BY <1>1, <1>3, <1>4, StillYields
  <1>5. CASE RelayInterrupted
    <2> PICK f : f = park(h, "other")
      OBVIOUS
    <2>1. yields(f)
      BY <1>5 DEF RelayInterrupted
    <2>2. fit(f) /\ sameRound(f, h)
      BY <1>2, ParkIs
    <2> QED
      BY <1>4, <2>1, <2>2, SameOwned
  <1>6. CASE FinishRelay
    <2> PICK f : f = afterRelay(h)
      OBVIOUS
    <2>1. yields(f)
      BY <1>6 DEF FinishRelay
    <2>2. fit(f)
      BY <1>2, AfterRelayIs
    <2>3. f.round.pid = h.round.pid
      BY <1>2 DEF afterRelay, park, fit, Flow, Round
    <2> QED
      BY <1>4, <2>1, <2>2, <2>3
  <1>7. CASE RelayFails
    <2> PICK f : f = [h EXCEPT !.state = "paused", !.from = "relaying", !.why = "other",
                               !.round.error = TRUE]
      OBVIOUS
    <2>1. yields(f)
      BY <1>7 DEF RelayFails
    <2>2. fit(f)
      BY <1>2, RelayFailedIs
    <2>3. f.round.pid = h.round.pid
      BY <1>2 DEF fit, Flow, Round
    <2> QED
      BY <1>4, <2>1, <2>2, <2>3
  <1>8. ASSUME tick'.pc \in {"relay", "delivered"}, g.round.pid \in {0, disk.round.pid, h.round.pid},
               tick'.flow.round.pid = h.round.pid
        PROVE  Silent' /\ Tracked'
    <2>1. Fades /\ (~reverted => Nobody')
      BY <1>1, <1>3, StillFades
    <2>2. Silent'
      BY <1>1, <1>8, <2>1, SilentKept
    <2>3. ~reverted => (tracked(disk) /\ named(disk))' /\ (tracked(tick.flow) /\ named(tick.flow))'
      BY <2>1 DEF Nobody, tracked, named, awaited
    <2>4. ~reverted => Single'
      BY <2>1, SingleKept DEF Tracked
    <2> QED
      BY <1>1, <1>8, <2>2, <2>3, <2>4 DEF Tracked, Launching, at
  <1>9. CASE StartRelay
    <2> PICK f : f = [h EXCEPT !.round.relaying = TRUE]
      OBVIOUS
    <2>1. continues("relay", f) /\ "relay" \in Pcs
      BY <1>9 DEF StartRelay, Pcs
    <2>2. fit(f)
      BY <1>2, RelayStartedIs
    <2>3. f.round.pid = h.round.pid
      BY <1>2 DEF fit, Flow, Round
    <2>4. merged(g, f) /\ tick'.pc = "relay" /\ tick'.flow = f
      BY <2>1, <2>2, ContinuesIs DEF Sound, Typed
    <2> QED
      BY <1>8, <2>3, <2>4 DEF merged, twin, sameRound
  <1>10. CASE Delivered
    <2>1. tick' = [tick EXCEPT !.pc = "delivered"] /\ "delivered" \in Pcs /\ g = disk
      BY <1>10 DEF Delivered, Pcs
    <2>2. tick'.pc = "delivered" /\ tick'.flow = tick.flow
      BY <2>1, TickGoes DEF Sound, Typed
    <2> QED
      BY <1>8, <2>1, <2>2
  <1> QED
    BY <1>5, <1>6, <1>7, <1>9, <1>10

(* A request that saves a new version f of the flow and stops nobody.       *)
LEMMA SavesHeld ==
  ASSUME Sound, Sound', Silent, Tracked, UNCHANGED <<tick, reverted>>, Still, request,
         NEW f, fit(f), saves(f), f.round.pid \in {0, disk.round.pid},
         ~reverted => Nobody \/ good(f)
  PROVE  Silent' /\ Tracked'
  <1> PICK g : g = disk'
    OBVIOUS
  <1> PICK h : h = tick.flow
    OBVIOUS
  <1>1. twin(g, f) /\ ~at("launch") /\ ~at("spawned") /\ Fades
    BY SavesIs, RequestIs, StillFades DEF Sound, Typed
  <1>2. g.round.pid = f.round.pid
    BY <1>1 DEF twin, sameRound
  <1>3. ~reverted => Nobody' \/ good(g)'
    BY <1>1, StillFades, StillGood, TwinGood
  <1>4. good(h) => good(h)'
    BY StillGood
  <1> QED
    BY <1>1, <1>2, <1>3, <1>4, AskedHeld

LEMMA PlainHeld ==
  ASSUME Sound, Sound', Silent, Tracked,
         Pause \/ Resume \/ SetMode \/ AnotherRound \/ Advance
           \/ \E raw \in 0 .. MaxRounds : SetRoundLimit(raw)
  PROVE  Silent' /\ Tracked'
  <1> PICK h : h = disk
    OBVIOUS
  <1>1. request /\ UNCHANGED <<tick, reverted>> /\ Still
    BY DEF Pause, Resume, SetMode, AnotherRound, Advance, SetRoundLimit, plain, memory, history,
           Still, unforgotten
  <1>2. fit(h) /\ (~reverted => good(h))
    BY <1>1, RequestIs, DiskGood DEF Sound, Fit, Typed
  <1>3. ASSUME NEW f, fit(f), saves(f), f.round.pid \in {0, h.round.pid}, vacant(h) \/ carries(f, h)
        PROVE  Silent' /\ Tracked'
    <2>1. ~reverted => Nobody \/ good(f)
      BY <1>2, <1>3, VacantNobody, CarriesGood
    <2> QED
      BY <1>1, <1>3, <2>1, SavesHeld
  <1>4. ASSUME NEW f, fit(f), saves(f), twin(f, h), vacant(h) \/ f.why # "limit"
        PROVE  Silent' /\ Tracked'
    <2>1. f.round.pid = h.round.pid
      BY <1>4, SameOwned DEF twin
    <2>2. vacant(h) \/ carries(f, h)
      BY <1>4, SameOwned DEF twin, carries, holding, launching
    <2> QED
      BY <1>3, <1>4, <2>1, <2>2
  <1>5. h.why = "limit" => vacant(h)
    BY <1>2 DEF fit, vacant, launching, stage
  <1>6. CASE Pause
    <2> PICK f : f = [h EXCEPT !.state = "paused", !.from = h.state, !.why = "other"]
      OBVIOUS
    <2>1. h.state \notin {"paused", "closed"} /\ saves(f)
      BY <1>6 DEF Pause
    <2>2. /\ fit(f) /\ f.state = "paused" /\ stage(f) = h.state /\ f.why = "other"
          /\ sameRound(f, h)
      BY <1>2, <2>1, PausedIs
    <2>3. stage(h) = h.state
      BY <2>1 DEF stage
    <2>4. carries(f, h)
      BY <2>2, <2>3, SameOwned DEF carries, holding, launching
    <2>5. f.round.pid = h.round.pid
      BY <2>2, SameOwned
    <2> QED
      BY <1>3, <2>1, <2>2, <2>4, <2>5
  <1>7. CASE Resume
    <2> PICK f : f = [h EXCEPT !.state = h.from, !.from = "waiting_ready", !.why = "none"]
      OBVIOUS
    <2>1. h.state = "paused" /\ saves(f)
      BY <1>7 DEF Resume
    <2>2. /\ fit(f) /\ stage(f) = stage(h) /\ f.why = "none" /\ sameRound(f, h)
      BY <1>2, <2>1, ResumedIs
    <2>3. carries(f, h)
      BY <2>2, SameOwned DEF carries, holding, launching
    <2>4. f.round.pid = h.round.pid
      BY <2>2, SameOwned
    <2> QED
      BY <1>3, <2>1, <2>2, <2>3, <2>4
  <1>8. CASE SetMode
    <2> PICK u \in BOOLEAN : u = ~h.manual
      OBVIOUS
    <2> PICK f : f = [h EXCEPT !.manual = u]
      OBVIOUS
    <2>1. saves(f)
      BY <1>2, <1>8 DEF SetMode, fit, Flow
    <2>2. 0 \in 0 .. MaxRounds
      BY FlowAssumption
    <2>3. fit(f) /\ twin(f, h)
      BY <1>2, <2>2, SettingIs
    <2>4. f.why = h.why
      BY <2>3 DEF twin
    <2> QED
      BY <1>4, <1>5, <2>1, <2>3, <2>4
  <1>9. CASE AnotherRound
    <2> PICK f : f = [h EXCEPT !.state = "waiting_ready", !.why = "none"]
      OBVIOUS
    <2>1. h.state = "done_comment" /\ saves(f)
      BY <1>9 DEF AnotherRound
    <2>2. fit(f) /\ sameRound(f, h)
      BY <1>2, WaitingIs
    <2>3. vacant(h)
      BY <2>1 DEF vacant, holding, launching, stage
    <2>4. f.round.pid = h.round.pid
      BY <2>2, SameOwned
    <2> QED
      BY <1>3, <2>1, <2>2, <2>3, <2>4
  <1>10. CASE Advance
    <2>1. CASE h.state = "waiting_ready" /\ h.n < MaxRounds /\ saves(withRound(h))
      <3> PICK f : f = withRound(h)
        OBVIOUS
      <3>1. fit(f) /\ f.round.pid = 0
        BY <1>2, <2>1, WithRoundIs DEF newRound
      <3>2. vacant(h)
        BY <2>1 DEF vacant, holding, launching, stage
      <3> QED
        BY <1>3, <2>1, <3>1, <3>2
    <2>2. CASE h.state = "spawn_pending" /\ saves([h EXCEPT !.state = "spawning", !.why = "none"])
      <3> PICK f : f = [h EXCEPT !.state = "spawning", !.why = "none"]
        OBVIOUS
      <3>1. fit(f) /\ sameRound(f, h)
        BY <1>2, <2>2, AdvancedIs
      <3>2. vacant(h)
        BY <2>2 DEF vacant, holding, launching, stage
      <3>3. f.round.pid = h.round.pid
        BY <3>1, SameOwned
      <3> QED
        BY <1>3, <2>2, <3>1, <3>2, <3>3
    <2>3. CASE h.state = "relay_pending" /\ saves([h EXCEPT !.state = "relaying", !.why = "none"])
      <3> PICK f : f = [h EXCEPT !.state = "relaying", !.why = "none"]
        OBVIOUS
      <3>1. fit(f) /\ sameRound(f, h)
        BY <1>2, <2>3, AdvancedIs
      <3>2. vacant(h)
        BY <2>3 DEF vacant, holding, launching, stage
      <3>3. f.round.pid = h.round.pid
        BY <3>1, SameOwned
      <3> QED
        BY <1>3, <2>3, <3>1, <3>2, <3>3
    <2> QED
      BY <1>10, <2>1, <2>2, <2>3 DEF Advance
  <1>11. CASE \E raw \in 0 .. MaxRounds : SetRoundLimit(raw)
    <2> PICK raw \in 0 .. MaxRounds : SetRoundLimit(raw)
      BY <1>11
    <2> PICK l : l = IF raw = 0 \/ raw >= h.n THEN raw ELSE h.n
      OBVIOUS
    <2>1. l \in 0 .. MaxRounds
      BY <1>2 DEF fit, Flow
    <2> PICK w : w = [h EXCEPT !.limit = l]
      OBVIOUS
    <2> PICK f : f = [h EXCEPT !.limit = l, !.state = "waiting_ready", !.why = "none"]
      OBVIOUS
    <2>2. fit(w) /\ twin(w, h)
      BY <1>2, <2>1, SettingIs
    <2>3. f = [w EXCEPT !.state = "waiting_ready", !.why = "none"]
      BY <1>2 DEF fit, Flow
    <2>4. fit(f) /\ sameRound(f, w)
      BY <2>2, <2>3, WaitingIs
    <2>5. saves(w) \/ (saves(f) /\ h.why = "limit")
      BY DEF SetRoundLimit
    <2>6. w.why = h.why /\ w.round.pid = h.round.pid
      BY <2>2, SameOwned DEF twin
    <2>7. f.round.pid = h.round.pid
      BY <2>4, <2>6, SameOwned
    <2>8. CASE saves(w)
      BY <1>4, <1>5, <2>2, <2>6, <2>8
    <2>9. CASE saves(f) /\ h.why = "limit"
      BY <1>3, <1>5, <2>4, <2>7, <2>9
    <2> QED
      BY <2>5, <2>8, <2>9
  <1> QED
    BY <1>6, <1>7, <1>8, <1>9, <1>10, <1>11

(* An operator ends a parking: whoever still runs is disowned.              *)
LEMMA UnparkNobody ==
  ASSUME Sound, Tracked, ~reverted, unpark, disk.state = "needs_decision", Fades,
         ~at("launch"), ~at("spawned")
  PROVE  Nobody'
  <1>1. good(disk)
    BY DiskGood
  <1>2. ~launching(disk)
    BY DEF launching, stage
  <1>3. \A r \in Reviewers : ~watched(r)
    BY <1>1, <1>2 DEF good, named
  <1>4. \A r \in Reviewers : ~ours(r)'
    BY DEF unpark, ours, running
  <1> QED
    BY <1>3, <1>4, FewerAwaited DEF Nobody, awaited

LEMMA RetryHeld ==
  ASSUME Sound, Sound', Silent, Tracked, RetryRound
  PROVE  Silent' /\ Tracked'
  <1> PICK h : h = disk
    OBVIOUS
  <1> PICK k : k = tick.flow
    OBVIOUS
  <1> PICK f : f = [h EXCEPT !.round = NewRound, !.why = "none",
                             !.state = IF h.manual THEN "spawn_pending" ELSE "spawning"]
    OBVIOUS
  <1> PICK g : g = disk'
    OBVIOUS
  <1>1. /\ request /\ h.state = "needs_decision" /\ h.n > 0 /\ forget(h) /\ saves(f) /\ unpark
        /\ UNCHANGED <<tick, strays, reverted>>
    BY DEF RetryRound
  <1>2. fit(h) /\ ~at("launch") /\ ~at("spawned")
    BY <1>1, RequestIs DEF Sound, Fit, Typed
  <1>3. fit(f) /\ f.round.pid = 0
    BY <1>1, <1>2, RestartedIs DEF newRound
  <1>4. twin(g, f)
    BY <1>1, <1>3, SavesIs
  <1>5. g.round.pid = 0
    BY <1>3, <1>4 DEF twin, sameRound
  <1>6. Fades
    BY <1>1, ForgetIs, UnparkIs DEF Fades, Sound, Typed
  <1>7. ~reverted => Nobody'
    BY <1>1, <1>2, <1>6, UnparkNobody
  <1> QED
    BY <1>1, <1>2, <1>5, <1>6, <1>7, AskedHeld

LEMMA ExtendHeld ==
  ASSUME Sound, Sound', Silent, Tracked, Extend
  PROVE  Silent' /\ Tracked'
  <1> PICK h : h = disk
    OBVIOUS
  <1> PICK g : g = disk'
    OBVIOUS
  <1> PICK k : k = tick.flow
    OBVIOUS
  <1> PICK l : l = IF h.limit \in 1 .. MaxRounds - 1 THEN h.limit + 1 ELSE h.limit
    OBVIOUS
  <1>1. fit(h)
    BY DEF Sound, Fit
  <1>2. l \in 0 .. MaxRounds
    <2>1. h.limit \in 0 .. MaxRounds
      BY <1>1 DEF fit, Flow
    <2> QED
      BY <2>1, FlowAssumption
  <1> PICK w : w = [h EXCEPT !.limit = l]
    OBVIOUS
  <1>3. fit(w) /\ twin(w, h)
    BY <1>1, <1>2, SettingIs
  <1> PICK f : f = IF h.state = "needs_decision"
                     THEN [w EXCEPT !.state = "waiting_ready", !.why = "none"] ELSE w
    OBVIOUS
  <1>4. /\ request /\ saves(f) /\ unpark
        /\ UNCHANGED <<tick, runs, reviewer, artifact, strays, reverted>>
    BY DEF Extend, memory, processes
  <1>5. ~at("launch") /\ ~at("spawned") /\ w.round.pid = h.round.pid
    BY <1>3, <1>4, RequestIs, SameOwned DEF Sound, Typed, twin
  <1>6. CASE h.state = "needs_decision"
    <2>1. fit(f) /\ sameRound(f, w)
      BY <1>3, <1>6, WaitingIs
    <2>2. twin(g, f)
      BY <1>4, <2>1, SavesIs
    <2>3. g.round.pid = h.round.pid
      BY <1>5, <2>1, <2>2 DEF twin, sameRound
    <2>4. Fades
      BY <1>4, UnparkIs DEF Fades, running, Sound, Typed
    <2>5. ~reverted => Nobody'
      BY <1>4, <1>5, <1>6, <2>4, UnparkNobody
    <2> QED
      BY <1>4, <1>5, <2>3, <2>4, <2>5, AskedHeld
  <1>7. CASE h.state # "needs_decision"
    <2>1. f = w /\ Still
      BY <1>4, <1>7 DEF Still, unforgotten, processes, unpark
    <2>2. ~reverted => good(h)
      BY <1>5, DiskGood
    <2>3. w.why # "limit"
      BY <1>1, <1>3, <1>7 DEF fit, twin
    <2>4. carries(w, h)
      BY <1>3, <2>3, SameOwned DEF twin, carries, holding, launching
    <2>5. ~reverted => good(w)
      BY <2>2, <2>4, CarriesGood
    <2> QED
      BY <1>3, <1>4, <1>5, <2>1, <2>5, SavesHeld
  <1> QED
    BY <1>6, <1>7

(* What a request that stops the flow's reviewer leaves of a good flow.     *)
LEMMA StoppedGood ==
  ASSUME Sound, forget(disk), UNCHANGED <<artifact, strays, disowned>>, good(disk)
  PROVE  /\ Fades /\ \A r \in Reviewers : ~watched(r)'
         /\ \A x : good(x) => good(x)'
  <1>1. \A r \in Reviewers :
          /\ reviewer'[r].round = reviewer[r].round /\ reviewer'[r].said = reviewer[r].said
          /\ (running(r))' => running(r) /\ r # owned(disk)
          /\ reviewer[r].status # "none" => reviewer'[r].status # "none"
    BY ForgetIs DEF Sound, Typed
  <1>2. \A n \in Rounds : runs'[n] \in {0, runs[n]}
    BY ForgetIs DEF Sound, Typed
  <1>3. Fades
    BY <1>1 DEF Fades
  <1>4. \A r \in Reviewers : ~watched(r)'
    BY <1>1, <1>3, FewerAwaited DEF good, named, watched
  <1>5. \A r \in Reviewers : reviewer[r].round \in Rounds
    BY DEF Sound, Typed, Processes, Process
  <1>6. ASSUME NEW x, good(x) PROVE good(x)'
    <2>1. tracked(x)'
      <3> SUFFICES ASSUME NEW r \in Reviewers, ours(r)' PROVE heldBy(x, r)'
        BY DEF tracked
      <3>1. ours(r) /\ reviewer'[r].round = reviewer[r].round
        BY <1>3, FewerAwaited
      <3>2. heldBy(x, r) /\ x.n \in Rounds
        BY <1>5, <1>6, <3>1 DEF good, tracked, heldBy
      <3> QED
        BY <1>2, <3>1, <3>2 DEF heldBy
    <2>2. named(x)'
      BY <1>4 DEF named
    <2> QED
      BY <2>1, <2>2 DEF good
  <1> QED
    BY <1>3, <1>4, <1>6

LEMMA StopsHeld ==
  ASSUME Sound, Sound', Silent, Tracked, CancelRound \/ CloseFlow
  PROVE  Silent' /\ Tracked'
  <1> PICK h : h = disk
    OBVIOUS
  <1> PICK k : k = tick.flow
    OBVIOUS
  <1> PICK g : g = disk'
    OBVIOUS
  <1>1. request /\ UNCHANGED <<tick, strays, disowned, reverted, artifact>>
    BY DEF CancelRound, CloseFlow, history, unforgotten, processes
  <1>2. ~at("launch") /\ ~at("spawned") /\ fit(h)
    BY <1>1, RequestIs DEF Sound, Typed, Fit
  <1>3. /\ sameRound(g, h) /\ holding(g) /\ g.why # "limit"
    <2>1. CASE CancelRound
      <3>1. g = parkError(h)
        BY <2>1 DEF CancelRound
      <3> QED
        BY <1>2, <3>1, ParkErrorIs DEF holding, stage
    <2>2. CASE CloseFlow
      <3>1. \/ g = [h EXCEPT !.state = "closed", !.why = "none", !.round.error = TRUE]
            \/ g = [h EXCEPT !.state = "closed", !.why = "none"]
        BY <2>2 DEF CloseFlow
      <3> QED
        <4>1. g.state = "closed" /\ g.why = "none" /\ sameRound(g, h)
          BY <1>2, <3>1, ClosedIs
        <4> QED
          BY <4>1 DEF holding, stage
    <2> QED
      BY <2>1, <2>2
  <1>4. g.n = h.n /\ g.round.pid = h.round.pid
    BY <1>3, SameOwned
  <1>5. CASE forget(h)
    <2>1. Fades
      BY <1>1, <1>5, ForgetIs DEF Fades, Sound, Typed
    <2>2. ASSUME ~reverted PROVE good(g)' /\ (good(k) => good(k)')
      <3>1. good(h)
        BY <1>2, <2>2, DiskGood
      <3>2. good(h)' /\ (good(k) => good(k)') /\ \A r \in Reviewers : ~watched(r)'
        BY <1>1, <1>5, <3>1, StoppedGood
      <3>3. tracked(g)'
        BY <1>3, <1>4, <3>2 DEF good, tracked, heldBy
      <3>4. named(g)'
        BY <3>2 DEF named
      <3> QED
        BY <3>2, <3>3, <3>4 DEF good
    <2> QED
      BY <1>1, <1>2, <1>4, <2>1, <2>2, AskedHeld
  <1>6. CASE ~forget(h)
    <2>1. /\ unforgotten /\ ~(h.n > 0 /\ h.round.verdict = "none" /\ ~h.round.error)
      BY <1>6 DEF CancelRound, CloseFlow
    <2>2. Still
      BY <1>1, <2>1 DEF Still
    <2>3. ~launching(h)
      <3> SUFFICES ASSUME launching(h) PROVE FALSE
        OBVIOUS
      <3>1. stage(h) \in Early
        BY DEF launching, Early
      <3>2. h.n \in Rounds /\ ~h.round.error /\ h.round.verdict = "none"
        BY <1>2, <3>1 DEF fit, Unsent
      <3> QED
        BY <2>1, <3>2 DEF Rounds
    <2>4. ASSUME ~reverted PROVE good(g)
      <3>1. good(h)
        BY <1>2, <2>4, DiskGood
      <3>2. named(g)
        BY <2>3, <3>1 DEF good, named
      <3>3. tracked(g)
        BY <1>3, <1>4, <3>1 DEF good, tracked, heldBy
      <3> QED
        BY <3>2, <3>3 DEF good
    <2>5. Fades /\ (~reverted => good(g)') /\ (good(k) => good(k)')
      BY <2>2, <2>4, StillFades, StillGood
    <2> QED
      BY <1>1, <1>2, <1>4, <2>5, AskedHeld
  <1> QED
    BY <1>5, <1>6

---------------------------------------------------------------------------
(* A step that leaves the flow and the poller alone, even during a launch.  *)
LEMMA StandsHeld ==
  ASSUME Sound, Sound', Silent, Tracked, UNCHANGED <<tick, runs>>, Fades, ~reverted' => ~reverted,
         NEW d, d = disk, NEW g, g = disk', twin(g, d),
         \A r \in Reviewers :
           ours(r)' => artifact'[reviewer[r].round] = artifact[reviewer[r].round]
  PROVE  Silent' /\ Tracked'
  <1> PICK h : h = tick.flow
    OBVIOUS
  <1>1. /\ g.n = d.n /\ g.state = d.state /\ g.round.pid = d.round.pid
        /\ g.round.started = d.round.started
    BY DEF twin, sameRound
  <1>2. Silent'
    BY <1>1, SilentKept
  <1>3. ASSUME NEW x, good(x) PROVE good(x)'
    <2>1. tracked(x)'
      <3> SUFFICES ASSUME NEW r \in Reviewers, ours(r)' PROVE heldBy(x, r)'
        BY DEF tracked
      <3>1. ours(r) /\ reviewer'[r].round = reviewer[r].round
        BY FewerAwaited
      <3>2. heldBy(x, r)
        BY <1>3, <3>1 DEF good, tracked
      <3> QED
        BY <3>1, <3>2 DEF heldBy
    <2>2. named(x)'
      BY <1>3, FewerAwaited DEF good, named, owned
    <2> QED
      BY <2>1, <2>2 DEF good
  <1> SUFFICES ASSUME ~reverted PROVE
        /\ Launching' /\ Single'
        /\ ~at("launch")' /\ ~at("spawned")' => (tracked(disk) /\ named(disk))'
        /\ tick'.pc \in {"begun", "relay", "delivered", "rest"} =>
             (tracked(tick.flow) /\ named(tick.flow))'
    BY <1>2 DEF Tracked
  <1>4. Single'
    BY SingleKept DEF Tracked
  <1>5. Launching'
    <2>1. takenOver(tick.base)' <=> takenOver(tick.base)
      BY <1>1 DEF takenOver
    <2>2. \A r \in Reviewers :
            /\ awaited(r)' => awaited(r)
            /\ ours(r)' => ours(r)
            /\ reviewer'[r].round = reviewer[r].round
      BY FewerAwaited DEF awaited
    <2>3. Launching
      BY DEF Tracked
    <2>4. (at("launch") \/ at("spawned"))' =>
            (~takenOver(tick.base) => disk.round.started /\ disk.round.pid = 0)'
      BY <1>1, <2>1, <2>3 DEF Launching, at
    <2>5. at("launch")' => \A r \in Reviewers : ~awaited(r)'
      BY <2>2, <2>3 DEF Launching, at
    <2>6. at("spawned")' => \A r \in Reviewers : awaited(r)' =>
            /\ runs'[tick'.flow.n] = r /\ reviewer'[r].round = tick'.flow.n
            /\ tick'.flow.round.pid = r /\ disk'.round.pid # r
            /\ ours(r)' => artifact'[tick'.flow.n] = "none"
      BY <1>1, <2>2, <2>3 DEF Launching, at
    <2> QED
      BY <2>4, <2>5, <2>6 DEF Launching
  <1>6. ASSUME ~at("launch")', ~at("spawned")' PROVE (tracked(disk) /\ named(disk))'
    <2>1. good(d)
      BY <1>6, DiskGood DEF at
    <2>2. good(g)'
      BY <1>3, <2>1, TwinGood
    <2> QED
      BY <2>2 DEF good, tracked, named, heldBy, owned, holding, launching, stage
  <1>7. ASSUME tick'.pc \in {"begun", "relay", "delivered", "rest"}
        PROVE  (tracked(tick.flow) /\ named(tick.flow))'
    <2>1. good(h)
      BY <1>7, FlowGood DEF at
    <2>2. good(h)' /\ tick'.flow = h
      BY <1>3, <2>1
    <2> QED
      BY <2>2 DEF good, tracked, named, heldBy, owned, holding, launching, stage
  <1> QED
    BY <1>4, <1>5, <1>6, <1>7

LEMMA ReviewerHeld ==
  ASSUME Sound, Sound', Silent, Tracked, ReviewerStep
  PROVE  Silent' /\ Tracked'
  <1> PICK d : d = disk
    OBVIOUS
  <1> PICK r \in Reviewers :
        \/ ReviewerExits(r)
        \/ \E v \in Verdicts, written \in BOOLEAN : ReviewerConcludes(r, v, written)
    BY DEF ReviewerStep
  <1>1. UNCHANGED <<disk, tick, runs, strays, reverted>> /\ disowned \subseteq disowned'
    BY DEF ReviewerExits, ReviewerConcludes, memory, history
  <1>2. /\ reviewer'[r].status = "gone" /\ reviewer'[r].round = reviewer[r].round
        /\ \A s \in Reviewers : s # r => reviewer'[s] = reviewer[s]
    <2>1. reviewer[r] \in Process /\ reviewer \in [Reviewers -> Process]
      BY DEF Sound, Typed, Processes
    <2>2. CASE ReviewerExits(r)
      BY <2>1, <2>2 DEF ReviewerExits, Process
    <2>3. CASE \E v \in Verdicts, written \in BOOLEAN : ReviewerConcludes(r, v, written)
      <3> PICK v \in Verdicts, written \in BOOLEAN : ReviewerConcludes(r, v, written)
        BY <2>3
      <3> DEFINE q == [reviewer[r] EXCEPT !.status = "gone", !.said = v]
      <3>1. reviewer' = [reviewer EXCEPT ![r] = q]
        BY <2>1 DEF ReviewerConcludes
      <3>2. q.status = "gone" /\ q.round = reviewer[r].round
        BY <2>1 DEF Process
      <3> HIDE DEF q
      <3> QED
        BY <2>1, <3>1, <3>2
    <2> QED
      BY <2>2, <2>3
  <1>3. Fades
    <2>1. \A s \in Reviewers :
            /\ reviewer'[s].round = reviewer[s].round
            /\ (running(s))' => running(s) /\ reviewer'[s].said = reviewer[s].said
            /\ reviewer[s].status # "none" => reviewer'[s].status # "none"
      BY <1>2 DEF running
    <2> QED
      BY <1>1, <2>1 DEF Fades
  <1>4. \A s \in Reviewers :
          ours(s)' => artifact'[reviewer[s].round] = artifact[reviewer[s].round]
    <2> SUFFICES ASSUME NEW s \in Reviewers, ours(s)'
                 PROVE  artifact'[reviewer[s].round] = artifact[reviewer[s].round]
      OBVIOUS
    <2>1. s # r /\ running(s) /\ s \notin disowned'
      BY <1>2 DEF ours, running
    <2>2. CASE ReviewerExits(r)
      BY <2>2 DEF ReviewerExits
    <2>3. CASE \E v \in Verdicts, written \in BOOLEAN : ReviewerConcludes(r, v, written)
      <3> PICK v \in Verdicts, written \in BOOLEAN : ReviewerConcludes(r, v, written)
        BY <2>3
      <3>1. CASE ~written
        BY <3>1 DEF ReviewerConcludes
      <3>2. CASE written
        <4>1. /\ artifact' = [artifact EXCEPT ![reviewer[r].round] = v]
              /\ disowned' = disowned \cup misread(r)
          BY <3>2 DEF ReviewerConcludes
        <4>2. reviewer[s].round # reviewer[r].round
          BY <2>1, <4>1 DEF misread
        <4>3. reviewer[s].round \in Rounds /\ artifact \in [Rounds -> Verdicts \cup {"none"}]
          BY DEF Sound, Typed, Processes, Process
        <4> QED
          BY <4>1, <4>2, <4>3
      <3> QED
        BY <3>1, <3>2
    <2> QED
      BY <2>2, <2>3
  <1>5. twin(d, d)
    BY DEF twin, sameRound
  <1> QED
    BY <1>1, <1>3, <1>4, <1>5, StandsHeld

LEMMA OutsideHeld ==
  ASSUME Sound, Sound', Silent, Tracked,
         LeaseExpires \/ CreateFlow \/ KickoffDelivered \/ UNCHANGED vars
  PROVE  Silent' /\ Tracked'
  <1> PICK d : d = disk
    OBVIOUS
  <1> PICK g : g = disk'
    OBVIOUS
  <1>1. UNCHANGED <<tick, runs>> /\ Still
    BY DEF LeaseExpires, CreateFlow, KickoffDelivered, vars, memory, processes, history, Still,
           unforgotten
  <1>2. Fades /\ UNCHANGED artifact
    BY <1>1, StillFades DEF Still, unforgotten, processes
  <1>3. ASSUME twin(g, d), ~reverted' => ~reverted
        PROVE  Silent' /\ Tracked'
    BY <1>1, <1>2, <1>3, StandsHeld
  <1>4. CASE LeaseExpires
    <2>1. g = [d EXCEPT !.round.lease = FALSE] /\ UNCHANGED reverted
      BY <1>4 DEF LeaseExpires, history
    <2>2. fit(d)
      BY DEF Sound, Fit
    <2> QED
      BY <1>3, <2>1, <2>2, ExpiredIs
  <1>5. CASE CreateFlow \/ UNCHANGED vars
    <2>1. g = d /\ UNCHANGED reverted
      BY <1>5 DEF CreateFlow, vars, history
    <2> QED
      BY <1>3, <2>1 DEF twin, sameRound
  <1>6. CASE KickoffDelivered
    <2>1. reverted' = (reverted \/ disk # creating.copy) /\ g = creating.copy
      BY <1>6 DEF KickoffDelivered
    <2>2. CASE reverted'
      <3>1. \A r \in Reviewers : (running(r))' => reviewer'[r].said = "none"
        BY <1>2 DEF Silent, Fades
      <3> QED
        BY <2>2, <3>1 DEF Silent, Tracked
    <2>3. CASE ~reverted'
      BY <1>3, <2>1, <2>3 DEF twin, sameRound
    <2> QED
      BY <2>2, <2>3
  <1> QED
    BY <1>4, <1>5, <1>6

(* A restart forgets the children; a reviewer the file does not identify is *)
(* a stray from then on, and the adopted launch or review still has it.     *)
LEMMA RestartHeld ==
  ASSUME Sound, Sound', Silent, Tracked, ViewerRestarts
  PROVE  Silent' /\ Tracked'
  <1> PICK d : d = disk
    OBVIOUS
  <1>1. /\ tick' = Idle /\ UNCHANGED <<disk, reviewer, artifact, reverted>>
        /\ runs' = [n \in Rounds |-> 0]
        /\ strays' = strays \cup {r \in Reviewers : running(r) /\ ~recorded(r)}
        /\ disowned' = disowned \cup orphan
    BY DEF ViewerRestarts, processes
  <1>2. tick'.pc = "idle" /\ tick'.flow = NewFlow /\ NewFlow.round.pid = 0
    BY <1>1, IdleIs, NewRoundIs DEF NewFlow
  <1>3. Fades
    BY <1>1 DEF Fades, running
  <1>4. Silent'
    BY <1>1, <1>2, <1>3, SilentKept
  <1>5. \A r \in Reviewers :
          /\ ours(r)' => ours(r) /\ r \notin orphan
          /\ watched(r)' => watched(r) /\ d.round.pid = r /\ d.round.ident
    BY <1>1, <1>3, FewerAwaited DEF ours, watched, recorded, running
  <1>6. \A r \in Reviewers : reviewer[r].round \in Rounds
    BY DEF Sound, Typed, Processes, Process
  <1>7. ASSUME ~reverted, NEW r \in Reviewers, ours(r)' PROVE heldBy(d, r)'
    <2>1. d.n = reviewer[r].round /\ holding(d) /\ d.why # "limit" /\ artifact[d.n] = "none"
          /\ d.round.pid \in {0, r}
      <3>1. CASE ~at("launch") /\ ~at("spawned")
        BY <1>5, <1>7, <3>1, DiskGood DEF good, tracked, heldBy
      <3>2. CASE at("launch")
        BY <1>5, <1>7, <3>2, LaunchNobody DEF Nobody, awaited
      <3>3. CASE at("spawned")
        <4>1. /\ runs[tick.flow.n] = r /\ reviewer[r].round = tick.flow.n
              /\ artifact[tick.flow.n] = "none"
              /\ ~takenOver(tick.base) => d.round.started /\ d.round.pid = 0
          BY <1>5, <1>7, <3>3 DEF Tracked, Launching, awaited
        <4>2. tick.base.state = "spawning" /\ tick.flow.n = tick.base.n /\ fit(d)
          BY <3>3 DEF Sound, Based, Fit
        <4>3. r # 0
          BY FlowAssumption DEF Reviewers
        <4>4. ~takenOver(tick.base)
          BY <1>5, <1>7, <3>3, <4>1, <4>3 DEF orphan
        <4>5. d.state = "spawning" /\ d.n = tick.base.n
          BY <4>2, <4>4 DEF takenOver
        <4>6. holding(d) /\ d.why # "limit"
          BY <4>1, <4>2, <4>4, <4>5 DEF holding, launching, stage, fit
        <4> QED
          BY <4>1, <4>2, <4>4, <4>5, <4>6
      <3> QED
        BY <3>1, <3>2, <3>3
    <2>2. runs'[d.n] = 0
      BY <1>1, <1>6, <2>1
    <2> QED
      BY <1>1, <2>1, <2>2 DEF heldBy
  <1>8. ASSUME ~reverted, NEW r \in Reviewers, watched(r)'
        PROVE  d.n = reviewer[r].round /\ launching(d) /\ owned(d)' = r
    <2>1. watched(r) /\ d.round.pid = r /\ d.round.ident
      BY <1>5, <1>8
    <2>2. ~at("launch")
      BY <1>8, <2>1, LaunchNobody DEF Nobody, awaited
    <2>3. ~at("spawned")
      BY <1>8, <2>1 DEF Tracked, Launching, awaited
    <2>4. d.n = reviewer[r].round /\ launching(d)
      BY <1>8, <2>1, <2>2, <2>3, DiskGood DEF good, named
    <2>5. runs'[d.n] = 0
      BY <1>1, <1>6, <2>4
    <2> QED
      BY <2>1, <2>4, <2>5 DEF owned
  <1>9. ~reverted => good(d)'
    <2>1. ~reverted => tracked(d)'
      BY <1>7 DEF tracked
    <2>2. ~reverted => named(d)'
      BY <1>1, <1>8 DEF named
    <2> QED
      BY <2>1, <2>2 DEF good
  <1>10. ~reverted => (tracked(disk) /\ named(disk))'
    BY <1>1, <1>9 DEF good, tracked, named, heldBy, owned, holding, launching, stage
  <1>11. ~reverted => Single'
    BY <1>3, SingleKept DEF Tracked
  <1> QED
    BY <1>1, <1>2, <1>4, <1>10, <1>11 DEF Tracked, Launching, at

LEMMA HeldKept ==
  ASSUME Sound, Sound', Silent, Tracked, [Next]_vars
  PROVE  Silent' /\ Tracked'
  <1>1. CASE TickStep
    <2>1. CASE \E r \in Reviewers, ident \in BOOLEAN : StartHeadlessReview(r, ident)
      BY <2>1, StartHeld
    <2>2. CASE ~\E r \in Reviewers, ident \in BOOLEAN : StartHeadlessReview(r, ident)
      BY <1>1, <2>2, EndsHeld, TurnHeld, ReserveHeld, ReuseHeld, PersistHeld, ReviewHeld,
         RelayHeld DEF TickStep
    <2> QED
      BY <2>1, <2>2
  <1>2. CASE TickStarts \/ MarkerSeen \/ ImplementerMissing \/ LaunchFails \/ RelayFails
    BY <1>2, StartsHeld, TurnHeld, RelayHeld
  <1>3. CASE Operator
    BY <1>3, PlainHeld, RetryHeld, ExtendHeld, StopsHeld DEF Operator
  <1>4. CASE \/ ViewerRestarts \/ LeaseExpires \/ CreateFlow \/ KickoffDelivered
             \/ ReviewerStep \/ UNCHANGED vars
    BY <1>4, RestartHeld, OutsideHeld, ReviewerHeld
  <1> QED
    BY <1>1, <1>2, <1>3, <1>4 DEF Next

LEMMA InitHeld ==
  ASSUME Init
  PROVE  Silent /\ Tracked
  <1>1. \A r \in Reviewers : reviewer[r].status = "none"
    BY DEF Init
  <1>2. Nobody
    BY <1>1 DEF Nobody, awaited, ours, watched, running
  <1>3. tick.pc = "idle" /\ tick.flow = NewFlow
    BY DEF Init, Idle
  <1>4. disk.round.pid = 0 /\ NewFlow.round.pid = 0
    <2>1. disk.round = NewRound
      BY DEF Init
    <2> QED
      BY <2>1, NewRoundIs DEF NewFlow
  <1>5. Silent
    BY <1>1, <1>3, <1>4 DEF Silent, running, known
  <1> QED
    BY <1>2, <1>3, <1>5
       DEF Tracked, Launching, Single, tracked, named, Nobody, awaited, at

LEMMA HeldAlways ==
  Spec => [](Sound /\ Silent /\ Tracked)
  <1>1. Init => Sound /\ Silent /\ Tracked
    BY InitSound, InitHeld
  <1>2. (Sound /\ Silent /\ Tracked) /\ [Next]_vars => (Sound /\ Silent /\ Tracked)'
    BY SoundKept, HeldKept
  <1> QED
    BY <1>1, <1>2, PTL DEF Spec

(* The inductive invariant, of which a run of the poller, the operators, the *)
(* reviewers and the failures never leaves any part.                         *)
THEOREM Invariance ==
  Spec => []IInv
  BY HeldAlways, RelayedAlways, PTL DEF IInv, Sound

(* Over every restart, retry, pause and merge of an old clone, the flow has *)
(* one reviewer at most, but for those it moved on from.                    *)
THEOREM FlowHasOneReviewer ==
  Spec => []OneReviewer
  <1>1. ASSUME Tracked PROVE OneReviewer
    <2> SUFFICES ASSUME ~reverted
                 PROVE  Cardinality({r \in Reviewers : running(r)} \ disowned) <= 1
      BY DEF OneReviewer
    <2> PICK S : S = {r \in Reviewers : running(r)} \ disowned
      OBVIOUS
    <2>1. \A r, s \in S : r = s
      BY <1>1 DEF Tracked, Single, ours
    <2>2. CASE S = {}
      BY <2>2, FS_EmptySet
    <2>3. CASE S # {}
      <3> PICK x : x \in S
        BY <2>3
      <3>1. S = {x}
        BY <2>1
      <3>2. Cardinality({x}) = 1
        BY FS_Singleton
      <3>3. Cardinality(S) = 1
        BY <3>1, <3>2
      <3> QED
        BY <3>3
    <2> QED
      BY <2>2, <2>3
  <1> QED
    BY <1>1, HeldAlways, PTL

(* A closed flow has no reviewer running but one that a restart forgot.     *)
THEOREM ClosingStopsReviewer ==
  Spec => []ClosedStopsReviewer
  <1>1. ASSUME Tracked PROVE ClosedStopsReviewer
    <2> SUFFICES ASSUME ~at("spawned"), disk.state = "closed", ~reverted,
                        NEW r \in Reviewers, running(r), r \notin strays
                 PROVE  FALSE
      BY DEF ClosedStopsReviewer
    <2>1. CASE at("launch")
      BY <1>1, <2>1, LaunchNobody DEF Nobody, awaited, watched
    <2>2. CASE ~at("launch")
      BY <1>1, <2>2, DiskGood DEF good, named, watched, launching, stage
    <2> QED
      BY <2>1, <2>2
  <1> QED
    BY <1>1, HeldAlways, PTL
============================================================================
