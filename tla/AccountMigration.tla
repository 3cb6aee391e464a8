------------------------------ MODULE AccountMigration ------------------------------
(***************************************************************************)
(* Moving one Codex conversation to another account while messages arrive  *)
(* for it: lib/accounts/migration (coordinator and provider) over the      *)
(* agent registry's migration, generations, held deliveries and cleanups,  *)
(* and over the message effects of the runtime host.                       *)
(*                                                                         *)
(* An intent asks for a succession: the source thread is forked, the fork  *)
(* resumed under the target account, verified, given a host and committed  *)
(* as the conversation's current generation.  Controllers and routes of    *)
(* one Viewer advance it, several at a time, and each works on what it     *)
(* read before it awaited.  A step is what runs between two awaits: a call *)
(* of the engine, the start of a host and its registration are awaited,    *)
(* and the registry calls made on an answer are in the step that takes it. *)
(* Left out: Claude's successors, automatic intents, reseats of a single   *)
(* conversation, conversations without a host, images, boards, paths; a    *)
(* host whose process outlives its release or the Viewer.                  *)
(***************************************************************************)
EXTENDS Integers, Sequences, FiniteSets

CONSTANTS
  MessageCount,  \* bound: messages of a behaviour
  MaxOps,        \* bound: successions of a behaviour
  Runs,          \* bound: advances and cleanups in flight at once
  MaxFaults,     \* bound: failed calls and restarts
  MaxRequests    \* bound: requests of operators and messages sent again

ASSUME MigrationAssumption ==
  /\ MessageCount \in Nat /\ MaxOps \in Nat
  /\ MaxFaults \in Nat /\ MaxRequests \in Nat

Messages == 1 .. MessageCount
Ops == 1 .. MaxOps
Accounts == {"a", "b"}

VARIABLES
  intents,    \* registry: the engine's migration intents, in order
  migration,  \* registry: the conversation's migration
  gens,       \* registry: its generations, with the messages each has read
  row,        \* registry: message -> its held delivery
  cleanup,    \* registry: pendingSuccessorCleanups
  journal,    \* provider: operation -> what its journal says of the fork
  fork,       \* engine: operation -> the fork made for it
  hosted,     \* operations whose successor has a host: started, registered
              \* for delivery, or of the current generation and to be adopted
  run,        \* the advances and cleanups in flight, with what each holds
  calls,      \* the calls in flight that hand a message to the runtime host
  effect,     \* runtime host: message -> its effect
  busy,       \* the current generation runs a turn
  used,       \* operations so far
  flaws,      \* history: what is known to cost a message or a host
  budget      \* failures and requests so far

registry == <<intents, migration, gens, row, cleanup>>
provider == <<journal, fork, hosted>>
vars == <<registry, provider, run, calls, effect, busy, used, flaws, budget>>

Ended == {"committed", "rolled-back", "failed-recoverable"}
Fenced == {"requested", "successor-starting", "verifying"}
InFlight == Fenced \cup {"waiting-turn"}

NoMigration ==
  [phase |-> "none", intent |-> 0, rev |-> 0, target |-> "a", op |-> 0, src |-> 1,
   receipt |-> 0, unknown |-> FALSE]
Idle == [pc |-> "idle", op |-> 0, rev |-> 0, src |-> 1, target |-> "a", host |-> FALSE]

current == Len(gens)
generation == gens[current]
uncertain == {m \in Messages : row[m].state = "uncertain"}

fault == budget.faults < MaxFaults /\ budget' = [budget EXCEPT !.faults = @ + 1]
request == budget.requests < MaxRequests /\ budget' = [budget EXCEPT !.requests = @ + 1]
at(a, pc) == run[a].pc = pc
free(a) == at(a, "idle") /\ \A b \in Runs : at(b, "idle") => a <= b
goto(a, pc) == run' = [run EXCEPT ![a].pc = pc]
done(a) == run' = [run EXCEPT ![a] = Idle]

---------------------------------------------------------------------------
(* What requests do to the registry.                                        *)

(* queueAbandonedMigrationCleanup *)
abandonedUnread ==                                                      \* mutant
  IF migration.phase # "committed" THEN cleanup \cup {migration.receipt} ELSE cleanup
abandoned ==
  IF migration.phase # "committed" /\ migration.receipt # 0
  THEN cleanup \cup {migration.receipt} ELSE cleanup
(* Every message still owed is handed to generation g.                      *)
assignTo(g) ==
  [m \in Messages |-> IF row[m].state \in {"held", "assigned", "failed"}
                      THEN [state |-> "assigned", gen |-> g] ELSE row[m]]
assignHeld(g) ==
  [m \in Messages |-> IF row[m].state = "held" THEN [state |-> "assigned", gen |-> g] ELSE row[m]]

(* migrationReadiness: the turn is the one last observed, so it may be over *)
(* or begun since.                                                          *)
readiness == IF uncertain # {} THEN {"waiting-turn"} ELSE {"waiting-turn", "requested"}
succession(i, intent, phase) ==
  [phase |-> phase, intent |-> i, rev |-> intent.rev, target |-> intent.target,
   op |-> used + 1, src |-> current, receipt |-> 0, unknown |-> FALSE]

draining == {i \in 1 .. Len(intents) : intents[i].state = "draining"}
slot == IF draining = {} THEN Len(intents) + 1
        ELSE CHOOSE i \in draining : \A j \in draining : i <= j
retargeted(t, state) ==
  [state |-> state, target |-> t,
   rev |-> IF draining = {} THEN 1 ELSE intents[slot].rev + 1]
withIntent(intent) ==
  IF slot > Len(intents) THEN Append(intents, intent) ELSE [intents EXCEPT ![slot] = intent]

(* commitMigrationIntent for an account the conversation is on already.     *)
CommitIntentInPlace ==
  /\ request
  /\ intents' = withIntent(retargeted(generation.acct, "complete"))
  /\ IF migration.phase \in {"none", "committed"}
     THEN UNCHANGED <<migration, row, cleanup>>
     ELSE /\ migration' = NoMigration /\ row' = assignTo(current) /\ cleanup' = abandoned
  /\ UNCHANGED <<gens, provider, run, calls, effect, busy, used, flaws>>

CommitIntent ==
  /\ request /\ used < MaxOps
  /\ \E t \in Accounts \ {generation.acct}, phase \in readiness :
       LET intent == retargeted(t, "draining") IN
       /\ intents' = withIntent(intent)
       /\ migration' = succession(slot, intent, phase)
  /\ cleanup' = abandoned /\ used' = used + 1
  /\ UNCHANGED <<gens, row, provider, run, calls, effect, busy, flaws>>

(* setMigrationIntentState(stopped) *)
StopIntent(i) ==
  /\ request /\ intents[i].state # "stopped"
  /\ intents' = [intents EXCEPT ![i].state = "stopped"]
  /\ IF migration.intent = i /\ migration.phase # "committed"
     THEN /\ migration' = [migration EXCEPT !.phase = "rolled-back"]
          /\ row' = assignTo(migration.src) /\ cleanup' = abandoned
     ELSE UNCHANGED <<migration, row, cleanup>>
  /\ UNCHANGED <<gens, provider, run, calls, effect, busy, used, flaws>>

(* The buttons of a failed migration.                                       *)
Rollback ==
  /\ request /\ migration.phase = "failed-recoverable"
  /\ migration' = [migration EXCEPT !.phase = "rolled-back"]
  /\ row' = assignTo(migration.src) /\ cleanup' = abandoned
  /\ UNCHANGED <<intents, gens, provider, run, calls, effect, busy, used, flaws>>

Retry ==
  LET i == migration.intent
      op == IF migration.unknown THEN migration.op ELSE used + 1
  IN
  /\ request /\ migration.phase = "failed-recoverable" /\ intents[i].state # "stopped"
  /\ op <= MaxOps /\ used' = IF migration.unknown THEN used ELSE op
  /\ intents' = [intents EXCEPT ![i].state = "draining"]
  /\ \E phase \in {"waiting-turn", "requested"} :
       migration' = [succession(i, intents[i], phase) EXCEPT !.op = op]
  /\ flaws' = [flaws EXCEPT !.oldFork = @ \/ (migration.unknown /\ fork[op].made)]
  /\ UNCHANGED <<gens, row, cleanup, provider, run, calls, effect, busy>>

(* The end of a reconciliation cycle.                                       *)
IntentCompletes(i) ==
  /\ intents[i].state = "draining" /\ (migration.intent = i => migration.phase \in Ended)
  /\ intents' = [intents EXCEPT ![i].state = "complete"]
  /\ UNCHANGED <<migration, gens, row, cleanup, provider, run, calls, effect, busy, used,
                 flaws, budget>>

---------------------------------------------------------------------------
(* Advances.                                                                *)

readyAnyway == TRUE                                                     \* mutant
successorCreationReady == uncertain = {}
captured(pc) ==
  [Idle EXCEPT !.pc = pc, !.op = migration.op, !.rev = migration.rev, !.src = migration.src,
               !.target = migration.target]

(* A turn is running after all: the fence is up and the fork waits.         *)
FenceOnly ==
  /\ migration.phase = "waiting-turn" /\ successorCreationReady /\ busy
  /\ migration' = [migration EXCEPT !.phase = "requested"]
  /\ UNCHANGED <<intents, gens, row, cleanup, provider, run, calls, effect, busy, used,
                 flaws, budget>>

BeginSuccession(a) ==
  /\ free(a) /\ migration.phase \in InFlight /\ migration.receipt = 0
  /\ successorCreationReady /\ ~busy
  /\ migration' = [migration EXCEPT !.phase = "successor-starting"]
  /\ run' = [run EXCEPT ![a] = captured("lease")]
  /\ UNCHANGED <<intents, gens, row, cleanup, provider, calls, effect, busy, used, flaws, budget>>

(* A restart left a successor with its receipt.                             *)
BeginVerification(a) ==
  /\ free(a) /\ migration.phase \in InFlight /\ migration.receipt # 0
  /\ run' = [run EXCEPT ![a] = captured("verifying")]
  /\ UNCHANGED <<registry, provider, calls, effect, busy, used, flaws, budget>>

(* A host an advance has started is found once it is registered.            *)
publishes(a, op) == at(a, "publishing") /\ run[a].op = op
found(a, op, hosts) == op \in hosts /\ \A b \in Runs \ {a} : ~publishes(b, op)
(* cleanupDiscardedSuccessor, given the migration it reads and the hosts    *)
(* there are.  The host is unregistered at once and released while it       *)
(* awaits; one that is not found is not released.                           *)
queued(a, op, latest, hosts) ==
  LET host == found(a, op, hosts) IN
  /\ cleanup' = cleanup \cup {op} /\ hosted' = IF host THEN hosts \ {op} ELSE hosts
  /\ run' = [run EXCEPT ![a] = [Idle EXCEPT !.pc = "cleaning", !.op = op, !.host = host]]
  /\ flaws' = [flaws EXCEPT !.released = @ \/ (generation.op = op /\ latest.phase # "committed")]
discardCommitted(a, op, latest, hosts) ==                               \* mutant
  IF latest.phase = "committed"
  THEN cleanup' = cleanup \ {op} /\ hosted' = hosts /\ done(a) /\ UNCHANGED flaws
  ELSE queued(a, op, latest, hosts)
discardAlways(a, op, latest, hosts) == queued(a, op, latest, hosts)     \* mutant
discard(a, op, latest, hosts) ==
  IF latest.phase = "committed" /\ generation.op = op
  THEN cleanup' = cleanup \ {op} /\ hosted' = hosts /\ done(a) /\ UNCHANGED flaws
  ELSE queued(a, op, latest, hosts)

superseded(a, receipt) ==
  \/ migration.phase \in Ended \cup {"none"}
  \/ migration.rev # run[a].rev \/ migration.op # run[a].op
  \/ (receipt # 0 /\ migration.receipt \notin {0, receipt})

(* The handler of an advance's errors; receipt is what the advance holds.   *)
(* A migration that waits for its turn again cannot be failed by it.        *)
failsWith(a, receipt, unknown, hosts) ==
  LET failed == [migration EXCEPT !.phase = "failed-recoverable", !.unknown = unknown]
      latest == IF superseded(a, receipt) \/ migration.phase \notin Fenced THEN migration ELSE failed
  IN
  /\ migration' = latest
  /\ IF receipt = 0 \/ (~superseded(a, receipt) /\ migration.phase \notin Fenced)
     THEN done(a) /\ hosted' = hosts /\ UNCHANGED <<cleanup, flaws>>
     ELSE discard(a, receipt, latest, hosts)
fails(a, receipt, unknown) == failsWith(a, receipt, unknown, hosted)

unfailed == <<intents, gens, row, calls, effect, busy, used>>

leased(op) == \E b \in Runs : run[b].op = op /\ run[b].pc \in {"forking", "resuming"}
(* recoverCodexFork: the journal names the fork, or a scan finds it.        *)
recovers(op) == journal[op] = "recorded" \/ (journal[op] = "requested" /\ fork[op].made)

RequestFork(a) ==
  LET op == run[a].op IN
  /\ at(a, "lease") /\ ~leased(op) /\ journal[op] = "none"
  /\ journal' = [journal EXCEPT ![op] = "requested"] /\ goto(a, "forking")
  /\ UNCHANGED <<registry, fork, hosted, calls, effect, busy, used, flaws, budget>>

RecoverFork(a) ==
  LET op == run[a].op IN
  /\ at(a, "lease") /\ ~leased(op) /\ recovers(op)
  /\ journal' = [journal EXCEPT ![op] = "recorded"] /\ goto(a, "resuming")
  /\ UNCHANGED <<registry, fork, hosted, calls, effect, busy, used, flaws, budget>>

ForkUnknownPending(a) ==                                                \* mutant
  LET op == run[a].op IN
  /\ at(a, "lease") /\ ~leased(op) /\ journal[op] = "requested" /\ ~fork[op].made
  /\ done(a)
  /\ UNCHANGED <<registry, provider, calls, effect, busy, used, flaws, budget>>
ForkUnknown(a) ==
  LET op == run[a].op IN
  /\ at(a, "lease") /\ ~leased(op) /\ journal[op] = "requested" /\ ~fork[op].made
  /\ fails(a, 0, TRUE)
  /\ UNCHANGED <<unfailed, journal, fork, budget>>

LeaseTimesOut(a) ==
  /\ at(a, "lease") /\ leased(run[a].op)
  /\ fails(a, 0, FALSE)
  /\ UNCHANGED <<unfailed, journal, fork, budget>>

forked(a) == [fork EXCEPT ![run[a].op] = [made |-> TRUE, read |-> gens[run[a].src].read]]
ForkMade(a) ==
  /\ at(a, "forking")
  /\ fork' = forked(a) /\ journal' = [journal EXCEPT ![run[a].op] = "recorded"]
  /\ goto(a, "resuming")
  /\ UNCHANGED <<registry, hosted, calls, effect, busy, used, flaws, budget>>

ForkRefused(a) ==
  /\ at(a, "forking") /\ fault
  /\ journal' = [journal EXCEPT ![run[a].op] = "none"] /\ fails(a, 0, FALSE)
  /\ UNCHANGED <<unfailed, fork>>

(* No answer: the fork may exist or not.                                    *)
ForkAnswerLost(a) ==
  /\ at(a, "forking") /\ fault
  /\ fork' \in {fork, forked(a)} /\ fails(a, 0, TRUE)
  /\ UNCHANGED <<unfailed, journal>>

ResumeFails(a) ==
  /\ at(a, "resuming") /\ fault
  /\ fails(a, 0, FALSE)
  /\ UNCHANGED <<unfailed, journal, fork>>

(* persistMigrationProviderReceipt *)
PersistReceipt(a) ==
  LET op == run[a].op
      mine == migration.rev = run[a].rev /\ migration.op = op
      known == migration.phase \in {"verifying", "committed"} /\ migration.receipt = op
  IN
  /\ at(a, "resuming")
  /\ IF mine /\ (migration.phase = "successor-starting" \/ known)
     THEN /\ migration' = IF known THEN migration
                          ELSE [migration EXCEPT !.phase = "verifying", !.receipt = op]
          /\ goto(a, "verifying") /\ UNCHANGED <<cleanup, hosted, flaws>>
     ELSE fails(a, op, FALSE)
  /\ UNCHANGED <<unfailed, journal, fork, budget>>

VerificationFails(a) ==
  /\ at(a, "verifying") /\ fault
  /\ fails(a, run[a].op, FALSE)
  /\ UNCHANGED <<unfailed, journal, fork>>

(* publishHost: the host is claimed, started and its row is written; it is  *)
(* registered after that, just before the commit.  An advance that finds    *)
(* the claim held by another of this Viewer fails, or awaits that one.      *)
registered(a) == found(a, run[a].op, hosted)
contested(a) ==
  \E b \in Runs \ {a} :
    run[b].op = run[a].op /\ (run[b].pc \in {"verifying", "publishing"} \/ run[b].host)

PublishHost(a) ==
  LET op == run[a].op IN
  /\ at(a, "verifying") /\ op \notin hosted
  /\ \A b \in Runs : run[b].op = op => ~run[b].host
  /\ hosted' = hosted \cup {op} /\ goto(a, "publishing")
  /\ UNCHANGED <<registry, journal, fork, calls, effect, busy, used, flaws, budget>>

ClaimRefused(a) ==
  /\ at(a, "verifying") /\ contested(a)
  /\ fails(a, run[a].op, FALSE)
  /\ UNCHANGED <<unfailed, journal, fork, budget>>

(* The host starts and cannot be registered: it is released.                *)
PublicationFails(a) ==
  /\ at(a, "publishing") /\ fault
  /\ failsWith(a, run[a].op, FALSE, hosted \ {run[a].op})
  /\ UNCHANGED <<unfailed, journal, fork>>

(* The registration ends, and commitSuccessor, which reads the revision and *)
(* not the operation.                                                       *)
commits(a) ==
  /\ migration.rev = run[a].rev /\ migration.phase = "verifying"
  /\ gens' = Append(gens, [op |-> run[a].op, acct |-> run[a].target,
                           read |-> fork[run[a].op].read])
  /\ migration' = [migration EXCEPT !.phase = "committed"]
  /\ row' = assignHeld(current + 1)
  /\ busy' = FALSE /\ done(a)
  /\ flaws' = [flaws EXCEPT !.crossed = @ \/ migration.op # run[a].op]
  /\ UNCHANGED <<cleanup, hosted>>
committed(a) ==
  /\ migration.rev = run[a].rev /\ migration.phase = "committed" /\ generation.op = run[a].op

CommitSuccessor(a) ==
  /\ at(a, "publishing") \/ (at(a, "verifying") /\ registered(a))
  /\ \/ commits(a)
     \/ /\ committed(a) /\ done(a)
        /\ UNCHANGED <<gens, migration, row, busy, cleanup, hosted, flaws>>
     \/ /\ migration.rev # run[a].rev \/ migration.phase # "verifying"
        /\ ~committed(a)
        /\ fails(a, run[a].op, FALSE) /\ UNCHANGED <<gens, row, busy>>
  /\ UNCHANGED <<intents, journal, fork, calls, effect, used, budget>>

ReconcileCleanup(a) ==
  /\ free(a)
  /\ \E op \in cleanup : discard(a, op, migration, hosted)
  /\ UNCHANGED <<unfailed, migration, journal, fork, budget>>

Cleaned(a) ==
  /\ at(a, "cleaning")
  /\ cleanup' = cleanup \ {run[a].op} /\ done(a)
  /\ UNCHANGED <<unfailed, migration, provider, flaws, budget>>

(* The release fails; the cleanup stays queued.                             *)
CleanupFails(a) ==
  /\ at(a, "cleaning") /\ fault /\ done(a)
  /\ UNCHANGED <<registry, provider, calls, effect, busy, used, flaws>>

---------------------------------------------------------------------------
(* Messages.                                                                *)

blocks(phases) == migration.phase \in phases
(* holdDelivery, and retryUncertainDelivery for a message sent again.       *)
lands(m) ==
  IF row[m].state = "uncertain" THEN blocks(InFlight) ELSE blocks(Fenced)
attempted(m) == [row EXCEPT ![m] = [state |-> "uncertain", gen |-> current]]
calling(m) == \E kind \in {"send", "drain"} : <<m, kind>> \in calls

(* enqueueStructuredMessage: a client sends a message, or sends it again.   *)
Send(m) ==
  /\ row[m].state # "delivered"
  /\ IF row[m].state = "none" THEN UNCHANGED budget ELSE request
  /\ IF lands(m)
     THEN /\ row' = [row EXCEPT ![m] = [state |-> "held", gen |-> 0]]
          /\ flaws' = IF row[m].state = "uncertain"
                         /\ (effect[m] = "queued" \/ (effect[m] = "none" /\ calling(m)))
                      THEN [flaws EXCEPT !.takenBack = @ \cup {m}] ELSE flaws
          /\ UNCHANGED calls
     ELSE row' = attempted(m) /\ calls' = calls \cup {<<m, "send">>} /\ UNCHANGED flaws
  /\ UNCHANGED <<intents, migration, gens, cleanup, provider, run, effect, busy, used>>

(* drainHeldDeliveries: what is assigned is attempted, what is uncertain is *)
(* asked for again.  A cycle drains a migration under way only for these.   *)
drainedUnlessRolledBack(m) ==                                           \* mutant
  \/ row[m].state = "uncertain"
  \/ /\ row[m] = [state |-> "assigned", gen |-> current] /\ ~blocks(Fenced)
     /\ migration.phase \in {"none", "committed"} \/ uncertain # {}
drained(m) ==
  \/ row[m].state = "uncertain"
  \/ /\ row[m] = [state |-> "assigned", gen |-> current] /\ ~blocks(Fenced)
     /\ migration.phase \in {"none", "rolled-back", "committed"} \/ uncertain # {}
Drain(m) ==
  /\ drained(m) /\ <<m, "drain">> \notin calls
  /\ row' = IF row[m].state = "uncertain" THEN row ELSE attempted(m)
  /\ calls' = calls \cup {<<m, "drain">>}
  /\ UNCHANGED <<intents, migration, gens, cleanup, provider, run, effect, busy, used, flaws,
                 budget>>

(* The runtime host admits the operation once and answers with its receipt. *)
admitted(m) == IF effect[m] = "none" THEN [effect EXCEPT ![m] = "queued"] ELSE effect
(* recordDeliveryOutcome *)
outcome(m, state) == IF row[m].state = "delivered" THEN row ELSE [row EXCEPT ![m].state = state]
settles(m, otherwise) ==
  IF effect[m] \in {"delivered", "failed"} THEN outcome(m, effect[m]) ELSE otherwise
unmigrated == <<intents, migration, gens, cleanup, provider, run, used, flaws>>

SendAnswered(m) ==
  /\ <<m, "send">> \in calls
  /\ effect' = admitted(m) /\ row' = settles(m, row) /\ calls' = calls \ {<<m, "send">>}
  /\ UNCHANGED <<unmigrated, busy, budget>>
DrainAnswered(m) ==
  /\ <<m, "drain">> \in calls
  /\ effect' = admitted(m) /\ row' = settles(m, outcome(m, "uncertain"))
  /\ calls' = calls \ {<<m, "drain">>}
  /\ UNCHANGED <<unmigrated, busy, budget>>
CallLost(m) ==
  /\ fault
  /\ \E kind \in {"send", "drain"} :
       /\ <<m, kind>> \in calls /\ calls' = calls \ {<<m, kind>>}
       /\ effect' \in {effect, admitted(m)}
       /\ row' = IF kind = "send" THEN row ELSE outcome(m, "uncertain")
  /\ UNCHANGED <<unmigrated, busy>>

(* The structured queue hands the message to the current generation's host  *)
(* and records it, if the Viewer lives and the row still waits for it.      *)
recorded(m, state) ==
  IF row[m].state = "uncertain" \/ (row[m].state = "failed" /\ state = "delivered")
  THEN [row EXCEPT ![m].state = state] ELSE row
EffectDelivered(m) ==
  /\ effect[m] = "queued" /\ generation.op \in hosted \cup {0}
  /\ effect' = [effect EXCEPT ![m] = "delivered"]
  /\ gens' = [gens EXCEPT ![current].read = @ \cup {m}] /\ busy' = TRUE
  /\ \/ row' = recorded(m, "delivered") /\ UNCHANGED budget
     \/ fault /\ UNCHANGED row
  /\ UNCHANGED <<intents, migration, cleanup, provider, run, calls, used, flaws>>
EffectFails(m) ==
  /\ effect[m] = "queued" /\ fault
  /\ effect' = [effect EXCEPT ![m] = "failed"] /\ row' = recorded(m, "failed")
  /\ UNCHANGED <<calls, unmigrated, busy>>

TurnEnds ==
  /\ busy /\ busy' = FALSE
  /\ UNCHANGED <<registry, provider, run, calls, effect, used, flaws, budget>>

(* The Viewer restarts: what it held is lost, a fork in flight was made or  *)
(* not.  Startup adopts the current generation's host and no other.         *)
adoptable == {generation.op} \ {0}
ViewerRestarts ==
  /\ fault
  /\ run' = [a \in Runs |-> Idle] /\ calls' = {}
  /\ \E made \in SUBSET {a \in Runs : at(a, "forking")} :
       fork' = [op \in Ops |-> IF \E a \in made : run[a].op = op
                               THEN forked(CHOOSE a \in made : run[a].op = op)[op] ELSE fork[op]]
  /\ hosted' \in {hosted \cap adoptable, adoptable}
  /\ UNCHANGED <<registry, journal, effect, busy, used, flaws>>

---------------------------------------------------------------------------
Init ==
  /\ intents = << >> /\ migration = NoMigration
  /\ gens = <<[op |-> 0, acct |-> "a", read |-> {}]>>
  /\ row = [m \in Messages |-> [state |-> "none", gen |-> 0]] /\ cleanup = {}
  /\ journal = [op \in Ops |-> "none"]
  /\ fork = [op \in Ops |-> [made |-> FALSE, read |-> {}]] /\ hosted = {}
  /\ run = [a \in Runs |-> Idle] /\ calls = {}
  /\ effect = [m \in Messages |-> "none"] /\ busy \in BOOLEAN /\ used = 0
  /\ flaws = [crossed |-> FALSE, oldFork |-> FALSE, released |-> FALSE, takenBack |-> {}]
  /\ budget = [faults |-> 0, requests |-> 0]

Request ==
  \/ CommitIntent \/ CommitIntentInPlace \/ Rollback \/ Retry
  \/ \E i \in 1 .. Len(intents) : StopIntent(i) \/ IntentCompletes(i)
Begin(a) == BeginSuccession(a) \/ BeginVerification(a)
Create(a) ==
  \/ RequestFork(a) \/ RecoverFork(a) \/ ForkUnknown(a) \/ ForkMade(a) \/ PersistReceipt(a)
Finish(a) == PublishHost(a) \/ CommitSuccessor(a) \/ Cleaned(a)
AdvanceFails(a) ==
  \/ LeaseTimesOut(a) \/ ForkRefused(a) \/ ForkAnswerLost(a) \/ ResumeFails(a)
  \/ VerificationFails(a) \/ ClaimRefused(a) \/ PublicationFails(a) \/ CleanupFails(a)
Advance(a) ==
  Begin(a) \/ Create(a) \/ Finish(a) \/ AdvanceFails(a) \/ ReconcileCleanup(a)
Answer(m) == SendAnswered(m) \/ DrainAnswered(m)
Message(m) ==
  \/ Send(m) \/ Drain(m) \/ Answer(m) \/ CallLost(m) \/ EffectDelivered(m) \/ EffectFails(m)
Next ==
  \/ Request \/ FenceOnly \/ TurnEnds \/ ViewerRestarts
  \/ \E a \in Runs : Advance(a)
  \/ \E m \in Messages : Message(m)

Spec == Init /\ [][Next]_vars
(* Calls have deadlines and controllers come round again (controller.ts),   *)
(* turns end, and the runtime host's queue is drained.                      *)
Fairness ==
  /\ WF_vars(\E a \in Runs : Begin(a) \/ Create(a) \/ Finish(a))
  /\ WF_vars(FenceOnly \/ TurnEnds)
  /\ WF_vars(\E m \in Messages : Drain(m) \/ Answer(m))
  /\ WF_vars(\E m \in Messages : EffectDelivered(m))
FairSpec == Spec /\ Fairness

---------------------------------------------------------------------------
(* Properties.  flaws names the histories in which the code is known to     *)
(* break them: crossed, a successor was committed for another operation of  *)
(* the same revision; oldFork, an operation whose fork existed was tried    *)
(* again after its fence had been down; takenBack, a message sent again was *)
(* held while its first sending was under way; released, an advance that    *)
(* came late discarded the successor that had become current.               *)

(* Migrations, deliveries, effects and cleanups have the states of the code. *)
TypeOK ==
  /\ migration.phase \in InFlight \cup Ended \cup {"none"}
  /\ \A m \in Messages :
       /\ row[m].state \in {"none", "held", "assigned", "uncertain", "delivered", "failed"}
       /\ row[m].gen \in 0 .. Len(gens)
       /\ effect[m] \in {"none", "queued", "delivered", "failed"}
  /\ cleanup \subseteq Ops /\ hosted \subseteq Ops
  /\ \A op \in Ops : journal[op] \in {"none", "requested", "recorded"}
  /\ calls \subseteq Messages \X {"send", "drain"}

(* What the registry calls delivered is in the history of the generation the *)
(* conversation continues in: no message falls between a fork and its       *)
(* commit (the fence, the uncertain deliveries that hold a fork back).       *)
HistoryKeepsDeliveries ==
  \A m \in Messages :
    row[m].state = "delivered" =>
      m \in generation.read \cup flaws.takenBack \/ flaws.crossed \/ flaws.oldFork

(* A committed successor keeps its host, whatever late advances, retries    *)
(* and cleanups of discarded successors do meanwhile.                       *)
CurrentIsHosted == generation.op \in hosted \cup {0} \/ flaws.released

(* A host that runs is a generation's, or the one an advance has started    *)
(* and not committed or discarded yet: no retarget, failure, cleanup or     *)
(* commit of another advance in between leaves it without either.           *)
SuccessorsAreOwned ==
  \A op \in hosted :
    (\E g \in 1 .. Len(gens) : gens[g].op = op) \/ (\E a \in Runs : publishes(a, op))

(* Every migration is committed, taken back or reported as failed.          *)
MigrationEnds ==
  migration.phase \in InFlight ~> (migration.phase \notin InFlight \/ flaws.released)

(* Every message the registry accepted is delivered or reported as failed,  *)
(* unless its migration failed and waits for an operator, or a retarget     *)
(* left it assigned to the generation it replaced.                          *)
stranded(m) == row[m].state = "assigned" /\ row[m].gen # current
AcceptedIsSettled ==
  \A m \in Messages :
    row[m].state \in {"held", "assigned", "uncertain"} ~>
      \/ row[m].state \in {"delivered", "failed"} \/ stranded(m)
      \/ migration.phase = "failed-recoverable" \/ flaws.released
=============================================================================
