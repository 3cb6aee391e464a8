# Formal models of live-log-viewer

TLA+ specifications of the parts of this repository where several processes
share the fate of one message, one release, one review or one conversation: the
runtime host's journal, the Viewer's delivery queue over a Claude or a Codex engine,
the replacement of the serving Viewer, the review loop, the move of a conversation
to another account, and the board several browsers arrange. The modules are checked by TLC on small instances; the invariants
of the journal, of delivery and of the deployment, and the refinements of the latter
two, are proved with TLAPS for every size. Paths below
are relative to the repository; "the queue" is
`src/lib/runtime/structuredDeliveryQueue.ts`, "the controller"
`structuredDeliveryController.ts` and "the host" `claudeStreamBrokerHost.ts` next to it.

## The system

The Viewer (a Next.js server) shows transcripts of coding agents and controls them.
A separate runtime host process owns a SQLite journal and outlives the Viewer.

| component | state it keeps | operations | talks to |
|---|---|---|---|
| runtime journal (`runtime-host/journal.ts`) | event log, operations with receipts, outbox of effects, producer receipts, session and attention projections, deployment rows | append, execute, transition, retry, compact, claim host epoch, snapshot, replay, wait | everyone, through the socket |
| runtime host (`host.ts`, `socket.ts`, `main.ts`) | singleton lock file, consumer queue and failure counts | dispatch of requests, recovery of consumers | journal, consumers, deployments |
| deployment coordinator (`deployment.ts` and adapters) | one active deployment and its phase | request, run, recover | containers, proxy, journal |
| delivery queue | active drain, rerun flag, acknowledged interrupts | drain, one effect at a time per conversation | journal (requests), hosts (calls) |
| delivery controller | hosts, publication chains, drain timer and backoff | register, publish, request a drain, kick, release | journal, queue, hosts |
| Claude host | delivery ledger and event store (files), turn queue, pending deliveries, controls and answers | send, interrupt, answer, release, reading stdout, restore | engine child (stdin, stdout) |
| Codex host (`codexAppServerHost.ts`) | the same over JSON-RPC | the same | app-server child |
| recovery and startup (`structuredRecovery.ts`, `registry.ts`, `startup.ts`) | claims in the agent registry | adopt, recover, orphan reaping | registry, hosts |
| agent registry (`lib/agent/registry.ts`) | conversations, generations, claims, spawn receipts, held deliveries | dozens, each under a lock | everyone in the Viewer |
| review flows, pipelines, workflows | rounds, stages, checkpoints | tick, relay, pause, resume, close | registry, delivery |
| account migration | migration record per conversation | advance, recover | registry, providers |
| board (`lib/board`, `hooks/useBoardState.ts`) | per project: lists of paths, aliases and a revision on the server; confirmed board and outbox in each tab | mutate, drain, seed, load, poll, remap | tabs, HTTP route, account migration |
| reaper, scanner, titles, browser bus | snapshots and caches | evaluate and kill, refresh, poll and stream | file system, HTTP |

Commands travel: browser → HTTP route → journal `executeOperation` (receipt and
effect in one transaction) → kick → queue `drain` → `transitionOperation
delivering` → host `send` → ledger → stdin; and back: echo → ledger → the awaited
`send` → `transitionOperation delivered`. Host state changes travel host →
controller → journal projection → another drain. Each arrow can be cut by a
crash, a timeout or a lost answer.

What is hard here: the drain awaits between reading the host's health and acting
on it; a request to the journal can be carried out while its answer is lost; an
engine can die between taking a message and echoing it; compaction removes rows
that other tables still refer to; a wake-up is one boolean. What makes the parts
correct:

- journal: receipts and effects agree, outcomes are final, retries of a message
  never run twice, the turn a message was sent towards never changes;
- delivery: at most once, in order, what the writer is shown is true, an interrupt
  is asked for only on the turn it was meant for, nothing waits for ever;
- deployment: the serving target always has a running container, one active
  deployment, a terminal status that says what serves;
- host fence: at most one holder; consumers: each event consumed in order or quarantined;
- registry: one writer per session, a held delivery actuated at most once;
- flows: findings relayed at most once across restarts; board: no edit is lost,
  a close is final, tabs converge; browser bus: the view never moves back.

`PROJECT.json` lists every component with its status, every hazard with the line
where it bites, and for each definition the lines it models.

## Modules

| module | what it is |
|---|---|
| `OperationJournal` | the journal of one conversation, one action per transaction |
| `OperationJournal_proofs` | its theorems |
| `MCOperationJournal` | constants of its TLC instances |
| `MessageDelivery` | abstract: what delivery promises the writer of a message |
| `StructuredDelivery` | queue, controller, Claude host and engine of one conversation |
| `MessageDelivery_proofs` | what those promises amount to |
| `StructuredDelivery_proofs` | theorems of delivery; it implements `MessageDelivery`; no lost wake-up |
| `MCStructuredDelivery` | constants of its TLC instances |
| `CodexDelivery` | the same queue over the Codex app-server host |
| `CodexDelivery_proofs` | its theorems; it implements `MessageDelivery` |
| `ReleaseSwitch` | abstract: what a deployment promises whoever reads its status |
| `ViewerDeployment` | deployment coordinator, adapter, docker and the target file |
| `ViewerDeployment_proofs` | its theorems |
| `ReviewFlow` | one review flow: poller, operator requests, file, reviewers |
| `ReviewFlow_proofs` | its theorems |
| `AccountMigration` | one conversation moved between accounts while messages arrive |
| `AccountMigration_proofs` | its theorems |
| `BoardMutations` | the board's reducer and the checks of a request, as operators |
| `BoardSync` | one board on the server and in several tabs |
| `BoardSync_proofs` | its theorems: edits land in order, boards are canonical, a close is final |
| `MCBoardSync` | constants of its TLC instance |

### OperationJournal

Each public method is `BEGIN IMMEDIATE … COMMIT` on the host's single thread, then
compaction, so it is one atomic action; a replay or refusal changes nothing and is
no step.

| code | action |
|---|---|
| `executeOperation`, `operationReceipt`, `appendOperationConsequences` | `ExecuteOperation` |
| `retryOperation` with a fresh key | `RetryOperation` |
| `retryOperation` without one | `RetryInPlace` |
| `transitionOperation`, `appendCompletionConsequences` | `TransitionOperation` |
| `append` of session-status, turn-started/ended, attention(-resolved) and `project` | `PublishSession`, `PublishTurn`, `PublishAttention` |
| `append` in any other scope | `AppendElsewhere` |
| `claimHostEpoch` | `ClaimHostEpoch` |
| `compactIfNeeded` | part (`commit`) of every action but `ClaimHostEpoch`, which does not compact |

State: `operations` and `outbox` are the tables of those names, `producerReceipts`
maps each producer event key to the event first stored under it (the source of
idempotent appends; never compacted), `scopeRevision` is table `scope_revisions`
for the operations' scopes, `session` and `attention` are the projected entities,
`seq` and `anchor` the log's ends. Events between are interchangeable: the
number of retained events is `seq - anchor`. `retryOfOperationId` and
`terminalRetryOperationId` make the n-th attempt of operation `id` the pair
`<<id, n>>`, which stands for the injective hash. Left out: message texts and
digests (a command is a request record; a repeated key with other contents is
refused and no step), queue positions, reasons, timestamps, hash chain,
encryption, legacy migrations, the edge of a launch with a parent, and statuses
`turn-started`, `steered` and `uncertain`, which `host.ts` does not accept from the
socket. A keyed retry uses the route's default key (`http.ts:49`).

### StructuredDelivery

One conversation, its messages `1..MessageCount` in the order of their effects.
`drain.pc` is the await the drain stands at; between two of its steps anything
else may happen, as on the event loop. `drain.live` is false once the host object
the drain holds has died, even if a successor is registered meanwhile.

| code | definition |
|---|---|
| `drain`, `drainUntilSettled`, `drainPass` | `TimerFires`, `endPass`, `FetchEffects` |
| `drainTarget`, await by await | `NextEffect`, `BeginDelivery`, `Interrupt` or `Send`, `AfterInterrupt`, `Requeue`, `Settle`, `Fail` |
| `drainWithRetry`, `requestDrain`, `retrySoon`, kick | `drainThrows`, `timer` |
| `register`'s state listener and publication chain | `notify`, `PublishNotice`, `PublicationFails` |
| socket request lost before or after it took effect | `RequestFails`, `AnswerLost` |
| `send`, `recordQueued` | `send` |
| stdout: user echo, result, control response | `AcceptEcho`, `AcceptResult`, `AcceptAcknowledgement`, `InterruptRefused` |
| `fail`, `failWithoutLedger`, child close | `HostFails`, `HostSeesExit`, `hostDies` |
| Viewer crash and start, recovery of the host (`restore`, `reconcileTranscript`) | `ViewerCrashes`, `ViewerStarts`, `Recover` |
| the engine child (external) | `EngineReads`, `EngineFinishes`, `EngineAcknowledges`, `EngineExits` |

Abstractions. All messages have the same content, the worst case for matching
echoes and transcript lines by content. `queuedAt` is a position in the
transcript instead of a timestamp. The drain timer and the kick are one pending
wake-up. Receipts are OperationJournal's, reduced to what a message needs;
`BeginDelivery` carries the journal's fence check. `sameQueueEntry` never finds
another payload, because the entry's only mutable part is the fence, and
`FencesKept` proves that it does not change. Left out: attention (permission)
requests, `drainControl` (answer, interrupt and kill effects), turn ids given by
clients, several conversations in one pass (they share no state but the blocked
set), effect pages, read-timeout retries of Codex, the event store. The engine is
external: it reads stdin in order, writes the transcript before the echo, gives
one result per message and one response per interrupt. What an interrupt does to its
turn is not modelled: the request names no turn (`claudeStreamBrokerHost.ts:711`), so one
that began meanwhile may be the one it ends. `Submit` admits a message and kicks the queue
in one step; the admission's answer may be lost in the code, after which nothing kicks
until the held delivery is reconciled (`migration/coordinator.ts:541`), and so in
CodexDelivery. The initial state is an adopted, idle host.

### CodexDelivery

The queue of StructuredDelivery again, read from the same lines, over
`codexAppServerHost.ts`. That host keeps no delivery ledger. It asks the app-server
(`thread/read`) whether the thread already has a user item with the message's id
before it starts or steers a turn, and takes a message as delivered when the
item's notification, a read or a resume shows it. Publication of states, page fetches and
requests to the journal that fail are in StructuredDelivery and not repeated here; a
change of the host's state asks for a drain in the same step (`becomes`).

| code | definition |
|---|---|
| `drainTarget`, `sendWithReadRetry` | `NextEffect`, `ReadTimesOut`, `Requeue`, `Settle`, `Fail` |
| `send` up to `model/list`, `thread/read` | `Send`, `ProbeAnswered` |
| `confirmedDelivery`, then `turn/steer` or `turn/start` | `ReadAnswered`, `SteerAnswered`, `StartAnswered` |
| `awaitDeliveryConfirmation` and its deadline | `awaitConfirmation`, `ConfirmationTimesOut` |
| `interrupt` | `Interrupt`, `InterruptAnswered` |
| `acceptStdout` … `acceptNotification` | `AcceptAnswer`, `AcceptStarted`, `AcceptItem`, `AcceptCompleted` |
| `fail`, `failWithoutLedger`, request deadlines, child close | `hostDies`, `HostFails`, `HostSeesExit` |
| `adopt`, `restoreEvents`, `reconcileAfterOpen`, `rememberConfirmedDeliveries` | `Recover` |
| the app-server (external) | `EngineLists` … `EngineExits` |

A JSON-RPC answer settles a promise; what awaits it runs as a microtask after every
line of the chunk has been read. So `AcceptAnswer` only stores the answer and the step
of the drain that takes it is another action, with any number of lines between. A turn
is named by the message that started it. The app-server takes one request at a time,
runs one turn at a time, and puts a message in the thread some time after it took it.
Left out: attention requests, notifications buffered before the thread is open,
`thread/status/changed`, the account check, release and termination.

### ViewerDeployment and ReleaseSwitch

`ViewerDeploymentCoordinator` writes the phase of a deployment to the journal and
calls the adapter, another process that runs docker commands and replaces the target
file. `task` is the run of the active deployment: `mode` tells the run from its error
handler, `step` is the adapter call to make next.

| code | definition |
|---|---|
| `request`, admission | `RequestDeployment`, `AdmitDeployment`, `ResolutionFails` |
| phases of `run` | `Begin`, `BuildCandidate`, `StartCandidate`, `VerifyCandidate`, `CurrentRelease`, `Promote`, `VerifyPromoted`, `Retain`, `StopPrevious` |
| rollback | `RestartPrevious`, `VerifyPrevious`, `SwitchBack`, `RetireCandidate`, `ForgetCandidate` |
| error handler | `abort` |
| `recover` | `HostStarts` |
| a call that fails or times out with its effect done or not | `CallFails` |
| a journal that refuses an update; the host ending | `JournalFails`, `HostEnds` |
| docker (external) | `ContainerExits`, `ContainerRestarts` |

`ReleaseSwitch` says that traffic moves only between the release that served at
admission and the candidate, only while the deployment is open, and that `succeeded` and
`rolled-back` name the one that serves. The mapping is `outcome <-` the phase with all open
phases one, `serving <- target`, `before <-` the recorded previous release, or the target
while none is recorded. Left out: a second host that owns the deployment,
names, ports, revisions, the proxy's connections.

### ReviewFlow

One flow of `lib/flows` with headless reviewers. `tick` is the poller with the clone
it took and the base it merges against (`persistTickFlows` is `merge`). Between two
polls' awaits operators' requests write the file (`disk`); the creation of another flow
holds a copy of the whole file and saves it after its kickoff (`CreateFlow`,
`KickoffDelivered`). Reviewers are processes that outlive the Viewer.

| code | actions |
|---|---|
| `tickFlow`, spawning | `ReserveReviewer`, `StartHeadlessReview`, `ReuseChild`, `PersistLaunch`, `AdoptLaunch`, `AwaitLease`, `LaunchFails` |
| reviewing | `ReviewerRuns`, `ReviewerLost`, `VerdictFound`, `ReviewerSilent` |
| relaying | `StartRelay`, `Delivered`, `FinishRelay`, `RelayFails`, `RelayInterrupted` |
| `patchFlow`, `cancelRound`, `closeFlow` | `Pause` … `CloseFlow` |

Only the last round is kept, the findings' text is not, and `relays` counts how
often a round's findings reached the implementer. Left out: pane reviewers, roles,
accounts, notes, a second Viewer's launch.

### AccountMigration

One Codex conversation. `run` holds the advances and cleanups in flight, each with
what it read before it awaited. A step is what runs between two awaits (the registry
calls that follow an answer are in the step that takes it), so that two advances and any
request interleave at each of them: in particular between the start of a successor's host,
its registration and the commit, where the registration may fail and another advance find
the host or be refused its claim.

| code | actions |
|---|---|
| intents and the buttons of a migration | `CommitIntent`, `CommitIntentInPlace`, `StopIntent`, `Rollback`, `Retry`, `IntentCompletes` |
| `advance` | `FenceOnly`, `BeginSuccession`, `BeginVerification`, `CommitSuccessor` |
| provider: `publishHost`, its claim of the registry's row, its error handler | `PublishHost`, `ClaimRefused`, `PublicationFails` |
| provider: fork, its journal, its recovery | `RequestFork`, `RecoverFork`, `ForkUnknown`, `ForkMade`, `ForkRefused`, `ForkAnswerLost`, `PersistReceipt` |
| `cleanupDiscardedSuccessor` | `discard`, `ReconcileCleanup`, `Cleaned`, `CleanupFails` |
| held deliveries | `Send`, `Drain`, `SendAnswered`, `DrainAnswered`, `CallLost`, `EffectDelivered`, `EffectFails` |

The runtime host is reduced to `effect`, which admits an operation once. `hosted` are
hosts that are claimed and started; one is taken out when its release begins. Left out: a
host whose process outlives that (a release that fails is repeated by the queued cleanup,
which finds no registration any more and is taken as done, `provider.ts:766`) or outlives
the Viewer; Claude's successors, automatic intents, reseats, boards, images.

### BoardMutations and BoardSync

The reducer (`lib/board/mutations.ts`) runs on the server, on the arrangement it
stores, and in every tab, on the last board it was sent with the edits the server has
not taken yet. `BoardMutations` has it as operators over lists of paths and aliases; a
reducer that throws yields `Null`. `BoardSync` composes it with a store per tab
(`store[c]` is the closure of `createBoardStore`), the requests under way
(`store[c].writes`, `load`, `poll`) and the server.

| code | definition |
|---|---|
| `mutate`, `drain` up to its await | `Mutate`, `sending` |
| `PATCH`, `writeReduced` under the write lock; `GET` | `Serve`, `ServeLoad` |
| the rest of `drain`, by status | `Accepted`, `Rejected`, `Conflicted`, `SkewFound`, `Failed` |
| `scheduleRetry` | `RetryFires` |
| `load` after its answer, the seed | `Loaded`, `Seeded` |
| `poll`, answered at once or late | `Poll`; `PollDelayed`, `Polled` |
| a request or an answer that is lost | `WriteFails`, `AnswerLost`, `LoadFails` |
| a migration, its repair of the board | `MigrationCommits`, `RepairBoard` |

Every edit a tab dispatched stays in `intents`; the outbox is what follows the first
`done` of them, `taken` (history) says which the server took, and `seededOver` (history)
which stores sent their seed while a drain was awaited. Users' edits are dispatched at any
time; the dashboard's own reconciliations wait for the load (`dispatchable`). A batch of several
mutations is several dispatches in a row. `mode` stands for view mode and panel. A board
has one conversation that is ever renamed, `Conversation`, whose generations appear one
by one; its other paths keep their names. The
server's handlers are synchronous, so each is one step. Left out: favorites, the byte
cap, moving placements between projects, pending continuity paths, opens queued for a
board that is not mounted, the route's fallback to the paths as named when the agent
registry cannot be read (`route.ts:31`), `dispose`, and the write lock, which is taken as
given.

### MessageDelivery

`shown` is what the writer sees of each message and `received` what the engine
took. `Receive` requires every earlier message taken or failed; `Confirm` a
message that was taken; `GiveUp` one that was not. StructuredDelivery implements it
under `shown <- receipts (queued and delivering are "open")`, `received <-
transcript`, and CodexDelivery under `received <- thread`; both are checked as the
property `DeliversAsPromised`.

## Runs

`CHECK_DEADLOCK FALSE` everywhere: the journal's behaviours end when the event
budget is spent, a delivery when every message is settled, a deployment, a flow or
a migration when the bounded number of requests has been answered.

| run | instance | shows |
|---|---|---|
| JournalMessages | 2 operations, 2 keys, 1 retry each, 8 events, the log keeps 2 | retries and fences stay consistent under transitions in any order and compaction |
| JournalControls | 2 operations, 6 kinds of request, 2 generations, 7 events, the log keeps 2, retries in place | receipts, effects and outcomes agree; no failed launch is left registering |
| JournalReusedKey | 1 operation, its key used again after compaction | violation: receipt without effect |
| DeliverySafety | 2 messages, every policy, 2 failures of any kind | refinement of MessageDelivery, interrupts asked for only on the fenced turn, one uncertain delivery |
| DeliveryProgress | 2 messages, 2 failures, publications succeed, fairness | no message waits for an idle host unattended; every message is settled |
| DeliveryLostWakeup | 1 failure, publications included | violation: the lost publication |
| CodexDelivery | 2 messages of any policy, the first with an image, 3 failures, fairness | refinement of MessageDelivery, the host's idea of the active turn, every message is settled |
| Deployment | 3 deployments, 3 failures, fairness | the serving release and the one to go back to are kept, the status is true, success cleans up, deployments end |
| ReviewFlow | 2 rounds, 2 reviewers, 1 request or creation, 2 failures, fairness | one reviewer at a time, a close stops it and is final, findings relayed once, rounds end |
| ReviewFlowStaleSave | 1 round, 2 requests, no failure | violation: a closed flow reopened by another flow's creation |
| AccountMigration | 1 message, 2 successions, 2 runs, 1 failure, 2 requests, fairness | history keeps what was delivered, the current generation keeps its host, no host is left without an owner, migrations end, messages are settled |
| BoardSync | 2 tabs with 2 edits and 1, the latter's before or after its first load and its legacy seed, 1 rename, 1 failure, fairness | results of the reducer are canonical, edits land in order, a close is final, tabs converge |

Bounds. `MaxEvents = 2` makes compaction run after almost every transaction, so
that rows are removed at each point of an operation's life; two operations with
one retry each are the smallest instance where a chain and an independent row
compete; `EventBudget` lets a message be admitted, begun, requeued, failed,
compacted and retried in one behaviour. Operations and keys are symmetric: they are
only compared for equality. In delivery two messages give a head and one
that waits, order and echo confusion; two failures allow a lost answer followed by a
crash, or a host failure during the recovery of another. DeliverySafety was
also checked with three messages and one failure (820,520 states), CodexDelivery with
three messages and two failures (332,229 states). Three deployments give a release
that is neither the serving one nor the one to go back to, and three failures a
crash inside a rollback that a failure began. Two rounds and two reviewers let a
reviewer of one round meet the next attempt; two operations and two runs let a late
advance meet the succession that replaced it. On the board one
edit that the server refuses shares a request with one it takes, the legacy tab's edit may
precede its load, so that a seed and a drain overlap, `ConflictCap = 1` makes
the timer take over after two conflicts, and the rename can come at any point. Failures are
bounded by `MaxFaults`; time does not occur, timeouts may happen whenever
the code waits.

Fairness. `DeliveryProgress` assumes weak fairness of the Viewer's event loop (a
due timer fires, a queued callback and an awaited continuation run, output that
arrived is read, a child's exit is noticed) and of a live engine (it reads its
stdin, ends its turns, answers an interrupt; the host's request timeouts turn an
engine that does not into a `HostFails`). Nothing is assumed about failures,
restarts or `Recover`: a dead host is recovered when somebody asks
(`recoverDeadStructuredConversation`). So the property is conditional on Viewer,
host and child staying up from some point on. Weak fairness of `DrainStep` and
`ReadStdout` is enough because the drain is one thread of control and stdout is one
sequence. `CodexDelivery` assumes the same of the Viewer and of a live app-server, and
that the confirmation's deadline passes.

`Deployment`: every adapter call has a deadline (`RunStep`), and the service manager
starts the runtime host again (`HostStarts`). `ReviewFlow`: the poller polls, a launch
lease runs out, and a reviewer ends or is stopped by its time limit.
`AccountMigration`: controllers come round again and calls have deadlines, turns end,
held messages are drained and the runtime host's queue delivers. `BoardSync`: as long
as anything is due (a request to serve, an answer, a timer, a poll that finds a
change, a committed migration that has not repaired the board) something of it is done;
which one is left open, so nothing is assumed of any one store. No run assumes that
operators act, that a failed call succeeds the next time, or strong fairness.

## What the violations mean

1. **Reused key** (`journal.ts:970`). Compaction empties `operations` and keeps
   `producer_receipts`. A command repeated with its key after that is admitted as
   new, but its append is answered from the producer receipt before the effect is
   inserted: the receipt says queued and nothing will happen. It takes a repeat
   later than `maxEvents` events (20,000 by default).
2. **Lost wake-up** (`structuredDeliveryController.ts:385`). If publishing the
   idle state fails, the drain that should follow is never asked for. Any later
   kick, send or recovery repairs it.
3. **Stale save** (`flows/commands.ts:163`). The creation of a flow saves the whole file as
   it read it before its kickoff was awaited; another flow closed meanwhile is
   open again and polled.

## Defects the properties exempt

Where the code is known to break a property in one history, the property names that
history instead of being weakened everywhere; each exemption is reachable: without it
the run fails, or, for two of the histories in `disowned`, the same model with three
reviewers or two requests does, or, for `seededOver`, the run's model with two edits at the
legacy tab and one at the other.

| where | exemption | what happens |
|---|---|---|
| CodexDelivery | `overtaken` (`codexAppServerHost.ts:597`) | the end of a short turn is read before the answer of its `turn/start` is taken; the host then shows the ended turn as active until it dies |
| CodexDelivery | `hung` (`codexAppServerHost.ts:1011`) | the host dies between an answer and the step that awaits the confirmation: the deadline's `fail` returns early on a dead host and the drain waits for ever |
| CodexDelivery | `misjudged` (`codexAppServerHost.ts:525`) | the image probe precedes the look at confirmed deliveries: a message that is in the thread is reported failed when the probe fails |
| Deployment | `unrecorded` (`deployment.ts:226`) | the journal refuses the error handler's update: the deployment stays active until the host restarts |
| ReviewFlow | `reverted`, `resumed`, `strays` | a creation's stale save; a relay an operator resumed; a reviewer a restart left unnamed |
| ReviewFlow | `disowned` | reviewers that run on while the flow starts another: an operator ended the parking of their round; another reviewer of the round, one a restart left unnamed, wrote the round's verdict file (`exec.ts:268`: one file per flow and round), which ended the round (three reviewers); the Viewer died between starting a reviewer and undoing it (`engine.ts:565`) for a flow paused meanwhile, which was then resumed (two requests) |
| AccountMigration | `flaws.crossed`, `.oldFork`, `.takenBack`, `.released` | see the comment at its properties |
| AccountMigration | `stranded` | a retarget leaves a message assigned to the generation it replaced |
| BoardSync | `seededOver` (`useBoardState.ts:508`) | an everyday first visit: a browser with a legacy arrangement opens a board and its user edits it before the load is answered (`mutate` does not wait for that, nor do most controls of `ProjectDashboard.tsx`). If that edit's drain is still in flight when the answer finds a board of revision 0, the seed goes out over it: `inflight` is set and cleared regardless, the same edits are sent twice, and the second answer cuts edits from the outbox that the server has not taken. It takes a second edit for one to be lost |

## Proofs

`OperationJournal_proofs` proves, for all values of the constants that satisfy
`JournalAssumption`:

- `Typing`: `Spec => []TypeOK`;
- `FencesAgree`, `FencesKept`: the fence of a pending effect never changes and
  agrees with a delivering receipt. They hold for every client;
- under `~ReusesOldKeys`: `PlaceholdersAreLaunched`: a placeholder shown as registering has
  a launch with no failure recorded, be it open or delivered;
- under `~ReusesOldKeys` and `~RetriesInPlace`: `Consistency` (the inductive
  invariant `IInv`), and from it `ReceiptsAndEffects`, `OutcomesAreFinal`,
  `RetryChains` and `ReplacementsAreFound`.

The provisos are needed: without the first, run JournalReusedKey violates
`ReceiptHasEffect`; retrying in place and by key both reopens a parent whose
replacement is live. The HTTP route always supplies a key, and clients make fresh keys per message.

None of the properties is inductive by itself. `OneLiveAttempt` needs that an
attempt is compacted no later than its replacement, which needs the order of event
sequence numbers along a chain (`ChainsOrdered`), and that an id once used is
remembered by its scope's revision (`RowsCurrent`, `KeysUsed`). `OutcomeIsFinal` needs
that every recorded key names a revision already passed, so that no later
transition finds its producer key taken. `EffectsMatch` makes the equivalence of open
receipt and pending effect one formula. Compaction is treated once: `CommitFacts`
and `CommitConsistent` show what it keeps of any consistent tables, and every action is
then shown to leave consistent tables *before* compaction. `PlaceholdersAreLaunched`
has an invariant of its own, `LaunchInv`, since it holds with retries in place too: a
launch whose placeholder stands ended only by its own transition, which also ends the
placeholder, so it is enough that ends are recorded (`EndsAreSettled`) and that an id is
not admitted twice (`IdsUsed`). It needs `LaunchAssumption`: no session report says
`registering`, which only the journal writes (`journal.ts:1249`).

`ViewerDeployment_proofs` proves, for all values that satisfy `DeploymentAssumption`
and without any proviso: `Typing`, `Invariance` (the inductive invariant `IInv`), and from it
`ServingKept`, `SlotKept`, `CleansUp` and `Implements`, the refinement of ReleaseSwitch.
`ServingIsKept` alone is not inductive: that the target still has its container when a
candidate is retired depends on which step of which phase a run stands at, on the
candidate having been recorded, and on `previous` naming what served when the promotion
began. `IInv` ties `task.step` to the phase, says that only the latest deployment is open,
and for each phase where the target and the previous release are.

`StructuredDelivery_proofs` proves, for every number of messages and failures, whatever
the policies and whether publications fail or not: `DeliveryTyped`, `InterruptsAreFenced`,
`DeliveriesAreCertain` and `DeliveryKeepsItsPromises`, the refinement of MessageDelivery,
with `DeliveryAssumption` as the only assumption. That a message is never taken twice
rests on the ledger, the pipe, the transcript and the echo together: `Recorded` (what is
in the ledger was the oldest open message, so at most one entry is unconfirmed), `Piped`
and `Echoed` (that entry is either on its way to the engine or taken and echoed, never
both, and as long as the host is up the drain stands at its `send`), `Taken` (the length
of the transcript when it was recorded tells whether it was taken, which is what
`Recover` decides by) and `Drained` (what each await of the drain knows of its message).
That an interrupt is never asked for on the message's own turn rests on `Fenced`: a message is only
fenced to an earlier one's turn, and once it is recorded no earlier turn is left in the
host's queue.

Its last part proves `NoLostWakeup` (`IdleHostHasNoBacklog`) under
`~SyncFails`, the proviso without which run DeliveryLostWakeup violates it. Its invariant
`Awake` says what survives each way a pass of the drain can end: a timer, a drain asked
for meanwhile, a notice that differs from the last one published, or an active turn whose
end will be one.

`CodexDelivery_proofs` proves, for every number of messages and failures, with
`CodexAssumption` and `NullAssumption` (Null is no request and no outcome) only:
`CodexTyped`, `ActiveTurnIsTracked` and `CodexKeepsItsPromises`, the refinement of
MessageDelivery. There is no ledger here, so that a message enters the thread once rests
on what the host's journal and memory may be wrong about: `Carried` (a request or input on
its way carries the oldest open message and only when the thread lacks it), `Known` (what
the journal says of a message is so, or the line that confirms it is on its way),
`Asked` and `Answered` (one request or one answer is under way and it is the drain's) and
`Concluded` (what each await of the drain knows). `TurnIsTracked` is not inductive:
`Turns` adds that the lines still to be read come in the order of the turns (`ordered`),
so that a start is never read after its own end, and that a turn that carries a message
has it in the thread.

`AccountMigration_proofs` proves, for every number of messages, moves, runs, requests and
failures, with `MigrationAssumption` only: `Types`, `NoDeliveryIsLost`, `CurrentKeepsHost`
and `NoHostIsOrphaned`. A run acts on what it read before an await, so the invariant
`IInv` says how much of that may be stale: one run at a time asks for the fork of an
operation and the provider's journal of it is then so (`Leased`), a receipt is that of the
migration's own recorded fork (`Receipts`), a migration that waits to begin, or failed
with an outcome unknown, has nobody asking for its fork (`Retried`), and what is to be
forked is the current generation (`Sourced`). `Messaged` is the fence: between a fork and
its commit no delivery is on its way; `Kept` then says that what the engine took is in the
current generation and in the fork that will replace it. `Owned` says a host belongs to a
generation or to the one run that publishes it, and that no run publishes the current
generation's unless a late advance released that one. The defects of the table
above are exempted in these parts exactly where the properties exempt them.

`ReviewFlow_proofs` proves, for every number of rounds, reviewers, requests and failures,
with `FlowAssumption` only: `TypesAlways`, `Invariance`, and from it `FlowHasOneReviewer`,
`ClosingStopsReviewer`, `FindingsAreRelayedOnce` and `CloseIsFinal`. The poller works on a
clone, so each part of `IInv` speaks of the file and of the clone, and of how the clone may
differ from its base at each await. `Fit` says which fields a flow in a state may have (a
pid only once started, no verdict before the review, no relayed round before its relay)
and `Based` that the merge sees a launch or relay as begun by this poll. `Tracked` is why
there is one reviewer: one that runs and is not disowned is of the flow's round, in a
state that has not ended it, with no verdict file yet, and the process map and the pid
name it or nobody (`heldBy`); one no restart forgot is the one a close would stop
(`named`); while a launch is awaited there is no other, and if operators have not taken the
flow over the file still holds its reservation (`Launching`). It needs `Silent`: who runs
has said nothing and the pid on file is that of a process. `Relayed` says that a
round whose findings were sent is never back in a state before its relay, and one found
in the middle of it shows so by its `relaying` mark, which is what the poller parks on. All
of them hold unless `reverted`. `CloseIsFinal` needs only the typing part: the merge keeps
a closed flow closed. Writing these proofs showed the model's `OneReviewer`, as first stated
from two reviewers and one request, to be false beyond those bounds: `disowned` now names
the two histories. TLC checks `IInv` as well with three reviewers, with three
requests and with two of each bound.

`MessageDelivery_proofs` proves `PromisesHold`: the abstract steps imply that messages are
received in order and none twice, that a delivered one was received and a failed one was
not.

`BoardSync_proofs` proves `EditsLandInOrder` (`IntentsLandInOrder`) for every number of
tabs, edits, renames and failures, whatever the reducer computes and with no assumption on
the constants, for the tabs outside `seededOver`; "Defects" above says what happens to the
others. Its invariant
`IInv` says of each store outside it that a request under way carries the oldest edits of
the outbox (`DrainCall`), that an acceptance on its way back means they were taken and a
refusal that the server would refuse them again (`Answered`), and that `inflight` tells
whether there is one and that there is never a second (`Requested`). Nothing is said of a
tab in `seededOver`; `Elsewhere` shows that its steps leave the others' parts alone.

Its second part computes the reducer and proves, with `ReducerAssumption`,
`SyncAssumption` and `EditsAssumption` and for every tab, `BoardIsCanonical`
(`TypeOK`) and `ClosedStaysClosed` (`CloseSurvives`). The reducer's operators on lists and
aliases are recursive functions; what they compute is proved for every list by induction
over sets of numbers (`Induct`). The boards of the invariant `BoardInv` (`Boards(g)`) are
canonical and their aliases only lead from a generation to a later one, so every walk
along them ends (`FollowsClimbs`, `ResolveClimbs`) and the reducer never throws. Each
mutation keeps such boards, forgets no rename (`continues`) and, unless it restores, leaves
a conversation closed that was (`staysClosed`); `BatchIs` extends this to a batch. A
request that names the conversation has a rename of all its earlier generations put in
front by the route (`withAliases`), after which all of them lead to the latest (`AllLead`):
hence a batch that ends with a closed path shown again restored that conversation
(`BatchCloses`), while one that does not name it changes no rename (`same`). The rest of
the invariant says that stores hold and send only edits that fit the board (`Fitting`):
they name generations that exist. `EditsAssumption` says that a menu holds mutations of
the reducer's kinds (`BoardMutationV1`), that the paths of a conversation's generations
differ, since each successor is a fork with a transcript of its own, and that a browser's
rename leads from a predecessor to its successor (`planSuccessionRemap`).

Proved and in no run of their own: `EffectHasOperation` and `PresentationAdvances`, which
`ReceiptsAndEffects` and `RetryChains` state with the others.

Only model-checked: what the journal promises with retries in place beyond the fences
and the placeholder; every liveness property and `ENABLED`, which are out of the prover's
reach. An operator given as a parameter is too, so no induction theorem of the library is
cited: where an induction is needed it is over the members of a set.

## Not modelled, and the plan

Left out for good: React components, transcript parsing and formatting, the terminal
(tmux) path, image storage, authentication: text and I/O without a protocol.

Left, in order:

1. `RuntimeHostFence` and `ConsumerQueue`: lock file with stale owners; consumption in
   order, quarantine, replay.
2. `StructuredControls`: `drainControl` with attention requests and client turn ids, next
   to StructuredDelivery.
3. Session claims of the agent registry; recovery as the composition of claim, orphan
   reaping and `Recover`.
4. Pipelines, which launch review flows.
5. `RuntimeBus`, `Reaper`, coalescer, the board's write lock: small, each with two actors.

Theorems to come: for the fence mutual exclusion where it holds.

Each run is `tlc -config <run>.cfg <module>` with the module named in `PROJECT.json`; the
proofs are checked by `tlapm` on each module named `*_proofs`.
