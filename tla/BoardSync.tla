------------------------------- MODULE BoardSync -------------------------------
(* One project's board, on the server and in the browser: several board       *)
(* stores (hooks/useBoardState.ts) that edit their own copies and send the    *)
(* edits to /api/board, where each request is carried out under the write     *)
(* lock of lib/board/store.ts, while account migrations rename transcripts.   *)
(* A request can fail before or after it took effect, and answers arrive late.*)
EXTENDS BoardMutations

CONSTANTS
  Stores,         \* board stores: every mounted view of the project has one
  Menu,           \* per store: mutations that its users and effects dispatch
  Conversation,   \* the paths of a conversation's generations, in order
  Legacy,         \* stores whose browser has an arrangement to migrate
  LegacyPrefs,    \* that arrangement
  Primed,         \* stores that mount where the board was loaded before
  PatchCap,       \* MAX_MUTATIONS_PER_PATCH
  ConflictCap,    \* MAX_CONFLICT_RETRIES
  MaxIntents,     \* bound, per store: mutations dispatched
  LatePolls,      \* bound: stores whose polls may be answered late
  MaxFaults       \* bound: failures of requests

ASSUME SyncAssumption ==
  /\ Legacy \subseteq Stores /\ Primed \subseteq Stores
  /\ PatchCap \in Nat \ {0} /\ ConflictCap \in Nat
  /\ LatePolls \subseteq Stores /\ MaxIntents \in [Stores -> Nat] /\ MaxFaults \in Nat

(* A new generation has a new transcript, and the browser only renames a      *)
(* transcript to that of a later generation (planSuccessionRemap).            *)
succession(pairs) ==
  \A p \in DOMAIN pairs : \E i, j \in DOMAIN Conversation :
    i < j /\ p = Conversation[i] /\ pairs[p] = Conversation[j]

ASSUME EditsAssumption ==
  /\ Conversation \in Seq(Paths) \ {<<>>}
  /\ \A i, j \in DOMAIN Conversation : Conversation[i] = Conversation[j] => i = j
  /\ \A c \in Stores : \A m \in Menu[c] :
       IsMutation(m) /\ (m.kind = "remap-paths" => succession(m.pairs))
  /\ \A list \in {LegacyPrefs.manual, LegacyPrefs.hidden, LegacyPrefs.expanded} : list \in Seq(Paths)
  /\ LegacyPrefs.mode \in Modes \cup {Null}

VARIABLES
  board,      \* the server's board: its arrangement and revision
  registry,   \* generations of the conversation; how many the board was told of
  store,      \* per store: its variables and its requests
  taken,      \* history: <<store, n>> where the server took its n-th intent
  seededOver, \* history: stores that sent their seed while a drain was awaited
  faults

vars == <<board, registry, store, taken, seededOver, faults>>

---------------------------------------------------------------------------
(* A store. outbox is what follows the first `done` of its intents.           *)

emptyBoard == [revision |-> 0, prefs |-> emptyArrangement]

NoCall == [at |-> "idle"]

newStore(c) ==
  [confirmed |-> emptyBoard, intents |-> <<>>, done |-> 0, inflight |-> FALSE,
   loaded |-> c \in Primed, unavailable |-> FALSE, conflictStreak |-> 0,
   rejectCap |-> 0, retry |-> FALSE, writes |-> [w \in {1, 2} |-> NoCall],
   load |-> [at |-> "sent"], poll |-> NoCall]

outbox(s) == SubSeq(s.intents, s.done + 1, Len(s.intents))

(* What a store shows: its outbox replayed over the board it knows.           *)
optimistic(prefs, mutations) ==
  IF mutations = <<>> THEN prefs
  ELSE LET replayed == applyBoardMutations(prefs, mutations)
       IN IF replayed = Null THEN prefs ELSE replayed

patchPrefix(s) ==
  LET cap == IF s.rejectCap = 0 THEN PatchCap ELSE s.rejectCap
  IN IF Len(outbox(s)) <= cap THEN outbox(s) ELSE SubSeq(outbox(s), 1, cap)

(* A second write is only under way where a seed overlaps a drain.            *)
freeSlot(s) == IF s.writes[1] = NoCall THEN 1 ELSE 2

(* The first half of drain, up to its await.                                  *)
sending(s) ==
  IF s.inflight \/ outbox(s) = <<>> THEN s
  ELSE [s EXCEPT !.inflight = TRUE,
                 !.writes[freeSlot(s)] =
                    [at |-> "sent", kind |-> "drain", first |-> s.done,
                     prefix |-> patchPrefix(s), base |-> s.confirmed.revision]]
drain(s) == once(s, sending)

update(c, s) == store' = [store EXCEPT ![c] = s]

---------------------------------------------------------------------------
(* Edits. Users make them from the first paint on, before the first load is   *)
(* answered too; the effect that remaps and reconciles waits for the load.    *)

dispatchable(s, m) ==
  m.kind \in {"reconcile-roots", "remap-paths"} => s.loaded /\ ~s.unavailable

mentioned(m) ==
  CASE m.kind \in {"close", "restore"} -> {m.path}
    [] m.kind = "reconcile-roots" -> ToSet(m.roots)
    [] m.kind = "remap-paths" -> DOMAIN m.pairs \cup {m.pairs[p] : p \in DOMAIN m.pairs}
    [] OTHER -> {}

(* Edits name transcripts that exist.                                         *)
observed(m) == mentioned(m) \subseteq {Conversation[g] : g \in 1 .. registry.generations}

Mutate(c, m) ==
  LET s == store[c]
      next == [s EXCEPT !.intents = Append(@, m)]
      replayed == applyBoardMutations(s.confirmed.prefs, outbox(next))
  IN /\ dispatchable(s, m) /\ Len(s.intents) < MaxIntents[c] /\ observed(m)
     /\ replayed # optimistic(s.confirmed.prefs, outbox(s))
     /\ update(c, drain(next))
     /\ UNCHANGED <<board, registry, taken, seededOver, faults>>

RetryFires(c) ==
  /\ store[c].retry
  /\ update(c, drain([store[c] EXCEPT !.retry = FALSE, !.conflictStreak = 0]))
  /\ UNCHANGED <<board, registry, taken, seededOver, faults>>

---------------------------------------------------------------------------
(* PATCH and GET /api/board.                                                  *)

(* The route puts the renames the registry knows of before a request that     *)
(* mentions the conversation. Left out: where the registry cannot be read it  *)
(* carries the request out as it came.                                        *)
withAliases(mutations) ==
  LET known == {Conversation[g] : g \in 1 .. registry.generations}
      latest == Conversation[registry.generations]
      supplied == UNION {sourcesOf(mutations[i]) : i \in DOMAIN mutations}
      named == UNION {mentioned(mutations[i]) : i \in DOMAIN mutations}
      sources == known \ (supplied \cup {latest})
  IN IF known \cap named = {} \/ sources = {} THEN mutations
     ELSE <<[kind |-> "remap-paths", pairs |-> [p \in sources |-> latest]]>> \o mutations

reduced(call) ==
  IF call.kind = "seed" THEN applyLegacyPatch(board.prefs, LegacyPrefs)
  ELSE applyBoardMutations(board.prefs, withAliases(call.prefix))

(* Only an acceptance and a conflict bring a board along.                     *)
answer(c, w, status, seen) ==
  store' = [store EXCEPT ![c].writes[w] =
              [at |-> "answered", status |-> status, board |-> seen,
               call |-> [store[c].writes[w] EXCEPT !.base = 0]]]

takes(c, call) ==
  taken \cup (IF call.kind = "seed" THEN {}
              ELSE {<<c, n>> : n \in call.first + 1 .. call.first + Len(call.prefix)})

(* The validator refuses a request, or the reducer throws; writeReduced finds *)
(* nothing to change, another revision than the tab knew, or writes.          *)
verdict(call, prefs) ==
  IF call.kind = "drain" /\ ~validBatch(call.prefix) THEN "rejected"
  ELSE IF prefs = Null THEN "error"
  ELSE IF prefs = board.prefs \/ call.base = board.revision THEN "ok" ELSE "conflict"

Serve(c, w) ==
  LET call == store[c].writes[w]
  IN /\ call.at = "sent" /\ UNCHANGED <<registry, seededOver, faults>>
     /\ \E prefs \in {reduced(call)} :
          LET status == verdict(call, prefs)
              next == IF prefs = board.prefs THEN board
                      ELSE [revision |-> board.revision + 1, prefs |-> prefs]
          IN \/ /\ status = "ok" /\ board' = next
                /\ answer(c, w, status, next) /\ taken' = takes(c, call)
             \/ /\ status # "ok" /\ UNCHANGED <<board, taken>>
                /\ answer(c, w, status, IF status = "conflict" THEN board ELSE emptyBoard)

ServeLoad(c) ==
  /\ store[c].load.at = "sent"
  /\ update(c, [store[c] EXCEPT !.load = [at |-> "answered", board |-> board]])
  /\ UNCHANGED <<board, registry, taken, seededOver, faults>>

fault == faults < MaxFaults /\ faults' = faults + 1

(* A request does not get through, or draws a refusal that is not about its   *)
(* content: no access, another schema version.                                *)
WriteFails(c, w) ==
  /\ fault /\ store[c].writes[w].at = "sent"
  /\ \E status \in {"error", "envelope"} :
       /\ store[c].writes[w].kind = "seed" => status = "error"
       /\ answer(c, w, status, emptyBoard)
  /\ UNCHANGED <<board, registry, taken, seededOver>>

AnswerLost(c, w) ==
  LET call == store[c].writes[w]
  IN /\ fault /\ call.at = "answered" /\ call.status = "ok"
     /\ update(c, [store[c] EXCEPT !.writes[w] =
                    [@ EXCEPT !.status = "error", !.board = emptyBoard]])
     /\ UNCHANGED <<board, registry, taken, seededOver>>

LoadFails(c) ==
  /\ fault /\ store[c].load.at = "sent"
  /\ update(c, [store[c] EXCEPT !.load = NoCall, !.loaded = TRUE, !.unavailable = TRUE])
  /\ UNCHANGED <<board, registry, taken, seededOver>>

---------------------------------------------------------------------------
(* The answers, back at the store: the rest of drain, by status.              *)

answered(c, w, kind, status) ==
  LET write == store[c].writes[w]
  IN write.at = "answered" /\ write.call.kind = kind /\ write.status = status

(* After the await: nothing in flight any more.                               *)
resumed(c, w) == [store[c] EXCEPT !.writes[w] = NoCall, !.inflight = FALSE]

sentLength(c, w) == Len(store[c].writes[w].call.prefix)

(* outbox.slice(n)                                                            *)
dropped(s, n) == IF s.done + n <= Len(s.intents) THEN s.done + n ELSE Len(s.intents)

Accepted(c, w) ==
  /\ answered(c, w, "drain", "ok")
  /\ update(c, drain([resumed(c, w) EXCEPT
       !.retry = FALSE, !.conflictStreak = 0, !.rejectCap = 0, !.unavailable = FALSE,
       !.confirmed = store[c].writes[w].board, !.done = dropped(store[c], sentLength(c, w))]))
  /\ UNCHANGED <<board, registry, taken, seededOver, faults>>

(* A refused request is halved until the offender stands alone.               *)
(* Mutant: the refused request is dropped whole.                              *)
RejectedWhole(c, w) ==
  /\ answered(c, w, "drain", "rejected")
  /\ update(c, drain([resumed(c, w) EXCEPT
       !.retry = FALSE, !.conflictStreak = 0, !.rejectCap = 0,
       !.done = dropped(store[c], sentLength(c, w))]))
  /\ UNCHANGED <<board, registry, taken, seededOver, faults>>
Rejected(c, w) ==
  LET alone == sentLength(c, w) = 1
  IN /\ answered(c, w, "drain", "rejected")
     /\ update(c, drain([resumed(c, w) EXCEPT
          !.retry = FALSE, !.conflictStreak = 0,
          !.rejectCap = IF alone THEN 0 ELSE sentLength(c, w) \div 2,
          !.done = IF alone THEN dropped(store[c], 1) ELSE @]))
     /\ UNCHANGED <<board, registry, taken, seededOver, faults>>

(* Mutant: after too many conflicts no timer is armed.                        *)
ConflictedNoTimer(c, w) ==
  LET s == [resumed(c, w) EXCEPT !.confirmed = store[c].writes[w].board, !.conflictStreak = @ + 1]
  IN /\ answered(c, w, "drain", "conflict")
     /\ update(c, IF s.conflictStreak <= ConflictCap THEN drain(s) ELSE s)
     /\ UNCHANGED <<board, registry, taken, seededOver, faults>>
Conflicted(c, w) ==
  LET s == [resumed(c, w) EXCEPT !.confirmed = store[c].writes[w].board, !.conflictStreak = @ + 1]
  IN /\ answered(c, w, "drain", "conflict")
     /\ update(c, IF s.conflictStreak <= ConflictCap THEN drain(s) ELSE [s EXCEPT !.retry = TRUE])
     /\ UNCHANGED <<board, registry, taken, seededOver, faults>>

SkewFound(c, w) ==
  /\ answered(c, w, "drain", "envelope")
  /\ update(c, [resumed(c, w) EXCEPT !.rejectCap = 0, !.unavailable = TRUE, !.retry = TRUE])
  /\ UNCHANGED <<board, registry, taken, seededOver, faults>>

Failed(c, w) ==
  /\ answered(c, w, "drain", "error")
  /\ update(c, [resumed(c, w) EXCEPT !.retry = TRUE])
  /\ UNCHANGED <<board, registry, taken, seededOver, faults>>

(* load, after its GET; an empty board is seeded from this browser.           *)
isEmpty(prefs) ==
  prefs.manual = <<>> /\ prefs.hidden = <<>> /\ prefs.expanded = <<>> /\ prefs.mode = Null

seeds(c) ==
  LET seen == store[c].load.board
  IN c \in Legacy /\ seen.revision = 0 /\ isEmpty(seen.prefs)

Loaded(c) ==
  LET s == store[c]
      shown == [s EXCEPT !.load = NoCall, !.loaded = TRUE]
      seeding == [shown EXCEPT
        !.confirmed = [s.load.board EXCEPT !.prefs =
           [@ EXCEPT !.manual = LegacyPrefs.manual, !.hidden = LegacyPrefs.hidden,
                     !.expanded = LegacyPrefs.expanded, !.mode = LegacyPrefs.mode]],
        !.inflight = TRUE,
        !.writes[freeSlot(s)] = [at |-> "sent", kind |-> "seed", base |-> 0,
                                 fallback |-> s.load.board]]
  IN /\ s.load.at = "answered"
     /\ update(c, IF seeds(c) THEN seeding ELSE [shown EXCEPT !.confirmed = s.load.board])
     /\ seededOver' = seededOver \cup (IF seeds(c) /\ s.inflight THEN {c} ELSE {})
     /\ UNCHANGED <<board, registry, taken, faults>>

Seeded(c, w) ==
  LET write == store[c].writes[w]
  IN /\ \E status \in {"ok", "conflict", "error"} : answered(c, w, "seed", status)
     /\ update(c, drain([resumed(c, w) EXCEPT
          !.confirmed = IF write.status \in {"ok", "conflict"} THEN write.board
                        ELSE write.call.fallback]))
     /\ UNCHANGED <<board, registry, taken, seededOver, faults>>

(* poll. Only what its GET reads and when it answers matter. Bound: one late  *)
(* answer at a time, counted as a fault; a GET that fails changes nothing.    *)
settled(s) == ~s.inflight /\ outbox(s) = <<>>

adopted(s, seen) ==
  IF settled(s) /\ seen.revision # s.confirmed.revision
    THEN [s EXCEPT !.confirmed = seen, !.unavailable = FALSE] ELSE s

Poll(c) ==
  /\ settled(store[c]) /\ board.revision # store[c].confirmed.revision
  /\ update(c, adopted(store[c], board))
  /\ UNCHANGED <<board, registry, taken, seededOver, faults>>

PollDelayed(c) ==
  /\ fault /\ c \in LatePolls /\ settled(store[c]) /\ store[c].poll = NoCall
  /\ update(c, [store[c] EXCEPT !.poll = [at |-> "answered", board |-> board]])
  /\ UNCHANGED <<board, registry, taken, seededOver>>

Polled(c) ==
  /\ store[c].poll.at = "answered"
  /\ update(c, adopted([store[c] EXCEPT !.poll = NoCall], store[c].poll.board))
  /\ UNCHANGED <<board, registry, taken, seededOver, faults>>

---------------------------------------------------------------------------
(* Account migration: the conversation continues in a new transcript, and     *)
(* then the coordinator remaps the board (remapBoardPaths, writeLatest).      *)

MigrationCommits ==
  /\ registry.generations < Len(Conversation)
  /\ registry' = [registry EXCEPT !.generations = @ + 1]
  /\ UNCHANGED <<board, store, taken, seededOver, faults>>

successions ==
  [p \in {Conversation[g] : g \in 1 .. registry.generations - 1} |->
     Conversation[registry.generations]]

repairedBoard ==
  LET remapped == applyBoardMutations(board.prefs, <<[kind |-> "remap-paths", pairs |-> successions]>>)
      known == \A p \in DOMAIN successions :
                 p \in DOMAIN board.prefs.aliases /\ board.prefs.aliases[p] = successions[p]
  IN IF known \/ remapped = board.prefs THEN board
     ELSE [revision |-> board.revision + 1, prefs |-> remapped]

RepairBoard ==
  /\ registry.repaired < registry.generations
  /\ board' = repairedBoard
  /\ registry' = [registry EXCEPT !.repaired = registry.generations]
  /\ UNCHANGED <<store, taken, seededOver, faults>>

---------------------------------------------------------------------------
Init ==
  /\ board = emptyBoard
  /\ registry = [generations |-> 1, repaired |-> 1]
  /\ store = [c \in Stores |-> newStore(c)]
  /\ taken = {} /\ seededOver = {} /\ faults = 0

ServerStep(c) == ServeLoad(c) \/ \E w \in {1, 2} : Serve(c, w)

WriteAnswered(c) ==
  \E w \in {1, 2} :
    Accepted(c, w) \/ Rejected(c, w) \/ Conflicted(c, w) \/ SkewFound(c, w) \/ Failed(c, w)
      \/ Seeded(c, w)

Fault(c) ==
  (\E w \in {1, 2} : WriteFails(c, w) \/ AnswerLost(c, w)) \/ LoadFails(c) \/ PollDelayed(c)

Next ==
  \/ \E c \in Stores : \/ \E m \in Menu[c] : Mutate(c, m)
                       \/ RetryFires(c) \/ ServerStep(c) \/ WriteAnswered(c)
                       \/ Loaded(c) \/ Poll(c) \/ Polled(c) \/ Fault(c)
  \/ MigrationCommits \/ RepairBoard

Spec == Init /\ [][Next]_vars

(* As long as anything is due, something is done: a request is served, its    *)
(* answer handled, a timer fires, a poll finds what changed, or a committed   *)
(* migration repairs the board. Nobody need edit or fail.                     *)
Proceeds ==
  \/ \E c \in Stores : ServeLoad(c) \/ Loaded(c) \/ Polled(c) \/ RetryFires(c) \/ Poll(c)
  \/ RepairBoard
  \/ \E c \in Stores : WriteAnswered(c) \/ \E w \in {1, 2} : Serve(c, w)

FairSpec == Spec /\ WF_vars(Proceeds)

---------------------------------------------------------------------------
TypeOK ==
  /\ board.revision \in Nat /\ IsNormal(board.prefs)
  /\ registry.repaired \in 1 .. registry.generations
  /\ registry.generations \in 1 .. Len(Conversation)
  /\ faults \in 0 .. MaxFaults
  /\ \A c \in Stores :
       /\ store[c].intents \in Seq(Menu[c]) /\ store[c].done \in 0 .. Len(store[c].intents)
       /\ store[c].rejectCap \in 0 .. PatchCap /\ store[c].conflictStreak \in Nat
  /\ \A t \in taken : t[1] \in Stores /\ t[2] \in 1 .. Len(store[t[1]].intents)

(* A user's edit leaves the outbox only after the server took it, and edits   *)
(* of one tab are taken in the order they were made: neither conflicts, lost  *)
(* answers and retries nor the bisection of a refused request drops or        *)
(* overtakes an edit, other than one the server would refuse by itself.       *)
(* Excepted: a tab that edited so soon that its seed went out over a drain.   *)
refusable(c, n) == ~validBatch(<<store[c].intents[n]>>)
landed(c, n) == <<c, n>> \in taken \/ refusable(c, n)
IntentsLandInOrder ==
  \A c \in Stores \ seededOver :
    /\ \A n \in 1 .. store[c].done : landed(c, n)
    /\ \A n \in 1 .. Len(store[c].intents) :
         <<c, n>> \in taken => \A k \in 1 .. n - 1 : landed(c, k)

(* A closed conversation stays closed on the server, under whatever name it   *)
(* goes by, until a user reopens it: roots that other tabs reconcile, legacy  *)
(* arrangements and renames, in any order and repeated, do not bring it back. *)
reopens(c, p) ==
  \E w \in {1, 2} :
    LET call == store[c].writes[w]
    IN /\ call.at = "sent" /\ store'[c].writes[w].at = "answered" /\ call.kind = "drain"
       /\ \E i \in DOMAIN call.prefix :
            /\ call.prefix[i].kind = "restore"
            /\ resolvePath(call.prefix[i].path, board'.prefs.aliases)
                 = resolvePath(p, board'.prefs.aliases)
CloseSurvives ==
  [][\A p \in Paths :
       isHidden(board.prefs, p) /\ ~isHidden(board'.prefs, p) => \E c \in Stores : reopens(c, p)]_vars

(* Once nobody edits and requests get through, every tab has sent all it had  *)
(* and shows the server's board: no order of conflicts, timers, loads and     *)
(* late polls leaves one with an outbox nobody drains or on an old board.     *)
EventuallyConverges ==
  <>[](\A c \in Stores : outbox(store[c]) = <<>> /\ store[c].confirmed = board)
=============================================================================
