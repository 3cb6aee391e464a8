------------------------ MODULE AccountMigration_proofs ------------------------
(***************************************************************************)
(* Machine-checked theorems about AccountMigration, for every number of    *)
(* messages, successions, runs, requests and failures: its types, that no  *)
(* delivered message is missing from the generation the conversation goes  *)
(* on in, and that hosts are neither lost nor left without an owner.       *)
(***************************************************************************)
EXTENDS AccountMigration, TLAPS

Working == {"lease", "forking", "resuming", "verifying", "publishing"}
Forks == {"successor-starting", "verifying"}
MigrationFields == {"phase", "intent", "rev", "target", "op", "src", "receipt", "unknown"}
RunFields == {"pc", "op", "rev", "src", "target", "host"}
FlawFields == {"crossed", "oldFork", "released", "takenBack"}

(* What the records are made of.                                            *)
MigrationTyped ==
  /\ migration = [f \in MigrationFields |-> migration[f]]
  /\ migration.phase \in InFlight \cup Ended \cup {"none"}
  /\ migration.src \in 1 .. Len(gens) /\ migration.unknown \in BOOLEAN
RunsTyped ==
  /\ run = [a \in Runs |-> run[a]]
  /\ \A a \in Runs :
       /\ run[a] = [f \in RunFields |-> run[a][f]]
       /\ run[a].pc \in Working \cup {"idle", "cleaning"}
       /\ run[a].src \in 1 .. Len(gens)
       /\ run[a].host \in BOOLEAN /\ (run[a].host => at(a, "cleaning"))
aGeneration(x) == x = [f \in {"op", "acct", "read"} |-> x[f]]
generations(s) ==
  s \in Seq({s[g] : g \in DOMAIN s}) /\ s # << >> /\ \A g \in DOMAIN s : aGeneration(s[g])
GensTyped == generations(gens)
MessagesTyped ==
  /\ row \in [Messages -> [state : {"none", "held", "assigned", "uncertain", "delivered", "failed"},
                           gen : 0 .. Len(gens)]]
  /\ effect \in [Messages -> {"none", "queued", "delivered", "failed"}]
  /\ calls \subseteq Messages \X {"send", "drain"}
ProviderTyped ==
  /\ journal \in [Ops -> {"none", "requested", "recorded"}]
  /\ fork = [op \in Ops |-> fork[op]] /\ \A op \in Ops : fork[op].made \in BOOLEAN
FlawsTyped ==
  /\ flaws = [f \in FlawFields |-> flaws[f]]
  /\ flaws.crossed \in BOOLEAN /\ flaws.oldFork \in BOOLEAN
  /\ flaws.released \in BOOLEAN

(* An operation that was not used yet left no trace.                        *)
Numbered ==
  /\ used \in 0 .. MaxOps
  /\ migration.op \in 0 .. used /\ (migration.phase # "none" => migration.op # 0)
  /\ migration.phase = "none" => migration.intent = 0
  /\ \A a \in Runs : run[a].op \in 0 .. used /\ (run[a].pc # "idle" => run[a].op # 0)
  /\ cleanup \subseteq 1 .. used /\ hosted \subseteq 1 .. used
  /\ \A op \in Ops : op > used => journal[op] = "none" /\ ~fork[op].made

(* One run at a time asks for an operation's fork or resumes it, and what   *)
(* the journal says of it is so.                                            *)
forker(a) == run[a].pc \in {"forking", "resuming"}
Leased ==
  /\ \A a, b \in Runs : forker(a) /\ forker(b) /\ run[a].op = run[b].op => a = b
  /\ \A a \in Runs : at(a, "forking") => journal[run[a].op] = "requested"
  /\ \A a \in Runs : run[a].pc \in {"resuming", "verifying", "publishing"} =>
       journal[run[a].op] = "recorded"
  /\ \A op \in Ops : journal[op] = "recorded" => fork[op].made

(* A receipt is that of the migration's own, recorded fork, and who         *)
(* verifies or publishes a successor works on the receipt.                  *)
verifier(a) == run[a].pc \in {"verifying", "publishing"}
Receipts ==
  /\ migration.receipt \in {0, migration.op}
  /\ migration.receipt # 0 =>
       journal[migration.op] = "recorded" /\ migration.phase \in Ended \cup {"verifying"}
  /\ \A a \in Runs :
       verifier(a) /\ run[a].op = migration.op => migration.receipt = migration.op

(* A migration whose fork may exist has asked for it, and while one waits   *)
(* to begin nobody asks.                                                    *)
holds(a, op) == run[a].pc \in Working /\ run[a].op = op
forking(op) == \E a \in Runs : at(a, "forking") /\ run[a].op = op
Retried ==
  /\ migration.phase = "failed-recoverable" /\ migration.unknown =>
       /\ journal[migration.op] # "none" /\ ~forking(migration.op)
       /\ migration.receipt = 0
  /\ migration.phase \in {"waiting-turn", "requested"} =>
       /\ ~forking(migration.op)
       /\ journal[migration.op] = "none" => \A a \in Runs : ~holds(a, migration.op)
       /\ fork[migration.op].made => flaws.oldFork

(* What is to be forked is the current generation.                          *)
Sourced ==
  migration.phase \in InFlight \cup {"failed-recoverable", "rolled-back"} =>
    /\ migration.src = Len(gens)
    /\ \A a \in Runs : holds(a, migration.op) => run[a].src = migration.src

(* A delivery on its way is one the registry knows to be uncertain, and     *)
(* none is on its way between a fork and its commit.                        *)
onItsWay(m) == effect[m] = "queued" \/ (effect[m] = "none" /\ calling(m))
messaged(m) ==
  /\ row[m].state = "delivered" => effect[m] = "delivered"
  /\ row[m].state = "failed" => effect[m] = "failed"
  /\ m \notin flaws.takenBack =>
       /\ onItsWay(m) => row[m].state = "uncertain"
       /\ migration.phase \in Forks /\ row[m].state = "uncertain" =>
            effect[m] \in {"delivered", "failed"}
Messaged == \A m \in Messages : messaged(m)

(* What the engine took is in the current generation and in the fork that   *)
(* will replace it.                                                         *)
excused(m) == m \in flaws.takenBack \/ flaws.crossed \/ flaws.oldFork
kept(m) ==
  effect[m] = "delivered" /\ ~excused(m) =>
    /\ m \in generation.read
    /\ migration.phase \in Forks /\ fork[migration.op].made => m \in fork[migration.op].read
Kept == \A m \in Messages : kept(m)

(* A host is a generation's or the one a run publishes; one run publishes   *)
(* a successor, has its host, and none publishes the current generation's.  *)
genOps == {gens[g].op : g \in 1 .. Len(gens)}
published(op) == \E a \in Runs : publishes(a, op)
aside(a) == run[a].pc # "publishing" /\ run'[a].pc # "publishing"
Owned ==
  /\ genOps \subseteq 0 .. used
  /\ \A op \in hosted : op \in genOps \/ published(op)
  /\ \A a \in Runs : at(a, "publishing") =>
       /\ run[a].op \in hosted
       /\ \A b \in Runs : publishes(b, run[a].op) => a = b
       /\ run[a].op = generation.op => flaws.released

Typed ==
  MigrationTyped /\ RunsTyped /\ GensTyped /\ MessagesTyped /\ ProviderTyped /\ FlawsTyped
IInv ==
  /\ Typed /\ Numbered /\ Leased /\ Receipts /\ Retried /\ Sourced
  /\ Messaged /\ Kept /\ CurrentIsHosted /\ Owned

---------------------------------------------------------------------------
(* How the records change.                                                  *)
LEMMA RunSet ==
  ASSUME run = [a \in Runs |-> run[a]], NEW a \in Runs, NEW r, run' = [run EXCEPT ![a] = r]
  PROVE  /\ run' = [b \in Runs |-> run'[b]] /\ run'[a] = r
         /\ \A b \in Runs : b # a => run'[b] = run[b]
  OBVIOUS

LEMMA IdleIs ==
  /\ Idle = [f \in RunFields |-> Idle[f]]
  /\ Idle.pc = "idle" /\ Idle.op = 0 /\ Idle.src = 1 /\ Idle.host = FALSE
  BY DEF Idle, RunFields

LEMMA Moves ==
  ASSUME RunsTyped, NEW a \in Runs, NEW pc, goto(a, pc)
  PROVE  /\ run' = [b \in Runs |-> run'[b]]
         /\ run'[a] = [f \in RunFields |-> run'[a][f]]
         /\ run'[a].pc = pc /\ run'[a].op = run[a].op /\ run'[a].src = run[a].src
         /\ run'[a].host = run[a].host
         /\ \A b \in Runs : b # a => run'[b] = run[b]
  <1>1. run' = [run EXCEPT ![a] = [@ EXCEPT !.pc = pc]]
    BY DEF goto
  <1>2. run = [b \in Runs |-> run[b]] /\ run[a] = [f \in RunFields |-> run[a][f]]
    BY DEF RunsTyped
  <1>3. run'[a] = [run[a] EXCEPT !.pc = pc] /\ \A b \in Runs : b # a => run'[b] = run[b]
    BY <1>1, <1>2
  <1>4. run' = [b \in Runs |-> run'[b]]
    BY <1>1, <1>2
  <1> QED
    BY <1>2, <1>3, <1>4 DEF RunFields

aRun(r) == r = [f \in RunFields |-> r[f]]
LEMMA Captures ==
  ASSUME NEW pc, NEW r, r = captured(pc)
  PROVE  /\ aRun(r) /\ r.pc = pc /\ r.op = migration.op
         /\ r.src = migration.src /\ r.host = FALSE
  BY DEF captured, Idle, RunFields, aRun

LEMMA Phased ==
  ASSUME MigrationTyped, NEW p, migration' = [migration EXCEPT !.phase = p]
  PROVE  /\ migration' = [f \in MigrationFields |-> migration'[f]]
         /\ migration'.phase = p /\ migration'.op = migration.op
         /\ migration'.src = migration.src /\ migration'.receipt = migration.receipt
         /\ migration'.unknown = migration.unknown /\ migration'.intent = migration.intent
  BY DEF MigrationTyped, MigrationFields

LEMMA PhasedWith ==
  ASSUME MigrationTyped, NEW p, NEW u,
         migration' = [migration EXCEPT !.phase = p, !.unknown = u]
  PROVE  /\ migration' = [f \in MigrationFields |-> migration'[f]]
         /\ migration'.phase = p /\ migration'.op = migration.op
         /\ migration'.src = migration.src /\ migration'.receipt = migration.receipt
         /\ migration'.unknown = u /\ migration'.intent = migration.intent
  BY DEF MigrationTyped, MigrationFields

LEMMA Receipted ==
  ASSUME MigrationTyped, NEW p, NEW r,
         migration' = [migration EXCEPT !.phase = p, !.receipt = r]
  PROVE  /\ migration' = [f \in MigrationFields |-> migration'[f]]
         /\ migration'.phase = p /\ migration'.op = migration.op
         /\ migration'.src = migration.src /\ migration'.receipt = r
         /\ migration'.unknown = migration.unknown
  BY DEF MigrationTyped, MigrationFields

withOp(s, op) == [s EXCEPT !.op = op]
LEMMA Succeeds ==
  ASSUME NEW i, NEW intent, NEW p, NEW op, migration' = withOp(succession(i, intent, p), op)
  PROVE  /\ migration' = [f \in MigrationFields |-> migration'[f]]
         /\ migration'.phase = p /\ migration'.op = op /\ migration'.src = Len(gens)
         /\ migration'.receipt = 0 /\ migration'.unknown = FALSE
  BY DEF succession, current, MigrationFields, withOp

LEMMA Succession ==
  ASSUME NEW i, NEW intent, NEW p, migration' = succession(i, intent, p)
  PROVE  /\ migration' = [f \in MigrationFields |-> migration'[f]]
         /\ migration'.phase = p /\ migration'.op = used + 1 /\ migration'.src = Len(gens)
         /\ migration'.receipt = 0 /\ migration'.unknown = FALSE
  BY DEF succession, current, MigrationFields

LEMMA LenGens ==
  ASSUME GensTyped
  PROVE  Len(gens) \in Nat \ {0} /\ DOMAIN gens = 1 .. Len(gens)
  <1>1. gens \in Seq({gens[g] : g \in DOMAIN gens}) /\ gens # << >>
    BY DEF GensTyped, generations
  <1> QED
    BY <1>1

LEMMA GensSame ==
  ASSUME UNCHANGED gens
  PROVE  Len(gens)' = Len(gens) /\ genOps' = genOps /\ generation' = generation
         /\ (GensTyped => GensTyped')
  BY DEF genOps, generation, current, GensTyped

(* A function on an initial segment of the numbers is a sequence.           *)
onFirst(s, n) == s = [g \in 1 .. n |-> s[g]]
LEMMA IsSequence ==
  ASSUME NEW n \in Nat, NEW s, onFirst(s, n)
  PROVE  s \in Seq({s[g] : g \in DOMAIN s}) /\ Len(s) = n /\ DOMAIN s = 1 .. n
  <1> DEFINE S == {s[g] : g \in DOMAIN s}
  <1>1. DOMAIN s = 1 .. n /\ \A g \in 1 .. n : s[g] \in S
    BY DEF onFirst
  <1> HIDE DEF S
  <1>2. s \in [1 .. n -> S]
    BY <1>1 DEF onFirst
  <1>3. s \in Seq(S) /\ Len(s) = n
    BY <1>2
  <1> QED
    BY <1>1, <1>3 DEF S

LEMMA OnFirst ==
  ASSUME NEW n \in Nat, NEW S, NEW s \in Seq(S), Len(s) = n
  PROVE  onFirst(s, n)
  BY DEF onFirst

putAt(s, n, x) == [s EXCEPT ![n] = x]
LEMMA At ==
  ASSUME NEW k, NEW s, onFirst(s, k), NEW n \in 1 .. k, NEW x, NEW t, t = putAt(s, n, x)
  PROVE  onFirst(t, k) /\ t[n] = x /\ \A g \in 1 .. k : g # n => t[g] = s[g]
  BY DEF onFirst, putAt

(* The effects of reading a message and of appending a generation.          *)
readBy(s, n, m) == [s EXCEPT ![n].read = @ \cup {m}]
LEMMA ReadAt ==
  ASSUME NEW k, NEW s, onFirst(s, k), NEW n \in 1 .. k, NEW m, aGeneration(s[n]),
         NEW t, t = readBy(s, n, m)
  PROVE  /\ onFirst(t, k) /\ aGeneration(t[n])
         /\ t[n].op = s[n].op /\ t[n].read = s[n].read \cup {m}
         /\ \A g \in 1 .. k : g # n => t[g] = s[g]
  <1> DEFINE x == [s[n] EXCEPT !.read = s[n].read \cup {m}]
  <1>1. t = putAt(s, n, x)
    BY Zenon DEF readBy, putAt
  <1>2. aGeneration(x) /\ x.op = s[n].op /\ x.read = s[n].read \cup {m}
    BY DEF aGeneration
  <1> HIDE DEF x
  <1>3. onFirst(t, k) /\ t[n] = x /\ \A g \in 1 .. k : g # n => t[g] = s[g]
    BY <1>1, At
  <1> QED
    BY <1>2, <1>3

LEMMA ReadBy ==
  ASSUME NEW s, generations(s), NEW m, NEW t, t = readBy(s, Len(s), m)
  PROVE  /\ generations(t) /\ Len(t) = Len(s)
         /\ \A g \in 1 .. Len(s) : t[g].op = s[g].op
         /\ t[Len(s)].read = s[Len(s)].read \cup {m}
  <1> DEFINE n == Len(s)
  <1>1. s \in Seq({s[g] : g \in DOMAIN s}) /\ s # << >>
    BY DEF generations
  <1>2. n \in Nat /\ n \in 1 .. n /\ DOMAIN s = 1 .. n /\ onFirst(s, n)
    BY <1>1 DEF onFirst
  <1>3. \A g \in 1 .. n : aGeneration(s[g])
    BY <1>2 DEF generations
  <1>4. t = readBy(s, n, m)
    OBVIOUS
  <1> HIDE DEF n
  <1>5. /\ onFirst(t, n) /\ aGeneration(t[n])
        /\ t[n].op = s[n].op /\ t[n].read = s[n].read \cup {m}
        /\ \A g \in 1 .. n : g # n => t[g] = s[g]
    BY <1>2, <1>3, <1>4, ReadAt
  <1>6. t \in Seq({t[g] : g \in DOMAIN t}) /\ Len(t) = n /\ DOMAIN t = 1 .. n
    BY <1>2, <1>5, IsSequence
  <1>7. t # << >>
    BY <1>2, <1>6
  <1>8. \A g \in 1 .. n : aGeneration(t[g])
    BY <1>3, <1>5
  <1>9. generations(t)
    BY <1>6, <1>7, <1>8 DEF generations
  <1>10. \A g \in 1 .. n : t[g].op = s[g].op
    BY <1>5
  <1> QED
    BY <1>5, <1>6, <1>9, <1>10 DEF n

appendTo(s, x) == Append(s, x)
LEMMA AppendTo ==
  ASSUME NEW s, generations(s), NEW x, aGeneration(x), NEW t, t = appendTo(s, x)
  PROVE  /\ generations(t) /\ Len(t) = Len(s) + 1 /\ t[Len(s) + 1] = x
         /\ \A g \in 1 .. Len(s) : t[g] = s[g]
  <1> DEFINE n == Len(s)
             S == {s[g] : g \in DOMAIN s}
  <1>1. s \in Seq(S) /\ n \in Nat /\ DOMAIN s = 1 .. n
    BY DEF generations
  <1>2. s \in Seq(S \cup {x}) /\ x \in S \cup {x}
    BY <1>1
  <1>3. \A g \in 1 .. n : aGeneration(s[g])
    BY <1>1 DEF generations
  <1> HIDE DEF S
  <1>4. /\ Len(t) = n + 1 /\ t[n + 1] = x /\ (\A g \in 1 .. n : t[g] = s[g]) /\ t # << >>
        /\ t \in Seq(S \cup {x})
    BY <1>1, <1>2 DEF appendTo
  <1>5. PICK k \in Nat : k = n + 1
    BY <1>1
  <1>6. t \in Seq({t[g] : g \in DOMAIN t}) /\ DOMAIN t = 1 .. n + 1
    <2>1. onFirst(t, k)
      BY <1>4, <1>5, OnFirst
    <2> QED
      BY <1>5, <2>1, IsSequence
  <1> HIDE DEF n
  <1>8. \A g \in 1 .. n + 1 : g \in 1 .. n \/ g = n + 1
    BY <1>1
  <1>9. \A g \in 1 .. n + 1 : aGeneration(t[g])
    BY <1>3, <1>4, <1>8
  <1> QED
    BY <1>4, <1>6, <1>9 DEF generations, n

LEMMA GensRead ==
  ASSUME GensTyped, NEW m, gens' = [gens EXCEPT ![current].read = @ \cup {m}]
  PROVE  /\ GensTyped' /\ Len(gens)' = Len(gens) /\ genOps' = genOps
         /\ generation'.op = generation.op /\ generation'.read = generation.read \cup {m}
  <1>1. gens' = readBy(gens, Len(gens), m) /\ generations(gens)
    BY DEF readBy, current, GensTyped
  <1>2. /\ generations(gens') /\ Len(gens') = Len(gens)
        /\ \A g \in 1 .. Len(gens) : gens'[g].op = gens[g].op
        /\ gens'[Len(gens)].read = gens[Len(gens)].read \cup {m}
    BY <1>1, ReadBy
  <1>3. Len(gens) \in 1 .. Len(gens)
    BY LenGens
  <1>4. genOps' = genOps
    BY <1>2 DEF genOps
  <1> QED
    BY <1>2, <1>3, <1>4 DEF GensTyped, generation, current

LEMMA GensAppend ==
  ASSUME GensTyped, NEW x, aGeneration(x), gens' = appendTo(gens, x)
  PROVE  /\ GensTyped' /\ Len(gens)' = Len(gens) + 1 /\ genOps' = genOps \cup {x.op}
         /\ generation'.op = x.op /\ generation'.read = x.read
  <1> DEFINE n == Len(gens)
  <1>1. generations(gens)
    BY DEF GensTyped
  <1>3. n \in Nat
    BY LenGens
  <1>4. /\ generations(gens') /\ Len(gens') = n + 1 /\ gens'[n + 1] = x
        /\ \A g \in 1 .. n : gens'[g] = gens[g]
    BY <1>1, AppendTo
  <1> HIDE DEF n
  <1>5. \A g \in 1 .. n + 1 : g \in 1 .. n \/ g = n + 1
    BY <1>3
  <1>6. 1 .. n \subseteq 1 .. n + 1 /\ n + 1 \in 1 .. n + 1
    BY <1>3
  <1>7. genOps' = genOps \cup {x.op}
    BY <1>4, <1>5, <1>6 DEF genOps, n
  <1> QED
    BY <1>4, <1>7 DEF GensTyped, generation, current, n

---------------------------------------------------------------------------
(* What a step leaves alone, and what that keeps.                           *)
LEMMA OperationsKept ==
  ASSUME MigrationTyped, RunsTyped, ProviderTyped, Numbered, Leased, Receipts, Retried, Sourced,
         UNCHANGED <<migration, run, journal, fork, cleanup, hosted, used>>,
         Len(gens)' = Len(gens), flaws'.oldFork = flaws.oldFork
  PROVE  /\ MigrationTyped' /\ RunsTyped' /\ ProviderTyped'
         /\ Numbered' /\ Leased' /\ Receipts' /\ Retried' /\ Sourced'
  <1>1. MigrationTyped' /\ RunsTyped' /\ ProviderTyped'
    BY DEF MigrationTyped, RunsTyped, ProviderTyped, at
  <1>2. Numbered' /\ Leased'
    BY DEF Numbered, Leased, at, forker
  <1>3. Receipts' /\ Retried' /\ Sourced'
    BY DEF Receipts, Retried, Sourced, at, verifier, holds, forking
  <1> QED
    BY <1>1, <1>2, <1>3

LEMMA OwnedKept ==
  ASSUME Owned, UNCHANGED hosted, genOps' = genOps, generation'.op = generation.op,
         flaws'.released = flaws.released, 0 .. used \subseteq 0 .. used',
         \A a \in Runs : run'[a] = run[a] \/ aside(a)
  PROVE  Owned'
  <1>1. \A a \in Runs : at(a, "publishing")' => at(a, "publishing") /\ run'[a] = run[a]
    BY DEF aside, at
  <1>2. \A a \in Runs : at(a, "publishing") => at(a, "publishing")' /\ run'[a] = run[a]
    BY DEF aside, at
  <1>3. \A op : published(op)' <=> published(op)
    BY <1>1, <1>2 DEF published, publishes
  <1>4. \A op \in hosted' : (op \in genOps \/ published(op))'
    BY <1>3 DEF Owned
  <1>5. \A a, b \in Runs :
          at(a, "publishing")' /\ publishes(b, run[a].op)' => publishes(b, run[a].op)
    BY <1>1 DEF publishes
  <1>6. \A a \in Runs : at(a, "publishing")' =>
          /\ run'[a].op \in hosted'
          /\ \A b \in Runs : publishes(b, run[a].op)' => a = b
          /\ run'[a].op = generation'.op => flaws'.released
    BY <1>1, <1>5 DEF Owned
  <1>7. (\A a \in Runs : at(a, "publishing") =>
           /\ run[a].op \in hosted
           /\ \A b \in Runs : publishes(b, run[a].op) => a = b
           /\ run[a].op = generation.op => flaws.released)'
    BY <1>1, <1>6 DEF publishes, at
  <1>8. genOps' \subseteq 0 .. used'
    BY DEF Owned
  <1> QED
    BY <1>4, <1>7, <1>8 DEF Owned

(* A run that ends leaves the hosts of the others.                          *)
others(a) == Runs \ {a}
LEMMA OwnedLeft ==
  ASSUME Owned, hosted' \subseteq hosted, genOps \subseteq genOps', genOps' \subseteq 0 .. used',
         NEW a \in Runs, run'[a].pc # "publishing", \A b \in others(a) : run'[b] = run[b],
         \A b \in others(a) : at(b, "publishing") =>
           run[b].op \in hosted' /\ (run[b].op = generation'.op => flaws'.released),
         \A op \in hosted' : publishes(a, op) =>
           op \in genOps' \/ \E b \in others(a) : publishes(b, op)
  PROVE  Owned'
  <1>1. \A b \in Runs : at(b, "publishing")' => b \in others(a) /\ at(b, "publishing")
                                                /\ run'[b] = run[b]
    BY DEF others, at
  <1>2. \A b \in others(a) : b \in Runs /\ run'[b] = run[b]
    BY DEF others
  <1>3. \A op \in hosted' : op \in genOps' \/ published(op)'
    <2> SUFFICES ASSUME NEW op \in hosted', op \notin genOps'
                 PROVE  published(op)'
      OBVIOUS
    <2>1. PICK c \in Runs : publishes(c, op)
      BY DEF Owned, published
    <2>2. PICK b \in others(a) : publishes(b, op)
      <3>1. CASE c = a
        BY <2>1, <3>1
      <3>2. CASE c # a
        BY <2>1, <3>2 DEF others
      <3> QED
        BY <3>1, <3>2
    <2> QED
      BY <1>2, <2>2 DEF published, publishes, at
  <1>4. \A b \in Runs : at(b, "publishing")' =>
          /\ run'[b].op \in hosted'
          /\ \A c \in Runs : publishes(c, run[b].op)' => b = c
          /\ run'[b].op = generation'.op => flaws'.released
    <2> SUFFICES ASSUME NEW b \in Runs, at(b, "publishing")'
                 PROVE  /\ run'[b].op \in hosted'
                        /\ \A c \in Runs : publishes(c, run[b].op)' => b = c
                        /\ run'[b].op = generation'.op => flaws'.released
      OBVIOUS
    <2>1. b \in others(a) /\ at(b, "publishing") /\ run'[b] = run[b]
      BY <1>1
    <2>2. \A c \in Runs : publishes(c, run[b].op)' => publishes(c, run[b].op)
      BY <1>1, <2>1 DEF publishes
    <2> QED
      BY <2>1, <2>2 DEF Owned
  <1>5. (\A b \in Runs : at(b, "publishing") =>
           /\ run[b].op \in hosted
           /\ \A c \in Runs : publishes(c, run[b].op) => b = c
           /\ run[b].op = generation.op => flaws.released)'
    BY <1>4
  <1> QED
    BY <1>3, <1>5 DEF Owned

LEMMA CurrentKept ==
  ASSUME CurrentIsHosted, hosted \subseteq hosted', generation'.op = generation.op,
         flaws'.released = flaws.released
  PROVE  CurrentIsHosted'
  BY DEF CurrentIsHosted

LEMMA MessagedKept ==
  ASSUME Messaged, UNCHANGED <<effect, calls>>, flaws'.takenBack = flaws.takenBack,
         migration'.phase \in Forks => migration.phase \in Forks,
         \A m \in Messages :
           \/ row'[m].state = row[m].state
           \/ row[m].state # "uncertain" /\ row'[m].state \in {"held", "assigned"}
  PROVE  Messaged'
  <1> SUFFICES ASSUME NEW m \in Messages
               PROVE  messaged(m)'
    BY DEF Messaged
  <1>1. messaged(m)
    BY DEF Messaged
  <1>2. onItsWay(m)' <=> onItsWay(m)
    BY DEF onItsWay, calling
  <1>3. \/ row'[m].state = row[m].state
        \/ row[m].state # "uncertain" /\ row'[m].state \in {"held", "assigned"}
    OBVIOUS
  <1> QED
    BY <1>1, <1>2, <1>3 DEF messaged

LEMMA MessagedButOne ==
  ASSUME Messaged, UNCHANGED migration, NEW m \in Messages, messaged(m)',
         \A n \in Messages : n # m =>
           /\ row'[n].state = row[n].state /\ effect'[n] = effect[n]
           /\ calling(n)' => calling(n)
           /\ n \in flaws.takenBack => n \in flaws'.takenBack
  PROVE  Messaged'
  <1> SUFFICES ASSUME NEW n \in Messages, n # m
               PROVE  messaged(n)'
    BY DEF Messaged
  <1>1. messaged(n)
    BY DEF Messaged
  <1>2. onItsWay(n)' => onItsWay(n)
    BY DEF onItsWay
  <1> QED
    BY <1>1, <1>2 DEF messaged

LEMMA KeptKept ==
  ASSUME Kept, UNCHANGED effect, generation'.read = generation.read,
         \A m \in Messages : excused(m) => excused(m)',
         \/ ~(migration'.phase \in Forks /\ fork'[migration'.op].made)
         \/ flaws'.oldFork
         \/ /\ migration.phase \in Forks /\ migration'.op = migration.op
            /\ fork'[migration.op] = fork[migration.op]
  PROVE  Kept'
  <1> SUFFICES ASSUME NEW m \in Messages
               PROVE  kept(m)'
    BY DEF Kept
  <1>1. kept(m)
    BY DEF Kept
  <1>2. excused(m) => excused(m)'
    OBVIOUS
  <1>3. CASE ~(migration'.phase \in Forks /\ fork'[migration'.op].made)
    BY <1>1, <1>2, <1>3 DEF kept
  <1>4. CASE flaws'.oldFork
    BY <1>4 DEF kept, excused
  <1>5. CASE /\ migration.phase \in Forks /\ migration'.op = migration.op
             /\ fork'[migration.op] = fork[migration.op]
    BY <1>1, <1>2, <1>5 DEF kept
  <1> QED
    BY <1>3, <1>4, <1>5

LEMMA TakenBack ==
  ASSUME FlawsTyped, NEW m, flaws' = [flaws EXCEPT !.takenBack = @ \cup {m}]
  PROVE  /\ FlawsTyped' /\ flaws'.takenBack = flaws.takenBack \cup {m}
         /\ flaws'.oldFork = flaws.oldFork /\ flaws'.crossed = flaws.crossed
         /\ flaws'.released = flaws.released
  BY DEF FlawsTyped, FlawFields

LEMMA FlawsSame ==
  ASSUME UNCHANGED flaws
  PROVE  (FlawsTyped => FlawsTyped') /\ \A m \in Messages : excused(m)' <=> excused(m)
  BY DEF FlawsTyped, excused

LEMMA RowMarked ==
  ASSUME MessagesTyped, NEW m \in Messages, Len(gens)' = Len(gens),
         NEW s \in {"none", "held", "assigned", "uncertain", "delivered", "failed"},
         row' = [row EXCEPT ![m].state = s]
  PROVE  /\ row' \in [Messages -> [state : {"none", "held", "assigned", "uncertain", "delivered",
                                            "failed"}, gen : 0 .. Len(gens)']]
         /\ row'[m].state = s /\ \A n \in Messages : n # m => row'[n] = row[n]
  BY DEF MessagesTyped

LEMMA RowSet ==
  ASSUME MessagesTyped, NEW m \in Messages, Len(gens)' = Len(gens),
         NEW s \in {"none", "held", "assigned", "uncertain", "delivered", "failed"},
         NEW g \in 0 .. Len(gens), row' = [row EXCEPT ![m] = [state |-> s, gen |-> g]]
  PROVE  /\ row' \in [Messages -> [state : {"none", "held", "assigned", "uncertain", "delivered",
                                            "failed"}, gen : 0 .. Len(gens)']]
         /\ row'[m].state = s /\ \A n \in Messages : n # m => row'[n] = row[n]
  BY DEF MessagesTyped

LEMMA Called ==
  ASSUME NEW m \in Messages, NEW kind \in {"send", "drain"}, calls' = calls \cup {<<m, kind>>}
  PROVE  \A n \in Messages : n # m => (calling(n)' <=> calling(n))
  BY DEF calling

LEMMA CallEnded ==
  ASSUME NEW m, NEW kind, calls' = calls \ {<<m, kind>>}
  PROVE  \A n \in Messages : calling(n)' => calling(n)
  BY DEF calling

(* What the handling of messages leaves to be shown.                        *)
LEMMA MessageKeeps ==
  ASSUME IInv, UNCHANGED <<migration, cleanup, provider, run, used>>,
         GensTyped', Len(gens)' = Len(gens), genOps' = genOps, generation'.op = generation.op,
         FlawsTyped', flaws'.oldFork = flaws.oldFork,
         flaws'.released = flaws.released,
         MessagesTyped', Messaged', Kept'
  PROVE  IInv'
  <1> USE DEF IInv, Typed, provider
  <1>1. /\ MigrationTyped' /\ RunsTyped' /\ ProviderTyped'
        /\ Numbered' /\ Leased' /\ Receipts' /\ Retried' /\ Sourced'
    BY OperationsKept
  <1>2. Owned' /\ CurrentIsHosted'
    BY OwnedKept, CurrentKept
  <1> QED
    BY <1>1, <1>2

(* What a message's handling leaves of the others' kept.                    *)
LEMMA KeptButOne ==
  ASSUME Kept, UNCHANGED <<migration, fork>>, NEW m \in Messages, kept(m)',
         generation.read \subseteq generation'.read,
         \A n \in Messages : n # m =>
           effect'[n] = effect[n] /\ (excused(n) => excused(n)')
  PROVE  Kept'
  <1> SUFFICES ASSUME NEW n \in Messages, n # m
               PROVE  kept(n)'
    BY DEF Kept
  <1>1. kept(n) /\ effect'[n] = effect[n] /\ (excused(n) => excused(n)')
    BY DEF Kept
  <1> QED
    BY <1>1 DEF kept

LEMMA EffectSet ==
  ASSUME MessagesTyped, NEW m \in Messages, NEW s \in {"none", "queued", "delivered", "failed"},
         effect' = [effect EXCEPT ![m] = s]
  PROVE  /\ effect' \in [Messages -> {"none", "queued", "delivered", "failed"}]
         /\ effect'[m] = s /\ \A n \in Messages : n # m => effect'[n] = effect[n]
  BY DEF MessagesTyped

LEMMA MessagesTypedBy ==
  ASSUME Len(gens)' = Len(gens),
         row' \in [Messages -> [state : {"none", "held", "assigned", "uncertain", "delivered",
                                         "failed"}, gen : 0 .. Len(gens)']],
         effect' \in [Messages -> {"none", "queued", "delivered", "failed"}],
         calls' \subseteq Messages \X {"send", "drain"}
  PROVE  MessagesTyped'
  BY DEF MessagesTyped

LEMMA CallTyped ==
  ASSUME MessagesTyped, NEW m \in Messages, NEW kind \in {"send", "drain"}
  PROVE  /\ calls \cup {<<m, kind>>} \subseteq Messages \X {"send", "drain"}
         /\ calls \ {<<m, kind>>} \subseteq Messages \X {"send", "drain"}
         /\ current \in Nat => current \in 0 .. Len(gens)
  BY DEF MessagesTyped, current

(* A call that attempts a message.                                          *)
LEMMA Attempts ==
  ASSUME IInv, NEW m \in Messages, NEW kind \in {"send", "drain"},
         row[m].state # "delivered",
         migration.phase \in Forks => row[m].state = "uncertain",
         row' = attempted(m) \/ (row' = row /\ row[m].state = "uncertain"),
         calls' = calls \cup {<<m, kind>>},
         UNCHANGED <<migration, cleanup, provider, run, used, gens, effect, flaws>>
  PROVE  IInv'
  <1> USE DEF IInv, Typed
  <1>1. GensTyped' /\ Len(gens)' = Len(gens) /\ genOps' = genOps /\ generation' = generation
    BY GensSame
  <1>2. FlawsTyped' /\ \A n \in Messages : excused(n)' <=> excused(n)
    BY FlawsSame
  <1>3. /\ row' \in [Messages -> [state : {"none", "held", "assigned", "uncertain", "delivered",
                                           "failed"}, gen : 0 .. Len(gens)']]
        /\ row'[m].state = "uncertain" /\ \A n \in Messages : n # m => row'[n] = row[n]
    <2>1. CASE row' = attempted(m)
      <3>1. row' = [row EXCEPT ![m] = [state |-> "uncertain", gen |-> Len(gens)]]
        BY <2>1 DEF attempted, current
      <3>2. Len(gens) \in 0 .. Len(gens)
        BY LenGens
      <3> QED
        BY <1>1, <3>1, <3>2, RowSet
    <2>2. CASE row' = row /\ row[m].state = "uncertain"
      BY <1>1, <2>2 DEF MessagesTyped
    <2> QED
      BY <2>1, <2>2
  <1>4. effect' \in [Messages -> {"none", "queued", "delivered", "failed"}]
    BY DEF MessagesTyped
  <1>5. MessagesTyped'
    BY <1>1, <1>3, <1>4, CallTyped, MessagesTypedBy
  <1>6. messaged(m)'
    <2>1. messaged(m)
      BY DEF Messaged
    <2> QED
      BY <1>3, <2>1 DEF messaged
  <1>7. Messaged'
    BY <1>3, <1>6, Called, MessagedButOne
  <1>8. Kept'
    <2>1. kept(m)'
      BY <1>1, <1>2 DEF kept, Kept, provider
    <2> QED
      BY <1>1, <1>2, <2>1, KeptButOne DEF provider
  <1> QED
    BY <1>1, <1>2, <1>5, <1>7, <1>8, MessageKeeps

LEMMA SendKeeps ==
  ASSUME IInv, NEW m \in Messages, Send(m)
  PROVE  IInv'
  <1> USE DEF IInv, Typed
  <1> USE DEF provider
  <1>1. CASE ~lands(m)
    <2>1. migration.phase \in Forks => row[m].state = "uncertain"
      BY <1>1 DEF lands, blocks, Forks, Fenced
    <2>2. row' = attempted(m) /\ calls' = calls \cup {<<m, "send">>} /\ UNCHANGED flaws
      BY <1>1 DEF Send
    <2>3. UNCHANGED <<migration, cleanup, provider, run, used, gens, effect>>
      BY DEF Send
    <2>4. row[m].state # "delivered"
      BY DEF Send
    <2> QED
      BY <2>1, <2>2, <2>3, <2>4, Attempts
  <1>2. CASE lands(m)
    <2>1. row' = [row EXCEPT ![m] = [state |-> "held", gen |-> 0]] /\ UNCHANGED calls
      BY <1>2 DEF Send
    <2>2. UNCHANGED <<migration, cleanup, provider, run, used, gens, effect>>
      BY DEF Send
    <2>3. row[m].state # "delivered"
      BY DEF Send
    <2>4. \/ /\ row[m].state = "uncertain" /\ onItsWay(m)
             /\ flaws' = [flaws EXCEPT !.takenBack = @ \cup {m}]
          \/ ~(row[m].state = "uncertain" /\ onItsWay(m)) /\ UNCHANGED flaws
      BY <1>2 DEF Send, onItsWay
    <2>5. GensTyped' /\ Len(gens)' = Len(gens) /\ genOps' = genOps /\ generation' = generation
      BY <2>2, GensSame
    <2>6. /\ FlawsTyped' /\ flaws'.oldFork = flaws.oldFork /\ flaws'.crossed = flaws.crossed
          /\ flaws'.released = flaws.released
          /\ flaws.takenBack \subseteq flaws'.takenBack
          /\ row[m].state = "uncertain" /\ onItsWay(m) => m \in flaws'.takenBack
      BY <2>4, TakenBack, FlawsSame
    <2>7. /\ row' \in [Messages -> [state : {"none", "held", "assigned", "uncertain", "delivered",
                                             "failed"}, gen : 0 .. Len(gens)']]
          /\ row'[m].state = "held" /\ \A n \in Messages : n # m => row'[n] = row[n]
      <3>1. 0 \in 0 .. Len(gens)
        BY LenGens
      <3> QED
        BY <2>1, <2>5, <3>1, RowSet
    <2>8. MessagesTyped'
      <3>1. /\ effect' \in [Messages -> {"none", "queued", "delivered", "failed"}]
            /\ calls' \subseteq Messages \X {"send", "drain"}
        BY <2>1, <2>2 DEF MessagesTyped
      <3> QED
        BY <2>5, <2>7, <3>1, MessagesTypedBy
    <2>9. messaged(m)'
      <3>1. messaged(m)
        BY DEF Messaged
      <3>2. onItsWay(m)' => onItsWay(m)
        BY <2>1, <2>2 DEF onItsWay, calling
      <3> QED
        BY <2>6, <2>7, <3>1, <3>2 DEF messaged
    <2>10. \A n \in Messages : calling(n)' => calling(n)
      BY <2>1 DEF calling
    <2>11. Messaged'
      BY <2>2, <2>6, <2>7, <2>9, <2>10, MessagedButOne
    <2>12. Kept'
      <3>1. \A n \in Messages : excused(n) => excused(n)'
        BY <2>6 DEF excused
      <3>2. kept(m)'
        BY <2>2, <2>5, <3>1 DEF kept, Kept
      <3> QED
        BY <2>2, <2>5, <3>1, <3>2, KeptButOne
    <2> QED
      BY <2>2, <2>5, <2>6, <2>8, <2>11, <2>12, MessageKeeps
  <1> QED
    BY <1>1, <1>2

LEMMA DrainKeeps ==
  ASSUME IInv, NEW m \in Messages, Drain(m)
  PROVE  IInv'
  <1>1. migration.phase \in Forks => row[m].state = "uncertain"
    BY DEF Drain, drained, blocks, Forks, Fenced
  <1>2. row[m].state # "delivered"
    BY DEF Drain, drained
  <1>3. row' = attempted(m) \/ (row' = row /\ row[m].state = "uncertain")
    BY DEF Drain
  <1>4. UNCHANGED <<migration, cleanup, provider, run, used, gens, effect, flaws>>
    BY DEF Drain
  <1>5. calls' = calls \cup {<<m, "drain">>}
    BY DEF Drain
  <1> QED
    BY <1>1, <1>2, <1>3, <1>4, <1>5, Attempts

(* What an answer, or the engine, does to one message.                      *)
States == {"none", "held", "assigned", "uncertain", "delivered", "failed"}
Effects == {"none", "queued", "delivered", "failed"}
LEMMA OneMessage ==
  ASSUME IInv, NEW m \in Messages,
         UNCHANGED <<migration, cleanup, provider, run, used, flaws>>,
         GensTyped', Len(gens)' = Len(gens), genOps' = genOps, generation'.op = generation.op,
         generation.read \subseteq generation'.read,
         row' = row \/ \E s \in States : row' = [row EXCEPT ![m].state = s],
         effect' = effect \/ \E s \in Effects : effect' = [effect EXCEPT ![m] = s],
         calls' \subseteq calls,
         messaged(m)', kept(m)'
  PROVE  IInv'
  <1> USE DEF IInv, Typed
  <1>1. FlawsTyped' /\ \A n \in Messages : excused(n)' <=> excused(n)
    BY FlawsSame
  <1>2. /\ row' \in [Messages -> [state : States, gen : 0 .. Len(gens)']]
        /\ \A n \in Messages : n # m => row'[n] = row[n]
    <2>1. CASE row' = row
      BY <2>1 DEF MessagesTyped, States
    <2>2. CASE row' # row
      <3>1. PICK s \in States : row' = [row EXCEPT ![m].state = s]
        BY <2>2
      <3> QED
        BY <3>1, RowMarked DEF States
    <2> QED
      BY <2>1, <2>2
  <1>3. /\ effect' \in [Messages -> Effects]
        /\ \A n \in Messages : n # m => effect'[n] = effect[n]
    <2>1. CASE effect' = effect
      BY <2>1 DEF MessagesTyped, Effects
    <2>2. CASE effect' # effect
      <3>1. PICK s \in Effects : effect' = [effect EXCEPT ![m] = s]
        BY <2>2
      <3> QED
        BY <3>1, EffectSet DEF Effects
    <2> QED
      BY <2>1, <2>2
  <1>4. calls' \subseteq Messages \X {"send", "drain"}
    BY DEF MessagesTyped
  <1>5. MessagesTyped'
    BY <1>2, <1>3, <1>4, MessagesTypedBy DEF States, Effects
  <1>6. \A n \in Messages : calling(n)' => calling(n)
    BY DEF calling
  <1>7. Messaged'
    BY <1>2, <1>3, <1>6, MessagedButOne
  <1>8. Kept'
    BY <1>1, <1>3, KeptButOne DEF provider
  <1> QED
    BY <1>1, <1>5, <1>7, <1>8, MessageKeeps

(* The host's answer admits what it had not, and marks the row by it.       *)
LEMMA AnswerKeeps ==
  ASSUME IInv, NEW m \in Messages, NEW kind \in {"send", "drain"}, <<m, kind>> \in calls,
         calls' = calls \ {<<m, kind>>}, effect' \in {effect, admitted(m)},
         \/ row' = row
         \/ row' = outcome(m, "uncertain")
         \/ row' = outcome(m, effect[m]) /\ effect[m] \in {"delivered", "failed"},
         UNCHANGED <<migration, cleanup, provider, run, used, flaws, gens>>
  PROVE  IInv'
  <1> USE DEF IInv, Typed
  <1>1. GensTyped' /\ Len(gens)' = Len(gens) /\ genOps' = genOps /\ generation' = generation
    BY GensSame
  <1>2. row' = row \/ \E s \in States : row' = [row EXCEPT ![m].state = s]
    BY DEF outcome, States
  <1>3. effect' = effect \/ (effect[m] = "none" /\ effect' = [effect EXCEPT ![m] = "queued"])
    BY DEF admitted
  <1>4. effect' = effect \/ \E s \in Effects : effect' = [effect EXCEPT ![m] = s]
    BY <1>3 DEF Effects
  <1>5. effect \in [Messages -> Effects] /\ row \in [Messages -> [state : States, gen : 0 .. Len(gens)]]
    BY DEF MessagesTyped, Effects, States
  <1>6. effect'[m] = effect[m] \/ (effect[m] = "none" /\ effect'[m] = "queued")
    BY <1>3, <1>5
  <1>7. \/ row'[m].state = row[m].state
        \/ row[m].state # "delivered" /\ row'[m].state = "uncertain"
        \/ /\ row[m].state # "delivered" /\ row'[m].state = effect[m]
           /\ effect[m] \in {"delivered", "failed"}
    <2>1. \A s \in States : row' = [row EXCEPT ![m].state = s] => row'[m].state = s
      BY <1>5
    <2> QED
      BY <2>1 DEF outcome, States
  <1>8. calling(m) /\ (calling(m)' => calling(m))
    BY DEF calling
  <1>9. messaged(m)'
    <2>1. messaged(m)
      BY DEF Messaged
    <2>2. onItsWay(m)' => onItsWay(m)
      BY <1>6, <1>8 DEF onItsWay
    <2>3. onItsWay(m) \/ effect[m] \in {"delivered", "failed"}
      BY <1>5, <1>8 DEF onItsWay, Effects
    <2> QED
      BY <1>6, <1>7, <2>1, <2>2, <2>3 DEF messaged, onItsWay
  <1>10. kept(m)'
    <2>1. kept(m)
      BY DEF Kept
    <2>2. excused(m)' <=> excused(m)
      BY FlawsSame
    <2> QED
      BY <1>1, <1>6, <2>1, <2>2 DEF kept, provider
  <1>11. calls' \subseteq calls
    OBVIOUS
  <1> QED
    BY <1>1, <1>2, <1>4, <1>9, <1>10, <1>11, OneMessage

LEMMA AnswersKeep ==
  ASSUME IInv, NEW m \in Messages, Answer(m) \/ CallLost(m)
  PROVE  IInv'
  <1>1. ASSUME SendAnswered(m)
        PROVE  IInv'
    <2>1. \/ row' = row
          \/ row' = outcome(m, effect[m]) /\ effect[m] \in {"delivered", "failed"}
      BY <1>1 DEF SendAnswered, settles
    <2>2. <<m, "send">> \in calls /\ calls' = calls \ {<<m, "send">>} /\ effect' = admitted(m)
      BY <1>1 DEF SendAnswered
    <2>3. UNCHANGED <<migration, cleanup, provider, run, used, flaws, gens>>
      BY <1>1 DEF SendAnswered, unmigrated
    <2> QED
      BY <2>1, <2>2, <2>3, AnswerKeeps
  <1>2. ASSUME DrainAnswered(m)
        PROVE  IInv'
    <2>1. \/ row' = outcome(m, "uncertain")
          \/ row' = outcome(m, effect[m]) /\ effect[m] \in {"delivered", "failed"}
      BY <1>2 DEF DrainAnswered, settles
    <2>2. <<m, "drain">> \in calls /\ calls' = calls \ {<<m, "drain">>} /\ effect' = admitted(m)
      BY <1>2 DEF DrainAnswered
    <2>3. UNCHANGED <<migration, cleanup, provider, run, used, flaws, gens>>
      BY <1>2 DEF DrainAnswered, unmigrated
    <2> QED
      BY <2>1, <2>2, <2>3, AnswerKeeps
  <1>3. ASSUME CallLost(m)
        PROVE  IInv'
    <2>1. PICK kind \in {"send", "drain"} :
            /\ <<m, kind>> \in calls /\ calls' = calls \ {<<m, kind>>}
            /\ effect' \in {effect, admitted(m)}
            /\ row' = IF kind = "send" THEN row ELSE outcome(m, "uncertain")
      BY <1>3 DEF CallLost
    <2>2. UNCHANGED <<migration, cleanup, provider, run, used, flaws, gens>>
      BY <1>3 DEF CallLost, unmigrated
    <2>3. row' = row \/ row' = outcome(m, "uncertain")
      BY <2>1
    <2> QED
      BY <2>1, <2>2, <2>3, AnswerKeeps
  <1> QED
    BY <1>1, <1>2, <1>3 DEF Answer

LEMMA EffectKeeps ==
  ASSUME IInv, NEW m \in Messages, EffectDelivered(m) \/ EffectFails(m)
  PROVE  IInv'
  <1> USE DEF IInv, Typed
  <1> DEFINE s == effect'[m]
  <1>1. effect \in [Messages -> Effects] /\ row \in [Messages -> [state : States, gen : 0 .. Len(gens)]]
    BY DEF MessagesTyped, Effects, States
  <1>2. /\ effect[m] = "queued" /\ s \in {"delivered", "failed"}
        /\ effect' = [effect EXCEPT ![m] = s]
    <2>1. CASE EffectDelivered(m)
      BY <1>1, <2>1 DEF EffectDelivered
    <2>2. CASE EffectFails(m)
      BY <1>1, <2>2 DEF EffectFails
    <2> QED
      BY <2>1, <2>2
  <1>3. \/ row' = row
        \/ row[m].state = "uncertain" /\ row' = [row EXCEPT ![m].state = s]
        \/ row[m].state = "failed"
    <2>1. CASE EffectDelivered(m)
      <3>1. s = "delivered"
        BY <1>1, <2>1 DEF EffectDelivered
      <3>2. row' = recorded(m, "delivered") \/ row' = row
        BY <2>1 DEF EffectDelivered
      <3> QED
        BY <3>1, <3>2 DEF recorded
    <2>2. CASE EffectFails(m)
      <3>1. s = "failed"
        BY <1>1, <2>2 DEF EffectFails
      <3>2. row' = recorded(m, "failed")
        BY <2>2 DEF EffectFails
      <3> QED
        BY <3>1, <3>2 DEF recorded
    <2> QED
      BY <2>1, <2>2
  <1>4. UNCHANGED <<migration, cleanup, provider, run, used, flaws, calls>>
    BY DEF EffectDelivered, EffectFails, unmigrated
  <1>5. /\ GensTyped' /\ Len(gens)' = Len(gens) /\ genOps' = genOps
        /\ generation'.op = generation.op /\ generation.read \subseteq generation'.read
        /\ s = "delivered" => m \in generation'.read
    <2>1. CASE EffectDelivered(m)
      <3>1. gens' = [gens EXCEPT ![current].read = @ \cup {m}]
        BY <2>1 DEF EffectDelivered
      <3>2. GensTyped' /\ Len(gens)' = Len(gens) /\ genOps' = genOps
            /\ generation'.op = generation.op /\ generation'.read = generation.read \cup {m}
        BY <3>1, GensRead
      <3> QED
        BY <3>2
    <2>2. CASE EffectFails(m)
      <3>1. UNCHANGED gens /\ s = "failed"
        BY <1>1, <2>2 DEF EffectFails, unmigrated
      <3> QED
        BY <3>1, GensSame
    <2> QED
      BY <2>1, <2>2
  <1> HIDE DEF s
  <1>6. messaged(m)
    BY DEF Messaged
  <1>7. row[m].state # "failed"
    BY <1>2, <1>6 DEF messaged
  <1>8. row' = row \/ \E t \in States : row' = [row EXCEPT ![m].state = t]
    BY <1>2, <1>3, <1>7 DEF States
  <1>9. effect' = effect \/ \E t \in Effects : effect' = [effect EXCEPT ![m] = t]
    BY <1>2 DEF Effects
  <1>10. row'[m].state = row[m].state \/ row'[m].state = s
    BY <1>1, <1>2, <1>3, <1>7 DEF States
  <1>11. effect'[m] = s
    BY DEF s
  <1>12. messaged(m)'
    BY <1>2, <1>4, <1>6, <1>7, <1>10, <1>11 DEF messaged, onItsWay
  <1>13. kept(m)'
    <2>1. excused(m)' <=> excused(m)
      BY <1>4, FlawsSame
    <2>2. excused(m) \/ migration.phase \notin Forks
      BY <1>2, <1>6 DEF messaged, onItsWay, excused
    <2> QED
      BY <1>4, <1>5, <1>11, <2>1, <2>2 DEF kept
  <1>14. calls' \subseteq calls
    BY <1>4
  <1> QED
    BY <1>4, <1>5, <1>8, <1>9, <1>12, <1>13, <1>14, OneMessage

LEMMA MessagesKept ==
  ASSUME MessagesTyped, UNCHANGED <<row, effect, calls>>, Len(gens)' = Len(gens)
  PROVE  MessagesTyped'
  BY DEF MessagesTyped

LEMMA RestKeeps ==
  ASSUME IInv, UNCHANGED <<migration, gens, row, cleanup, provider, run, calls, effect, used,
                           flaws>>
  PROVE  IInv'
  <1> USE DEF IInv, Typed, provider
  <1>1. GensTyped' /\ Len(gens)' = Len(gens) /\ genOps' = genOps /\ generation' = generation
    BY GensSame
  <1>2. FlawsTyped' /\ \A m \in Messages : excused(m)' <=> excused(m)
    BY FlawsSame
  <1>3. MessagesTyped'
    BY <1>1, MessagesKept
  <1>4. Messaged'
    BY MessagedKept
  <1>5. Kept'
    BY <1>1, <1>2, KeptKept
  <1> QED
    BY <1>1, <1>2, <1>3, <1>4, <1>5, MessageKeeps

LEMMA Assigned ==
  ASSUME MessagesTyped, NEW g \in 0 .. Len(gens), row' = assignTo(g), Len(gens)' = Len(gens),
         UNCHANGED <<effect, calls>>
  PROVE  /\ MessagesTyped'
         /\ \A m \in Messages :
              \/ row'[m].state = row[m].state
              \/ row[m].state # "uncertain" /\ row'[m].state \in {"held", "assigned"}
  <1>1. row' = [m \in Messages |-> IF row[m].state \in {"held", "assigned", "failed"}
                                   THEN [state |-> "assigned", gen |-> g] ELSE row[m]]
    BY DEF assignTo
  <1>2. \A m \in Messages :
          row'[m] = IF row[m].state \in {"held", "assigned", "failed"}
                    THEN [state |-> "assigned", gen |-> g] ELSE row[m]
    BY <1>1
  <1>3. row' \in [Messages -> [state : States, gen : 0 .. Len(gens)]]
    BY <1>1 DEF MessagesTyped, States
  <1> QED
    BY <1>2, <1>3 DEF MessagesTyped, States

LEMMA AbandonedIs ==
  ASSUME IInv, cleanup' \in {cleanup, abandoned}
  PROVE  cleanup \subseteq cleanup' /\ cleanup' \subseteq 1 .. used
  <1>1. migration.receipt # 0 => migration.receipt \in 1 .. used
    BY DEF IInv, Numbered, Receipts
  <1> QED
    BY <1>1 DEF abandoned, IInv, Numbered

(* What a request leaves to be shown.                                       *)
LEMMA RequestKeeps ==
  ASSUME IInv, UNCHANGED <<gens, provider, run, calls, effect>>,
         row' = row \/ \E g \in 0 .. Len(gens) : row' = assignTo(g),
         cleanup' \in {cleanup, abandoned}, used' \in used .. MaxOps,
         FlawsTyped', flaws'.crossed = flaws.crossed, flaws.oldFork => flaws'.oldFork,
         flaws'.released = flaws.released,
         flaws'.takenBack = flaws.takenBack,
         MigrationTyped', migration'.phase \notin Forks,
         migration'.op \in 0 .. used', migration'.phase # "none" => migration'.op # 0,
         migration'.phase = "none" => migration'.intent = 0,
         Receipts', Retried', Sourced'
  PROVE  IInv'
  <1> USE DEF IInv, Typed, provider
  <1>1. GensTyped' /\ Len(gens)' = Len(gens) /\ genOps' = genOps /\ generation' = generation
    BY GensSame
  <1>2. /\ MessagesTyped'
        /\ \A m \in Messages :
             \/ row'[m].state = row[m].state
             \/ row[m].state # "uncertain" /\ row'[m].state \in {"held", "assigned"}
    <2>1. CASE row' = row
      BY <1>1, <2>1, MessagesKept
    <2>2. CASE row' # row
      <3>1. PICK g \in 0 .. Len(gens) : row' = assignTo(g)
        BY <2>2
      <3> QED
        BY <1>1, <3>1, Assigned
    <2> QED
      BY <2>1, <2>2
  <1>3. Messaged'
    BY <1>2, MessagedKept
  <1>4. \A m \in Messages : excused(m) => excused(m)'
    BY DEF excused
  <1>5. Kept'
    BY <1>1, <1>4, KeptKept
  <1>6. cleanup \subseteq cleanup' /\ cleanup' \subseteq 1 .. used
    BY AbandonedIs
  <1>7. RunsTyped' /\ ProviderTyped' /\ Leased'
    BY <1>1 DEF RunsTyped, ProviderTyped, Leased, at, forker
  <1>8. Numbered'
    <2>1. used' \in 0 .. MaxOps /\ used \in Nat /\ used' \in Nat /\ used <= used'
      BY MigrationAssumption DEF Numbered
    <2>2. \A n \in 0 .. used : n \in 0 .. used'
      BY <2>1
    <2>3. \A n \in 1 .. used : n \in 1 .. used'
      BY <2>1
    <2>4. \A op \in Ops : op > used' => op > used
      BY <2>1 DEF Ops
    <2>5. \A a \in Runs : run'[a].op \in 0 .. used' /\ (run'[a].pc # "idle" => run'[a].op # 0)
      BY <2>2 DEF Numbered
    <2>6. cleanup' \subseteq 1 .. used' /\ hosted' \subseteq 1 .. used'
      BY <1>6, <2>3 DEF Numbered
    <2>7. \A op \in Ops : op > used' => journal'[op] = "none" /\ ~fork'[op].made
      BY <2>4 DEF Numbered
    <2> QED
      BY <2>1, <2>5, <2>6, <2>7 DEF Numbered
  <1>9. CurrentIsHosted'
    BY <1>1, CurrentKept
  <1>10. Owned'
    <2>1. 0 .. used \subseteq 0 .. used'
      BY MigrationAssumption DEF Numbered
    <2> QED
      BY <1>1, <2>1, OwnedKept
  <1> QED
    BY <1>1, <1>2, <1>3, <1>5, <1>7, <1>8, <1>9, <1>10

(* A new succession has an operation of its own.                            *)
LEMMA NewSuccession ==
  ASSUME IInv, UNCHANGED <<gens, provider, run>>, used < MaxOps,
         migration'.phase \in {"waiting-turn", "requested"}, migration'.op = used + 1,
         migration'.src = Len(gens), migration'.receipt = 0, migration'.unknown = FALSE
  PROVE  /\ migration'.op \in Ops /\ migration'.op \in 0 .. used + 1 /\ migration'.op # 0
         /\ Receipts' /\ Retried' /\ Sourced'
  <1> USE DEF IInv, Typed, provider
  <1>1. PICK op \in Ops : op = used + 1 /\ op > used
    BY MigrationAssumption DEF Numbered, Ops
  <1>2. \A a \in Runs : run[a].op # op
    BY <1>1, MigrationAssumption DEF Numbered
  <1>3. journal[op] = "none" /\ ~fork[op].made
    BY <1>1 DEF Numbered
  <1>4. migration'.op = op
    BY <1>1
  <1>5. Receipts'
    BY <1>2, <1>4 DEF Receipts, verifier
  <1>6. Retried'
    BY <1>2, <1>3, <1>4 DEF Retried, forking, holds, at
  <1>7. Sourced'
    <2>1. Len(gens)' = Len(gens)
      BY GensSame
    <2>2. \A a \in Runs : ~holds(a, migration.op)'
      BY <1>2, <1>4 DEF holds
    <2> QED
      BY <2>1, <2>2 DEF Sourced
  <1> QED
    BY <1>1, <1>4, <1>5, <1>6, <1>7, MigrationAssumption DEF Numbered, Ops

LEMMA InPlaceKeeps ==
  ASSUME IInv, CommitIntentInPlace
  PROVE  IInv'
  <1> USE DEF IInv, Typed
  <1>1. UNCHANGED <<gens, provider, run, calls, effect, used, flaws>>
    BY DEF CommitIntentInPlace
  <1>2. CASE UNCHANGED <<migration, row, cleanup>>
    BY <1>1, <1>2, RestKeeps
  <1>3. CASE migration' = NoMigration /\ row' = assignTo(current) /\ cleanup' = abandoned
    <2>1. /\ migration' = [f \in MigrationFields |-> migration'[f]]
          /\ migration'.phase = "none" /\ migration'.op = 0 /\ migration'.src = 1
          /\ migration'.receipt = 0 /\ migration'.unknown = FALSE /\ migration'.intent = 0
      BY <1>3 DEF NoMigration, MigrationFields
    <2>2. Len(gens)' = Len(gens) /\ 1 \in 1 .. Len(gens) /\ current \in 0 .. Len(gens)
      BY <1>1, GensSame, LenGens DEF current
    <2>3. MigrationTyped'
      BY <2>1, <2>2 DEF MigrationTyped
    <2>4. Receipts' /\ Retried' /\ Sourced'
      <3>1. Receipts'
        BY <1>1, <2>1 DEF Receipts, Numbered, verifier
      <3>2. Retried' /\ Sourced'
        BY <2>1 DEF Retried, Sourced, InFlight, Fenced
      <3> QED
        BY <3>1, <3>2
    <2>5. FlawsTyped'
      BY <1>1, FlawsSame
    <2>6. used' \in used .. MaxOps /\ 0 \in 0 .. used'
      BY <1>1, MigrationAssumption DEF Numbered
    <2>7. \E g \in 0 .. Len(gens) : row' = assignTo(g)
      BY <1>3, <2>2
    <2>8. migration'.phase \notin Forks
      BY <2>1 DEF Forks
    <2> QED
      BY <1>1, <1>3, <2>1, <2>3, <2>4, <2>5, <2>6, <2>7, <2>8, RequestKeeps
  <1> QED
    BY <1>2, <1>3 DEF CommitIntentInPlace

LEMMA CommitIntentKeeps ==
  ASSUME IInv, CommitIntent
  PROVE  IInv'
  <1> USE DEF IInv, Typed
  <1>1. /\ UNCHANGED <<gens, provider, run, calls, effect, row, flaws>>
        /\ used < MaxOps /\ used' = used + 1 /\ cleanup' = abandoned
    BY DEF CommitIntent
  <1>2. PICK t \in Accounts \ {generation.acct}, phase \in readiness :
          migration' = succession(slot, retargeted(t, "draining"), phase)
    BY DEF CommitIntent
  <1>3. phase \in {"waiting-turn", "requested"}
    BY DEF readiness
  <1>4. /\ migration' = [f \in MigrationFields |-> migration'[f]]
        /\ migration'.phase = phase /\ migration'.op = used + 1 /\ migration'.src = Len(gens)
        /\ migration'.receipt = 0 /\ migration'.unknown = FALSE
    BY <1>2, Succession
  <1>5. /\ migration'.op \in Ops /\ migration'.op \in 0 .. used + 1 /\ migration'.op # 0
        /\ Receipts' /\ Retried' /\ Sourced'
    BY <1>1, <1>3, <1>4, NewSuccession
  <1>6. MigrationTyped'
    <2>1. Len(gens)' = Len(gens) /\ Len(gens) \in 1 .. Len(gens)
      BY <1>1, GensSame, LenGens
    <2> QED
      BY <1>3, <1>4, <2>1 DEF MigrationTyped, InFlight, Fenced
  <1>7. FlawsTyped'
    BY <1>1, FlawsSame
  <1>8. used' \in used .. MaxOps
    BY <1>1, MigrationAssumption DEF Numbered
  <1>9. migration'.phase \notin Forks /\ migration'.phase # "none"
    BY <1>3, <1>4 DEF Forks
  <1> HIDE DEF IInv
  <1> QED
    BY <1>1, <1>5, <1>6, <1>7, <1>8, <1>9, RequestKeeps

(* A migration taken back.                                                  *)
LEMMA RolledBackKeeps ==
  ASSUME IInv, UNCHANGED <<gens, provider, run, calls, effect, used, flaws>>,
         migration.phase \notin {"none", "committed"},
         migration' = [migration EXCEPT !.phase = "rolled-back"],
         row' = assignTo(migration.src), cleanup' = abandoned
  PROVE  IInv'
  <1> USE DEF IInv, Typed
  <1>1. /\ migration' = [f \in MigrationFields |-> migration'[f]]
        /\ migration'.phase = "rolled-back" /\ migration'.op = migration.op
        /\ migration'.src = migration.src /\ migration'.receipt = migration.receipt
        /\ migration'.unknown = migration.unknown
    BY Phased
  <1>2. Len(gens)' = Len(gens)
    BY GensSame
  <1>3. MigrationTyped'
    BY <1>1, <1>2 DEF MigrationTyped, Ended
  <1>4. Receipts'
    BY <1>1 DEF Receipts, verifier, provider, Ended
  <1>5. Retried'
    BY <1>1 DEF Retried
  <1>6. Sourced'
    <2>1. migration.phase \in InFlight \cup {"failed-recoverable", "rolled-back"}
      BY DEF MigrationTyped, Ended
    <2> QED
      BY <1>1, <1>2, <2>1 DEF Sourced, holds
  <1>7. FlawsTyped'
    BY FlawsSame
  <1>8. used' \in used .. MaxOps /\ migration'.op \in 0 .. used'
    BY <1>1, MigrationAssumption DEF Numbered
  <1>9. migration'.phase \notin Forks /\ migration'.phase # "none" /\ migration'.op # 0
    BY <1>1 DEF Forks, Numbered
  <1>10. migration.src \in 0 .. Len(gens)
    BY LenGens DEF MigrationTyped
  <1> HIDE DEF IInv
  <1> QED
    BY <1>3, <1>4, <1>5, <1>6, <1>7, <1>8, <1>9, <1>10, RequestKeeps

LEMMA TakesBackKeeps ==
  ASSUME IInv, Rollback \/ \E i \in 1 .. Len(intents) : StopIntent(i)
  PROVE  IInv'
  <1>1. CASE Rollback
    BY <1>1, RolledBackKeeps DEF Rollback
  <1>2. ASSUME NEW i \in 1 .. Len(intents), StopIntent(i)
        PROVE  IInv'
    <2>1. UNCHANGED <<gens, provider, run, calls, effect, used, flaws>>
      BY <1>2 DEF StopIntent
    <2>2. CASE migration.intent = i /\ migration.phase # "committed"
      <3>1. migration.phase # "none"
        BY <2>2 DEF IInv, Numbered
      <3>2. /\ migration' = [migration EXCEPT !.phase = "rolled-back"]
            /\ row' = assignTo(migration.src) /\ cleanup' = abandoned
        BY <1>2, <2>2 DEF StopIntent
      <3> QED
        BY <2>1, <2>2, <3>1, <3>2, RolledBackKeeps
    <2>3. CASE ~(migration.intent = i /\ migration.phase # "committed")
      <3>1. UNCHANGED <<migration, row, cleanup>>
        BY <1>2, <2>3 DEF StopIntent
      <3> QED
        BY <2>1, <3>1, RestKeeps
    <2> QED
      BY <2>2, <2>3
  <1> QED
    BY <1>1, <1>2

LEMMA RetryKeeps ==
  ASSUME IInv, Retry
  PROVE  IInv'
  <1> USE DEF IInv, Typed
  <1> DEFINE op == IF migration.unknown THEN migration.op ELSE used + 1
  <1>1. /\ migration.phase = "failed-recoverable" /\ op <= MaxOps
        /\ used' = IF migration.unknown THEN used ELSE op
        /\ flaws' = [flaws EXCEPT !.oldFork = @ \/ (migration.unknown /\ fork[op].made)]
        /\ UNCHANGED <<gens, row, cleanup, provider, run, calls, effect>>
    BY DEF Retry
  <1>2. PICK phase \in {"waiting-turn", "requested"} :
          migration' = withOp(succession(migration.intent, intents[migration.intent], phase), op)
    BY DEF Retry, withOp
  <1>3. /\ migration' = [f \in MigrationFields |-> migration'[f]]
        /\ migration'.phase = phase /\ migration'.op = op /\ migration'.src = Len(gens)
        /\ migration'.receipt = 0 /\ migration'.unknown = FALSE
    <2> DEFINE i == migration.intent
               intent == intents[i]
    <2>1. migration' = withOp(succession(i, intent, phase), op)
      BY <1>2
    <2> HIDE DEF op, i, intent
    <2> QED
      BY <2>1, Succeeds
  <1>4. Len(gens)' = Len(gens) /\ Len(gens) \in 1 .. Len(gens)
    BY <1>1, GensSame, LenGens
  <1>5. MigrationTyped'
    BY <1>3, <1>4 DEF MigrationTyped, InFlight, Fenced
  <1>6. /\ FlawsTyped' /\ flaws'.crossed = flaws.crossed
        /\ flaws.oldFork => flaws'.oldFork
        /\ flaws'.released = flaws.released
        /\ flaws'.takenBack = flaws.takenBack
        /\ (flaws'.oldFork <=> flaws.oldFork \/ (migration.unknown /\ fork[op].made))
    BY <1>1 DEF FlawsTyped, FlawFields
  <1>7. migration.op \in 1 .. used /\ used \in 0 .. MaxOps
    BY <1>1 DEF Numbered
  <1>8. CASE migration.unknown
    <2>1. /\ journal[op] # "none" /\ ~forking(op) /\ migration.receipt = 0 /\ op = migration.op
      BY <1>1, <1>8 DEF Retried
    <2>2. Receipts'
      <3>1. \A a \in Runs : ~(verifier(a) /\ run[a].op = op)
        BY <1>7, <2>1 DEF Receipts
      <3> QED
        BY <1>1, <1>3, <3>1 DEF Receipts, verifier
    <2>3. Retried'
      <3>1. fork[op].made => flaws'.oldFork
        BY <1>6, <1>8
      <3>2. journal' = journal /\ fork' = fork /\ run' = run
        BY <1>1 DEF provider
      <3> HIDE DEF op
      <3> QED
        BY <1>3, <2>1, <3>1, <3>2 DEF Retried, forking, at
    <2>4. Sourced'
      <3>1. migration.src = Len(gens)
            /\ \A a \in Runs : holds(a, migration.op) => run[a].src = migration.src
        BY <1>1 DEF Sourced
      <3> QED
        BY <1>1, <1>3, <1>4, <2>1, <3>1 DEF Sourced, holds
    <2>5. used' \in used .. MaxOps /\ op \in 0 .. used' /\ op # 0
      BY <1>1, <1>7, <1>8, <2>1, MigrationAssumption
    <2>6. migration'.phase \notin Forks /\ migration'.phase # "none"
      BY <1>3 DEF Forks
    <2> HIDE DEF IInv, op
    <2> QED
      BY <1>1, <1>3, <1>5, <1>6, <2>2, <2>3, <2>4, <2>5, <2>6, RequestKeeps
  <1>9. CASE ~migration.unknown
    <2>1. op = used + 1 /\ used < MaxOps /\ used' = used + 1
      BY <1>1, <1>7, <1>9, MigrationAssumption
    <2>2. UNCHANGED <<gens, provider, run>>
      BY <1>1
    <2>3. migration'.op = used + 1
      BY <1>3, <2>1
    <2>4. /\ migration'.op \in Ops /\ migration'.op \in 0 .. used + 1 /\ migration'.op # 0
          /\ Receipts' /\ Retried' /\ Sourced'
      BY <1>3, <2>1, <2>2, <2>3, NewSuccession
    <2>5. used' \in used .. MaxOps
      BY <1>7, <2>1, MigrationAssumption
    <2>6. migration'.phase \notin Forks /\ migration'.phase # "none"
      BY <1>3 DEF Forks
    <2> HIDE DEF IInv, op
    <2> QED
      BY <1>1, <1>5, <1>6, <2>1, <2>4, <2>5, <2>6, RequestKeeps
  <1> QED
    BY <1>8, <1>9

LEMMA FenceKeeps ==
  ASSUME IInv, FenceOnly
  PROVE  IInv'
  <1> USE DEF IInv, Typed
  <1>1. /\ migration.phase = "waiting-turn"
        /\ migration' = [migration EXCEPT !.phase = "requested"]
        /\ UNCHANGED <<gens, row, cleanup, provider, run, calls, effect, used, flaws>>
    BY DEF FenceOnly
  <1>2. /\ migration' = [f \in MigrationFields |-> migration'[f]]
        /\ migration'.phase = "requested" /\ migration'.op = migration.op
        /\ migration'.src = migration.src /\ migration'.receipt = migration.receipt
        /\ migration'.unknown = migration.unknown
    BY <1>1, Phased
  <1>3. Len(gens)' = Len(gens)
    BY <1>1, GensSame
  <1>4. MigrationTyped'
    BY <1>2, <1>3 DEF MigrationTyped, InFlight, Fenced
  <1>5. Receipts'
    BY <1>1, <1>2 DEF Receipts, verifier, provider, Ended
  <1>6. Retried'
    BY <1>1, <1>2 DEF Retried, at, provider, forking, holds
  <1>7. Sourced'
    BY <1>1, <1>2, <1>3 DEF Sourced, holds, InFlight
  <1>8. FlawsTyped'
    BY <1>1, FlawsSame
  <1>9. used' \in used .. MaxOps /\ migration'.op \in 0 .. used' /\ migration'.op # 0
    BY <1>1, <1>2, MigrationAssumption DEF Numbered
  <1>10. migration'.phase \notin Forks /\ migration'.phase # "none"
    BY <1>2 DEF Forks
  <1> HIDE DEF IInv
  <1> QED
    BY <1>1, <1>4, <1>5, <1>6, <1>7, <1>8, <1>9, <1>10, RequestKeeps

LEMMA RequestsKeep ==
  ASSUME IInv, Request \/ FenceOnly \/ TurnEnds
  PROVE  IInv'
  <1>1. ASSUME NEW i \in 1 .. Len(intents), IntentCompletes(i)
        PROVE  IInv'
    BY <1>1, RestKeeps DEF IntentCompletes
  <1>2. CASE TurnEnds
    <2>1. UNCHANGED <<migration, gens, row, cleanup, provider, run, calls, effect, used, flaws>>
      BY <1>2 DEF TurnEnds, registry
    <2> QED
      BY <2>1, RestKeeps
  <1>3. (\E i \in 1 .. Len(intents) : StopIntent(i)) \/ Rollback => IInv'
    BY TakesBackKeeps
  <1>4. CASE Request
    BY <1>1, <1>3, <1>4, InPlaceKeeps, CommitIntentKeeps, RetryKeeps DEF Request
  <1> QED
    BY <1>2, <1>4, FenceKeeps

---------------------------------------------------------------------------
(* What an advance does to its own run, and what that leaves to be shown.   *)
stepped(a) ==
  /\ run' = [b \in Runs |-> run'[b]] /\ run'[a] = [f \in RunFields |-> run'[a][f]]
  /\ \A b \in Runs : b # a => run'[b] = run[b]
going(a) ==
  /\ stepped(a) /\ run'[a].pc \in Working \cup {"idle"} /\ run'[a].host = FALSE
  /\ run'[a].op \in 0 .. used /\ (run'[a].pc # "idle" => run'[a].op # 0)
  /\ run'[a].src \in 1 .. Len(gens)
worked(a) == going(a) /\ aside(a)

LEMMA WorkedTyped ==
  ASSUME RunsTyped, Len(gens) \in Nat, Len(gens)' \in Nat, Len(gens) <= Len(gens)',
         NEW a \in Runs, going(a)
  PROVE  RunsTyped'
  <1>1. \A b \in Runs : b = a \/ run'[b] = run[b]
    BY DEF going, stepped
  <1>2. 1 .. Len(gens) \subseteq 1 .. Len(gens)'
    OBVIOUS
  <1>3. ASSUME NEW b \in Runs
        PROVE  /\ run'[b] = [f \in RunFields |-> run'[b][f]]
               /\ run'[b].pc \in Working \cup {"idle", "cleaning"}
               /\ run'[b].src \in 1 .. Len(gens)
               /\ run'[b].host \in BOOLEAN /\ (run'[b].host => run'[b].pc = "cleaning")
    <2>1. CASE b = a
      <3>1. run'[a] = [f \in RunFields |-> run'[a][f]] /\ run'[a].pc \in Working \cup {"idle"}
            /\ run'[a].src \in 1 .. Len(gens) /\ run'[a].host = FALSE
        BY DEF going, stepped
      <3> QED
        BY <2>1, <3>1
    <2>2. CASE run'[b] = run[b]
      BY <2>2 DEF RunsTyped, at
    <2> QED
      BY <1>1, <2>1, <2>2
  <1>4. run' = [b \in Runs |-> run'[b]]
    BY DEF going, stepped
  <1> QED
    BY <1>2, <1>3, <1>4 DEF RunsTyped, at

LEMMA WorkedRuns ==
  ASSUME RunsTyped, GensTyped, Len(gens)' = Len(gens), NEW a \in Runs, going(a)
  PROVE  RunsTyped'
  <1>1. Len(gens) \in Nat
    BY LenGens
  <1>2. Len(gens)' \in Nat /\ Len(gens) <= Len(gens)'
    BY <1>1
  <1> QED
    BY <1>1, <1>2, WorkedTyped

LEMMA WorkKeeps ==
  ASSUME IInv, UNCHANGED <<gens, row, cleanup, hosted, calls, effect, used, flaws>>,
         NEW a \in Runs, worked(a), run[a].pc # "cleaning",
         MigrationTyped', migration'.op = migration.op,
         migration'.intent = migration.intent,
         migration'.phase = "none" <=> migration.phase = "none",
         ProviderTyped', \A op \in Ops : op > used => journal'[op] = "none" /\ ~fork'[op].made,
         Leased', Receipts', Retried', Sourced', Messaged', Kept'
  PROVE  IInv'
  <1> USE DEF IInv, Typed
  <1>1. GensTyped' /\ Len(gens)' = Len(gens) /\ genOps' = genOps /\ generation' = generation
    BY GensSame
  <1>2. FlawsTyped' /\ MessagesTyped'
    BY <1>1, FlawsSame, MessagesKept
  <1>3. RunsTyped'
    BY <1>1, WorkedRuns DEF worked
  <1>4. Numbered'
    <2>1. \A b \in Runs : run'[b].op \in 0 .. used /\ (run'[b].pc # "idle" => run'[b].op # 0)
      BY DEF Numbered, worked, going, stepped
    <2> QED
      BY <2>1 DEF Numbered
  <1>5. Owned'
    <2>1. \A b \in Runs : run'[b] = run[b] \/ aside(b)
      BY DEF worked, going, stepped
    <2> QED
      BY <1>1, <2>1, OwnedKept
  <1>6. CurrentIsHosted'
    BY <1>1, CurrentKept
  <1> QED
    BY <1>1, <1>2, <1>3, <1>4, <1>5, <1>6

LEMMA BeginSuccessionKeeps ==
  ASSUME IInv, NEW a \in Runs, BeginSuccession(a)
  PROVE  IInv'
  <1> USE DEF IInv, Typed
  <1>1. /\ at(a, "idle") /\ migration.phase \in InFlight /\ migration.receipt = 0 /\ uncertain = {}
        /\ migration' = [migration EXCEPT !.phase = "successor-starting"]
        /\ run' = [run EXCEPT ![a] = captured("lease")]
        /\ UNCHANGED <<intents, gens, row, cleanup, provider, calls, effect, used, flaws>>
    BY DEF BeginSuccession, free, successorCreationReady
  <1>2. /\ migration' = [f \in MigrationFields |-> migration'[f]]
        /\ migration'.phase = "successor-starting" /\ migration'.op = migration.op
        /\ migration'.src = migration.src /\ migration'.receipt = migration.receipt
        /\ migration'.unknown = migration.unknown
    BY <1>1, Phased
  <1>3. migration'.intent = migration.intent
    BY <1>1 DEF MigrationTyped, MigrationFields
  <1>4. /\ run' = [b \in Runs |-> run'[b]] /\ run'[a] = captured("lease")
        /\ \A b \in Runs : b # a => run'[b] = run[b]
    <2>1. run = [b \in Runs |-> run[b]]
      BY DEF RunsTyped
    <2> QED
      BY <1>1, <2>1, RunSet
  <1>5. /\ run'[a] = [f \in RunFields |-> run'[a][f]]
        /\ run'[a].pc = "lease" /\ run'[a].op = migration.op
        /\ run'[a].src = migration.src /\ run'[a].host = FALSE
    <2>1. PICK r : r = run'[a]
      OBVIOUS
    <2>2. r = captured("lease")
      BY <1>4, <2>1
    <2>3. /\ aRun(r) /\ r.pc = "lease" /\ r.op = migration.op
          /\ r.src = migration.src /\ r.host = FALSE
      BY <2>2, Captures
    <2> QED
      BY <2>1, <2>3 DEF aRun
  <1>6. Len(gens)' = Len(gens)
    BY <1>1, GensSame
  <1>7. migration.phase # "none" /\ migration.op \in 0 .. used /\ migration.op # 0
    BY <1>1 DEF Numbered, InFlight, Fenced
  <1>8. worked(a)
    BY <1>1, <1>4, <1>5, <1>7 DEF worked, going, stepped, Working, MigrationTyped, aside, at
  <1>9. MigrationTyped'
    BY <1>2, <1>6 DEF MigrationTyped, InFlight, Fenced
  <1>10. ProviderTyped' /\ \A op \in Ops : op > used => journal'[op] = "none" /\ ~fork'[op].made
    BY <1>1 DEF provider, ProviderTyped, Numbered
  <1>11. \A b \in Runs : b = a \/ run'[b] = run[b]
    BY <1>4
  <1>12. Leased'
    BY <1>1, <1>5, <1>11 DEF Leased, forker, at, provider
  <1>13. Receipts'
    BY <1>1, <1>2, <1>5, <1>11 DEF Receipts, verifier, provider
  <1>14. Retried'
    BY <1>2 DEF Retried
  <1>15. Sourced'
    BY <1>1, <1>2, <1>5, <1>6, <1>11 DEF Sourced, holds
  <1>16. Messaged'
    <2> SUFFICES ASSUME NEW m \in Messages
                 PROVE  messaged(m)'
      BY DEF Messaged
    <2>1. messaged(m) /\ row[m].state # "uncertain"
      BY <1>1 DEF Messaged, uncertain
    <2>2. onItsWay(m)' <=> onItsWay(m)
      BY <1>1 DEF onItsWay, calling
    <2> QED
      BY <1>1, <2>1, <2>2 DEF messaged
  <1>17. Kept'
    <2> SUFFICES ASSUME NEW m \in Messages
                 PROVE  kept(m)'
      BY DEF Kept
    <2>1. kept(m)
      BY DEF Kept
    <2>2. generation' = generation /\ (excused(m)' <=> excused(m))
      BY <1>1, GensSame, FlawsSame
    <2>3. CASE migration.phase \in Forks
      BY <1>1, <1>2, <2>1, <2>2, <2>3 DEF kept, provider
    <2>4. CASE migration.phase \in {"waiting-turn", "requested"}
      BY <1>1, <1>2, <2>1, <2>2, <2>4 DEF kept, provider, Retried, excused
    <2> QED
      BY <1>1, <2>3, <2>4 DEF InFlight, Fenced, Forks
  <1>18. UNCHANGED <<gens, row, cleanup, hosted, calls, effect, used, flaws>>
    BY <1>1 DEF provider
  <1>19. run[a].pc # "cleaning" /\ migration'.phase # "none"
    BY <1>1, <1>2 DEF at
  <1> HIDE DEF IInv
  <1> QED
    BY <1>2, <1>3, <1>7, <1>8, <1>9, <1>10, <1>12, <1>13, <1>14, <1>15, <1>16, <1>17, <1>18, <1>19,
       WorkKeeps

LEMMA BeginVerificationKeeps ==
  ASSUME IInv, NEW a \in Runs, BeginVerification(a)
  PROVE  IInv'
  <1> USE DEF IInv, Typed
  <1>1. /\ at(a, "idle") /\ migration.phase \in InFlight /\ migration.receipt # 0
        /\ run' = [run EXCEPT ![a] = captured("verifying")]
        /\ UNCHANGED <<migration, gens, row, cleanup, journal, fork, hosted, calls, effect, used,
                      flaws>>
    BY DEF BeginVerification, free, registry, provider
  <1>4. /\ run' = [b \in Runs |-> run'[b]] /\ run'[a] = captured("verifying")
        /\ \A b \in Runs : b # a => run'[b] = run[b]
    <2>1. run = [b \in Runs |-> run[b]]
      BY DEF RunsTyped
    <2> QED
      BY <1>1, <2>1, RunSet
  <1>5. /\ run'[a] = [f \in RunFields |-> run'[a][f]]
        /\ run'[a].pc = "verifying" /\ run'[a].op = migration.op
        /\ run'[a].src = migration.src /\ run'[a].host = FALSE
    <2>1. PICK r : r = run'[a]
      OBVIOUS
    <2>2. r = captured("verifying")
      BY <1>4, <2>1
    <2>3. /\ aRun(r) /\ r.pc = "verifying" /\ r.op = migration.op
          /\ r.src = migration.src /\ r.host = FALSE
      BY <2>2, Captures
    <2> QED
      BY <2>1, <2>3 DEF aRun
  <1>6. Len(gens)' = Len(gens) /\ generation' = generation
    BY <1>1, GensSame
  <1>7. /\ migration.phase = "verifying" /\ migration.op \in 0 .. used /\ migration.op # 0
        /\ migration.receipt = migration.op /\ journal[migration.op] = "recorded"
    BY <1>1 DEF Numbered, Receipts, InFlight, Fenced, Ended
  <1>8. worked(a)
    BY <1>1, <1>4, <1>5, <1>7 DEF worked, going, stepped, Working, MigrationTyped, aside, at
  <1>9. MigrationTyped'
    BY <1>1, <1>6 DEF MigrationTyped
  <1>10. ProviderTyped' /\ \A op \in Ops : op > used => journal'[op] = "none" /\ ~fork'[op].made
    BY <1>1 DEF ProviderTyped, Numbered
  <1>11. \A b \in Runs : b = a \/ run'[b] = run[b]
    BY <1>4
  <1>12. Leased'
    BY <1>1, <1>5, <1>7, <1>11 DEF Leased, forker, at
  <1>13. Receipts'
    BY <1>1, <1>5, <1>7, <1>11 DEF Receipts, verifier
  <1>14. Retried'
    BY <1>1, <1>7 DEF Retried
  <1>15. Sourced'
    BY <1>1, <1>5, <1>6, <1>11 DEF Sourced, holds
  <1>16. Messaged'
    BY <1>1, MessagedKept
  <1>17. Kept'
    <2>1. \A m \in Messages : excused(m) => excused(m)'
      BY <1>1 DEF excused
    <2>2. migration.phase \in Forks /\ migration'.op = migration.op /\ fork' = fork
      BY <1>1, <1>7 DEF Forks
    <2>3. generation'.read = generation.read /\ UNCHANGED effect
      BY <1>1, <1>6
    <2> QED
      BY <2>1, <2>2, <2>3, KeptKept
  <1>18. run[a].pc # "cleaning"
    BY <1>1 DEF at
  <1> HIDE DEF IInv
  <1> QED
    BY <1>1, <1>8, <1>9, <1>10, <1>12, <1>13, <1>14, <1>15, <1>16, <1>17, <1>18, WorkKeeps

LEMMA MovesOn ==
  ASSUME IInv, NEW a \in Runs, run[a].pc \in Working, NEW pc \in Working, goto(a, pc),
         run[a].pc # "publishing", pc # "publishing"
  PROVE  /\ worked(a) /\ run'[a].pc = pc /\ run'[a].op = run[a].op /\ run'[a].src = run[a].src
         /\ (\A b \in Runs : b = a \/ run'[b] = run[b])
         /\ run[a].op \in 1 .. used /\ run[a].op \in Ops /\ run[a].pc # "cleaning"
  <1> USE DEF IInv, Typed
  <1>1. /\ run' = [b \in Runs |-> run'[b]]
        /\ run'[a] = [f \in RunFields |-> run'[a][f]]
        /\ run'[a].pc = pc /\ run'[a].op = run[a].op /\ run'[a].src = run[a].src
        /\ run'[a].host = run[a].host
        /\ \A b \in Runs : b # a => run'[b] = run[b]
    BY Moves
  <1>2. run[a].host = FALSE
    BY DEF RunsTyped, at, Working
  <1>3. run[a].op \in 0 .. used /\ run[a].op # 0 /\ used \in 0 .. MaxOps
    BY DEF Numbered, Working
  <1>4. worked(a)
    BY <1>1, <1>2, <1>3 DEF worked, going, stepped, RunsTyped, aside
  <1>5. run[a].op \in 1 .. used /\ run[a].op \in Ops
    BY <1>3, MigrationAssumption DEF Ops
  <1> QED
    BY <1>1, <1>4, <1>5 DEF Working

LEMMA JournalSet ==
  ASSUME ProviderTyped, NEW op \in Ops, NEW s \in {"none", "requested", "recorded"},
         journal' = [journal EXCEPT ![op] = s]
  PROVE  /\ journal' \in [Ops -> {"none", "requested", "recorded"}]
         /\ journal'[op] = s /\ \A o \in Ops : o # op => journal'[o] = journal[o]
  BY DEF ProviderTyped

LEMMA RequestForkKeeps ==
  ASSUME IInv, NEW a \in Runs, RequestFork(a)
  PROVE  IInv'
  <1> USE DEF IInv, Typed
  <1> DEFINE op == run[a].op
  <1>1. /\ run[a].pc = "lease" /\ (\A b \in Runs : ~(run[b].op = op /\ forker(b)))
        /\ journal[op] = "none" /\ journal' = [journal EXCEPT ![op] = "requested"]
        /\ goto(a, "forking")
        /\ UNCHANGED <<migration, gens, row, cleanup, fork, hosted, calls, effect, used, flaws>>
    BY DEF RequestFork, at, leased, registry, forker
  <1>2. /\ worked(a) /\ run'[a].pc = "forking" /\ run'[a].op = op /\ run'[a].src = run[a].src
        /\ (\A b \in Runs : b = a \/ run'[b] = run[b])
        /\ op \in 1 .. used /\ op \in Ops /\ run[a].pc # "cleaning"
    BY <1>1, MovesOn DEF Working
  <1>3. /\ journal' \in [Ops -> {"none", "requested", "recorded"}]
        /\ journal'[op] = "requested" /\ \A o \in Ops : o # op => journal'[o] = journal[o]
    BY <1>1, <1>2, JournalSet
  <1> HIDE DEF op
  <1>4. Len(gens)' = Len(gens) /\ generation' = generation
    BY <1>1, GensSame
  <1>5. MigrationTyped' /\ ProviderTyped'
    BY <1>1, <1>3, <1>4 DEF MigrationTyped, ProviderTyped
  <1>6. \A o \in Ops : o > used => journal'[o] = "none" /\ ~fork'[o].made
    <2>1. \A o \in Ops : o > used => o # op
      BY <1>2 DEF Numbered
    <2> QED
      BY <1>1, <1>3, <2>1 DEF Numbered
  <1>7. \A b \in Runs : run[b].pc # "idle" => run[b].op \in Ops
    BY MigrationAssumption DEF Numbered, Ops
  <1>8. migration.phase # "none" => migration.op \in Ops
    BY MigrationAssumption DEF Numbered, Ops
  <1>9. Leased'
    <2>1. \A b, c \in Runs : (forker(b) /\ forker(c) /\ run[b].op = run[c].op)' => b = c
      BY <1>1, <1>2 DEF Leased, forker, op
    <2>2. ASSUME NEW b \in Runs, run'[b].pc = "forking"
          PROVE  journal'[run'[b].op] = "requested"
      BY <1>1, <1>2, <1>3, <1>7, <2>2 DEF Leased, at
    <2>3. ASSUME NEW b \in Runs, run'[b].pc \in {"resuming", "verifying", "publishing"}
          PROVE  journal'[run'[b].op] = "recorded"
      <3>1. b # a /\ run'[b] = run[b]
        BY <1>2, <2>3
      <3>2. journal[run[b].op] = "recorded" /\ run[b].op \in Ops
        BY <1>7, <2>3, <3>1 DEF Leased
      <3> QED
        BY <1>1, <1>3, <3>1, <3>2
    <2>4. \A o \in Ops : journal'[o] = "recorded" => fork'[o].made
      BY <1>1, <1>3 DEF Leased
    <2> QED
      BY <2>1, <2>2, <2>3, <2>4 DEF Leased, forker, at
  <1>10. Receipts'
    <2>1. migration.receipt # 0 => /\ journal[migration.op] = "recorded" /\ migration.op \in Ops
      BY <1>8 DEF Receipts, Ended
    <2>2. migration.receipt # 0 => journal'[migration.op] = "recorded"
      BY <1>1, <1>3, <2>1
    <2> QED
      BY <1>1, <1>2, <2>2 DEF Receipts, verifier
  <1>11. Retried'
    <2>1. ASSUME migration.phase = "failed-recoverable", migration.unknown
          PROVE  journal'[migration.op] # "none" /\ ~forking(migration.op)' /\ migration.receipt = 0
      <3>1. migration.op # op /\ migration.op \in Ops
        BY <1>1, <1>8, <2>1 DEF Retried
      <3> QED
        BY <1>1, <1>2, <1>3, <2>1, <3>1 DEF Retried, forking, at
    <2>2. ASSUME migration.phase \in {"waiting-turn", "requested"}
          PROVE  /\ ~forking(migration.op)'
                 /\ journal'[migration.op] = "none" =>
                      \A b \in Runs : ~holds(b, migration.op)'
                 /\ fork[migration.op].made => flaws.oldFork
      <3>1. migration.op # op /\ migration.op \in Ops
        BY <1>1, <1>8, <2>2 DEF Retried, holds, op, Working
      <3> QED
        BY <1>1, <1>2, <1>3, <2>2, <3>1 DEF Retried, forking, at, holds
    <2> QED
      BY <1>1, <2>1, <2>2 DEF Retried, forking, holds
  <1>12. Sourced'
    BY <1>1, <1>2, <1>4 DEF Sourced, holds, Working, op
  <1>13. Messaged'
    BY <1>1, MessagedKept
  <1>14. Kept'
    <2>1. \A m \in Messages : excused(m) => excused(m)'
      BY <1>1 DEF excused
    <2>2. \/ ~(migration'.phase \in Forks /\ fork'[migration'.op].made)
          \/ /\ migration.phase \in Forks /\ migration'.op = migration.op
             /\ fork'[migration.op] = fork[migration.op]
      BY <1>1
    <2>3. generation'.read = generation.read /\ UNCHANGED effect
      BY <1>1, <1>4
    <2> QED
      BY <2>1, <2>2, <2>3, KeptKept
  <1> HIDE DEF IInv
  <1> QED
    BY <1>1, <1>2, <1>5, <1>6, <1>9, <1>10, <1>11, <1>12, <1>13, <1>14, WorkKeeps

(* The journal names the fork: a scan found it, or the engine made it.      *)
LEMMA ForkRecorded ==
  ASSUME IInv, NEW a \in Runs, run[a].pc \in {"lease", "forking"},
         \A b \in Runs : forker(b) /\ run[b].op = run[a].op => b = a,
         journal' = [journal EXCEPT ![run[a].op] = "recorded"], goto(a, "resuming"),
         fork' = [op \in Ops |-> fork'[op]], fork'[run[a].op].made = TRUE,
         \A op \in Ops : op # run[a].op => fork'[op] = fork[op],
         \/ fork'[run[a].op] = fork[run[a].op]
         \/ run[a].pc = "forking" /\ fork'[run[a].op].read = gens[run[a].src].read,
         UNCHANGED <<migration, gens, row, cleanup, hosted, calls, effect, used, flaws>>
  PROVE  IInv'
  <1> USE DEF IInv, Typed
  <1> DEFINE op == run[a].op
  <1>2. /\ worked(a) /\ run'[a].pc = "resuming" /\ run'[a].op = op /\ run'[a].src = run[a].src
        /\ (\A b \in Runs : b = a \/ run'[b] = run[b])
        /\ op \in 1 .. used /\ op \in Ops /\ run[a].pc # "cleaning"
    BY MovesOn DEF Working
  <1>3. /\ journal' \in [Ops -> {"none", "requested", "recorded"}]
        /\ journal'[op] = "recorded" /\ \A o \in Ops : o # op => journal'[o] = journal[o]
    BY <1>2, JournalSet
  <1>4. Len(gens)' = Len(gens) /\ generation' = generation
    BY GensSame
  <1>5. MigrationTyped'
    BY <1>4 DEF MigrationTyped
  <1>6. \A o \in Ops : o > used => journal'[o] = "none" /\ ~fork'[o].made
    <2>1. \A o \in Ops : o > used => o # op
      BY <1>2 DEF Numbered
    <2> QED
      BY <1>3, <2>1 DEF Numbered
  <1>7. \A b \in Runs : run[b].pc # "idle" => run[b].op \in Ops
    BY MigrationAssumption DEF Numbered, Ops
  <1>8. migration.phase # "none" => migration.op \in Ops
    BY MigrationAssumption DEF Numbered, Ops
  <1>9. ProviderTyped'
    <2>1. \A o \in Ops : fork'[o].made \in BOOLEAN
      BY DEF ProviderTyped
    <2> QED
      BY <1>3, <2>1 DEF ProviderTyped
  <1>10. fork'[op].made = TRUE /\ \A o \in Ops : o # op => fork'[o] = fork[o]
    OBVIOUS
  <1>11. \/ fork'[op] = fork[op]
         \/ run[a].pc = "forking" /\ fork'[op].read = gens[run[a].src].read
    OBVIOUS
  <1>12. \A b \in Runs : forker(b) /\ run[b].op = op => b = a
    OBVIOUS
  <1>13. run[a].op = op
    OBVIOUS
  <1> HIDE DEF op
  <1>14. Leased'
    <2>1. \A b, c \in Runs : (forker(b) /\ forker(c) /\ run[b].op = run[c].op)' => b = c
      BY <1>2, <1>12 DEF Leased, forker
    <2>2. ASSUME NEW b \in Runs, run'[b].pc = "forking"
          PROVE  journal'[run'[b].op] = "requested"
      <3>1. b # a /\ run'[b] = run[b] /\ run[b].op # op /\ run[b].op \in Ops
        BY <1>2, <1>7, <1>12, <2>2 DEF forker
      <3> QED
        BY <1>3, <2>2, <3>1 DEF Leased, at
    <2>3. ASSUME NEW b \in Runs, run'[b].pc \in {"resuming", "verifying", "publishing"}
          PROVE  journal'[run'[b].op] = "recorded"
      <3>1. CASE b = a
        BY <1>2, <1>3, <3>1
      <3>2. CASE b # a
        <4>1. run'[b] = run[b] /\ journal[run[b].op] = "recorded" /\ run[b].op \in Ops
          BY <1>2, <1>7, <2>3, <3>2 DEF Leased
        <4> QED
          BY <1>3, <4>1
      <3> QED
        BY <3>1, <3>2
    <2>4. \A o \in Ops : journal'[o] = "recorded" => fork'[o].made
      BY <1>3, <1>10 DEF Leased
    <2> QED
      BY <2>1, <2>2, <2>3, <2>4 DEF Leased, forker, at
  <1>15. Receipts'
    <2>1. migration.receipt # 0 => journal[migration.op] = "recorded" /\ migration.op \in Ops
      BY <1>8 DEF Receipts, Ended
    <2>2. migration.receipt # 0 => journal'[migration.op] = "recorded"
      BY <1>3, <2>1
    <2> QED
      BY <1>2, <2>2 DEF Receipts, verifier
  <1>16. Retried'
    <2>1. ASSUME migration.phase = "failed-recoverable", migration.unknown
          PROVE  journal'[migration.op] # "none" /\ ~forking(migration.op)' /\ migration.receipt = 0
      <3>1. migration.op \in Ops /\ journal[migration.op] # "none" /\ ~forking(migration.op)
            /\ migration.receipt = 0
        BY <1>8, <2>1 DEF Retried
      <3> QED
        BY <1>2, <1>3, <2>1, <3>1 DEF forking, at
    <2>2. ASSUME migration.phase \in {"waiting-turn", "requested"}
          PROVE  /\ ~forking(migration.op)'
                 /\ journal'[migration.op] = "none" =>
                      \A b \in Runs : ~holds(b, migration.op)'
                 /\ fork'[migration.op].made => flaws.oldFork
      <3>1. /\ migration.op \in Ops /\ ~forking(migration.op)
            /\ journal[migration.op] = "none" => \A b \in Runs : ~holds(b, migration.op)
            /\ fork[migration.op].made => flaws.oldFork
        BY <1>8, <2>2 DEF Retried
      <3>2. fork'[migration.op] = fork[migration.op]
        BY <1>10, <1>11, <1>13, <3>1 DEF forking, at
      <3> QED
        BY <1>2, <1>3, <2>2, <3>1, <3>2 DEF forking, at, holds
    <2> QED
      BY <2>1, <2>2 DEF Retried, forking, holds
  <1>17. Sourced'
    <2>1. run[a].pc \in Working
      BY DEF Working
    <2> QED
      BY <1>2, <1>4, <1>13, <2>1 DEF Sourced, holds
  <1>18. Messaged'
    BY MessagedKept
  <1>19. Kept'
    <2> SUFFICES ASSUME NEW m \in Messages
                 PROVE  kept(m)'
      BY DEF Kept
    <2>1. kept(m) /\ (excused(m)' <=> excused(m))
      BY FlawsSame DEF Kept
    <2>2. CASE migration.phase \in Forks
      <3>1. migration.op \in Ops
        BY <1>8, <2>2 DEF Forks
      <3>2. CASE fork'[migration.op] = fork[migration.op]
        BY <1>4, <2>1, <3>2 DEF kept
      <3>3. CASE fork'[migration.op] # fork[migration.op]
        <4>1. migration.op = op /\ run[a].pc = "forking" /\ fork'[op].read = gens[run[a].src].read
          BY <1>10, <1>11, <3>1, <3>3
        <4>2. run[a].src = Len(gens)
          BY <1>13, <2>2, <4>1 DEF Sourced, holds, Working, InFlight, Fenced, Forks
        <4>3. fork'[migration.op].read = generation.read
          BY <4>1, <4>2 DEF generation, current
        <4> QED
          BY <1>4, <2>1, <4>3 DEF kept
      <3> QED
        BY <3>2, <3>3
    <2>3. CASE migration.phase \notin Forks
      BY <1>4, <2>1, <2>3 DEF kept
    <2> QED
      BY <2>2, <2>3
  <1> HIDE DEF IInv
  <1> QED
    BY <1>2, <1>5, <1>6, <1>9, <1>14, <1>15, <1>16, <1>17, <1>18, <1>19, WorkKeeps

LEMMA ForkSame ==
  ASSUME ProviderTyped, UNCHANGED fork
  PROVE  fork' = [op \in Ops |-> fork'[op]]
  BY DEF ProviderTyped

LEMMA ForkedIs ==
  ASSUME ProviderTyped, NEW a \in Runs, run[a].op \in Ops, fork' = forked(a)
  PROVE  /\ fork' = [op \in Ops |-> fork'[op]]
         /\ fork'[run[a].op].made = TRUE /\ fork'[run[a].op].read = gens[run[a].src].read
         /\ \A op \in Ops : op # run[a].op => fork'[op] = fork[op]
  BY DEF ProviderTyped, forked

LEMMA ForksKeep ==
  ASSUME IInv, NEW a \in Runs, RecoverFork(a) \/ ForkMade(a)
  PROVE  IInv'
  <1>1. CASE RecoverFork(a)
    <2>1. /\ run[a].pc = "lease" /\ recovers(run[a].op)
          /\ \A b \in Runs : forker(b) /\ run[b].op = run[a].op => b = a
          /\ journal' = [journal EXCEPT ![run[a].op] = "recorded"] /\ goto(a, "resuming")
          /\ UNCHANGED <<migration, gens, row, cleanup, hosted, calls, effect, used, flaws, fork>>
      BY <1>1 DEF RecoverFork, at, leased, registry, forker
    <2>2. run[a].op \in Ops
      BY <2>1, MovesOn DEF Working
    <2>3. fork[run[a].op].made /\ ProviderTyped
      BY <2>1, <2>2 DEF recovers, IInv, Leased, Typed
    <2>4. fork' = [op \in Ops |-> fork'[op]] /\ fork'[run[a].op].made = TRUE
      <3>1. fork[run[a].op].made = TRUE
        BY <2>2, <2>3 DEF ProviderTyped
      <3> QED
        BY <2>1, <2>3, <3>1, ForkSame
    <2> QED
      BY <2>1, <2>4, ForkRecorded
  <1>2. CASE ForkMade(a)
    <2>1. /\ run[a].pc = "forking" /\ fork' = forked(a)
          /\ journal' = [journal EXCEPT ![run[a].op] = "recorded"] /\ goto(a, "resuming")
          /\ UNCHANGED <<migration, gens, row, cleanup, hosted, calls, effect, used, flaws>>
      BY <1>2 DEF ForkMade, at, registry
    <2>2. run[a].op \in Ops
      BY <2>1, MovesOn DEF Working
    <2>3. /\ fork' = [op \in Ops |-> fork'[op]]
          /\ fork'[run[a].op].made = TRUE /\ fork'[run[a].op].read = gens[run[a].src].read
          /\ \A op \in Ops : op # run[a].op => fork'[op] = fork[op]
      BY <2>1, <2>2, ForkedIs DEF IInv, Typed
    <2>4. \A b \in Runs : forker(b) /\ run[b].op = run[a].op => b = a
      BY <2>1 DEF IInv, Leased, forker
    <2> QED
      BY <2>1, <2>3, <2>4, ForkRecorded
  <1> QED
    BY <1>1, <1>2

(* The receipt of the fork an advance resumed is put on the migration.      *)
LEMMA ReceiptKeeps ==
  ASSUME IInv, NEW a \in Runs, run[a].pc = "resuming", migration.op = run[a].op,
         \/ /\ migration.phase = "successor-starting"
            /\ migration' = [migration EXCEPT !.phase = "verifying", !.receipt = run[a].op]
         \/ /\ migration.phase \in {"verifying", "committed"} /\ migration.receipt = run[a].op
            /\ UNCHANGED migration,
         goto(a, "verifying"),
         UNCHANGED <<gens, row, cleanup, provider, calls, effect, used, flaws>>
  PROVE  IInv'
  <1> USE DEF IInv, Typed
  <1> DEFINE op == run[a].op
  <1>1. /\ worked(a) /\ run'[a].pc = "verifying" /\ run'[a].op = op /\ run'[a].src = run[a].src
        /\ (\A b \in Runs : b = a \/ run'[b] = run[b])
        /\ op \in 1 .. used /\ op \in Ops /\ run[a].pc # "cleaning"
    BY MovesOn DEF Working
  <1>2. journal[op] = "recorded"
    BY DEF Leased
  <1>3. Len(gens)' = Len(gens) /\ generation' = generation
    BY GensSame
  <1>4. /\ migration' = [f \in MigrationFields |-> migration'[f]]
        /\ migration'.phase \in {"verifying", "committed"} /\ migration'.op = op
        /\ migration'.src = migration.src /\ migration'.receipt = op
        /\ migration'.unknown = migration.unknown /\ migration'.intent = migration.intent
        /\ (migration'.phase = "verifying" => migration.phase \in Forks)
        /\ (migration'.phase = "committed" => migration.phase = "committed")
    <2>1. CASE /\ migration.phase = "successor-starting"
               /\ migration' = [migration EXCEPT !.phase = "verifying", !.receipt = op]
      <3>1. /\ migration' = [f \in MigrationFields |-> migration'[f]]
            /\ migration'.phase = "verifying" /\ migration'.op = migration.op
            /\ migration'.src = migration.src /\ migration'.receipt = op
            /\ migration'.unknown = migration.unknown
        <4> HIDE DEF op
        <4> QED
          BY <2>1, Receipted
      <3>2. migration'.intent = migration.intent
        BY <2>1 DEF MigrationTyped, MigrationFields
      <3> QED
        BY <2>1, <3>1, <3>2 DEF Forks
    <2>2. CASE /\ migration.phase \in {"verifying", "committed"} /\ migration.receipt = op
               /\ UNCHANGED migration
      <3>1. migration = [f \in MigrationFields |-> migration[f]]
        BY DEF MigrationTyped
      <3>2. migration' = [f \in MigrationFields |-> migration'[f]]
        BY <2>2, <3>1
      <3> QED
        BY <2>2, <3>2 DEF Forks
    <2> QED
      BY <2>1, <2>2
  <1>5. /\ migration.op = op /\ run[a].op = op /\ migration.phase # "none"
        /\ UNCHANGED <<gens, row, cleanup, journal, fork, hosted, calls, effect, used, flaws>>
    BY DEF provider
  <1> HIDE DEF op
  <1>6. MigrationTyped'
    BY <1>3, <1>4 DEF MigrationTyped, InFlight, Fenced, Ended
  <1>7. ProviderTyped' /\ \A o \in Ops : o > used => journal'[o] = "none" /\ ~fork'[o].made
    BY <1>5 DEF ProviderTyped, Numbered
  <1>8. Leased'
    BY <1>1, <1>2, <1>5 DEF Leased, forker, at
  <1>9. Receipts'
    BY <1>1, <1>2, <1>4, <1>5 DEF Receipts, verifier, Ended
  <1>10. Retried'
    BY <1>4 DEF Retried
  <1>11. Sourced'
    <2>1. run[a].pc \in Working
      BY DEF Working
    <2>2. migration'.phase \in InFlight \cup {"failed-recoverable", "rolled-back"} =>
            migration.phase \in InFlight
      BY <1>4 DEF Forks, InFlight, Fenced
    <2> QED
      BY <1>1, <1>3, <1>4, <1>5, <2>1, <2>2 DEF Sourced, holds
  <1>12. Messaged'
    <2>1. migration'.phase \in Forks => migration.phase \in Forks
      BY <1>4 DEF Forks
    <2> QED
      BY <1>5, <2>1, MessagedKept
  <1>13. Kept'
    <2>1. \A m \in Messages : excused(m) => excused(m)'
      BY <1>5 DEF excused
    <2>2. \/ ~(migration'.phase \in Forks /\ fork'[migration'.op].made)
          \/ /\ migration.phase \in Forks /\ migration'.op = migration.op
             /\ fork'[migration.op] = fork[migration.op]
      BY <1>4, <1>5 DEF Forks
    <2>3. generation'.read = generation.read /\ UNCHANGED effect
      BY <1>3, <1>5
    <2> QED
      BY <2>1, <2>2, <2>3, KeptKept
  <1>14. migration'.phase # "none" /\ migration'.op = migration.op
    BY <1>4, <1>5
  <1> HIDE DEF IInv
  <1> QED
    BY <1>1, <1>4, <1>5, <1>6, <1>7, <1>8, <1>9, <1>10, <1>11, <1>12, <1>13, <1>14, WorkKeeps

---------------------------------------------------------------------------
(* How an advance ends.  A migration fails only under the fence, and one    *)
(* whose fork is unknown has asked for it.                                  *)
failing(a) ==
  \/ UNCHANGED migration
  \/ /\ migration.phase \in Fenced
     /\ \E u \in BOOLEAN :
          /\ migration' = [migration EXCEPT !.phase = "failed-recoverable", !.unknown = u]
          /\ u => /\ migration.op = run[a].op /\ journal'[run[a].op] = "requested"
                  /\ \A b \in Runs : forker(b) /\ run[b].op = run[a].op => b = a
(* The engine refused the fork, or nobody knows whether it made it.         *)
asked(a) ==
  \/ UNCHANGED <<journal, fork>>
  \/ /\ run[a].pc = "forking" /\ UNCHANGED fork
     /\ journal' = [journal EXCEPT ![run[a].op] = "none"]
  \/ /\ run[a].pc = "forking" /\ fork' = forked(a) /\ UNCHANGED journal

LEMMA AskedIs ==
  ASSUME IInv, NEW a \in Runs, asked(a)
  PROVE  /\ ProviderTyped'
         /\ \A op \in Ops : op # run[a].op \/ run[a].pc # "forking" =>
              journal'[op] = journal[op] /\ fork'[op] = fork[op]
         /\ \A op \in Ops : fork[op].made => fork'[op].made
         /\ run[a].pc = "forking" =>
              /\ run[a].op \in Ops /\ run[a].op \in 1 .. used
              /\ journal'[run[a].op] \in {"none", "requested"}
              /\ \/ fork'[run[a].op] = fork[run[a].op]
                 \/ fork'[run[a].op].read = gens[run[a].src].read
  <1> USE DEF IInv, Typed
  <1>1. run[a].pc = "forking" =>
          /\ run[a].op \in Ops /\ run[a].op \in 1 .. used /\ journal[run[a].op] = "requested"
    BY MigrationAssumption DEF Numbered, Ops, Leased, at
  <1>2. CASE UNCHANGED <<journal, fork>>
    BY <1>1, <1>2 DEF ProviderTyped
  <1>3. CASE /\ run[a].pc = "forking" /\ UNCHANGED fork
             /\ journal' = [journal EXCEPT ![run[a].op] = "none"]
    <2>1. /\ journal' \in [Ops -> {"none", "requested", "recorded"}]
          /\ journal'[run[a].op] = "none"
          /\ \A o \in Ops : o # run[a].op => journal'[o] = journal[o]
      BY <1>1, <1>3, JournalSet
    <2> QED
      BY <1>1, <1>3, <2>1 DEF ProviderTyped
  <1>4. CASE run[a].pc = "forking" /\ fork' = forked(a) /\ UNCHANGED journal
    <2>1. /\ fork' = [op \in Ops |-> fork'[op]]
          /\ fork'[run[a].op].made = TRUE /\ fork'[run[a].op].read = gens[run[a].src].read
          /\ \A op \in Ops : op # run[a].op => fork'[op] = fork[op]
      BY <1>1, <1>4, ForkedIs
    <2>2. \A op \in Ops : fork'[op].made \in BOOLEAN /\ (fork[op].made => fork'[op].made)
      BY <2>1 DEF ProviderTyped
    <2> QED
      BY <1>1, <1>4, <2>1, <2>2 DEF ProviderTyped
  <1> QED
    BY <1>2, <1>3, <1>4 DEF asked

LEMMA FailingIs ==
  ASSUME IInv, NEW a \in Runs, failing(a), Len(gens)' = Len(gens)
  PROVE  /\ MigrationTyped' /\ migration'.op = migration.op /\ migration'.src = migration.src
         /\ migration'.receipt = migration.receipt /\ migration'.intent = migration.intent
         /\ \/ UNCHANGED migration
            \/ /\ migration.phase \in Fenced /\ migration'.phase = "failed-recoverable"
               /\ migration'.unknown =>
                    /\ migration.op = run[a].op /\ journal'[run[a].op] = "requested"
                    /\ \A b \in Runs : forker(b) /\ run[b].op = run[a].op => b = a
  <1> USE DEF IInv, Typed
  <1>1. CASE UNCHANGED migration
    BY <1>1 DEF MigrationTyped
  <1>2. CASE ~UNCHANGED migration
    <2>1. PICK u \in BOOLEAN :
            /\ migration' = [migration EXCEPT !.phase = "failed-recoverable", !.unknown = u]
            /\ u => /\ migration.op = run[a].op /\ journal'[run[a].op] = "requested"
                    /\ \A b \in Runs : forker(b) /\ run[b].op = run[a].op => b = a
      BY <1>2 DEF failing
    <2>2. /\ migration' = [f \in MigrationFields |-> migration'[f]]
          /\ migration'.phase = "failed-recoverable" /\ migration'.op = migration.op
          /\ migration'.src = migration.src /\ migration'.receipt = migration.receipt
          /\ migration'.unknown = u /\ migration'.intent = migration.intent
      BY <2>1, PhasedWith
    <2>3. migration.phase \in Fenced
      BY <1>2 DEF failing
    <2>4. MigrationTyped'
      BY <2>2 DEF MigrationTyped, Ended
    <2> QED
      BY <2>1, <2>2, <2>3, <2>4
  <1> QED
    BY <1>1, <1>2

LEMMA EndsWorking ==
  ASSUME IInv, NEW a \in Runs, failing(a), asked(a),
         UNCHANGED <<gens, row, calls, effect, used>>,
         run'[a].pc \in {"idle", "cleaning"}, \A b \in Runs : b = a \/ run'[b] = run[b],
         flaws'.crossed = flaws.crossed, flaws'.oldFork = flaws.oldFork,
         flaws'.takenBack = flaws.takenBack
  PROVE  /\ MigrationTyped' /\ ProviderTyped'
         /\ \A op \in Ops : op > used => journal'[op] = "none" /\ ~fork'[op].made
         /\ Leased' /\ Receipts' /\ Retried' /\ Sourced' /\ Messaged' /\ Kept'
  <1> USE DEF IInv, Typed
  <1>1. Len(gens)' = Len(gens) /\ generation' = generation
    BY GensSame
  <1> DEFINE op == run[a].op
  <1>2. /\ ProviderTyped'
        /\ \A o \in Ops : o # op \/ run[a].pc # "forking" =>
             journal'[o] = journal[o] /\ fork'[o] = fork[o]
        /\ \A o \in Ops : fork[o].made => fork'[o].made
        /\ run[a].pc = "forking" =>
             /\ op \in Ops /\ op \in 1 .. used /\ journal'[op] \in {"none", "requested"}
             /\ fork'[op] = fork[op] \/ fork'[op].read = gens[run[a].src].read
    BY AskedIs
  <1>3. /\ MigrationTyped' /\ migration'.op = migration.op /\ migration'.src = migration.src
        /\ migration'.receipt = migration.receipt
        /\ \/ UNCHANGED migration
           \/ /\ migration.phase \in Fenced /\ migration'.phase = "failed-recoverable"
              /\ migration'.unknown =>
                   /\ migration.op = op /\ journal'[op] = "requested"
                   /\ \A b \in Runs : forker(b) /\ run[b].op = op => b = a
    BY <1>1, FailingIs
  <1>4. \A o \in Ops : o > used => journal'[o] = "none" /\ ~fork'[o].made
    <2>1. \A o \in Ops : o > used => o # op \/ run[a].pc # "forking"
      BY <1>2 DEF Numbered
    <2> QED
      BY <1>2, <2>1 DEF Numbered
  <1>5. \A b \in Runs : run[b].pc # "idle" => run[b].op \in Ops
    BY MigrationAssumption DEF Numbered, Ops
  <1>6. migration.phase # "none" => migration.op \in Ops
    BY MigrationAssumption DEF Numbered, Ops
  <1>7. run[a].op = op
    OBVIOUS
  <1> HIDE DEF op
  <1>8. run[a].pc = "forking" => journal[op] = "requested"
    BY <1>7 DEF Leased, at
  <1>9. Leased'
    <2>1. \A b, c \in Runs : (forker(b) /\ forker(c) /\ run[b].op = run[c].op)' => b = c
      BY DEF Leased, forker
    <2>2. ASSUME NEW b \in Runs, run'[b].pc \in {"forking", "resuming", "verifying", "publishing"}
          PROVE  /\ run'[b] = run[b] /\ journal'[run[b].op] = journal[run[b].op]
      <3>1. b # a /\ run'[b] = run[b] /\ run[b].op \in Ops
        BY <1>5, <2>2
      <3>2. CASE run[a].pc = "forking" /\ run[b].op = op
        BY <1>7, <1>8, <2>2, <3>1, <3>2 DEF Leased, forker, at
      <3> QED
        BY <1>2, <3>1, <3>2
    <2>3. \A b \in Runs : run'[b].pc = "forking" => journal'[run'[b].op] = "requested"
      BY <2>2 DEF Leased, at
    <2>4. \A b \in Runs : run'[b].pc \in {"resuming", "verifying", "publishing"} =>
            journal'[run'[b].op] = "recorded"
      BY <2>2 DEF Leased
    <2>5. \A o \in Ops : journal'[o] = "recorded" => fork'[o].made
      BY <1>2 DEF Leased
    <2> QED
      BY <2>1, <2>3, <2>4, <2>5 DEF Leased, forker, at
  <1>10. Receipts'
    <2>1. migration.receipt # 0 => journal'[migration.op] = "recorded"
      BY <1>2, <1>6, <1>8 DEF Receipts, Ended
    <2>2. migration.phase \in Ended \cup {"verifying"} =>
            migration'.phase \in Ended \cup {"verifying"}
      BY <1>3 DEF Ended
    <2> QED
      BY <1>3, <2>1, <2>2 DEF Receipts, verifier
  <1>11. Retried'
    <2>1. ASSUME migration'.phase = "failed-recoverable", migration'.unknown
          PROVE  journal'[migration.op] # "none" /\ ~forking(migration.op)' /\ migration.receipt = 0
      <3>1. CASE UNCHANGED migration
        <4>1. /\ migration.op \in Ops /\ journal[migration.op] # "none" /\ ~forking(migration.op)
              /\ migration.receipt = 0
          BY <1>6, <2>1, <3>1 DEF Retried
        <4>2. migration.op # op \/ run[a].pc # "forking"
          BY <1>7, <4>1 DEF forking, at
        <4> QED
          BY <1>2, <3>1, <4>1, <4>2 DEF forking, at
      <3>2. CASE ~UNCHANGED migration
        <4>1. /\ migration.op = op /\ journal'[op] = "requested" /\ op \in Ops
              /\ \A b \in Runs : forker(b) /\ run[b].op = op => b = a
          BY <1>3, <1>6, <2>1, <3>2 DEF Fenced
        <4>2. \A b \in Runs : ~(run'[b].pc = "forking" /\ run'[b].op = op)
          BY <4>1 DEF forker
        <4>3. journal[op] # "recorded"
          BY <1>2, <1>8, <4>1
        <4>4. migration.receipt = 0
          BY <4>1, <4>3 DEF Receipts
        <4> QED
          BY <1>3, <4>1, <4>2, <4>4 DEF forking, at
      <3> QED
        BY <3>1, <3>2
    <2>2. ASSUME migration'.phase \in {"waiting-turn", "requested"}
          PROVE  /\ ~forking(migration.op)'
                 /\ journal'[migration.op] = "none" =>
                      \A b \in Runs : ~holds(b, migration.op)'
                 /\ fork'[migration.op].made => flaws.oldFork
      <3>1. UNCHANGED migration
        BY <1>3, <2>2
      <3>2. /\ migration.op \in Ops /\ ~forking(migration.op)
            /\ journal[migration.op] = "none" => \A b \in Runs : ~holds(b, migration.op)
            /\ fork[migration.op].made => flaws.oldFork
        BY <1>6, <2>2, <3>1 DEF Retried
      <3>3. migration.op # op \/ run[a].pc # "forking"
        BY <1>7, <3>2 DEF forking, at
      <3>4. ~holds(a, migration.op)'
        BY DEF holds, Working
      <3> QED
        BY <1>2, <3>1, <3>2, <3>3, <3>4 DEF forking, at, holds
    <2> QED
      BY <1>3, <2>1, <2>2 DEF Retried, forking, holds
  <1>12. Sourced'
    <2>1. ~holds(a, migration.op)'
      BY DEF holds, Working
    <2>2. migration'.phase \in InFlight \cup {"failed-recoverable", "rolled-back"} =>
            migration.phase \in InFlight \cup {"failed-recoverable", "rolled-back"}
      BY <1>3 DEF InFlight
    <2> QED
      BY <1>1, <1>3, <2>1, <2>2 DEF Sourced, holds
  <1>13. Messaged'
    <2>1. migration'.phase \in Forks => migration.phase \in Forks
      BY <1>3 DEF Forks
    <2> QED
      BY <2>1, MessagedKept
  <1>14. Kept'
    <2> SUFFICES ASSUME NEW m \in Messages
                 PROVE  kept(m)'
      BY DEF Kept
    <2>1. kept(m) /\ (excused(m)' <=> excused(m))
      BY DEF Kept, excused
    <2>2. CASE migration'.phase \in Forks
      <3>1. migration' = migration /\ migration.op \in Ops
        BY <1>3, <1>6, <2>2 DEF Forks
      <3>2. CASE fork'[migration.op] = fork[migration.op]
        BY <1>1, <2>1, <3>1, <3>2 DEF kept
      <3>3. CASE fork'[migration.op] # fork[migration.op]
        <4>1. migration.op = op /\ run[a].pc = "forking" /\ fork'[op].read = gens[run[a].src].read
          BY <1>2, <3>1, <3>3
        <4>2. run[a].src = Len(gens)
          BY <1>7, <2>2, <3>1, <4>1 DEF Sourced, holds, Working, InFlight, Fenced, Forks
        <4>3. fork'[migration.op].read = generation.read
          BY <4>1, <4>2 DEF generation, current
        <4> QED
          BY <1>1, <2>1, <3>1, <4>3 DEF kept
      <3> QED
        BY <3>2, <3>3
    <2>3. CASE migration'.phase \notin Forks
      BY <1>1, <2>1, <2>3 DEF kept
    <2> QED
      BY <2>2, <2>3
  <1> QED
    BY <1>2, <1>3, <1>4, <1>9, <1>10, <1>11, <1>12, <1>13, <1>14

LEMMA DoneIs ==
  ASSUME RunsTyped, NEW a \in Runs, done(a), GensTyped, used \in Nat
  PROVE  /\ going(a) /\ run'[a].pc = "idle" /\ \A b \in Runs : b = a \/ run'[b] = run[b]
  <1>1. run = [b \in Runs |-> run[b]]
    BY DEF RunsTyped
  <1>2. PICK r : r = Idle
    OBVIOUS
  <1>3. run' = [run EXCEPT ![a] = r]
    BY <1>2 DEF done
  <1>4. /\ run' = [b \in Runs |-> run'[b]] /\ run'[a] = r
        /\ \A b \in Runs : b # a => run'[b] = run[b]
    BY <1>1, <1>3, RunSet
  <1>5. /\ r = [f \in RunFields |-> r[f]]
        /\ r.pc = "idle" /\ r.op = 0 /\ r.src = 1 /\ r.host = FALSE
    BY <1>2, IdleIs
  <1>6. 1 \in 1 .. Len(gens) /\ 0 \in 0 .. used
    BY LenGens
  <1> QED
    BY <1>4, <1>5, <1>6 DEF worked, going, stepped

LEMMA DoneKeeps ==
  ASSUME IInv, NEW a \in Runs, run[a].pc \notin {"cleaning", "publishing"}, done(a), failing(a), asked(a),
         UNCHANGED <<gens, row, cleanup, hosted, calls, effect, used, flaws>>
  PROVE  IInv'
  <1>1. going(a) /\ run'[a].pc = "idle" /\ \A b \in Runs : b = a \/ run'[b] = run[b]
    BY DoneIs DEF IInv, Typed, Numbered
  <1>2. /\ MigrationTyped' /\ ProviderTyped'
        /\ \A op \in Ops : op > used => journal'[op] = "none" /\ ~fork'[op].made
        /\ Leased' /\ Receipts' /\ Retried' /\ Sourced' /\ Messaged' /\ Kept'
    BY <1>1, EndsWorking
  <1>3. /\ migration'.op = migration.op /\ migration'.intent = migration.intent
        /\ migration'.phase = "none" <=> migration.phase = "none"
    BY GensSame, FailingIs DEF Fenced
  <1>4. worked(a)
    BY <1>1 DEF worked, aside
  <1> QED
    BY <1>1, <1>2, <1>3, <1>4, WorkKeeps

cleaner(op, h) == [Idle EXCEPT !.pc = "cleaning", !.op = op, !.host = h]
LEMMA QueuedIs ==
  ASSUME NEW op, NEW h, NEW r, r = cleaner(op, h)
  PROVE  aRun(r) /\ r.pc = "cleaning" /\ r.op = op /\ r.src = 1 /\ r.host = h
  BY DEF Idle, aRun, RunFields, cleaner

LEMMA FlawsQueued ==
  ASSUME FlawsTyped, NEW r \in BOOLEAN, flaws' = [flaws EXCEPT !.released = @ \/ r]
  PROVE  /\ FlawsTyped' /\ flaws'.takenBack = flaws.takenBack
         /\ flaws'.oldFork = flaws.oldFork /\ flaws'.crossed = flaws.crossed
         /\ (flaws'.released <=> flaws.released \/ r)
  BY DEF FlawsTyped, FlawFields

(* A run discards a successor, and the one it publishes if it does.  The    *)
(* host it did not get registered is released already.                      *)
hostsLeft(a, op, hosts) ==
  /\ at(a, "publishing") => run[a].op = op
  /\ hosts = hosted \/ (hosts = hosted \ {op} /\ publishes(a, op))

LEMMA HostsLeft ==
  ASSUME Owned, NEW a \in Runs, NEW op, NEW hosts, hostsLeft(a, op, hosts)
  PROVE  /\ hosts \subseteq hosted /\ hosted \ {op} \subseteq hosts
         /\ \A b \in others(a) : at(b, "publishing") => run[b].op \in hosts
         /\ op \in hosts \/ hosts = hosted \/ (generation.op = op => flaws.released)
  <1>1. CASE hosts = hosted
    BY <1>1 DEF Owned, others
  <1>2. CASE hosts = hosted \ {op} /\ publishes(a, op)
    <2>1. \A b \in Runs : publishes(b, op) => a = b
      BY <1>2 DEF Owned, publishes
    <2>2. \A b \in others(a) : at(b, "publishing") => run[b].op # op
      BY <2>1 DEF publishes, others
    <2>3. \A b \in others(a) : at(b, "publishing") => run[b].op \in hosts
      BY <1>2, <2>2 DEF Owned, others
    <2>4. generation.op = op => flaws.released
      BY <1>2 DEF Owned, publishes
    <2> QED
      BY <1>2, <2>3, <2>4
  <1> QED
    BY <1>1, <1>2 DEF hostsLeft

LEMMA QueuedHosts ==
  ASSUME Owned, NEW a \in Runs, NEW op, NEW hosts, hostsLeft(a, op, hosts),
         hosted' = IF found(a, op, hosts) THEN hosts \ {op} ELSE hosts
  PROVE  /\ hosted' \subseteq hosted /\ hosted \ {op} \subseteq hosted'
         /\ \A b \in others(a) : at(b, "publishing") => run[b].op \in hosted'
         /\ op \in hosted' => \E b \in others(a) : publishes(b, op)
  <1>1. /\ hosts \subseteq hosted /\ hosted \ {op} \subseteq hosts
        /\ \A b \in others(a) : at(b, "publishing") => run[b].op \in hosts
    BY HostsLeft
  <1>2. CASE found(a, op, hosts)
    <2>1. \A b \in others(a) : at(b, "publishing") => run[b].op # op
      BY <1>2 DEF found, publishes, others
    <2> QED
      BY <1>1, <1>2, <2>1
  <1>3. CASE ~found(a, op, hosts)
    <2>1. op \in hosts => \E b \in others(a) : publishes(b, op)
      BY <1>3 DEF found, others
    <2> QED
      BY <1>1, <1>3, <2>1
  <1> QED
    BY <1>2, <1>3

LEMMA QueuedKeeps ==
  ASSUME IInv, NEW a \in Runs, run[a].pc # "cleaning", failing(a), UNCHANGED <<journal, fork>>,
         NEW op \in 1 .. used, NEW hosts, hostsLeft(a, op, hosts),
         queued(a, op, migration', hosts), ~(migration'.phase = "committed" /\ generation.op = op),
         UNCHANGED <<gens, row, calls, effect, used>>
  PROVE  IInv'
  <1> USE DEF IInv, Typed
  <1>1. GensTyped' /\ Len(gens)' = Len(gens) /\ genOps' = genOps /\ generation' = generation
    BY GensSame
  <1>2. PICK h \in BOOLEAN : h = found(a, op, hosts)
    BY DEF found
  <1>3. /\ cleanup' = cleanup \cup {op} /\ hosted' = IF h THEN hosts \ {op} ELSE hosts
        /\ run' = [run EXCEPT ![a] = cleaner(op, h)]
        /\ flaws' = [flaws EXCEPT
             !.released = @ \/ (generation.op = op /\ migration'.phase # "committed")]
    BY <1>2 DEF queued, cleaner
  <1>4. PICK r : r = cleaner(op, h)
    OBVIOUS
  <1>5. aRun(r) /\ r.pc = "cleaning" /\ r.op = op /\ r.src = 1 /\ r.host = h
    BY <1>4, QueuedIs
  <1>6. /\ run' = [b \in Runs |-> run'[b]] /\ run'[a] = r
        /\ \A b \in Runs : b # a => run'[b] = run[b]
    <2>1. run = [b \in Runs |-> run[b]]
      BY DEF RunsTyped
    <2>2. run' = [run EXCEPT ![a] = r]
      BY <1>3, <1>4
    <2> QED
      BY <2>1, <2>2, RunSet
  <1>7. /\ FlawsTyped' /\ flaws'.takenBack = flaws.takenBack
        /\ flaws'.oldFork = flaws.oldFork /\ flaws'.crossed = flaws.crossed
        /\ (flaws'.released <=> flaws.released
                                \/ (generation.op = op /\ migration'.phase # "committed"))
    <2>1. PICK rel \in BOOLEAN : rel = (generation.op = op /\ migration'.phase # "committed")
      OBVIOUS
    <2>2. flaws' = [flaws EXCEPT !.released = @ \/ rel]
      BY <1>3, <2>1
    <2> QED
      BY <2>1, <2>2, FlawsQueued
  <1>8. run'[a].pc \in {"idle", "cleaning"} /\ \A b \in Runs : b = a \/ run'[b] = run[b]
    BY <1>5, <1>6
  <1>9. asked(a)
    BY DEF asked
  <1>10. /\ MigrationTyped' /\ ProviderTyped'
         /\ \A o \in Ops : o > used => journal'[o] = "none" /\ ~fork'[o].made
         /\ Leased' /\ Receipts' /\ Retried' /\ Sourced' /\ Messaged' /\ Kept'
    BY <1>7, <1>8, <1>9, EndsWorking
  <1>11. /\ migration'.op = migration.op /\ migration'.intent = migration.intent
         /\ migration'.phase = "none" <=> migration.phase = "none"
    BY <1>1, FailingIs DEF Fenced
  <1>12. MessagesTyped'
    BY <1>1, MessagesKept
  <1>13. RunsTyped'
    <2>1. \A b \in Runs :
            /\ run'[b] = [f \in RunFields |-> run'[b][f]]
            /\ run'[b].pc \in Working \cup {"idle", "cleaning"}
            /\ run'[b].src \in 1 .. Len(gens)
            /\ run'[b].host \in BOOLEAN /\ (run'[b].host => run'[b].pc = "cleaning")
      <3> SUFFICES ASSUME NEW b \in Runs
                   PROVE  /\ run'[b] = [f \in RunFields |-> run'[b][f]]
                          /\ run'[b].pc \in Working \cup {"idle", "cleaning"}
                          /\ run'[b].src \in 1 .. Len(gens)
                          /\ run'[b].host \in BOOLEAN /\ (run'[b].host => run'[b].pc = "cleaning")
        OBVIOUS
      <3>1. CASE b = a
        <4>1. 1 \in 1 .. Len(gens)
          BY LenGens
        <4> QED
          BY <1>5, <1>6, <3>1, <4>1 DEF aRun
      <3>2. CASE b # a
        BY <1>6, <3>2 DEF RunsTyped, at
      <3> QED
        BY <3>1, <3>2
    <2> QED
      BY <1>1, <1>6, <2>1 DEF RunsTyped, at
  <1>14. /\ hosted' \subseteq hosted /\ hosted \ {op} \subseteq hosted'
         /\ \A b \in others(a) : at(b, "publishing") => run[b].op \in hosted'
         /\ op \in hosted' => \E b \in others(a) : publishes(b, op)
    <2>1. hosted' = IF found(a, op, hosts) THEN hosts \ {op} ELSE hosts
      BY <1>2, <1>3
    <2> QED
      BY <2>1, QueuedHosts
  <1>15. Numbered'
    <2>1. \A b \in Runs : run'[b].op \in 0 .. used /\ (run'[b].pc # "idle" => run'[b].op # 0)
      BY <1>5, <1>6 DEF Numbered
    <2>2. cleanup' \subseteq 1 .. used /\ hosted' \subseteq 1 .. used
      BY <1>3, <1>14 DEF Numbered
    <2> QED
      BY <1>10, <1>11, <2>1, <2>2 DEF Numbered
  <1>16. CurrentIsHosted'
    BY <1>1, <1>7, <1>14 DEF CurrentIsHosted
  <1>17. Owned'
    <2>1. \A b \in others(a) : run'[b] = run[b]
      BY <1>6 DEF others
    <2>2. \A b \in others(a) : at(b, "publishing") =>
            run[b].op \in hosted' /\ (run[b].op = generation'.op => flaws'.released)
      BY <1>1, <1>7, <1>14 DEF Owned, others
    <2>3. \A o \in hosted' : publishes(a, o) => \E b \in others(a) : publishes(b, o)
      BY <1>14 DEF hostsLeft, publishes
    <2>4. genOps \subseteq genOps' /\ genOps' \subseteq 0 .. used' /\ run'[a].pc # "publishing"
      BY <1>1, <1>5, <1>6 DEF Owned
    <2> HIDE DEF IInv
    <2>5. Owned
      BY DEF IInv
    <2> QED
      BY <1>14, <2>1, <2>2, <2>3, <2>4, <2>5, OwnedLeft
  <1> QED
    BY <1>1, <1>7, <1>10, <1>12, <1>13, <1>15, <1>16, <1>17

(* A successor that became current keeps its host.                          *)
LEMMA SparedKeeps ==
  ASSUME IInv, NEW a \in Runs, run[a].pc # "cleaning", failing(a), UNCHANGED <<journal, fork>>,
         NEW op \in 1 .. used, hostsLeft(a, op, hosted'), generation.op = op,
         cleanup' \in {cleanup, cleanup \ {op}}, done(a),
         UNCHANGED <<gens, row, calls, effect, used, flaws>>
  PROVE  IInv'
  <1> USE DEF IInv, Typed
  <1>1. GensTyped' /\ Len(gens)' = Len(gens) /\ genOps' = genOps /\ generation' = generation
    BY GensSame
  <1>2. /\ going(a) /\ run'[a].pc = "idle" /\ \A b \in Runs : b = a \/ run'[b] = run[b]
    BY DoneIs DEF Numbered
  <1>3. asked(a)
    BY DEF asked
  <1>4. /\ MigrationTyped' /\ ProviderTyped'
        /\ \A o \in Ops : o > used => journal'[o] = "none" /\ ~fork'[o].made
        /\ Leased' /\ Receipts' /\ Retried' /\ Sourced' /\ Messaged' /\ Kept'
    BY <1>2, <1>3, EndsWorking
  <1>5. /\ migration'.op = migration.op /\ migration'.intent = migration.intent
        /\ migration'.phase = "none" <=> migration.phase = "none"
    BY <1>1, FailingIs DEF Fenced
  <1>6. MessagesTyped' /\ FlawsTyped'
    BY <1>1, MessagesKept, FlawsSame
  <1>7. RunsTyped'
    BY <1>1, <1>2, WorkedRuns
  <1>8. /\ hosted' \subseteq hosted /\ hosted \ {op} \subseteq hosted'
        /\ \A b \in others(a) : at(b, "publishing") => run[b].op \in hosted'
        /\ op \in hosted' \/ hosted' = hosted \/ (generation.op = op => flaws.released)
    <2>1. PICK hosts : hosts = hosted'
      OBVIOUS
    <2>2. hostsLeft(a, op, hosts)
      BY <2>1 DEF hostsLeft
    <2> QED
      BY <2>1, <2>2, HostsLeft
  <1>9. Numbered'
    <2>1. \A b \in Runs : run'[b].op \in 0 .. used /\ (run'[b].pc # "idle" => run'[b].op # 0)
      BY <1>2 DEF Numbered, going, stepped
    <2>2. cleanup' \subseteq 1 .. used /\ hosted' \subseteq 1 .. used
      BY <1>8 DEF Numbered
    <2> QED
      BY <1>4, <1>5, <2>1, <2>2 DEF Numbered
  <1>10. CurrentIsHosted'
    BY <1>1, <1>8 DEF CurrentIsHosted
  <1>11. op \in genOps
    <2>1. Len(gens) \in 1 .. Len(gens)
      BY LenGens
    <2> QED
      BY <2>1 DEF genOps, generation, current
  <1>12. Owned'
    <2>1. \A b \in others(a) : run'[b] = run[b]
      BY <1>2 DEF others
    <2>2. \A b \in others(a) : at(b, "publishing") =>
            run[b].op \in hosted' /\ (run[b].op = generation'.op => flaws'.released)
      BY <1>1, <1>8 DEF Owned, others
    <2>3. \A o \in hosted' : publishes(a, o) => o \in genOps'
      BY <1>1, <1>11 DEF hostsLeft, publishes
    <2>4. genOps \subseteq genOps' /\ genOps' \subseteq 0 .. used' /\ run'[a].pc # "publishing"
      BY <1>1, <1>2 DEF Owned
    <2>5. Owned
      OBVIOUS
    <2> HIDE DEF IInv
    <2> QED
      BY <1>8, <2>1, <2>2, <2>3, <2>4, <2>5, OwnedLeft
  <1> QED
    BY <1>1, <1>4, <1>6, <1>7, <1>9, <1>10, <1>12

LEMMA DiscardKeeps ==
  ASSUME IInv, NEW a \in Runs, run[a].pc # "cleaning", failing(a), UNCHANGED <<journal, fork>>,
         NEW op \in 1 .. used, NEW hosts, hostsLeft(a, op, hosts),
         discard(a, op, migration', hosts),
         UNCHANGED <<gens, row, calls, effect, used>>
  PROVE  IInv'
  <1>1. CASE migration'.phase = "committed" /\ generation.op = op
    <2>1. cleanup' = cleanup \ {op} /\ hosted' = hosts /\ done(a) /\ UNCHANGED flaws
      BY <1>1 DEF discard
    <2>2. hostsLeft(a, op, hosted') /\ cleanup' \in {cleanup, cleanup \ {op}}
      BY <2>1 DEF hostsLeft
    <2> HIDE DEF IInv
    <2> QED
      BY <1>1, <2>1, <2>2, SparedKeeps
  <1>2. CASE ~(migration'.phase = "committed" /\ generation.op = op)
    <2>1. queued(a, op, migration', hosts)
      BY <1>2 DEF discard
    <2> QED
      BY <1>2, <2>1, QueuedKeeps
  <1> QED
    BY <1>1, <1>2

LEMMA FailsIs ==
  ASSUME NEW a \in Runs, NEW receipt, NEW u \in BOOLEAN, NEW hosts,
         failsWith(a, receipt, u, hosts),
         u => /\ journal'[run[a].op] = "requested"
              /\ \A b \in Runs : forker(b) /\ run[b].op = run[a].op => b = a
  PROVE  /\ failing(a)
         /\ \/ /\ receipt = 0 \/ (~superseded(a, receipt) /\ migration.phase \notin Fenced)
               /\ done(a) /\ hosted' = hosts /\ UNCHANGED <<cleanup, flaws>>
            \/ receipt # 0 /\ discard(a, receipt, migration', hosts)
  <1> DEFINE failed == [migration EXCEPT !.phase = "failed-recoverable", !.unknown = u]
             latest == IF superseded(a, receipt) \/ migration.phase \notin Fenced
                       THEN migration ELSE failed
  <1>1. /\ migration' = latest
        /\ IF receipt = 0 \/ (~superseded(a, receipt) /\ migration.phase \notin Fenced)
           THEN done(a) /\ hosted' = hosts /\ UNCHANGED <<cleanup, flaws>>
           ELSE discard(a, receipt, latest, hosts)
    BY DEF failsWith
  <1>2. failing(a)
    <2>1. CASE superseded(a, receipt) \/ migration.phase \notin Fenced
      BY <1>1, <2>1 DEF failing
    <2>2. CASE ~superseded(a, receipt) /\ migration.phase \in Fenced
      <3>1. migration' = failed /\ migration.op = run[a].op
        BY <1>1, <2>2 DEF superseded
      <3> QED
        BY <2>2, <3>1 DEF failing
    <2> QED
      BY <2>1, <2>2
  <1> HIDE DEF latest
  <1>3. \/ /\ receipt = 0 \/ (~superseded(a, receipt) /\ migration.phase \notin Fenced)
           /\ done(a) /\ hosted' = hosts /\ UNCHANGED <<cleanup, flaws>>
        \/ receipt # 0 /\ discard(a, receipt, migration', hosts)
    BY <1>1
  <1> QED
    BY <1>2, <1>3

(* An advance that holds no receipt gives up.                               *)
LEMMA FailsKeeps ==
  ASSUME IInv, NEW a \in Runs, run[a].pc \in Working \ {"publishing"}, NEW u \in BOOLEAN,
         fails(a, 0, u),
         u => /\ journal'[run[a].op] = "requested"
              /\ \A b \in Runs : forker(b) /\ run[b].op = run[a].op => b = a,
         asked(a), UNCHANGED <<gens, row, calls, effect, used>>
  PROVE  IInv'
  <1>1. failing(a) /\ done(a) /\ hosted' = hosted /\ UNCHANGED <<cleanup, flaws>>
    <2>1. failsWith(a, 0, u, hosted)
      BY DEF fails
    <2> QED
      BY <2>1, FailsIs
  <1>2. run[a].pc \notin {"cleaning", "publishing"}
    BY DEF Working
  <1> QED
    BY <1>1, <1>2, DoneKeeps

LEMMA EarlyFailuresKeep ==
  ASSUME IInv, NEW a \in Runs,
         ForkUnknown(a) \/ LeaseTimesOut(a) \/ ForkRefused(a) \/ ForkAnswerLost(a) \/ ResumeFails(a)
  PROVE  IInv'
  <1>1. CASE ForkUnknown(a)
    <2>1. /\ run[a].pc \in Working \ {"publishing"} /\ journal'[run[a].op] = "requested"
          /\ \A b \in Runs : forker(b) /\ run[b].op = run[a].op => b = a
      BY <1>1 DEF ForkUnknown, leased, forker, at, Working
    <2>2. fails(a, 0, TRUE) /\ asked(a) /\ UNCHANGED <<gens, row, calls, effect, used>>
      BY <1>1 DEF ForkUnknown, asked, unfailed
    <2>3. PICK u \in BOOLEAN : u = TRUE
      OBVIOUS
    <2>4. fails(a, 0, u)
      BY <2>2, <2>3
    <2> QED
      BY <2>1, <2>2, <2>4, FailsKeeps
  <1>2. CASE LeaseTimesOut(a) \/ ForkRefused(a) \/ ResumeFails(a)
    <2>1. run[a].pc \in Working \ {"publishing"} /\ fails(a, 0, FALSE)
      BY <1>2 DEF LeaseTimesOut, ForkRefused, ResumeFails, at, Working
    <2>2. asked(a) /\ UNCHANGED <<gens, row, calls, effect, used>>
      BY <1>2 DEF LeaseTimesOut, ForkRefused, ResumeFails, asked, unfailed, at
    <2>3. PICK u \in BOOLEAN : u = FALSE
      OBVIOUS
    <2>4. fails(a, 0, u)
      BY <2>1, <2>3
    <2> QED
      BY <2>1, <2>2, <2>3, <2>4, FailsKeeps
  <1>3. CASE ForkAnswerLost(a)
    <2>1. run[a].pc = "forking" /\ UNCHANGED journal /\ fork' \in {fork, forked(a)}
          /\ fails(a, 0, TRUE) /\ UNCHANGED <<gens, row, calls, effect, used>>
      BY <1>3 DEF ForkAnswerLost, unfailed, at
    <2>2. asked(a) /\ run[a].pc \in Working \ {"publishing"}
      BY <2>1 DEF asked, Working
    <2>3. /\ journal'[run[a].op] = "requested"
          /\ \A b \in Runs : forker(b) /\ run[b].op = run[a].op => b = a
      BY <2>1 DEF IInv, Leased, forker, at
    <2>4. PICK u \in BOOLEAN : u = TRUE
      OBVIOUS
    <2>5. fails(a, 0, u)
      BY <2>1, <2>4
    <2> QED
      BY <2>1, <2>2, <2>3, <2>5, FailsKeeps
  <1> QED
    BY <1>1, <1>2, <1>3

(* An advance that holds a receipt gives up.                                *)
LEMMA LateFailureKeeps ==
  ASSUME IInv, NEW a \in Runs, run[a].pc \in Working, NEW hosts,
         hosts = hosted \/ (hosts = hosted \ {run[a].op} /\ at(a, "publishing")),
         failsWith(a, run[a].op, FALSE, hosts), UNCHANGED <<journal, fork>>,
         UNCHANGED <<gens, row, calls, effect, used>>
  PROVE  IInv'
  <1> DEFINE op == run[a].op
  <1>1. op \in 1 .. used /\ op # 0 /\ run[a].pc # "cleaning"
    BY DEF IInv, Numbered, Working
  <1>2. PICK u \in BOOLEAN : u = FALSE
    OBVIOUS
  <1>3. failsWith(a, op, u, hosts)
    BY <1>2
  <1>4. /\ failing(a)
        /\ \/ /\ ~superseded(a, op) /\ migration.phase \notin Fenced
              /\ done(a) /\ hosted' = hosts /\ UNCHANGED <<cleanup, flaws>>
           \/ discard(a, op, migration', hosts)
    BY <1>1, <1>2, <1>3, FailsIs
  <1>5. hostsLeft(a, op, hosts)
    BY DEF hostsLeft, publishes
  <1>6. CASE discard(a, op, migration', hosts)
    <2> HIDE DEF op
    <2> QED
      BY <1>1, <1>4, <1>5, <1>6, DiscardKeeps
  <1>7. CASE /\ ~superseded(a, op) /\ migration.phase \notin Fenced
             /\ done(a) /\ hosted' = hosts /\ UNCHANGED <<cleanup, flaws>>
    <2>1. /\ migration.phase \notin Ended \cup Fenced /\ migration.phase \in InFlight
          /\ migration.op = op
      BY <1>7 DEF superseded, IInv, Typed, MigrationTyped
    <2>2. migration.receipt = 0
      BY <2>1 DEF IInv, Receipts, Fenced
    <2>3. run[a].pc # "publishing"
      BY <1>1, <2>1, <2>2 DEF IInv, Receipts, verifier
    <2>4. hosted' = hosted /\ asked(a)
      BY <1>7, <2>3 DEF asked, at
    <2> QED
      BY <1>1, <1>4, <1>7, <2>3, <2>4, DoneKeeps
  <1> QED
    BY <1>4, <1>6, <1>7

LEMMA PersistKeeps ==
  ASSUME IInv, NEW a \in Runs, PersistReceipt(a)
  PROVE  IInv'
  <1> DEFINE op == run[a].op
             mine == migration.rev = run[a].rev /\ migration.op = op
             known == migration.phase \in {"verifying", "committed"} /\ migration.receipt = op
  <1>1. /\ run[a].pc = "resuming" /\ UNCHANGED <<gens, row, calls, effect, used, journal, fork>>
        /\ IF mine /\ (migration.phase = "successor-starting" \/ known)
           THEN /\ migration' = IF known THEN migration
                                ELSE [migration EXCEPT !.phase = "verifying", !.receipt = op]
                /\ goto(a, "verifying") /\ UNCHANGED <<cleanup, hosted, flaws>>
           ELSE fails(a, op, FALSE)
    BY DEF PersistReceipt, at, unfailed
  <1>2. CASE mine /\ (migration.phase = "successor-starting" \/ known)
    <2>1. /\ goto(a, "verifying") /\ UNCHANGED <<cleanup, provider, flaws>>
          /\ migration.op = op
      BY <1>1, <1>2 DEF provider
    <2>2. \/ /\ migration.phase = "successor-starting"
             /\ migration' = [migration EXCEPT !.phase = "verifying", !.receipt = op]
          \/ /\ migration.phase \in {"verifying", "committed"} /\ migration.receipt = op
             /\ UNCHANGED migration
      BY <1>1, <1>2
    <2> HIDE DEF mine, known
    <2> QED
      BY <1>1, <2>1, <2>2, ReceiptKeeps
  <1>3. CASE ~(mine /\ (migration.phase = "successor-starting" \/ known))
    <2>1. failsWith(a, run[a].op, FALSE, hosted)
      BY <1>1, <1>3 DEF fails
    <2>2. run[a].pc \in Working
      BY <1>1 DEF Working
    <2>3. PICK hosts : hosts = hosted
      OBVIOUS
    <2>4. failsWith(a, run[a].op, FALSE, hosts)
      BY <2>1, <2>3
    <2> HIDE DEF mine, known
    <2> QED
      BY <1>1, <2>2, <2>3, <2>4, LateFailureKeeps
  <1> QED
    BY <1>2, <1>3

LEMMA LateFailuresKeep ==
  ASSUME IInv, NEW a \in Runs, VerificationFails(a) \/ ClaimRefused(a) \/ PublicationFails(a)
  PROVE  IInv'
  <1>1. run[a].pc \in Working /\ UNCHANGED <<gens, row, calls, effect, used, journal, fork>>
    BY DEF VerificationFails, ClaimRefused, PublicationFails, unfailed, at, Working
  <1>2. PICK hosts : /\ hosts = hosted \/ (hosts = hosted \ {run[a].op} /\ at(a, "publishing"))
                     /\ failsWith(a, run[a].op, FALSE, hosts)
    BY DEF VerificationFails, ClaimRefused, PublicationFails, fails
  <1> QED
    BY <1>1, <1>2, LateFailureKeeps

(* A host is started where there was none, so nobody publishes it yet.      *)
LEMMA PublishKeeps ==
  ASSUME IInv, NEW a \in Runs, PublishHost(a)
  PROVE  IInv'
  <1> USE DEF IInv, Typed
  <1> DEFINE op == run[a].op
  <1>1. /\ run[a].pc = "verifying" /\ op \notin hosted /\ hosted' = hosted \cup {op}
        /\ goto(a, "publishing")
        /\ UNCHANGED <<migration, gens, row, cleanup, journal, fork, calls, effect, used, flaws>>
    BY DEF PublishHost, at, registry
  <1>2. /\ run' = [b \in Runs |-> run'[b]]
        /\ run'[a] = [f \in RunFields |-> run'[a][f]]
        /\ run'[a].pc = "publishing" /\ run'[a].op = op /\ run'[a].src = run[a].src
        /\ run'[a].host = run[a].host
        /\ \A b \in Runs : b # a => run'[b] = run[b]
    BY <1>1, Moves
  <1>3. op \in 1 .. used /\ run[a].host = FALSE
    BY <1>1 DEF Numbered, RunsTyped, at
  <1> HIDE DEF op
  <1>4. \A b \in Runs : b = a \/ run'[b] = run[b]
    BY <1>2
  <1>5. GensTyped' /\ Len(gens)' = Len(gens) /\ genOps' = genOps /\ generation' = generation
    BY <1>1, GensSame
  <1>6. FlawsTyped' /\ MessagesTyped'
    BY <1>1, <1>5, FlawsSame, MessagesKept
  <1>7. going(a)
    BY <1>2, <1>3 DEF going, stepped, Working, RunsTyped
  <1>8. RunsTyped'
    BY <1>5, <1>7, WorkedRuns
  <1>9. MigrationTyped' /\ ProviderTyped'
    BY <1>1, <1>5 DEF MigrationTyped, ProviderTyped
  <1>10. Numbered'
    BY <1>1, <1>2, <1>3, <1>4 DEF Numbered
  <1>11. Leased'
    BY <1>1, <1>2, <1>4 DEF Leased, forker, at, op
  <1>12. Receipts'
    BY <1>1, <1>2, <1>4 DEF Receipts, verifier, op
  <1>13. Retried' /\ Sourced'
    <2>1. \A b \in Runs, o \in {migration.op} : holds(b, o)' <=> holds(b, o)
      BY <1>1, <1>2, <1>4 DEF holds, Working, op
    <2>2. \A b \in Runs : at(b, "forking")' => at(b, "forking") /\ run'[b] = run[b]
      BY <1>2, <1>4 DEF at
    <2>3. Retried'
      BY <1>1, <2>1, <2>2 DEF Retried, forking
    <2>4. Sourced'
      BY <1>1, <1>2, <1>4, <1>5, <2>1 DEF Sourced
    <2> QED
      BY <2>3, <2>4
  <1>14. Messaged' /\ Kept'
    BY <1>1, <1>5, MessagedKept, FlawsSame DEF Kept, kept
  <1>15. CurrentIsHosted'
    BY <1>1, <1>5, CurrentKept
  <1>16. \A b \in Runs : ~publishes(b, op)
    BY <1>1 DEF Owned, publishes
  <1>17. Owned'
    <2>1. \A o \in hosted' : o \in genOps' \/ published(o)'
      <3> SUFFICES ASSUME NEW o \in hosted', o \notin genOps'
                   PROVE  published(o)'
        OBVIOUS
      <3>1. CASE o = op
        BY <1>2, <3>1 DEF published, publishes, at
      <3>2. CASE o # op
        <4>1. PICK b \in Runs : publishes(b, o)
          BY <1>1, <1>5, <3>2 DEF Owned, published
        <4>2. b # a /\ run'[b] = run[b]
          BY <1>1, <1>4, <4>1 DEF publishes, at
        <4> QED
          BY <4>1, <4>2 DEF published, publishes, at
      <3> QED
        BY <3>1, <3>2
    <2>2. ASSUME NEW b \in Runs, run'[b].pc = "publishing"
          PROVE  /\ run'[b].op \in hosted'
                 /\ \A c \in Runs : publishes(c, run[b].op)' => b = c
                 /\ run'[b].op = generation'.op => flaws'.released
      <3>1. CASE b = a
        <4>1. op = generation.op => flaws.released
          BY <1>1, <1>3 DEF CurrentIsHosted
        <4>2. \A c \in Runs : publishes(c, run[b].op)' => a = c
          BY <1>2, <1>4, <1>16, <3>1 DEF publishes, at
        <4> QED
          BY <1>1, <1>2, <1>5, <3>1, <4>1, <4>2
      <3>2. CASE b # a
        <4>1. run'[b] = run[b] /\ at(b, "publishing") /\ run[b].op # op
          BY <1>4, <1>16, <2>2, <3>2 DEF at, publishes
        <4>2. \A c \in Runs : publishes(c, run[b].op)' => publishes(c, run[b].op)
          BY <1>2, <1>4, <4>1 DEF publishes, at
        <4> QED
          BY <1>1, <1>5, <4>1, <4>2 DEF Owned
      <3> QED
        BY <3>1, <3>2
    <2>3. (\A b \in Runs : at(b, "publishing") =>
             /\ run[b].op \in hosted
             /\ \A c \in Runs : publishes(c, run[b].op) => b = c
             /\ run[b].op = generation.op => flaws.released)'
      BY <2>2 DEF at
    <2>4. genOps' \subseteq 0 .. used'
      BY <1>1, <1>5 DEF Owned
    <2> QED
      BY <2>1, <2>3, <2>4 DEF Owned
  <1> QED
    BY <1>5, <1>6, <1>8, <1>9, <1>10, <1>11, <1>12, <1>13, <1>14, <1>15, <1>17

LEMMA ReconcileKeeps ==
  ASSUME IInv, NEW a \in Runs, ReconcileCleanup(a)
  PROVE  IInv'
  <1>1. PICK op \in cleanup : discard(a, op, migration, hosted)
    BY DEF ReconcileCleanup
  <1>2. op \in 1 .. used
    BY DEF IInv, Numbered
  <1>3. /\ run[a].pc # "cleaning" /\ UNCHANGED <<gens, row, calls, effect, used, journal, fork>>
        /\ UNCHANGED migration
    BY DEF ReconcileCleanup, free, at, unfailed
  <1>4. PICK hosts : hosts = hosted
    OBVIOUS
  <1>5. discard(a, op, migration', hosts) /\ failing(a)
    BY <1>1, <1>3, <1>4 DEF failing
  <1>6. hostsLeft(a, op, hosts)
    BY <1>4 DEF ReconcileCleanup, free, at, hostsLeft
  <1> QED
    BY <1>2, <1>3, <1>5, <1>6, DiscardKeeps

---------------------------------------------------------------------------
(* A successor is committed.                                                *)
LEMMA HeldAssigned ==
  ASSUME MessagesTyped, Len(gens) \in Nat, row' = assignHeld(current + 1),
         Len(gens)' = Len(gens) + 1, UNCHANGED <<effect, calls>>
  PROVE  /\ MessagesTyped'
         /\ \A m \in Messages :
              \/ row'[m].state = row[m].state
              \/ row[m].state # "uncertain" /\ row'[m].state \in {"held", "assigned"}
  <1> DEFINE n == Len(gens)
  <1>1. row' = [m \in Messages |-> IF row[m].state = "held"
                                   THEN [state |-> "assigned", gen |-> n + 1] ELSE row[m]]
    BY DEF assignHeld, current
  <1>2. n + 1 \in 0 .. n + 1 /\ 0 .. n \subseteq 0 .. n + 1
    OBVIOUS
  <1>3. Len(gens)' = n + 1 /\ n = Len(gens)
    OBVIOUS
  <1> HIDE DEF n
  <1>4. row \in [Messages -> [state : States, gen : 0 .. n]]
    BY <1>3 DEF MessagesTyped, States
  <1>5. \A m \in Messages : row'[m] \in [state : States, gen : 0 .. n + 1]
    <2> SUFFICES ASSUME NEW m \in Messages
                 PROVE  row'[m] \in [state : States, gen : 0 .. n + 1]
      OBVIOUS
    <2>1. row[m] \in [state : States, gen : 0 .. n + 1]
      BY <1>2, <1>4
    <2>2. [state |-> "assigned", gen |-> n + 1] \in [state : States, gen : 0 .. n + 1]
      BY <1>2 DEF States
    <2> QED
      BY <1>1, <2>1, <2>2
  <1>6. row' \in [Messages -> [state : States, gen : 0 .. n + 1]]
    BY <1>1, <1>5
  <1>7. \A m \in Messages :
          row'[m] = IF row[m].state = "held" THEN [state |-> "assigned", gen |-> n + 1] ELSE row[m]
    BY <1>1
  <1>8. \A m \in Messages :
          \/ row'[m].state = row[m].state
          \/ row[m].state # "uncertain" /\ row'[m].state \in {"held", "assigned"}
    BY <1>7
  <1>9. MessagesTyped'
    BY <1>3, <1>6 DEF MessagesTyped, States
  <1> QED
    BY <1>8, <1>9

LEMMA FlawsCrossed ==
  ASSUME FlawsTyped, NEW c \in BOOLEAN, flaws' = [flaws EXCEPT !.crossed = @ \/ c]
  PROVE  /\ FlawsTyped' /\ flaws'.takenBack = flaws.takenBack
         /\ flaws'.oldFork = flaws.oldFork /\ (flaws'.crossed <=> flaws.crossed \/ c)
         /\ flaws'.released = flaws.released
  BY DEF FlawsTyped, FlawFields

successor(op, acct, read) == [op |-> op, acct |-> acct, read |-> read]
LEMMA SuccessorIs ==
  ASSUME NEW op, NEW acct, NEW read, NEW x, x = successor(op, acct, read)
  PROVE  aGeneration(x) /\ x.op = op /\ x.read = read
  BY DEF successor, aGeneration

LEMMA CommitsKeeps ==
  ASSUME IInv, NEW a \in Runs, verifier(a), run[a].op \in hosted,
         \A b \in others(a) : ~publishes(b, run[a].op), commits(a),
         UNCHANGED <<journal, fork, calls, effect, used>>
  PROVE  IInv'
  <1> USE DEF IInv, Typed
  <1> DEFINE op == run[a].op
             read == fork[op].read
             n == Len(gens)
  <1>1. /\ migration.rev = run[a].rev /\ migration.phase = "verifying"
        /\ gens' = Append(gens, [op |-> op, acct |-> run[a].target, read |-> read])
        /\ migration' = [migration EXCEPT !.phase = "committed"]
        /\ row' = assignHeld(current + 1) /\ done(a)
        /\ flaws' = [flaws EXCEPT !.crossed = @ \/ migration.op # op]
        /\ UNCHANGED <<cleanup, hosted>>
    BY DEF commits
  <1>2. op \in 1 .. used /\ op \in Ops /\ journal[op] = "recorded" /\ fork[op].made
    BY MigrationAssumption DEF Numbered, Ops, Leased, verifier
  <1>3. n \in Nat
    BY LenGens
  <1>4. PICK x : x = successor(op, run[a].target, read)
    OBVIOUS
  <1>5. gens' = appendTo(gens, x)
    BY <1>1, <1>4 DEF appendTo, successor
  <1>6. aGeneration(x) /\ x.op = op /\ x.read = read
    BY <1>4, SuccessorIs
  <1>7. /\ GensTyped' /\ Len(gens)' = Len(gens) + 1 /\ genOps' = genOps \cup {op}
        /\ generation'.op = op /\ generation'.read = read
    BY <1>5, <1>6, GensAppend
  <1>8. /\ migration' = [f \in MigrationFields |-> migration'[f]]
        /\ migration'.phase = "committed" /\ migration'.op = migration.op
        /\ migration'.src = migration.src /\ migration'.receipt = migration.receipt
        /\ migration'.unknown = migration.unknown
    BY <1>1, Phased
  <1>9. 1 .. n \subseteq 1 .. n + 1
    BY <1>3
  <1>10. MigrationTyped'
    BY <1>7, <1>8, <1>9 DEF MigrationTyped, Ended
  <1>11. going(a) /\ run'[a].pc = "idle" /\ \A b \in Runs : b = a \/ run'[b] = run[b]
    BY <1>1, DoneIs DEF Numbered
  <1>12. RunsTyped'
    <2>1. Len(gens)' \in Nat /\ Len(gens) <= Len(gens)'
      BY <1>3, <1>7
    <2> QED
      BY <1>3, <1>11, <2>1, WorkedTyped
  <1>13. /\ MessagesTyped'
         /\ \A m \in Messages :
              \/ row'[m].state = row[m].state
              \/ row[m].state # "uncertain" /\ row'[m].state \in {"held", "assigned"}
    BY <1>1, <1>3, <1>7, HeldAssigned
  <1>14. /\ FlawsTyped' /\ flaws'.takenBack = flaws.takenBack
         /\ flaws'.oldFork = flaws.oldFork
         /\ (flaws'.crossed <=> flaws.crossed \/ migration.op # op)
         /\ flaws'.released = flaws.released
    <2>1. PICK c \in BOOLEAN : c = (migration.op # op)
      OBVIOUS
    <2>2. flaws' = [flaws EXCEPT !.crossed = @ \/ c]
      BY <1>1, <2>1
    <2> QED
      BY <2>1, <2>2, FlawsCrossed
  <1> HIDE DEF op, read, n
  <1>15. ProviderTyped'
    BY DEF ProviderTyped
  <1>16. Numbered'
    <2>1. \A b \in Runs : run'[b].op \in 0 .. used /\ (run'[b].pc # "idle" => run'[b].op # 0)
      BY <1>11 DEF Numbered, going, stepped
    <2>2. cleanup' \subseteq 1 .. used /\ hosted' \subseteq 1 .. used
      BY <1>1, <1>2 DEF Numbered
    <2>3. migration'.op \in 0 .. used /\ migration'.op # 0 /\ migration'.phase # "none"
      BY <1>1, <1>8 DEF Numbered
    <2> QED
      BY <2>1, <2>2, <2>3 DEF Numbered
  <1>17. Leased'
    BY <1>11 DEF Leased, forker, at
  <1>18. Receipts'
    BY <1>8, <1>11 DEF Receipts, verifier, Ended
  <1>19. Retried' /\ Sourced'
    BY <1>8 DEF Retried, Sourced, InFlight, Fenced
  <1>20. Messaged'
    <2>1. migration'.phase \notin Forks
      BY <1>8 DEF Forks
    <2> QED
      BY <1>13, <1>14, <2>1, MessagedKept
  <1>21. Kept'
    <2> SUFFICES ASSUME NEW m \in Messages
                 PROVE  kept(m)'
      BY DEF Kept
    <2>1. kept(m) /\ (excused(m) => excused(m)') /\ migration'.phase \notin Forks
      BY <1>8, <1>14 DEF Kept, excused, Forks
    <2>2. CASE migration.op # op
      BY <1>14, <2>2 DEF kept, excused
    <2>3. CASE migration.op = op
      <3>1. effect[m] = "delivered" /\ ~excused(m) => m \in read
        BY <1>1, <1>2, <2>1, <2>3 DEF kept, Forks, read
      <3> QED
        BY <1>7, <2>1, <3>1 DEF kept
    <2> QED
      BY <2>2, <2>3
  <1>22. op \in hosted /\ (\A b \in others(a) : ~publishes(b, op)) /\ verifier(a)
    BY DEF op
  <1>23. CurrentIsHosted'
    BY <1>1, <1>7, <1>22 DEF CurrentIsHosted
  <1>24. Owned'
    <2>1. \A b \in others(a) : run'[b] = run[b]
      BY <1>11 DEF others
    <2>2. \A b \in others(a) : at(b, "publishing") =>
            run[b].op \in hosted' /\ (run[b].op = generation'.op => flaws'.released)
      BY <1>1, <1>7, <1>22 DEF Owned, others, publishes
    <2>3. \A o \in hosted' : publishes(a, o) => o \in genOps'
      BY <1>7 DEF publishes, op
    <2>4. genOps \subseteq genOps' /\ genOps' \subseteq 0 .. used' /\ run'[a].pc # "publishing"
      BY <1>2, <1>7, <1>11 DEF Owned
    <2>5. Owned /\ hosted' \subseteq hosted
      BY <1>1
    <2> HIDE DEF IInv
    <2> QED
      BY <2>1, <2>2, <2>3, <2>4, <2>5, OwnedLeft
  <1> QED
    BY <1>7, <1>10, <1>12, <1>13, <1>14, <1>15, <1>16, <1>17, <1>18, <1>19, <1>20, <1>21, <1>23,
       <1>24

LEMMA CommitKeeps ==
  ASSUME IInv, NEW a \in Runs, CommitSuccessor(a)
  PROVE  IInv'
  <1>1. verifier(a) /\ UNCHANGED <<journal, fork, calls, effect, used>>
    BY DEF CommitSuccessor, at, verifier
  <1>2. run[a].op \in 1 .. used /\ run[a].op # 0 /\ run[a].pc \in Working /\ run[a].pc # "cleaning"
    BY <1>1 DEF IInv, Numbered, Working, verifier
  <1>3. run[a].op \in hosted /\ \A b \in others(a) : ~publishes(b, run[a].op)
    <2>1. CASE at(a, "publishing")
      BY <2>1 DEF IInv, Owned, others
    <2>2. CASE registered(a)
      BY <2>2 DEF registered, found, others
    <2> QED
      BY <2>1, <2>2 DEF CommitSuccessor
  <1>4. CASE commits(a)
    BY <1>1, <1>3, <1>4, CommitsKeeps
  <1>5. CASE /\ committed(a) /\ done(a)
             /\ UNCHANGED <<gens, migration, row, busy, cleanup, hosted, flaws>>
    <2>1. generation.op = run[a].op /\ failing(a)
      BY <1>5 DEF committed, failing
    <2>2. PICK op \in 1 .. used : op = run[a].op
      BY <1>2
    <2>3. hostsLeft(a, op, hosted')
      BY <1>5, <2>2 DEF hostsLeft
    <2>4. /\ generation.op = op /\ cleanup' \in {cleanup, cleanup \ {op}} /\ done(a)
          /\ UNCHANGED <<gens, row, calls, effect, used, flaws>> /\ UNCHANGED <<journal, fork>>
      BY <1>1, <1>5, <2>1, <2>2
    <2> QED
      BY <1>2, <2>1, <2>3, <2>4, SparedKeeps
  <1>6. CASE fails(a, run[a].op, FALSE) /\ UNCHANGED <<gens, row, busy>>
    <2>1. PICK hosts : hosts = hosted
      OBVIOUS
    <2>2. failsWith(a, run[a].op, FALSE, hosts)
      BY <1>6, <2>1 DEF fails
    <2>3. UNCHANGED <<gens, row, calls, effect, used>> /\ UNCHANGED <<journal, fork>>
      BY <1>1, <1>6
    <2> QED
      BY <1>2, <2>1, <2>2, <2>3, LateFailureKeeps
  <1> QED
    BY <1>4, <1>5, <1>6 DEF CommitSuccessor

---------------------------------------------------------------------------
(* The end of a cleanup.                                                    *)
LEMMA CleanupEnds ==
  ASSUME IInv, NEW a \in Runs, at(a, "cleaning"), done(a),
         cleanup' \in {cleanup, cleanup \ {run[a].op}},
         UNCHANGED <<migration, gens, row, journal, fork, hosted, calls, effect, used, flaws>>
  PROVE  IInv'
  <1> USE DEF IInv, Typed
  <1>1. GensTyped' /\ Len(gens)' = Len(gens) /\ genOps' = genOps /\ generation' = generation
    BY GensSame
  <1>2. going(a) /\ run'[a].pc = "idle" /\ \A b \in Runs : b = a \/ run'[b] = run[b]
    BY DoneIs DEF Numbered
  <1>3. asked(a) /\ failing(a)
    BY DEF asked, failing
  <1>4. /\ MigrationTyped' /\ ProviderTyped'
        /\ \A o \in Ops : o > used => journal'[o] = "none" /\ ~fork'[o].made
        /\ Leased' /\ Receipts' /\ Retried' /\ Sourced' /\ Messaged' /\ Kept'
    BY <1>2, <1>3, EndsWorking
  <1>5. MessagesTyped' /\ FlawsTyped'
    BY <1>1, MessagesKept, FlawsSame
  <1>6. RunsTyped'
    <2>1. Len(gens) \in Nat /\ Len(gens)' \in Nat /\ Len(gens) <= Len(gens)'
      BY <1>1, LenGens
    <2> QED
      BY <1>2, <2>1, WorkedTyped
  <1>7. run[a].op \in 1 .. used
    BY DEF Numbered, at
  <1>8. Numbered'
    <2>1. \A b \in Runs : run'[b].op \in 0 .. used /\ (run'[b].pc # "idle" => run'[b].op # 0)
      BY <1>2 DEF Numbered, going, stepped
    <2>2. cleanup' \subseteq 1 .. used /\ hosted' \subseteq 1 .. used
      BY <1>7 DEF Numbered
    <2> QED
      BY <1>4, <2>1, <2>2 DEF Numbered
  <1>9. CurrentIsHosted'
    BY <1>1, CurrentKept
  <1>10. Owned'
    <2>1. \A b \in Runs : run'[b] = run[b] \/ aside(b)
      BY <1>2 DEF aside, at
    <2> QED
      BY <1>1, <2>1, OwnedKept
  <1> QED
    BY <1>1, <1>4, <1>5, <1>6, <1>8, <1>9, <1>10

LEMMA CleaningKeeps ==
  ASSUME IInv, NEW a \in Runs, Cleaned(a) \/ CleanupFails(a)
  PROVE  IInv'
  <1>1. at(a, "cleaning") /\ done(a)
    BY DEF Cleaned, CleanupFails
  <1>2. /\ cleanup' \in {cleanup, cleanup \ {run[a].op}}
        /\ UNCHANGED <<migration, gens, row, journal, fork, hosted, calls, effect, used, flaws>>
    BY DEF Cleaned, CleanupFails, unfailed, provider, registry
  <1> QED
    BY <1>1, <1>2, CleanupEnds

---------------------------------------------------------------------------
(* What a restart leaves of the forks under way.                            *)
LEMMA ForksAdopted ==
  ASSUME IInv, NEW made \in SUBSET {a \in Runs : at(a, "forking")},
         fork' = [op \in Ops |-> IF \E a \in made : run[a].op = op
                                 THEN forked(CHOOSE a \in made : run[a].op = op)[op] ELSE fork[op]]
  PROVE  /\ fork' = [op \in Ops |-> fork'[op]]
         /\ \A op \in Ops :
              \/ fork'[op] = fork[op]
              \/ \E c \in Runs :
                   /\ run[c].pc = "forking" /\ run[c].op = op
                   /\ fork'[op].made = TRUE /\ fork'[op].read = gens[run[c].src].read
  <1>1. ASSUME NEW op \in Ops
        PROVE  \/ fork'[op] = fork[op]
               \/ \E c \in Runs :
                    /\ run[c].pc = "forking" /\ run[c].op = op
                    /\ fork'[op].made = TRUE /\ fork'[op].read = gens[run[c].src].read
    <2>1. CASE \E a \in made : run[a].op = op
      <3>1. PICK c : c = CHOOSE a \in made : run[a].op = op
        OBVIOUS
      <3>2. c \in made /\ run[c].op = op
        BY <2>1, <3>1
      <3>3. c \in Runs /\ run[c].pc = "forking"
        BY <3>2 DEF at
      <3>4. fork'[op] = forked(c)[op]
        BY <2>1, <3>1
      <3>5. forked(c)[op] = [made |-> TRUE, read |-> gens[run[c].src].read]
        BY <3>2 DEF forked, IInv, Typed, ProviderTyped
      <3> QED
        BY <3>2, <3>3, <3>4, <3>5
    <2>2. CASE ~\E a \in made : run[a].op = op
      BY <2>2
    <2> QED
      BY <2>1, <2>2
  <1>2. fork' = [op \in Ops |-> fork'[op]]
    OBVIOUS
  <1> QED
    BY <1>1, <1>2

LEMMA RestartKeeps ==
  ASSUME IInv, ViewerRestarts
  PROVE  IInv'
  <1> USE DEF IInv, Typed
  <1>1. /\ run' = [a \in Runs |-> Idle] /\ calls' = {}
        /\ UNCHANGED <<migration, gens, row, cleanup, journal, effect, used, flaws>>
    BY DEF ViewerRestarts, registry
  <1>2. /\ fork' = [op \in Ops |-> fork'[op]]
        /\ \A op \in Ops :
             \/ fork'[op] = fork[op]
             \/ \E c \in Runs :
                  /\ run[c].pc = "forking" /\ run[c].op = op
                  /\ fork'[op].made = TRUE /\ fork'[op].read = gens[run[c].src].read
    <2>1. PICK made \in SUBSET {a \in Runs : at(a, "forking")} :
            fork' = [op \in Ops |-> IF \E a \in made : run[a].op = op
                                    THEN forked(CHOOSE a \in made : run[a].op = op)[op]
                                    ELSE fork[op]]
      BY DEF ViewerRestarts
    <2> QED
      BY <2>1, ForksAdopted
  <1>3. hosted' \in {hosted \cap adoptable, adoptable}
    BY DEF ViewerRestarts
  <1>4. GensTyped' /\ Len(gens)' = Len(gens) /\ genOps' = genOps /\ generation' = generation
    BY <1>1, GensSame
  <1>5. \A a \in Runs : run'[a] = Idle
    BY <1>1
  <1>6. \A a \in Runs : /\ aRun(run'[a]) /\ run'[a].pc = "idle" /\ run'[a].op = 0
                        /\ run'[a].src = 1 /\ run'[a].host = FALSE
    BY <1>5, IdleIs DEF aRun
  <1>7. run' = [a \in Runs |-> run'[a]]
    BY <1>1
  <1>8. RunsTyped'
    <2>1. 1 \in 1 .. Len(gens)
      BY LenGens
    <2> QED
      BY <1>4, <1>6, <1>7, <2>1 DEF RunsTyped, aRun
  <1>9. MigrationTyped' /\ FlawsTyped'
    BY <1>1, <1>4, FlawsSame DEF MigrationTyped
  <1>10. MessagesTyped'
    BY <1>1, <1>4 DEF MessagesTyped
  <1>11. ProviderTyped'
    <2>1. \A op \in Ops : fork'[op].made \in BOOLEAN
      BY <1>2 DEF ProviderTyped
    <2> QED
      BY <1>1, <1>2, <2>1 DEF ProviderTyped
  <1>12. \A a \in Runs : run[a].pc # "idle" => run[a].op \in 1 .. used
    BY DEF Numbered
  <1>13. generation.op \in genOps /\ adoptable \subseteq genOps /\ adoptable \subseteq 1 .. used
    <2>1. Len(gens) \in 1 .. Len(gens)
      BY LenGens
    <2>2. generation.op \in genOps
      BY <2>1 DEF genOps, generation, current
    <2>3. generation.op \in 0 .. used /\ used \in Nat
      <3>1. genOps \subseteq 0 .. used
        BY DEF Owned
      <3>2. used \in Nat
        BY MigrationAssumption DEF Numbered
      <3> QED
        BY <2>2, <3>1, <3>2
    <2>4. generation.op # 0 => generation.op \in 1 .. used
      BY <2>3
    <2> QED
      BY <2>2, <2>4 DEF adoptable
  <1>14. Numbered'
    <2>1. \A op \in Ops : op > used => fork'[op] = fork[op]
      BY <1>2, <1>12 DEF Numbered
    <2>2. hosted' \subseteq 1 .. used
      BY <1>3, <1>13
    <2>3. used \in Nat
      BY DEF Numbered
    <2>4. \A a \in Runs : run'[a].op \in 0 .. used /\ run'[a].pc = "idle"
      BY <1>6, <2>3
    <2>5. \A op \in Ops : op > used => journal'[op] = "none" /\ ~fork'[op].made
      BY <1>1, <2>1 DEF Numbered
    <2> QED
      BY <1>1, <2>2, <2>4, <2>5 DEF Numbered
  <1>15. Leased'
    <2>1. \A op \in Ops : journal'[op] = "recorded" => fork'[op].made
      BY <1>1, <1>2 DEF Leased
    <2> QED
      BY <1>6, <2>1 DEF Leased, forker, at
  <1>16. Receipts'
    BY <1>1, <1>6 DEF Receipts, verifier
  <1>17. migration.phase # "none" => migration.op \in Ops
    BY MigrationAssumption DEF Numbered, Ops
  <1>18. Retried'
    <2>1. migration.phase \in {"waiting-turn", "requested"} =>
            fork'[migration.op] = fork[migration.op]
      BY <1>2, <1>17 DEF Retried, forking, at
    <2> QED
      BY <1>1, <1>6, <2>1 DEF Retried, forking, holds, at, Working
  <1>19. Sourced'
    BY <1>1, <1>4, <1>6 DEF Sourced, holds, Working
  <1>20. Messaged'
    <2> SUFFICES ASSUME NEW m \in Messages
                 PROVE  messaged(m)'
      BY DEF Messaged
    <2>1. messaged(m) /\ (onItsWay(m)' => onItsWay(m))
      BY <1>1 DEF Messaged, onItsWay, calling
    <2> QED
      BY <1>1, <2>1 DEF messaged
  <1>21. Kept'
    <2> SUFFICES ASSUME NEW m \in Messages
                 PROVE  kept(m)'
      BY DEF Kept
    <2>1. kept(m) /\ (excused(m)' <=> excused(m))
      BY <1>1 DEF Kept, excused
    <2>2. CASE migration.phase \in Forks
      <3>1. migration.op \in Ops
        BY <1>17, <2>2 DEF Forks
      <3>2. CASE fork'[migration.op] = fork[migration.op]
        BY <1>1, <1>4, <2>1, <3>2 DEF kept
      <3>3. CASE fork'[migration.op] # fork[migration.op]
        <4>1. PICK c \in Runs :
                /\ run[c].pc = "forking" /\ run[c].op = migration.op
                /\ fork'[migration.op].read = gens[run[c].src].read
          BY <1>2, <3>1, <3>3
        <4>2. run[c].src = Len(gens)
          BY <2>2, <4>1 DEF Sourced, holds, Working, InFlight, Fenced, Forks
        <4>3. fork'[migration.op].read = generation.read
          BY <4>1, <4>2 DEF generation, current
        <4> QED
          BY <1>1, <1>4, <2>1, <4>3 DEF kept
      <3> QED
        BY <3>2, <3>3
    <2>3. CASE migration.phase \notin Forks
      BY <1>1, <1>4, <2>1, <2>3 DEF kept
    <2> QED
      BY <2>2, <2>3
  <1>22. CurrentIsHosted'
    BY <1>1, <1>3, <1>4 DEF CurrentIsHosted, adoptable
  <1>23. Owned'
    <2>1. hosted' \subseteq genOps
      BY <1>3, <1>13
    <2>2. \A a \in Runs : ~at(a, "publishing")'
      BY <1>6 DEF at
    <2>3. genOps \subseteq 0 .. used
      BY DEF Owned
    <2> QED
      BY <1>1, <1>4, <2>1, <2>2, <2>3 DEF Owned
  <1> QED
    BY <1>4, <1>8, <1>9, <1>10, <1>11, <1>14, <1>15, <1>16, <1>18, <1>19, <1>20, <1>21, <1>22, <1>23

---------------------------------------------------------------------------
LEMMA InitHolds == Init => IInv
  <1> SUFFICES ASSUME Init
               PROVE  IInv
    OBVIOUS
  <1>1. PICK x : x = successor(0, "a", {})
    OBVIOUS
  <1>2. aGeneration(x) /\ x.op = 0 /\ x.read = {}
    BY <1>1, SuccessorIs
  <1>3. gens = <<x>>
    BY <1>1 DEF Init, successor
  <1>4. Len(gens) = 1 /\ DOMAIN gens = {1} /\ gens[1] = x /\ gens # << >>
    BY <1>3
  <1>5. GensTyped
    <2>1. onFirst(gens, 1)
      BY <1>3 DEF onFirst
    <2>2. gens \in Seq({gens[g] : g \in DOMAIN gens})
      <3>1. PICK k \in Nat : k = 1
        OBVIOUS
      <3> QED
        BY <2>1, <3>1, IsSequence
    <2> QED
      BY <1>2, <1>4, <2>2 DEF GensTyped, generations
  <1>6. 1 \in 1 .. Len(gens)
    BY <1>5, LenGens
  <1>7. generation = x /\ genOps = {0}
    BY <1>2, <1>4 DEF generation, current, genOps
  <1>8. /\ migration = [f \in MigrationFields |-> migration[f]]
        /\ migration.phase = "none" /\ migration.op = 0 /\ migration.src = 1
        /\ migration.receipt = 0 /\ migration.unknown = FALSE /\ migration.intent = 0
    BY DEF Init, NoMigration, MigrationFields
  <1>9. run = [a \in Runs |-> Idle] /\ \A a \in Runs : run[a] = Idle
    BY DEF Init
  <1>10. \A a \in Runs : /\ aRun(run[a]) /\ run[a].pc = "idle" /\ run[a].op = 0
                        /\ run[a].src = 1 /\ run[a].host = FALSE
    BY <1>9, IdleIs DEF aRun
  <1>11. RunsTyped
    <2>1. run = [a \in Runs |-> run[a]]
      BY <1>9
    <2> QED
      BY <1>10, <1>6, <2>1 DEF RunsTyped, aRun, at
  <1>12. MigrationTyped
    BY <1>8, <1>6 DEF MigrationTyped
  <1>13. /\ row = [m \in Messages |-> [state |-> "none", gen |-> 0]]
         /\ effect = [m \in Messages |-> "none"] /\ calls = {}
    BY DEF Init
  <1>14. MessagesTyped
    BY <1>4, <1>13 DEF MessagesTyped
  <1>15. /\ journal = [op \in Ops |-> "none"]
         /\ fork = [op \in Ops |-> [made |-> FALSE, read |-> {}]]
    BY DEF Init
  <1>16. ProviderTyped
    BY <1>15 DEF ProviderTyped
  <1>17. FlawsTyped
    BY DEF Init, FlawsTyped, FlawFields
  <1>18. used = 0 /\ cleanup = {} /\ hosted = {}
    BY DEF Init
  <1>19. Numbered
    <2>1. used \in 0 .. MaxOps /\ 0 \in 0 .. used
      BY <1>18, MigrationAssumption
    <2>2. \A op \in Ops : journal[op] = "none" /\ ~fork[op].made
      BY <1>15
    <2> QED
      BY <1>8, <1>10, <1>18, <2>1, <2>2 DEF Numbered
  <1>20. Leased
    <2>1. \A op \in Ops : journal[op] # "recorded"
      BY <1>15
    <2> QED
      BY <1>10, <2>1 DEF Leased, forker, at
  <1>21. Receipts /\ Retried /\ Sourced
    BY <1>8, <1>10 DEF Receipts, verifier, Retried, Sourced, InFlight, Fenced
  <1>22. Messaged /\ Kept
    BY <1>8, <1>13 DEF Messaged, messaged, Kept, kept, onItsWay, calling, Forks
  <1>23. CurrentIsHosted
    BY <1>2, <1>7 DEF CurrentIsHosted
  <1>24. Owned
    BY <1>7, <1>10, <1>18 DEF Owned, at
  <1> QED
    BY <1>5, <1>11, <1>12, <1>14, <1>16, <1>17, <1>19, <1>20, <1>21, <1>22, <1>23, <1>24
    DEF IInv, Typed

LEMMA StepKeeps ==
  ASSUME IInv, [Next]_vars
  PROVE  IInv'
  <1>1. ASSUME NEW a \in Runs, Advance(a)
        PROVE  IInv'
    <2>1. CASE Begin(a)
      BY <2>1, BeginSuccessionKeeps, BeginVerificationKeeps DEF Begin
    <2>2. CASE Create(a)
      BY <2>2, RequestForkKeeps, ForksKeep, EarlyFailuresKeep, PersistKeeps DEF Create
    <2>3. CASE Finish(a)
      BY <2>3, PublishKeeps, CommitKeeps, CleaningKeeps DEF Finish
    <2>4. CASE AdvanceFails(a)
      BY <2>4, EarlyFailuresKeep, LateFailuresKeep, CleaningKeeps DEF AdvanceFails
    <2> QED
      BY <1>1, <2>1, <2>2, <2>3, <2>4, ReconcileKeeps DEF Advance
  <1>2. ASSUME NEW m \in Messages, Message(m)
        PROVE  IInv'
    BY <1>2, SendKeeps, DrainKeeps, AnswersKeep, EffectKeeps DEF Message
  <1>3. CASE Request \/ FenceOnly \/ TurnEnds
    BY <1>3, RequestsKeep
  <1>4. CASE ViewerRestarts
    BY <1>4, RestartKeeps
  <1>5. CASE UNCHANGED vars
    <2>1. UNCHANGED <<migration, gens, row, cleanup, provider, run, calls, effect, used, flaws>>
      BY <1>5 DEF vars, registry
    <2> QED
      BY <2>1, RestKeeps
  <1> QED
    BY <1>1, <1>2, <1>3, <1>4, <1>5 DEF Next

LEMMA Invariance == Spec => []IInv
  <1>1. IInv /\ [Next]_vars => IInv'
    BY StepKeeps
  <1> QED
    BY <1>1, InitHolds, PTL DEF Spec

(* Migrations, deliveries, effects and cleanups have the states of the code, *)
(* and a delivery is for a generation that exists.                          *)
THEOREM Types == Spec => []TypeOK
  <1>1. IInv => TypeOK
    <2> SUFFICES ASSUME IInv
                 PROVE  TypeOK
      OBVIOUS
    <2>1. migration.phase \in InFlight \cup Ended \cup {"none"}
      BY DEF IInv, Typed, MigrationTyped
    <2>2. /\ \A m \in Messages :
               /\ row[m].state \in {"none", "held", "assigned", "uncertain", "delivered", "failed"}
               /\ row[m].gen \in 0 .. Len(gens)
               /\ effect[m] \in {"none", "queued", "delivered", "failed"}
          /\ calls \subseteq Messages \X {"send", "drain"}
      BY DEF IInv, Typed, MessagesTyped
    <2>3. \A op \in Ops : journal[op] \in {"none", "requested", "recorded"}
      BY DEF IInv, Typed, ProviderTyped
    <2>4. cleanup \subseteq Ops /\ hosted \subseteq Ops
      BY MigrationAssumption DEF IInv, Numbered, Ops
    <2> QED
      BY <2>1, <2>2, <2>3, <2>4 DEF TypeOK
  <1> QED
    BY <1>1, Invariance, PTL

(* However messages, requests, advances that work on what they read before, *)
(* lost answers and restarts interleave, what the registry calls delivered  *)
(* is in the history of the generation the conversation goes on in, save in *)
(* the three histories flaws names.                                         *)
THEOREM NoDeliveryIsLost == Spec => []HistoryKeepsDeliveries
  <1>1. IInv => HistoryKeepsDeliveries
    BY DEF IInv, HistoryKeepsDeliveries, Messaged, messaged, Kept, kept, excused
  <1> QED
    BY <1>1, Invariance, PTL

(* The generation the conversation goes on in has its host, unless an       *)
(* advance that came late discarded it.                                     *)
THEOREM CurrentKeepsHost == Spec => []CurrentIsHosted
  <1>1. IInv => CurrentIsHosted
    BY DEF IInv
  <1> QED
    BY <1>1, Invariance, PTL

(* A host belongs to a generation, or to the advance that started it and    *)
(* has not committed or discarded it yet: however retargets, rollbacks,     *)
(* refused claims, failed registrations, cleanups and restarts fall between *)
(* its start and its commit, none is left without an owner.                 *)
THEOREM NoHostIsOrphaned == Spec => []SuccessorsAreOwned
  <1>1. IInv => SuccessorsAreOwned
    BY DEF IInv, Owned, published, SuccessorsAreOwned, genOps
  <1> QED
    BY <1>1, Invariance, PTL
=============================================================================
