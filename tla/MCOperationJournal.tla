--------------------------- MODULE MCOperationJournal ---------------------------
(* Small instances of OperationJournal.                                      *)
EXTENDS OperationJournal, TLC

CONSTANTS t1, t2, g1, g2

symmetry == Permutations(ClientOps) \cup Permutations(ClientKeys)

turns == {t1}
twoTurns == {t1, t2}
generations == {g1, g2}

command(kind, policy, turn, gen) ==
  [kind |-> kind, policy |-> policy, turnId |-> turn, gen |-> gen]
report(host, turn, gen) ==
  [host |-> host, structured |-> TRUE, gen |-> gen, activeTurnId |-> turn,
   turn |-> IF turn = Null THEN "idle" ELSE "running"]

(* Messages and their retries.                                               *)
messages == {command("send", "queue", Undefined, Null),
             command("steer", "steer-if-active", Undefined, Null)}
hostReports == {report("hosted", Null, g1), report("hosted", t1, g1)}

(* Launches, kills, interrupts and answers.                                  *)
controls == {command("spawn", "queue", Undefined, Null),
             command("spawn", "queue", Undefined, g1),
             command("kill", "queue", Undefined, g1),
             command("interrupt", "queue", t1, Null),
             command("answer", "queue", Undefined, Null),
             command("send", "queue", Undefined, Null)}
successorReports == {report("hosted", t1, g1), report("hosted", Null, g2)}
=============================================================================
