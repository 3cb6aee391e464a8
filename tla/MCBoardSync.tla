------------------------------ MODULE MCBoardSync ------------------------------
(* A small instance of BoardSync, with every kind of mutation: s1 sends what  *)
(* the server refuses beside what it takes, s2 also edits before its load is  *)
(* answered, with an arrangement of its own to seed.                          *)
EXTENDS BoardSync

CONSTANTS p, q, s1, s2

conversation == <<p, q>>
closeNew == [kind |-> "close", path |-> q]
openNew == [kind |-> "restore", path |-> q, placement |-> "auto"]
showScheme == [kind |-> "set-presentation", mode |-> "scheme"]
seedRoot == [kind |-> "reconcile-roots", roots |-> <<q>>, removeManual |-> <<>>]
follow == [kind |-> "remap-paths", pairs |-> [x \in {p} |-> q]]
tooMany == [kind |-> "reconcile-roots", roots |-> <<p, q>>, removeManual |-> <<>>]

menu ==
  [c \in Stores |-> IF c = s1 THEN {follow, tooMany}
                    ELSE {closeNew, openNew, showScheme, seedRoot}]
intents == [c \in Stores |-> IF c = s1 THEN 2 ELSE 1]
legacyPrefs == [manual |-> <<>>, hidden |-> <<p>>, expanded |-> <<>>, mode |-> Null]
=============================================================================
