-------------------------- MODULE CodexDelivery_proofs --------------------------
(***************************************************************************)
(* Machine-checked theorems about CodexDelivery, for every number of       *)
(* messages and of failures: its types, that the host's idea of the active *)
(* turn lags behind the engine's only by lines not read yet, and that      *)
(* delivery to Codex implements MessageDelivery.                           *)
(***************************************************************************)
EXTENDS CodexDelivery, WellFoundedInduction, TLAPS

Statuses == {"unsent", "queued", "delivering", "delivered", "failed"}
Methods == {"model/list", "thread/read", "turn/start", "turn/steer", "turn/interrupt"}
Outcomes == {"ok", "error", "stale"}
Lines ==
  [type : {"answer"}, of : Outcomes] \cup
  [type : {"turn/started", "item/completed", "turn/completed"}, of : Messages]

Asking == {"probing", "reading", "starting", "steering", "interrupting"}
Pc == {"off", "next", "begun", "confirming"} \cup Asking \cup Closing
DrainState ==
  [pc : Pc, turn : Turn, fence : Turn, interrupts : BOOLEAN, live : BOOLEAN,
   again : BOOLEAN, answer : {Null} \cup Outcomes]

isIn(m) == \E i \in DOMAIN thread : thread[i] = m
closed(m) == receipt[m] \in {"delivered", "failed"}

(* What a sequence of lines holds, and in what order.                       *)
kinds(lines) == {lines[i].type : i \in DOMAIN lines}
single(lines, type) ==
  \A i, j \in DOMAIN lines : lines[i].type = type /\ lines[j].type = type => i = j
endsLater(lines, i, t) == \E j \in DOMAIN lines : j > i /\ lines[j] = Completed(t)
startsLater(lines, i, t) == \E j \in DOMAIN lines : j > i /\ lines[j] = Started(t)
ordered(lines, t) ==
  \A i \in DOMAIN lines : lines[i].type = "turn/started" =>
    /\ t = lines[i].of \/ endsLater(lines, i, lines[i].of)
    /\ t # Null /\ t # lines[i].of => startsLater(lines, i, t)

(* Between the first step and the last of an effect there is a message, and *)
(* the turn it wants to interrupt.                                          *)
Working == {"begun", "confirming"} \cup Asking \cup Closing
Worked ==
  /\ drain.pc \in Working => pending # {}
  /\ drain.pc = "begun" /\ drain.interrupts => drain.turn # Null

(* Messages are submitted in their order.                                   *)
Submitted ==
  \A m, n \in Messages : n < m /\ receipt[n] = "unsent" => receipt[m] = "unsent"

(* A message is carried to the thread by a request or by the engine's       *)
(* input: only the oldest open one, and only when the thread lacks it.      *)
sends(m) ==
  request # Null /\ request.method \in {"turn/start", "turn/steer"} /\ request.message = m
carried(m) == input = m \/ sends(m)
Carried ==
  /\ request # Null => input = Null
  /\ \A m \in Messages : carried(m) =>
       /\ open(m) /\ ~isIn(m)
       /\ \A n \in Messages : n < m => closed(n)

(* What journal and host say of the thread is so, and what they do not know *)
(* of it is an item line on its way.                                        *)
Known ==
  /\ \A m \in Messages :
       /\ receipt[m] = "delivered" => isIn(m)
       /\ receipt[m] = "failed" => ~isIn(m) \/ m \in misjudged
       /\ m \in confirmed \cup misjudged => isIn(m)
       /\ written(Item(m)) => isIn(m) /\ m \notin confirmed
       /\ host = "up" /\ isIn(m) => m \in confirmed \/ written(Item(m))
  /\ single(stdout, "item/completed")

(* Only a host that is up has a child's pipes and a drain that counts on it.*)
Attached ==
  /\ child = "attached" => host = "up"
  /\ host = "up" => child # "detached"
  /\ child = "none" => turn = Null /\ input = Null
  /\ stdout # << >> => host = "up"
  /\ drain.live => host = "up"
  /\ drain.pc \in Asking /\ drain.answer = Null => drain.live

(* What is carried to a host that is up is carried for the drain.           *)
onItsWay(m) == carried(m) \/ written(Item(m))
Alone ==
  \A m \in Messages : host = "up" /\ onItsWay(m) =>
    drain.live /\ m = current /\ drain.pc \in {"starting", "steering", "confirming"}

(* There is one request, or one answer, and it is the drain's.              *)
awaited == [probing |-> "model/list", reading |-> "thread/read", starting |-> "turn/start",
            steering |-> "turn/steer", interrupting |-> "turn/interrupt"]
Asked ==
  host = "up" /\ request # Null =>
    /\ drain.live /\ drain.pc \in Asking /\ drain.answer = Null
    /\ "answer" \notin kinds(stdout)
    /\ request.method = awaited[drain.pc] /\ request.message = current
    /\ request.method \in {"turn/steer", "turn/interrupt"} => request.turn # Null
Answered ==
  /\ single(stdout, "answer")
  /\ "answer" \in kinds(stdout) =>
       drain.live /\ drain.pc \in Asking /\ drain.answer = Null /\ request = Null
  /\ drain.answer # Null =>
       /\ drain.pc \in Asking /\ request = Null /\ "answer" \notin kinds(stdout)
       /\ host = "up" => drain.live

(* What the drain may conclude from an answer, and what it has concluded.   *)
refused ==
  drain.answer \in {"error", "stale"} \/ written(Answer("error")) \/ written(Answer("stale"))
Concluded ==
  /\ drain.pc \in {"starting", "steering"} /\ refused => ~carried(current) /\ ~isIn(current)
  /\ drain.pc = "settle" => isIn(current)
  /\ drain.pc = "fail" => ~carried(current) /\ (isIn(current) => current \in misjudged)
  /\ drain.pc = "reading" /\ drain.live => ~isIn(current)

(* A turn the host or the engine knows has its message in the thread or was *)
(* just started by the drain; its end is read after its start.              *)
touched(t) ==
  turn = t \/ activeTurnId = t \/ written(Started(t)) \/ written(Completed(t))
starting(t) ==
  /\ t = current /\ drain.live /\ drain.pc \in {"starting", "confirming"}
  /\ request = Null /\ ~refused
accepted == drain.answer = "ok" \/ written(Answer("ok"))
Turns ==
  child = "attached" =>
    /\ \A t \in Messages : touched(t) => isIn(t) \/ starting(t)
    /\ turn # Null => ~written(Completed(turn))
    /\ ordered(stdout, turn)
    /\ drain.pc = "starting" /\ accepted => turn \in {Null, current}

IInv ==
  /\ TypeOK /\ Submitted /\ Worked /\ Carried /\ Known /\ Attached /\ Alone /\ Asked
  /\ Answered /\ Concluded /\ Turns /\ TurnIsTracked

---------------------------------------------------------------------------
(* Lines are added at the end, and taken from the front or from the middle. *)
LEMMA LineIs ==
  /\ \A l \in Lines : l.type = "answer" => l.of \in Outcomes /\ l = Answer(l.of)
  /\ \A l \in Lines : l.type = "turn/started" => l.of \in Messages /\ l = Started(l.of)
  /\ \A l \in Lines : l.type = "item/completed" => l.of \in Messages /\ l = Item(l.of)
  /\ \A l \in Lines : l.type = "turn/completed" => l.of \in Messages /\ l = Completed(l.of)
  BY DEF Lines, Answer, Started, Item, Completed

LEMMA LineOf ==
  /\ \A o \in Outcomes : Answer(o) \in Lines
  /\ \A m \in Messages : Started(m) \in Lines /\ Item(m) \in Lines /\ Completed(m) \in Lines
  /\ \A o : Answer(o).type = "answer" /\ Answer(o).of = o
  /\ \A m : Started(m).type = "turn/started" /\ Started(m).of = m
  /\ \A m : Item(m).type = "item/completed" /\ Item(m).of = m
  /\ \A m : Completed(m).type = "turn/completed" /\ Completed(m).of = m
  BY DEF Lines, Answer, Started, Item, Completed

LEMMA Printed ==
  ASSUME NEW s \in Seq(Lines), NEW l \in Lines, NEW t, t = s \o <<l>>
  PROVE  /\ t \in Seq(Lines) /\ t # << >>
         /\ ToSet(t) = ToSet(s) \cup {l} /\ kinds(t) = kinds(s) \cup {l.type}
         /\ \A type : single(s, type) /\ (l.type = type => type \notin kinds(s))
              => single(t, type)
         /\ \A i \in DOMAIN s : i \in DOMAIN t /\ t[i] = s[i] /\ i < Len(s) + 1
         /\ Len(s) + 1 \in DOMAIN t /\ t[Len(s) + 1] = l
         /\ \A i \in DOMAIN t : i \in DOMAIN s \/ i = Len(s) + 1
  <1>1. t \in Seq(Lines) /\ t # << >> /\ Len(t) = Len(s) + 1
    OBVIOUS
  <1>2. \A i \in DOMAIN s : i \in DOMAIN t /\ t[i] = s[i] /\ i < Len(s) + 1
    OBVIOUS
  <1>3. Len(s) + 1 \in DOMAIN t /\ t[Len(s) + 1] = l
    OBVIOUS
  <1>4. \A i \in DOMAIN t : i \in DOMAIN s \/ i = Len(s) + 1
    OBVIOUS
  <1>5. PICK n : n = Len(s) + 1
    OBVIOUS
  <1>6. ToSet(t) = ToSet(s) \cup {l} /\ kinds(t) = kinds(s) \cup {l.type}
    BY <1>2, <1>3, <1>4, <1>5 DEF ToSet, kinds
  <1>7. ASSUME NEW type, single(s, type), l.type = type => type \notin kinds(s)
        PROVE  single(t, type)
    BY <1>2, <1>3, <1>4, <1>5, <1>7 DEF single, kinds
  <1> QED
    BY <1>1, <1>2, <1>3, <1>4, <1>6, <1>7

LEMMA PrintedTwo ==
  ASSUME NEW s \in Seq(Lines), NEW k \in Lines, NEW l \in Lines
  PROVE  s \o <<k, l>> = (s \o <<k>>) \o <<l>>
  <1> DEFINE one == s \o <<k, l>>
             two == (s \o <<k>>) \o <<l>>
  <1>1. one \in Seq(Lines) /\ two \in Seq(Lines)
    OBVIOUS
  <1>2. Len(one) = Len(s) + 2 /\ Len(two) = Len(s) + 2 /\ Len(s) \in Nat
    OBVIOUS
  <1>3. ASSUME NEW i \in 1 .. Len(s) + 2
        PROVE  one[i] = two[i]
    <2>1. i \in 1 .. Len(s) \/ i = Len(s) + 1 \/ i = Len(s) + 2
      BY <1>2
    <2> QED
      BY <1>2, <2>1
  <1> HIDE DEF one, two
  <1>4. DOMAIN one = 1 .. Len(s) + 2 /\ DOMAIN two = 1 .. Len(s) + 2
    BY <1>1, <1>2
  <1>5. one = [i \in DOMAIN one |-> one[i]] /\ two = [i \in DOMAIN two |-> two[i]]
    BY <1>1
  <1> QED
    BY <1>3, <1>4, <1>5 DEF one, two

(* Whose lines are in order before, are so after a line that is no start,   *)
(* after the end of the turn, and after the start of a turn when none ran.  *)
LEMMA OrderKept ==
  ASSUME NEW s \in Seq(Lines), NEW l \in Lines, NEW t, t = s \o <<l>>,
         NEW before \in Turn, NEW after \in Turn, ordered(s, before),
         \/ after = before /\ l.type # "turn/started"
         \/ after = Null /\ l = Completed(before)
         \/ before = Null /\ l = Started(after) /\ after # Null
  PROVE  ordered(t, after)
  <1> DEFINE n == Len(s) + 1
  <1>1. /\ \A i \in DOMAIN s : i \in DOMAIN t /\ t[i] = s[i] /\ i < n
        /\ n \in DOMAIN t /\ t[n] = l
        /\ \A i \in DOMAIN t : i \in DOMAIN s \/ i = n
    BY Printed
  <1>2. /\ \A o : Started(o).type = "turn/started" /\ Started(o).of = o
        /\ \A o : Completed(o).type = "turn/completed"
    BY LineOf
  <1> HIDE DEF n
  <1>3. \A u : \A i \in DOMAIN s : endsLater(s, i, u) => endsLater(t, i, u)
    BY <1>1 DEF endsLater
  <1>4. \A u : \A i \in DOMAIN s : startsLater(s, i, u) => startsLater(t, i, u)
    BY <1>1 DEF startsLater
  <1>5. \A i \in DOMAIN s : l = Completed(before) => endsLater(t, i, before)
    BY <1>1 DEF endsLater
  <1>6. \A i \in DOMAIN s : l = Started(after) => startsLater(t, i, after)
    BY <1>1 DEF startsLater
  <1>7. ASSUME NEW i \in DOMAIN t, t[i].type = "turn/started"
        PROVE  /\ after = t[i].of \/ endsLater(t, i, t[i].of)
               /\ after # Null /\ after # t[i].of => startsLater(t, i, after)
    <2>1. CASE i = n
      BY <1>1, <1>2, <1>7, <2>1
    <2>2. CASE i \in DOMAIN s
      <3>1. t[i] = s[i] /\ s[i].type = "turn/started"
        BY <1>1, <1>7, <2>2
      <3>2. /\ before = s[i].of \/ endsLater(s, i, s[i].of)
            /\ before # Null /\ before # s[i].of => startsLater(s, i, before)
        BY <2>2, <3>1 DEF ordered
      <3>3. s[i].of # Null
        BY <3>1, LineIs, <2>2, CodexAssumption DEF Messages
      <3> QED
        BY <1>3, <1>4, <1>5, <1>6, <2>2, <3>1, <3>2, <3>3
    <2> QED
      BY <1>1, <1>7, <2>1, <2>2
  <1> QED
    BY <1>7 DEF ordered

(* t is s without its line at k: the place of its lines in s.               *)
isPlace(place, s, k, t) ==
  /\ place \in [DOMAIN t -> DOMAIN s]
  /\ \A i \in DOMAIN t : t[i] = s[place[i]] /\ place[i] # k
  /\ \A j \in DOMAIN s : j # k => \E i \in DOMAIN t : place[i] = j
  /\ \A i, j \in DOMAIN t : i < j <=> place[i] < place[j]

LEMMA Removed ==
  ASSUME NEW s \in Seq(Lines), NEW k \in DOMAIN s, NEW t, t = RemoveAt(s, k)
  PROVE  t \in Seq(Lines) /\ \E place : isPlace(place, s, k, t)
  <1> DEFINE front == SubSeq(s, 1, k - 1)
             back == SubSeq(s, k + 1, Len(s))
             place == [i \in DOMAIN t |-> IF i < k THEN i ELSE i + 1]
  <1>1. Len(s) \in Nat /\ k \in 1 .. Len(s) /\ DOMAIN s = 1 .. Len(s)
    OBVIOUS
  <1>2. front \in Seq(Lines) /\ Len(front) = k - 1 /\ \A i \in 1 .. k - 1 : front[i] = s[i]
    BY <1>1
  <1>3. /\ back \in Seq(Lines) /\ Len(back) = Len(s) - k
        /\ \A i \in 1 .. Len(s) - k : back[i] = s[i + k]
    BY <1>1
  <1>4. t = front \o back
    BY DEF RemoveAt
  <1> HIDE DEF front, back
  <1>5. t \in Seq(Lines) /\ Len(t) = Len(s) - 1 /\ DOMAIN t = 1 .. Len(s) - 1
    <2>1. t \in Seq(Lines) /\ Len(t) = Len(front) + Len(back) /\ DOMAIN t = 1 .. Len(t)
      BY <1>2, <1>3, <1>4
    <2> QED
      BY <1>1, <1>2, <1>3, <2>1
  <1>6. ASSUME NEW i \in DOMAIN t, i < k
        PROVE  t[i] = s[i]
    <2>1. i \in 1 .. Len(front)
      BY <1>1, <1>2, <1>5, <1>6
    <2>2. t[i] = front[i]
      BY <1>2, <1>3, <1>4, <2>1
    <2> QED
      BY <1>2, <2>1, <2>2
  <1>7. ASSUME NEW i \in DOMAIN t, ~(i < k)
        PROVE  t[i] = s[i + 1]
    <2>1. i - (k - 1) \in 1 .. Len(back) /\ (i - (k - 1)) + k = i + 1
      BY <1>1, <1>2, <1>3, <1>5, <1>7
    <2>2. i \in Len(front) + 1 .. Len(front) + Len(back)
      BY <1>1, <1>2, <1>3, <1>5, <1>7
    <2>3. t[i] = back[i - Len(front)]
      BY <1>2, <1>3, <1>4, <2>2
    <2> QED
      BY <1>2, <1>3, <2>1, <2>3
  <1>8. place \in [DOMAIN t -> DOMAIN s]
    BY <1>1, <1>5
  <1>9. \A i \in DOMAIN t : t[i] = s[place[i]] /\ place[i] # k
    BY <1>1, <1>5, <1>6, <1>7
  <1>10. ASSUME NEW j \in DOMAIN s, j # k
         PROVE  \E i \in DOMAIN t : place[i] = j
    <2>1. CASE j < k
      BY <1>1, <1>5, <2>1
    <2>2. CASE j > k
      <3>1. j - 1 \in DOMAIN t /\ ~(j - 1 < k)
        BY <1>1, <1>5, <2>2
      <3> QED
        BY <1>1, <3>1
    <2> QED
      BY <1>1, <1>10, <2>1, <2>2
  <1>11. \A i, j \in DOMAIN t : i < j <=> place[i] < place[j]
    BY <1>1, <1>5
  <1> QED
    BY <1>5, <1>8, <1>9, <1>10, <1>11 DEF isPlace

LEMMA TailRemoves ==
  ASSUME NEW s \in Seq(Lines), s # << >>
  PROVE  Tail(s) = RemoveAt(s, 1) /\ 1 \in DOMAIN s /\ s[1] = Head(s)
  BY DEF RemoveAt

LEMMA Dropped ==
  ASSUME NEW s \in Seq(Lines), NEW k \in DOMAIN s, NEW t, t = RemoveAt(s, k)
  PROVE  /\ t \in Seq(Lines)
         /\ ToSet(s) = ToSet(t) \cup {s[k]} /\ kinds(s) = kinds(t) \cup {s[k].type}
         /\ \A type : single(s, type) => single(t, type)
         /\ \A type : single(s, type) /\ s[k].type = type => type \notin kinds(t)
  <1>0. PICK place : isPlace(place, s, k, t)
    BY Removed
  <1>1. /\ place \in [DOMAIN t -> DOMAIN s]
        /\ \A i \in DOMAIN t : t[i] = s[place[i]] /\ place[i] # k
        /\ \A j \in DOMAIN s : j # k => \E i \in DOMAIN t : place[i] = j
        /\ \A i, j \in DOMAIN t : i < j <=> place[i] < place[j]
    BY <1>0 DEF isPlace
  <1>2. t \in Seq(Lines)
    BY Removed
  <1>3. DOMAIN t \subseteq Nat
    BY <1>2
  <1>4. \A i, j \in DOMAIN t : place[i] = place[j] => i = j
    <2> SUFFICES ASSUME NEW i \in DOMAIN t, NEW j \in DOMAIN t, place[i] = place[j], i # j
                 PROVE  FALSE
      OBVIOUS
    <2>1. i < j \/ j < i
      BY <1>3
    <2>2. place[i] < place[i]
      BY <1>1, <2>1
    <2>3. place[i] \in Nat
      BY <1>1
    <2> QED
      BY <2>2, <2>3
  <1>5. ToSet(s) = ToSet(t) \cup {s[k]}
    BY <1>1 DEF ToSet
  <1>6. kinds(s) = kinds(t) \cup {s[k].type}
    BY <1>1 DEF kinds
  <1>7. \A type : single(s, type) => single(t, type)
    BY <1>1, <1>4 DEF single
  <1>8. \A type : single(s, type) /\ s[k].type = type => type \notin kinds(t)
    BY <1>1 DEF single, kinds
  <1> QED
    BY <1>2, <1>5, <1>6, <1>7, <1>8

LEMMA DroppedInOrder ==
  ASSUME NEW s \in Seq(Lines), NEW k \in DOMAIN s, NEW t, t = RemoveAt(s, k),
         k = 1 \/ s[k].type = "answer", NEW turn0 \in Turn, ordered(s, turn0)
  PROVE  /\ ordered(t, turn0)
         /\ k = 1 /\ s[k].type = "turn/started" =>
              /\ turn0 = s[k].of \/ Completed(s[k].of) \in ToSet(t)
              /\ turn0 # Null /\ turn0 # s[k].of => Started(turn0) \in ToSet(t)
  <1>0. PICK place : isPlace(place, s, k, t)
    BY Removed
  <1>1. /\ place \in [DOMAIN t -> DOMAIN s]
        /\ \A i \in DOMAIN t : t[i] = s[place[i]] /\ place[i] # k
        /\ \A j \in DOMAIN s : j # k => \E i \in DOMAIN t : place[i] = j
        /\ \A i, j \in DOMAIN t : i < j <=> place[i] < place[j]
    BY <1>0 DEF isPlace
  <1>2. /\ \A o : Started(o).type = "turn/started"
        /\ \A o : Completed(o).type = "turn/completed"
    BY LineOf
  <1>3. DOMAIN s \subseteq 1 .. Len(s) /\ Len(s) \in Nat
    OBVIOUS
  <1>4. ASSUME NEW i \in DOMAIN s, NEW j \in DOMAIN s, j > i,
               s[j].type \in {"turn/started", "turn/completed"}
        PROVE  j # k
    BY <1>3, <1>4
  <1>5. ASSUME NEW i \in DOMAIN t, NEW j \in DOMAIN s, j > place[i],
               s[j].type \in {"turn/started", "turn/completed"}
        PROVE  \E n \in DOMAIN t : n > i /\ t[n] = s[j]
    <2>1. PICK n \in DOMAIN t : place[n] = j
      BY <1>1, <1>4, <1>5
    <2>2. place[i] < place[n]
      BY <1>5, <2>1
    <2> QED
      BY <1>1, <2>1, <2>2
  <1>6. \A u : \A i \in DOMAIN t : endsLater(s, place[i], u) => endsLater(t, i, u)
    BY <1>2, <1>5 DEF endsLater
  <1>7. \A u : \A i \in DOMAIN t : startsLater(s, place[i], u) => startsLater(t, i, u)
    BY <1>2, <1>5 DEF startsLater
  <1>8. ordered(t, turn0)
    BY <1>1, <1>6, <1>7 DEF ordered
  <1>9. ASSUME NEW j \in DOMAIN s, j > k
        PROVE  s[j] \in ToSet(t)
    <2>1. j # k
      BY <1>3, <1>9
    <2> QED
      BY <1>1, <2>1 DEF ToSet
  <1>10. ASSUME s[k].type = "turn/started"
         PROVE  /\ turn0 = s[k].of \/ Completed(s[k].of) \in ToSet(t)
                /\ turn0 # Null /\ turn0 # s[k].of => Started(turn0) \in ToSet(t)
    BY <1>9, <1>10 DEF ordered, endsLater, startsLater
  <1> QED
    BY <1>8, <1>10

(* The one answer a request that timed out may have got.                    *)
LEMMA AnswerDropped ==
  ASSUME NEW s \in Seq(Lines), single(s, "answer"), NEW t,
         t = RemoveFirstMatch(s, LAMBDA line : line.type = "answer")
  PROVE  \/ t = s /\ "answer" \notin kinds(s)
         \/ \E k \in DOMAIN s : s[k].type = "answer" /\ t = RemoveAt(s, k)
  <1>1. CASE \E k \in DOMAIN s : s[k].type = "answer"
    <2>1. PICK k \in DOMAIN s : s[k].type = "answer"
      BY <1>1
    <2>2. {i \in 1 .. Len(s) : s[i].type = "answer"} = {k} /\ k \in 1 .. Len(s)
      BY <2>1 DEF single
    <2>3. SelectInSeq(s, LAMBDA line : line.type = "answer") = Min({k})
      BY <2>2 DEF SelectInSeq
    <2>4. Min({k}) = k
      BY <2>2 DEF Min
    <2> QED
      BY <2>1, <2>2, <2>3, <2>4 DEF RemoveFirstMatch
  <1>2. CASE ~ \E k \in DOMAIN s : s[k].type = "answer"
    <2>1. ~ \E i \in 1 .. Len(s) : s[i].type = "answer"
      BY <1>2
    <2> QED
      BY <1>2, <2>1 DEF RemoveFirstMatch, kinds
  <1> QED
    BY <1>1, <1>2

---------------------------------------------------------------------------
(* A nonempty set of messages has a least member, which `current' picks.    *)
LEMMA CurrentIsOldest ==
  ASSUME TypeOK, pending # {}
  PROVE  /\ current \in pending /\ current \in Messages /\ open(current)
         /\ \A n \in pending : current <= n
  <1>1. IsWellFoundedOn(OpToRel(<, Nat), Nat)
    BY NatLessThanWellFounded
  <1>2. pending \subseteq Nat /\ pending \subseteq Messages
    BY CodexAssumption DEF Messages, pending
  <1>3. PICK x \in pending : \A y \in pending : ~(<<y, x>> \in OpToRel(<, Nat))
    <2> HIDE DEF OpToRel
    <2> QED
      BY <1>1, <1>2, WFMin
  <1>4. ASSUME NEW y \in pending
        PROVE  x <= y
    <2>1. <<y, x>> \in Nat \X Nat /\ <<y, x>>[1] = y /\ <<y, x>>[2] = x
      BY <1>2
    <2>2. OpToRel(<, Nat) = {pair \in Nat \X Nat : pair[1] < pair[2]}
      BY Zenon DEF OpToRel
    <2>3. ASSUME y < x
          PROVE  <<y, x>> \in {pair \in Nat \X Nat : pair[1] < pair[2]}
      BY <2>1, <2>3
    <2>4. ~(y < x)
      BY <1>3, <2>2, <2>3
    <2> QED
      BY <1>2, <2>4
  <1>5. current \in pending /\ \A n \in pending : current <= n
    BY <1>4 DEF current
  <1> QED
    BY <1>2, <1>5 DEF pending

LEMMA OlderIsClosed ==
  ASSUME TypeOK, Submitted, pending # {}
  PROVE  \A n \in Messages : n < current => closed(n)
  <1>1. current \in Messages /\ open(current) /\ \A n \in pending : current <= n
    BY CurrentIsOldest
  <1>2. ASSUME NEW n \in Messages, n < current
        PROVE  closed(n)
    <2>1. ~(current <= n)
      BY <1>1, <1>2, CodexAssumption DEF Messages
    <2>2. ~open(n)
      BY <1>1, <2>1 DEF pending
    <2>3. receipt[n] # "unsent"
      BY <1>1, <1>2 DEF Submitted, open
    <2> QED
      BY <2>2, <2>3 DEF TypeOK, open, closed
  <1> QED
    BY <1>2

LEMMA CarriedIsCurrent ==
  ASSUME TypeOK, Carried, NEW m \in Messages, carried(m)
  PROVE  pending # {} /\ m = current
  <1>1. open(m) /\ m \in pending /\ \A n \in Messages : n < m => ~open(n)
    BY DEF Carried, pending, open, closed
  <1>2. current \in Messages /\ open(current) /\ current <= m
    BY <1>1, CurrentIsOldest
  <1>3. ~(current < m)
    BY <1>1, <1>2
  <1> QED
    BY <1>1, <1>2, <1>3, CodexAssumption DEF Messages

LEMMA CurrentKept ==
  ASSUME pending' = pending
  PROVE  current' = current
  BY DEF current

LEMMA Answering ==
  /\ \A o : Answer(o) \in ToSet(stdout) => "answer" \in kinds(stdout)
  /\ TypeOK => stdout \in Seq(Lines)
  <1>1. \A o : Answer(o).type = "answer"
    BY LineOf
  <1> QED
    BY <1>1 DEF ToSet, kinds, TypeOK, Lines, Outcomes

---------------------------------------------------------------------------
(* Types of the steps.                                                      *)
LEMMA Sets ==
  /\ Statuses = {"unsent", "queued", "delivering", "delivered", "failed"}
  /\ Lines = [type : {"answer"}, of : {"ok", "error", "stale"}] \cup
       [type : {"turn/started", "item/completed", "turn/completed"}, of : Messages]
  /\ DrainState =
       [pc : {"off", "next", "begun", "probing", "reading", "starting", "steering",
              "interrupting", "confirming"} \cup Closing,
        turn : Turn, fence : Turn, interrupts : BOOLEAN, live : BOOLEAN,
        again : BOOLEAN, answer : {Null, "ok", "error", "stale"}]
  <1>1. {Null, "ok", "error", "stale"} = {Null} \cup Outcomes
    BY DEF Outcomes
  <1>2. {"off", "next", "begun", "probing", "reading", "starting", "steering",
         "interrupting", "confirming"} \cup Closing = Pc
    BY DEF Pc, Asking
  <1> QED
    BY <1>1, <1>2 DEF DrainState, Statuses, Lines, Outcomes

LEMMA Typed ==
  TypeOK <=>
  /\ receipt \in [Messages -> Statuses] /\ policy \in [Messages -> Policies \cup {"queue"}]
  /\ fence \in [Messages -> Fence] /\ thread \in Seq(Messages) /\ ledgerTurn \in Turn
  /\ child \in {"none", "attached", "detached"} /\ turn \in Turn /\ input \in Turn
  /\ request \in {Null} \cup Requests /\ stdout \in Seq(Lines)
  /\ viewer \in BOOLEAN /\ host \in {"none", "up", "dead"} /\ activeTurnId \in Turn
  /\ confirmed \subseteq Messages /\ imageInput \in BOOLEAN
  /\ drain \in DrainState
  /\ due \in BOOLEAN /\ acknowledged \subseteq Messages
  /\ overtaken \in BOOLEAN /\ misjudged \subseteq Messages /\ faults \in 0 .. MaxFaults
  BY Sets DEF TypeOK

LEMMA TypedNext ==
  TypeOK' <=>
  /\ receipt' \in [Messages -> Statuses] /\ policy' \in [Messages -> Policies \cup {"queue"}]
  /\ fence' \in [Messages -> Fence] /\ thread' \in Seq(Messages) /\ ledgerTurn' \in Turn
  /\ child' \in {"none", "attached", "detached"} /\ turn' \in Turn /\ input' \in Turn
  /\ request' \in {Null} \cup Requests /\ stdout' \in Seq(Lines)
  /\ viewer' \in BOOLEAN /\ host' \in {"none", "up", "dead"} /\ activeTurnId' \in Turn
  /\ confirmed' \subseteq Messages /\ imageInput' \in BOOLEAN
  /\ drain' \in DrainState
  /\ due' \in BOOLEAN /\ acknowledged' \subseteq Messages
  /\ overtaken' \in BOOLEAN /\ misjudged' \subseteq Messages /\ faults' \in 0 .. MaxFaults
  BY Sets DEF TypeOK

LEMMA NullTurn == Null \in Turn /\ Null \notin Messages /\ Messages \subseteq Turn
  BY CodexAssumption DEF Turn, Messages

LEMMA IdleIs ==
  /\ Idle \in DrainState /\ [Idle EXCEPT !.pc = "next"] \in DrainState
  /\ Idle.pc = "off" /\ Idle.answer = Null /\ Idle.live = FALSE
  /\ [Idle EXCEPT !.pc = "next"].pc = "next" /\ [Idle EXCEPT !.pc = "next"].answer = Null
  /\ [Idle EXCEPT !.pc = "next"].live = FALSE
  BY NullTurn DEF Idle, DrainState, Pc

LEMMA Goes ==
  ASSUME drain \in DrainState, NEW pc \in Pc, goto(pc)
  PROVE  /\ drain' \in DrainState
         /\ drain'.pc = pc /\ drain'.answer = Null /\ drain'.live = drain.live
  BY DEF goto, DrainState

LEMMA Asks ==
  ASSUME NEW method \in Methods, NEW m \in Messages, NEW t \in Turn, ask(method, m, t)
  PROVE  /\ request' \in Requests /\ request' # Null
         /\ request'.method = method /\ request'.message = m /\ request'.turn = t
  <1>1. request' \in Requests /\ request'.method = method /\ request'.message = m
          /\ request'.turn = t
    BY DEF ask, Requests, Methods
  <1>2. Null \notin Requests
    BY NullAssumption
  <1> QED
    BY <1>1, <1>2

LEMMA Becomes ==
  ASSUME NEW status \in {"none", "up", "dead"}, NEW t \in Turn, becomes(status, t),
         due \in BOOLEAN
  PROVE  host' = status /\ activeTurnId' = t /\ due' \in BOOLEAN
  BY DEF becomes

LEMMA FaultTyped ==
  ASSUME faults \in 0 .. MaxFaults, fault \/ UNCHANGED faults
  PROVE  faults' \in 0 .. MaxFaults
  BY CodexAssumption DEF fault

---------------------------------------------------------------------------
(* Steps of the drain.  It is calm when no request is out and no answer is  *)
(* on its way; nothing is on its way to the thread unless it awaits that.   *)
calm == "answer" \notin kinds(stdout) /\ (host = "up" => request = Null)

LEMMA Calm ==
  ASSUME IInv, drain.pc \notin Asking \/ drain.answer # Null
  PROVE  calm
  BY DEF IInv, calm, Asked, Answered

LEMMA Unburdened ==
  ASSUME IInv, drain.pc \notin {"starting", "steering", "confirming"}
  PROVE  /\ \A m \in Messages : host = "up" => ~onItsWay(m)
         /\ child = "attached" => \A t \in Messages : touched(t) => isIn(t)
  BY DEF IInv, Alone, Turns, starting

LEMMA JournalKeeps ==
  ASSUME Submitted, Carried, Known,
         UNCHANGED <<receipt, thread, request, input, stdout, host, confirmed, misjudged>>
  PROVE  Submitted' /\ Carried' /\ Known'
  BY DEF Submitted, Carried, Known, open, closed, isIn, carried, sends, written

LEMMA ReportKeeps ==
  ASSUME TypeOK, Submitted, Carried, Known, pending # {},
         NEW status \in {"queued", "delivering", "delivered", "failed"},
         receipt' = [receipt EXCEPT ![current] = status],
         UNCHANGED <<thread, request, input, stdout, host, confirmed, misjudged>>,
         status \in {"delivered", "failed"} => ~carried(current),
         status = "delivered" => isIn(current),
         status = "failed" => ~isIn(current) \/ current \in misjudged
  PROVE  /\ Submitted' /\ Carried' /\ Known'
         /\ status \in {"queued", "delivering"} => pending' = pending /\ current' = current
  <1>1. PICK c \in Messages : c = current /\ open(c)
    BY CurrentIsOldest
  <1>2. receipt' = [receipt EXCEPT ![c] = status] /\ receipt \in [Messages -> Statuses]
    BY <1>1, Typed
  <1>3. receipt'[c] = status /\ \A m \in Messages : m # c => receipt'[m] = receipt[m]
    BY <1>2
  <1> HIDE DEF current
  <1>4. Submitted'
    BY <1>1, <1>3 DEF Submitted, open
  <1>5. \A m \in Messages : carried(m)' <=> carried(m)
    BY DEF carried, sends
  <1>6. \A m \in Messages : isIn(m)' <=> isIn(m)
    BY DEF isIn
  <1>7. Carried'
    <2>1. \A m \in Messages : carried(m) => open(m)'
      BY <1>1, <1>3 DEF Carried, open
    <2>2. \A n \in Messages : closed(n) => closed(n)'
      BY <1>1, <1>3 DEF closed, open
    <2> QED
      BY <1>5, <1>6, <2>1, <2>2 DEF Carried
  <1>8. Known'
    <2>1. \A m \in Messages : written(Item(m))' <=> written(Item(m))
      BY DEF written
    <2> QED
      BY <1>1, <1>3, <1>6, <2>1 DEF Known
  <1>9. ASSUME status \in {"queued", "delivering"}
        PROVE  pending' = pending /\ current' = current
    <2>1. \A m \in Messages : open(m)' <=> open(m)
      BY <1>1, <1>3, <1>9 DEF open
    <2>2. pending' = pending
      BY <2>1 DEF pending
    <2> QED
      BY <2>2, CurrentKept
  <1> QED
    BY <1>4, <1>7, <1>8, <1>9

(* A calm step that asks nothing.                                           *)
LEMMA QuietKeeps ==
  ASSUME IInv, calm, UNCHANGED <<thread, child, turn, input, stdout, host, request>>,
         drain'.answer = Null, drain'.pc \notin Asking, drain'.live => host = "up",
         drain'.pc \in Working => pending' # {} /\ current' = current,
         drain'.pc = "begun" /\ drain'.interrupts => drain'.turn # Null,
         host = "up" /\ (\E m \in Messages : onItsWay(m)) =>
           drain'.live /\ drain'.pc = "confirming",
         drain'.pc = "settle" => isIn(current),
         drain'.pc = "fail" => ~carried(current) /\ (isIn(current) => current \in misjudged'),
         child = "attached" => \A t \in Messages : touched(t)' =>
           isIn(t) \/ (t = current /\ drain'.live /\ drain'.pc = "confirming")
  PROVE  Worked' /\ Attached' /\ Alone' /\ Asked' /\ Answered' /\ Concluded' /\ Turns'
  <1> USE DEF IInv
  <1>1. /\ \A m : carried(m)' <=> carried(m)
        /\ \A m : isIn(m)' <=> isIn(m)
        /\ \A l : written(l)' <=> written(l)
        /\ calm'
    BY DEF carried, sends, isIn, written, calm
  <1>2. ~accepted' /\ ~refused'
    BY <1>1, Answering, NullAssumption DEF accepted, refused, calm, written
  <1> HIDE DEF current
  <1>3. Worked' /\ Attached'
    BY DEF Worked, Attached
  <1>4. Alone'
    BY <1>1 DEF Alone, onItsWay, Working
  <1>5. Asked' /\ Answered'
    BY <1>1 DEF Asked, Answered, calm
  <1>6. Concluded'
    BY <1>1, <1>2 DEF Concluded, Working, Asking, Closing
  <1>7. Turns'
    <2>1. ASSUME NEW t \in Messages, child = "attached", touched(t)'
          PROVE  isIn(t) \/ starting(t)'
      <3>1. request' = Null
        BY <1>1, <2>1 DEF calm, Attached
      <3> QED
        BY <1>2, <2>1, <3>1 DEF starting, Working
    <2> QED
      BY <1>1, <1>2, <2>1 DEF Turns
  <1> QED
    BY <1>3, <1>4, <1>5, <1>6, <1>7

LEMMA RestKeeps ==
  ASSUME IInv, drain.pc \notin {"starting", "steering", "confirming"}, calm,
         UNCHANGED <<thread, child, turn, input, stdout, host, request, activeTurnId>>,
         drain'.answer = Null, drain'.pc \notin Asking \cup {"confirming"},
         drain'.live => host = "up",
         drain'.pc \in Working => pending' # {} /\ current' = current,
         drain'.pc = "begun" /\ drain'.interrupts => drain'.turn # Null,
         drain'.pc = "settle" => isIn(current),
         drain'.pc = "fail" => ~carried(current) /\ (isIn(current) => current \in misjudged')
  PROVE  Worked' /\ Attached' /\ Alone' /\ Asked' /\ Answered' /\ Concluded' /\ Turns'
  <1>1. \A t : touched(t)' <=> touched(t)
    BY DEF touched, written
  <1> QED
    BY <1>1, Unburdened, QuietKeeps

LEMMA TrackedKept ==
  ASSUME TurnIsTracked, UNCHANGED <<host, child, activeTurnId, turn, stdout, overtaken>>
  PROVE  TurnIsTracked'
  BY DEF TurnIsTracked, written

(* A calm step that asks the host's child something about the oldest message. *)
LEMMA AsksKeeps ==
  ASSUME IInv, calm, drain.live, drain.pc \in Working \ {"starting", "steering", "confirming"},
         UNCHANGED <<receipt, thread, child, turn, input, stdout, host, activeTurnId, misjudged,
                     overtaken>>,
         NEW pc \in Asking, NEW method, method = awaited[pc], NEW t \in Turn,
         goto(pc), ask(method, current, t),
         confirmed \subseteq confirmed', \A m \in confirmed' : m \in confirmed \/ isIn(m),
         pc \in {"reading", "starting", "steering"} => ~isIn(current),
         pc \in {"steering", "interrupting"} => t # Null
  PROVE  IInv' \/ ~TypeOK'
  <1> USE DEF IInv
  <1>1. pending # {} /\ host = "up" /\ request = Null /\ "answer" \notin kinds(stdout)
    BY DEF Worked, Attached, calm
  <1>2. PICK c \in Messages : c = current /\ open(c) /\ current' = c /\ pending' = pending
    BY <1>1, CurrentIsOldest, CurrentKept DEF pending, open
  <1>3. \A n \in Messages : n < c => closed(n)
    BY <1>1, <1>2, OlderIsClosed
  <1>4. method \in Methods
    BY DEF awaited, Asking, Methods
  <1>5. /\ request' # Null /\ request'.method = method /\ request'.message = c
        /\ request'.turn = t
    BY <1>2, <1>4, Asks
  <1>6. /\ drain'.pc = pc /\ drain'.answer = Null /\ drain'.live
    BY Goes, Typed DEF Pc
  <1>7. /\ \A m : isIn(m)' <=> isIn(m)
        /\ \A l : written(l)' <=> written(l)
        /\ \A m : open(m)' <=> open(m)
        /\ \A m : closed(m)' <=> closed(m)
        /\ \A m : touched(m)' <=> touched(m)
    BY DEF isIn, written, open, closed, touched
  <1>8. \A m \in Messages : ~onItsWay(m)
    BY <1>1, Unburdened
  <1>9. input = Null
    BY <1>8, Typed DEF onItsWay, carried, Turn
  <1>10. \A m \in Messages : carried(m)' <=> m = c /\ pc \in {"starting", "steering"}
    <2>1. method \in {"turn/start", "turn/steer"} <=> pc \in {"starting", "steering"}
      BY DEF awaited, Asking
    <2> QED
      BY <1>5, <1>9, <2>1, NullTurn DEF carried, sends
  <1>11. ~accepted' /\ ~refused'
    BY <1>1, <1>6, <1>7, Answering, NullAssumption DEF accepted, refused, written
  <1> HIDE DEF current
  <1>12. Submitted' /\ Worked'
    BY <1>1, <1>2, <1>6 DEF Submitted, Worked, Asking
  <1>13. Carried'
    BY <1>2, <1>3, <1>7, <1>9, <1>10 DEF Carried
  <1>14. Known'
    BY <1>7, <1>8 DEF Known, onItsWay
  <1>15. Attached'
    BY <1>6 DEF Attached
  <1>16. Alone'
    BY <1>2, <1>6, <1>7, <1>8, <1>10 DEF Alone, onItsWay
  <1>17. Asked' /\ Answered'
    <2>1. method \in {"turn/steer", "turn/interrupt"} <=> pc \in {"steering", "interrupting"}
      BY DEF awaited, Asking
    <2>2. Asked'
      BY <1>1, <1>2, <1>5, <1>6, <2>1 DEF Asked
    <2> QED
      BY <1>1, <1>6, <2>2 DEF Answered
  <1>18. Concluded'
    BY <1>2, <1>6, <1>7, <1>11 DEF Concluded, Asking
  <1>19. Turns'
    BY <1>1, <1>7, <1>11, Unburdened DEF Turns
  <1>20. TurnIsTracked'
    BY TrackedKept
  <1> QED
    BY <1>12, <1>13, <1>14, <1>15, <1>16, <1>17, <1>18, <1>19, <1>20

(* The types that steps of the drain leave to show.                         *)
LEMMA DrainTyped ==
  ASSUME TypeOK, UNCHANGED <<files, child, turn, input, stdout, viewer>>,
         UNCHANGED <<policy, host, faults>>,
         receipt' \in [Messages -> Statuses], fence' \in [Messages -> Fence],
         request' \in {Null} \cup Requests, activeTurnId' \in Turn, confirmed' \subseteq Messages,
         imageInput' \in BOOLEAN, overtaken' \in BOOLEAN, drain' \in DrainState,
         due' \in BOOLEAN, acknowledged' \subseteq Messages, misjudged' \subseteq Messages
  PROVE  TypeOK'
  BY Typed, TypedNext DEF files

LEMMA TimerFiresKeeps ==
  ASSUME IInv, TimerFires
  PROVE  IInv'
  <1> USE DEF IInv, TimerFires, journal, files, engine, broker
  <1>1. drain'.pc = "next" /\ drain'.answer = Null /\ drain'.live = FALSE /\ drain' \in DrainState
    BY IdleIs
  <1>2. TypeOK'
    BY <1>1, Typed, DrainTyped
  <1>3. calm
    BY Calm DEF Asking
  <1>4. Worked' /\ Attached' /\ Alone' /\ Asked' /\ Answered' /\ Concluded' /\ Turns'
    BY <1>1, <1>3, RestKeeps DEF Asking, Working, Closing
  <1> QED
    BY <1>2, <1>4, JournalKeeps, TrackedKept

LEMMA NextEffectKeeps ==
  ASSUME IInv, NextEffect
  PROVE  IInv'
  <1> USE DEF IInv, NextEffect, files, engine, broker
  <1>1. calm
    BY Calm DEF Asking
  <1>2. CASE drain' = Idle /\ UNCHANGED <<journal, acknowledged>>
    <2>1. TypeOK'
      BY <1>2, IdleIs, Typed, DrainTyped DEF journal
    <2>2. Worked' /\ Attached' /\ Alone' /\ Asked' /\ Answered' /\ Concluded' /\ Turns'
      BY <1>1, <1>2, IdleIs, RestKeeps DEF Asking, Working, Closing
    <2> QED
      BY <1>2, <2>1, <2>2, JournalKeeps, TrackedKept DEF journal
  <1>3. CASE pending # {} /\ goto("requeue") /\ UNCHANGED <<journal, acknowledged>>
    <2>1. /\ drain' \in DrainState /\ drain'.pc = "requeue" /\ drain'.answer = Null
          /\ drain'.live = drain.live
      BY <1>3, Goes, Typed DEF Pc, Closing
    <2>2. TypeOK'
      BY <1>3, <2>1, Typed, DrainTyped DEF journal
    <2>3. pending' = pending /\ current' = current
      BY <1>3, CurrentKept DEF journal, pending, open
    <2>4. Worked' /\ Attached' /\ Alone' /\ Asked' /\ Answered' /\ Concluded' /\ Turns'
      BY <1>1, <1>3, <2>1, <2>3, RestKeeps DEF Asking, Attached
    <2> QED
      BY <1>3, <2>2, <2>4, JournalKeeps, TrackedKept DEF journal
  <1>4. CASE /\ pending # {} /\ host \notin {"none", "dead"}
             /\ drain' = [Idle EXCEPT !.pc = "begun", !.turn = activeTurnId, !.live = TRUE,
                                   !.fence = deliveryFence(current),
                                   !.interrupts = mayInterrupt(current)]
             /\ receipt' = [receipt EXCEPT ![current] = "delivering"]
             /\ fence' = [fence EXCEPT ![current] = deliveryFence(current)]
             /\ acknowledged' = IF activeTurnId = Null THEN acknowledged \ {current}
                                                       ELSE acknowledged
             /\ UNCHANGED policy
    <2>1. PICK f \in Fence : f = deliveryFence(current) /\ f \in Turn
      <3>1. current \in Messages
        BY <1>4, CurrentIsOldest
      <3>2. fence[current] \in Fence /\ activeTurnId \in Turn /\ Null \in Turn
        BY <3>1, Typed, NullTurn
      <3>3. fence[current] # Undefined => fence[current] \in Turn
        BY <3>2 DEF Fence
      <3> QED
        BY <3>2, <3>3 DEF deliveryFence, Fence
    <2>2. PICK u \in BOOLEAN : u = mayInterrupt(current)
      BY DEF mayInterrupt
    <2>3. drain' = [Idle EXCEPT !.pc = "begun", !.turn = activeTurnId, !.live = TRUE,
                                !.fence = f, !.interrupts = u]
      BY <1>4, <2>1, <2>2
    <2>4. /\ drain' \in DrainState /\ drain'.pc = "begun" /\ drain'.answer = Null /\ drain'.live
          /\ drain'.turn = activeTurnId /\ drain'.interrupts = u
      BY <2>1, <2>2, <2>3, NullTurn, Typed DEF Idle, DrainState, Pc
    <2>10. drain'.interrupts => drain'.turn # Null
      BY <2>2, <2>4 DEF mayInterrupt
    <2>5. PICK c \in Messages : c = current
      BY <1>4, CurrentIsOldest
    <2>6. TypeOK'
      <3>1. receipt' \in [Messages -> Statuses] /\ fence' \in [Messages -> Fence]
        BY <1>4, <2>1, <2>5, Typed DEF Statuses
      <3>2. acknowledged' \subseteq Messages
        BY <1>4, Typed
      <3> QED
        BY <1>4, <2>4, <3>1, <3>2, Typed, DrainTyped
    <2>7. /\ Submitted' /\ Carried' /\ Known'
          /\ pending' = pending /\ current' = current
      BY <1>4, ReportKeeps
    <2>8. host = "up"
      BY <1>4, Typed
    <2>9. Worked' /\ Attached' /\ Alone' /\ Asked' /\ Answered' /\ Concluded' /\ Turns'
      BY <1>1, <1>4, <2>4, <2>7, <2>8, <2>10, RestKeeps DEF Asking
    <2> QED
      BY <2>6, <2>7, <2>9, TrackedKept
  <1> QED
    BY <1>2, <1>3, <1>4

(* A calm step that concludes.                                              *)
LEMMA ConcludesKeeps ==
  ASSUME IInv, calm, drain.pc \in Working \ {"starting", "steering", "confirming"},
         UNCHANGED <<receipt, thread, child, request, turn, input, stdout, host, activeTurnId,
                     overtaken>>,
         NEW pc \in Closing, goto(pc),
         confirmed \subseteq confirmed', \A m \in confirmed' : m \in confirmed \/ isIn(m),
         drain.live \/ UNCHANGED confirmed,
         misjudged \subseteq misjudged', \A m \in misjudged' : m \in misjudged \/ isIn(m),
         pc = "settle" => isIn(current),
         pc = "fail" => drain.live /\ (isIn(current) => current \in misjudged')
  PROVE  IInv' \/ ~TypeOK'
  <1> USE DEF IInv
  <1>1. /\ drain'.pc = pc /\ drain'.answer = Null /\ drain'.live = drain.live
        /\ pc \notin Asking \cup {"confirming"} /\ pc # "begun"
    BY Goes, Typed DEF Pc, Closing, Asking
  <1>2. pending # {} /\ pending' = pending /\ current' = current
    BY CurrentKept DEF Worked, pending, open
  <1>3. \A m \in Messages : drain.live => ~onItsWay(m)
    BY Unburdened DEF Attached
  <1>4. current \in Messages
    BY <1>2, CurrentIsOldest
  <1>5. Submitted' /\ Carried'
    BY DEF Submitted, Carried, open, closed, isIn, carried, sends
  <1>6. Known'
    <2>1. \A m : isIn(m)' <=> isIn(m)
      BY DEF isIn
    <2>2. \A l : written(l)' <=> written(l)
      BY DEF written
    <2> QED
      BY <1>3, <2>1, <2>2 DEF Known, onItsWay
  <1>7. drain.live => host = "up"
    BY DEF Attached
  <1>8. pc = "fail" => ~carried(current)
    BY <1>3, <1>4 DEF onItsWay
  <1>9. Worked' /\ Attached' /\ Alone' /\ Asked' /\ Answered' /\ Concluded' /\ Turns'
    BY <1>1, <1>2, <1>7, <1>8, RestKeeps
  <1> QED
    BY <1>5, <1>6, <1>9, TrackedKept

(* The look at what the host knows of the message before it is asked for.   *)
LEMMA LookUpKeeps ==
  ASSUME IInv, calm, drain.pc \in Working \ {"starting", "steering", "confirming"},
         UNCHANGED <<receipt, thread, child, turn, input, stdout, host, activeTurnId, overtaken,
                     confirmed, misjudged>>,
         lookUp(current) \/ send(current)
  PROVE  /\ IInv' \/ ~TypeOK'
         /\ drain' \in DrainState /\ request' \in {Null} \cup Requests
  <1> USE DEF IInv
  <1>1. PICK c \in Messages : c = current
    BY CurrentIsOldest DEF Worked
  <1>2. request \in {Null} \cup Requests /\ drain \in DrainState
    BY Typed
  <1>3. CASE goto("settle") /\ c \in confirmed /\ UNCHANGED request
    <2>1. isIn(c)
      BY <1>3 DEF Known
    <2>2. drain' \in DrainState
      BY <1>2, <1>3, Goes DEF Pc, Closing
    <2> QED
      BY <1>1, <1>2, <1>3, <2>1, <2>2, ConcludesKeeps DEF Closing
  <1>4. CASE goto("requeue") /\ UNCHANGED request
    <2>1. drain' \in DrainState
      BY <1>2, <1>4, Goes DEF Pc, Closing
    <2> QED
      BY <1>1, <1>2, <1>4, <2>1, ConcludesKeeps DEF Closing
  <1>5. CASE drain.live /\ goto("reading") /\ ask("thread/read", c, Null) /\ c \notin confirmed
    <2>1. ~isIn(c)
      BY <1>5, Unburdened DEF Known, Attached, onItsWay
    <2>2. drain' \in DrainState /\ request' \in Requests
      BY <1>2, <1>5, Goes, Asks, NullTurn DEF Pc, Asking, Methods
    <2>3. IInv' \/ ~TypeOK'
      BY <1>1, <1>5, <2>1, AsksKeeps, NullTurn DEF Asking, awaited
    <2> QED
      BY <2>2, <2>3
  <1>6. CASE drain.live /\ goto("probing") /\ ask("model/list", c, Null)
    <2>1. drain' \in DrainState /\ request' \in Requests
      BY <1>2, <1>6, Goes, Asks, NullTurn DEF Pc, Asking, Methods
    <2>2. IInv' \/ ~TypeOK'
      BY <1>1, <1>6, AsksKeeps, NullTurn DEF Asking, awaited
    <2> QED
      BY <2>1, <2>2
  <1>7. drain.live \in BOOLEAN
    BY <1>2 DEF DrainState
  <1> HIDE DEF current
  <1> QED
    BY <1>1, <1>3, <1>4, <1>5, <1>6, <1>7 DEF lookUp, send

LEMMA SendKeeps ==
  ASSUME IInv, Send
  PROVE  IInv'
  <1> USE DEF IInv, Send, journal, files, broker
  <1>1. calm
    BY Calm DEF Asking
  <1>2. /\ IInv' \/ ~TypeOK'
        /\ drain' \in DrainState /\ request' \in {Null} \cup Requests
    BY <1>1, LookUpKeeps DEF Working
  <1> QED
    BY <1>2, Typed, DrainTyped

LEMMA InterruptKeeps ==
  ASSUME IInv, Interrupt
  PROVE  IInv'
  <1> USE DEF IInv, Interrupt, journal, files, broker
  <1>1. calm
    BY Calm DEF Asking
  <1>2. PICK c \in Messages : c = current
    BY CurrentIsOldest DEF Worked, Working
  <1>3. drain \in DrainState /\ drain.turn \in Turn /\ activeTurnId \in Turn
    BY Typed DEF DrainState
  <1>4. CASE drain.live /\ activeTurnId = drain.turn
    <2>1. goto("interrupting") /\ ask("turn/interrupt", c, drain.turn) /\ drain.turn # Null
      BY <1>2, <1>4 DEF Worked
    <2>2. drain' \in DrainState /\ request' \in Requests
      BY <1>3, <2>1, Goes, Asks DEF Pc, Asking, Methods
    <2>3. IInv' \/ ~TypeOK'
      BY <1>1, <1>2, <1>3, <1>4, <2>1, AsksKeeps DEF Asking, awaited, Working
    <2> QED
      BY <1>4, <2>2, <2>3, Typed, DrainTyped
  <1>5. CASE ~(drain.live /\ activeTurnId = drain.turn)
    <2>1. PICK pc \in {"retry", "requeue"} : goto(pc) /\ UNCHANGED request
      BY <1>5
    <2>2. drain' \in DrainState
      BY <1>3, <2>1, Goes DEF Pc, Closing
    <2>3. IInv' \/ ~TypeOK'
      BY <1>1, <2>1, ConcludesKeeps DEF Working, Closing
    <2>4. acknowledged' \subseteq Messages
      BY <1>5, Typed
    <2> QED
      BY <2>1, <2>2, <2>3, <2>4, Typed, DrainTyped
  <1> QED
    BY <1>4, <1>5

LEMMA InterruptAnsweredKeeps ==
  ASSUME IInv, InterruptAnswered
  PROVE  IInv'
  <1> USE DEF IInv, InterruptAnswered, journal, files, broker
  <1>1. calm
    BY Calm
  <1>2. drain \in DrainState /\ current \in Messages
    BY Typed, CurrentIsOldest DEF Worked, Working, Asking
  <1>3. acknowledged' \subseteq Messages
    <2>1. acknowledged' \in {acknowledged \ {current}, acknowledged \cup {current}}
      OBVIOUS
    <2> QED
      BY <1>2, <2>1, Typed
  <1>4. CASE send(current)
    <2>1. /\ IInv' \/ ~TypeOK'
          /\ drain' \in DrainState /\ request' \in {Null} \cup Requests
      BY <1>1, <1>4, LookUpKeeps DEF Working, Asking
    <2> QED
      BY <1>3, <2>1, Typed, DrainTyped
  <1>5. CASE ~send(current)
    <2>1. PICK pc \in {"retry", "requeue"} : goto(pc) /\ UNCHANGED request
      BY <1>5
    <2>2. drain' \in DrainState
      BY <1>2, <2>1, Goes DEF Pc, Closing
    <2>3. IInv' \/ ~TypeOK'
      BY <1>1, <2>1, ConcludesKeeps DEF Working, Closing, Asking
    <2> QED
      BY <1>3, <2>1, <2>2, <2>3, Typed, DrainTyped
  <1> QED
    BY <1>4, <1>5

LEMMA InThread ==
  ASSUME NEW m
  PROVE  m \in ToSet(thread) <=> isIn(m)
  BY DEF ToSet, isIn

LEMMA ProbeAnsweredKeeps ==
  ASSUME IInv, ProbeAnswered
  PROVE  IInv'
  <1> USE DEF IInv, ProbeAnswered, journal, files, broker
  <1>1. calm
    BY Calm
  <1>2. drain \in DrainState /\ current \in Messages
    BY Typed, CurrentIsOldest DEF Worked, Working, Asking
  <1>3. CASE drain.answer = "ok"
    <2>1. /\ IInv' \/ ~TypeOK'
          /\ drain' \in DrainState /\ request' \in {Null} \cup Requests
      BY <1>1, <1>3, LookUpKeeps DEF Working, Asking
    <2>2. imageInput' \in BOOLEAN
      BY <1>3, Typed DEF DrainState
    <2> QED
      BY <1>3, <2>1, <2>2, Typed, DrainTyped
  <1>4. CASE drain.answer # "ok"
    <2>1. PICK pc \in {"fail", "requeue"} :
            goto(pc) /\ UNCHANGED <<request, imageInput>> /\ (pc = "fail" <=> drain.live)
      BY <1>2, <1>4 DEF DrainState
    <2>2. drain' \in DrainState
      BY <1>2, <2>1, Goes DEF Pc, Closing
    <2>3. /\ misjudged' \in SUBSET Messages /\ misjudged \subseteq misjudged'
          /\ \A m \in misjudged' : m \in misjudged \/ isIn(m)
          /\ drain.live /\ isIn(current) => current \in misjudged'
      BY <1>2, <1>4, InThread, Typed
    <2>4. IInv' \/ ~TypeOK'
      BY <1>1, <2>1, <2>3, ConcludesKeeps DEF Working, Closing, Asking
    <2> QED
      BY <2>1, <2>2, <2>3, <2>4, Typed, DrainTyped
  <1> QED
    BY <1>3, <1>4

LEMMA ReadAnsweredKeeps ==
  ASSUME IInv, ReadAnswered
  PROVE  IInv'
  <1> USE DEF IInv, ReadAnswered, journal, files
  <1>1. calm
    BY Calm
  <1>2. drain \in DrainState /\ activeTurnId \in Turn
    BY Typed
  <1>3. PICK c \in Messages : c = current
    BY CurrentIsOldest DEF Worked, Working, Asking
  <1>4. /\ confirmed' \subseteq Messages /\ confirmed \subseteq confirmed'
        /\ \A m \in confirmed' : m \in confirmed \/ isIn(m)
    <2>1. confirmed' = confirmed \/ confirmed' = confirmed \cup ToSet(thread)
      BY DEF deliveries
    <2>2. ToSet(thread) \subseteq Messages
      BY Typed DEF ToSet
    <2> QED
      BY <2>1, <2>2, InThread, Typed
  <1>5. drain.live => ~isIn(c)
    BY <1>3 DEF Concluded
  <1>6. \A m \in confirmed : isIn(m) /\ m \in Messages
    BY Typed DEF Known
  <1>7. ASSUME NEW pc \in Closing, goto(pc), UNCHANGED request, drain.live \/ UNCHANGED confirmed,
               pc = "settle" => isIn(c), pc = "fail" => drain.live
        PROVE  IInv'
    <2>1. drain' \in DrainState
      BY <1>2, <1>7, Goes DEF Pc
    <2>2. IInv' \/ ~TypeOK'
      BY <1>1, <1>3, <1>4, <1>5, <1>7, ConcludesKeeps DEF Working, Asking
    <2> QED
      BY <1>4, <1>7, <2>1, <2>2, Typed, DrainTyped
  <1>8. ASSUME drain.live, NEW pc \in {"steering", "starting"}, NEW t \in Turn, goto(pc),
               ask(awaited[pc], c, t), pc = "steering" => t # Null
        PROVE  IInv'
    <2>1. awaited[pc] \in Methods
      BY DEF awaited, Methods
    <2>2. drain' \in DrainState /\ request' \in Requests
      BY <1>2, <1>8, <2>1, Goes, Asks DEF Pc, Asking
    <2>3. PICK method : method = awaited[pc]
      OBVIOUS
    <2>4. ask(method, current, t)
      BY <1>3, <1>8, <2>3
    <2>5. IInv' \/ ~TypeOK'
      BY <1>1, <1>3, <1>4, <1>5, <1>8, <2>3, <2>4, AsksKeeps DEF Working, Asking
    <2> QED
      BY <1>4, <2>2, <2>5, Typed, DrainTyped
  <1>9. "settle" \in Closing /\ "fail" \in Closing /\ "requeue" \in Closing
    BY DEF Closing
  <1>10. CASE ~drain.live
    BY <1>7, <1>9, <1>10
  <1>11. CASE drain.live /\ drain.answer # "ok"
    BY <1>7, <1>9, <1>11
  <1>12. CASE drain.live /\ drain.answer = "ok"
    <2>1. CASE goto("settle") /\ UNCHANGED request /\ c \in confirmed'
      <3>1. isIn(c)
        BY <1>4, <1>6, <2>1
      <3> QED
        BY <1>7, <1>9, <1>12, <2>1, <3>1
    <2>2. CASE staleTurn /\ UNCHANGED request
      BY <1>7, <1>9, <1>12, <2>2 DEF staleTurn
    <2>3. CASE activeTurnId # Null /\ goto("steering") /\ ask("turn/steer", c, activeTurnId)
      <3>1. awaited["steering"] = "turn/steer"
        BY DEF awaited
      <3> QED
        BY <1>2, <1>8, <1>12, <2>3, <3>1
    <2>4. CASE goto("starting") /\ ask("turn/start", c, Null)
      <3>1. awaited["starting"] = "turn/start"
        BY DEF awaited
      <3> QED
        BY <1>8, <1>12, <2>4, <3>1, NullTurn
    <2> HIDE DEF current
    <2> QED
      BY <1>3, <1>12, <2>1, <2>2, <2>3, <2>4
  <1> QED
    BY <1>10, <1>11, <1>12

LEMMA SteerAnsweredKeeps ==
  ASSUME IInv, SteerAnswered
  PROVE  IInv'
  <1> USE DEF IInv, SteerAnswered, journal, files, engine, broker
  <1>1. calm
    BY Calm
  <1>2. drain \in DrainState /\ drain.answer \in Outcomes
    BY Typed DEF DrainState
  <1>3. pending # {} /\ pending' = pending /\ current' = current
    BY CurrentKept DEF Worked, Working, Asking, pending, open
  <1>4. PICK c \in Messages : c = current
    BY <1>3, CurrentIsOldest
  <1>5. \A t : touched(t)' <=> touched(t)
    BY DEF touched, written
  <1>6. child = "attached" => \A t \in Messages : touched(t) => isIn(t)
    BY DEF Turns, starting
  <1>7. \A m \in Messages : host = "up" /\ onItsWay(m) => drain.live /\ m = c
    BY <1>4 DEF Alone
  <1>8. ASSUME NEW pc \in Closing \cup {"confirming"}, goto(pc),
               host = "up" /\ (\E m \in Messages : onItsWay(m)) => pc = "confirming",
               pc = "settle" => isIn(c),
               pc = "fail" => ~carried(c) /\ ~isIn(c)
        PROVE  IInv'
    <2>1. /\ drain' \in DrainState /\ drain'.pc = pc /\ drain'.answer = Null
          /\ drain'.live = drain.live /\ pc \notin Asking /\ pc # "begun"
      BY <1>2, <1>8, Goes DEF Pc, Closing, Asking
    <2>2. TypeOK'
      BY <2>1, Typed, DrainTyped
    <2>3. drain.live => host = "up"
      BY DEF Attached
    <2> HIDE DEF current
    <2>4. Worked' /\ Attached' /\ Alone' /\ Asked' /\ Answered' /\ Concluded' /\ Turns'
      BY <1>1, <1>3, <1>4, <1>5, <1>6, <1>7, <1>8, <2>1, <2>3, QuietKeeps
    <2> QED
      BY <2>2, <2>4, JournalKeeps, TrackedKept
  <1>9. CASE drain.answer = "ok"
    <2>1. CASE goto("settle") /\ c \in confirmed
      <3>1. isIn(c) /\ ~onItsWay(c)
        BY <2>1 DEF Known, Carried, onItsWay
      <3> QED
        BY <1>7, <1>8, <2>1, <3>1 DEF Closing
    <2>2. CASE goto("confirming")
      BY <1>8, <2>2
    <2> QED
      BY <1>4, <1>9, <2>1, <2>2 DEF awaitConfirmation
  <1>10. CASE drain.answer # "ok"
    <2>1. refused
      BY <1>2, <1>10 DEF refused, Outcomes
    <2>2. ~carried(c) /\ ~isIn(c) /\ ~onItsWay(c)
      BY <1>4, <2>1 DEF Concluded, onItsWay, Known
    <2> QED
      BY <1>7, <1>8, <1>10, <2>2 DEF staleTurn, Closing
  <1> QED
    BY <1>9, <1>10

LEMMA StartAnsweredKeeps ==
  ASSUME IInv, StartAnswered
  PROVE  IInv'
  <1> USE DEF IInv, StartAnswered, journal, files, engine
  <1>1. calm /\ (host = "up" => drain.live)
    BY Calm DEF Answered
  <1>2. drain \in DrainState /\ drain.answer \in Outcomes
    BY Typed DEF DrainState
  <1>3. pending # {} /\ pending' = pending /\ current' = current
    BY CurrentKept DEF Worked, Working, Asking, pending, open
  <1>4. PICK c \in Messages : c = current
    BY <1>3, CurrentIsOldest
  <1>5. \A m \in Messages : host = "up" /\ onItsWay(m) => drain.live /\ m = c
    BY <1>4 DEF Alone
  <1>6. drain.live => host = "up"
    BY DEF Attached
  <1>7. ASSUME NEW pc \in Closing \cup {"confirming"}, goto(pc), host' = host,
               activeTurnId' \in Turn, overtaken' \in BOOLEAN, due' \in BOOLEAN,
               host = "up" /\ (\E m \in Messages : onItsWay(m)) => pc = "confirming",
               child = "attached" => \A t \in Messages : touched(t)' =>
                 isIn(t) \/ (t = c /\ pc = "confirming"),
               pc = "settle" => isIn(c),
               pc = "fail" => ~carried(c) /\ ~isIn(c),
               TurnIsTracked'
        PROVE  IInv'
    <2>1. /\ drain' \in DrainState /\ drain'.pc = pc /\ drain'.answer = Null
          /\ drain'.live = drain.live /\ pc \notin Asking /\ pc # "begun"
      BY <1>2, <1>7, Goes DEF Pc, Closing, Asking
    <2>2. TypeOK'
      BY <1>7, <2>1, Typed, DrainTyped
    <2>3. child = "attached" => drain.live
      BY <1>1 DEF Attached
    <2> HIDE DEF current
    <2>4. Worked' /\ Attached' /\ Alone' /\ Asked' /\ Answered' /\ Concluded' /\ Turns'
      BY <1>1, <1>3, <1>4, <1>5, <1>6, <1>7, <2>1, <2>3, QuietKeeps
    <2> QED
      BY <1>7, <2>2, <2>4, JournalKeeps
  <1>8. CASE drain.answer = "ok"
    <2>1. PICK pc \in {"settle", "confirming"} :
            goto(pc) /\ (pc = "settle" <=> c \in confirmed)
      BY <1>4, <1>8 DEF awaitConfirmation
    <2>2. pc = "settle" => isIn(c) /\ ~onItsWay(c)
      BY <2>1 DEF Known, Carried, onItsWay
    <2>3. host' = host /\ activeTurnId' \in Turn /\ overtaken' \in BOOLEAN /\ due' \in BOOLEAN
      <3>1. host \in {"none", "up", "dead"} /\ activeTurnId \in Turn /\ overtaken \in BOOLEAN
              /\ due \in BOOLEAN /\ c \in Turn
        BY Typed, NullTurn
      <3>2. CASE drain.live
        <4>1. becomes(host, c) /\ overtaken' \in BOOLEAN
          BY <1>4, <1>8, <3>1, <3>2
        <4> QED
          BY <3>1, <4>1, Becomes
      <3> QED
        BY <1>8, <3>1, <3>2
    <2>4. activeTurnId' = activeTurnId \/ (drain.live /\ activeTurnId' = c)
      BY <1>4, <1>8 DEF becomes
    <2>5. \A t : touched(t)' => touched(t) \/ t = c
      BY <2>4 DEF touched, written
    <2>6. child = "attached" => \A t \in Messages : touched(t)' =>
            isIn(t) \/ (t = c /\ pc = "confirming")
      BY <1>4, <2>1, <2>2, <2>5 DEF Turns, starting
    <2>7. TurnIsTracked'
      <3>1. CASE drain.live
        <4>1. /\ activeTurnId' = c
              /\ turn = c \/ written(Completed(c)) \/ overtaken'
          BY <1>4, <1>8, <3>1 DEF becomes
        <4>2. child = "attached" => turn \in {Null, c}
          BY <1>4, <1>8 DEF Turns, accepted
        <4>3. \A l : written(l)' <=> written(l)
          BY DEF written
        <4> HIDE DEF current
        <4> QED
          BY <2>3, <4>1, <4>2, <4>3 DEF TurnIsTracked
      <3>2. CASE ~drain.live
        <4>1. host' # "up"
          BY <1>1, <2>3, <3>2
        <4> QED
          BY <4>1 DEF TurnIsTracked
      <3> QED
        BY <3>1, <3>2
    <2> QED
      BY <1>5, <1>7, <2>1, <2>2, <2>3, <2>6, <2>7 DEF Closing
  <1>9. CASE drain.answer # "ok"
    <2>1. refused
      BY <1>2, <1>9 DEF refused, Outcomes
    <2>2. ~carried(c) /\ ~isIn(c) /\ ~onItsWay(c)
      BY <1>4, <2>1 DEF Concluded, onItsWay, Known
    <2>3. PICK pc \in {"fail", "requeue"} : goto(pc)
      BY <1>9
    <2>4. UNCHANGED <<host, activeTurnId, overtaken, due>>
      BY <1>9
    <2>5. \A t : touched(t)' => touched(t)
      BY <2>4 DEF touched, written
    <2>6. child = "attached" => \A t \in Messages : touched(t)' => isIn(t)
      BY <2>1, <2>5 DEF Turns, starting
    <2>7. TurnIsTracked'
      BY <2>4, TrackedKept
    <2> QED
      BY <1>5, <1>7, <2>2, <2>3, <2>4, <2>6, <2>7, Typed DEF Closing
  <1> QED
    BY <1>8, <1>9

LEMMA ClosingKeeps ==
  ASSUME IInv, Requeue \/ Settle \/ Fail
  PROVE  IInv'
  <1> USE DEF IInv, files, engine, broker
  <1>1. calm
    BY Calm DEF Requeue, Settle, Fail, Asking
  <1>2. PICK status \in {"queued", "delivered", "failed"} :
          /\ receipt' = [receipt EXCEPT ![current] = status] /\ UNCHANGED <<policy, fence>>
          /\ status = "delivered" => drain.pc = "settle"
          /\ status = "failed" => drain.pc = "fail"
    BY DEF Requeue, Settle, Fail, report
  <1>3. drain.pc \in Closing
    BY DEF Requeue, Settle, Fail, Closing
  <1>4. drain' = Idle \/ drain' = [Idle EXCEPT !.pc = "next"]
    BY DEF Requeue, Settle, Fail
  <1>5. /\ drain' \in DrainState /\ drain'.pc \in {"off", "next"} /\ drain'.answer = Null
        /\ drain'.live = FALSE
    BY <1>4, IdleIs
  <1>6. UNCHANGED <<files, engine, viewer, broker, acknowledged, misjudged, faults>>
    BY DEF Requeue, Settle, Fail
  <1>7. PICK c \in Messages : c = current /\ pending # {}
    BY <1>3, CurrentIsOldest DEF Worked, Working
  <1>8. TypeOK'
    <2>1. receipt' \in [Messages -> Statuses] /\ fence' \in [Messages -> Fence]
      BY <1>2, <1>7, Typed DEF Statuses
    <2>2. due' \in BOOLEAN
      BY Typed DEF Requeue, Settle, Fail, retrySoon
    <2> QED
      BY <1>2, <1>5, <1>6, <2>1, <2>2, Typed, DrainTyped
  <1>9. Submitted' /\ Carried' /\ Known'
    <2>1. /\ status = "delivered" => isIn(current)
          /\ status = "failed" => ~carried(current) /\ (isIn(current) => current \in misjudged)
      BY <1>2 DEF Concluded
    <2>2. isIn(c) => ~carried(c)
      BY DEF Carried
    <2> HIDE DEF current
    <2> QED
      BY <1>2, <1>6, <1>7, <2>1, <2>2, ReportKeeps
  <1>10. Worked' /\ Attached' /\ Alone' /\ Asked' /\ Answered' /\ Concluded' /\ Turns'
    BY <1>1, <1>3, <1>5, <1>6, RestKeeps DEF Asking, Working, Closing
  <1> QED
    BY <1>6, <1>8, <1>9, <1>10, TrackedKept

---------------------------------------------------------------------------
(* The host reads a line.                                                   *)
LEMMA HeadRead ==
  ASSUME TypeOK, NEW type, read(type), NEW h, h = Head(stdout)
  PROVE  /\ host = "up" /\ stdout' \in Seq(Lines) /\ h \in Lines /\ h.type = type
         /\ \A l : written(l) <=> written(l)' \/ l = h
         /\ kinds(stdout) = kinds(stdout') \cup {type}
         /\ \A k : single(stdout, k) => single(stdout', k)
         /\ single(stdout, type) => type \notin kinds(stdout')
         /\ ordered(stdout, turn) =>
              /\ ordered(stdout', turn)
              /\ type = "turn/started" =>
                   /\ turn = h.of \/ Completed(h.of) \in ToSet(stdout')
                   /\ turn # Null /\ turn # h.of => Started(turn) \in ToSet(stdout')
  <1>1. stdout \in Seq(Lines) /\ stdout # << >> /\ stdout' = Tail(stdout) /\ turn \in Turn
    BY Typed DEF read
  <1>2. stdout' = RemoveAt(stdout, 1) /\ 1 \in DOMAIN stdout /\ stdout[1] = h
    BY <1>1, TailRemoves
  <1>3. h \in Lines /\ h.type = type /\ host = "up"
    BY <1>1, <1>2 DEF read
  <1>a. PICK s \in Seq(Lines) : s = stdout
    BY <1>1
  <1>b. PICK k \in DOMAIN s : k = 1
    BY <1>2, <1>a
  <1>c. PICK t : t = stdout'
    OBVIOUS
  <1>4. s = stdout /\ k = 1 /\ t = stdout' /\ t = RemoveAt(s, k) /\ s[k] = h
    BY <1>1, <1>2, <1>a, <1>b, <1>c
  <1>5. /\ t \in Seq(Lines)
        /\ ToSet(s) = ToSet(t) \cup {s[k]} /\ kinds(s) = kinds(t) \cup {s[k].type}
        /\ \A j : single(s, j) => single(t, j)
        /\ \A j : single(s, j) /\ s[k].type = j => j \notin kinds(t)
    BY <1>4, Dropped
  <1>6. ordered(s, turn) =>
          /\ ordered(t, turn)
          /\ k = 1 /\ s[k].type = "turn/started" =>
               /\ turn = s[k].of \/ Completed(s[k].of) \in ToSet(t)
               /\ turn # Null /\ turn # s[k].of => Started(turn) \in ToSet(t)
    BY <1>1, <1>4, DroppedInOrder
  <1>7. \A l : (written(l) <=> l \in ToSet(s)) /\ (written(l)' <=> l \in ToSet(t))
    BY <1>4 DEF written
  <1>8. \A l : written(l) <=> written(l)' \/ l = h
    BY <1>4, <1>5, <1>7
  <1>9. /\ stdout' \in Seq(Lines) /\ kinds(stdout) = kinds(stdout') \cup {type}
        /\ \A j : single(stdout, j) => single(stdout', j)
        /\ single(stdout, type) => type \notin kinds(stdout')
    BY <1>3, <1>4, <1>5
  <1> QED
    BY <1>3, <1>4, <1>6, <1>8, <1>9

(* Reading changes nothing but what the host knows.                         *)
LEMMA ReadTyped ==
  ASSUME TypeOK, UNCHANGED <<journal, thread, child, turn, input, viewer, imageInput, acknowledged,
                             misjudged, request, host, overtaken>>, UNCHANGED faults,
         stdout' \in Seq(Lines), ledgerTurn' \in Turn, activeTurnId' \in Turn,
         confirmed' \subseteq Messages, drain' \in DrainState, due' \in BOOLEAN
  PROVE  TypeOK'
  BY Typed, TypedNext DEF journal

LEMMA AcceptAnswerKeeps ==
  ASSUME IInv, AcceptAnswer
  PROVE  IInv'
  <1> USE DEF IInv, AcceptAnswer, journal, files, broker
  <1>1. PICK h : h = Head(stdout)
    OBVIOUS
  <1>2. /\ host = "up" /\ stdout' \in Seq(Lines) /\ h \in Lines /\ h.type = "answer"
        /\ \A l : written(l) <=> written(l)' \/ l = h
        /\ kinds(stdout) = kinds(stdout') \cup {"answer"}
        /\ \A k : single(stdout, k) => single(stdout', k)
        /\ "answer" \notin kinds(stdout')
        /\ ordered(stdout, turn) => ordered(stdout', turn)
    BY <1>1, HeadRead DEF Answered
  <1>3. PICK o \in Outcomes : o = h.of /\ h = Answer(o)
    BY <1>2, LineIs
  <1>4. drain.live /\ drain.pc \in Asking /\ drain.answer = Null /\ request = Null
    BY <1>2 DEF Answered
  <1>5. /\ drain' = [drain EXCEPT !.answer = o]
        /\ drain \in DrainState
    BY <1>1, <1>3, Typed
  <1>6. /\ drain' \in DrainState /\ drain'.answer = o /\ drain'.pc = drain.pc /\ drain'.live
        /\ o # Null /\ drain'.pc # "begun"
    BY <1>4, <1>5, NullAssumption DEF DrainState, Outcomes, Asking
  <1>7. TypeOK'
    BY <1>2, <1>6, Typed, ReadTyped
  <1>8. /\ \A m : carried(m)' <=> carried(m)
        /\ \A m : isIn(m)' <=> isIn(m)
        /\ \A m : written(Item(m))' <=> written(Item(m))
        /\ \A m : written(Started(m))' <=> written(Started(m))
        /\ \A m : written(Completed(m))' <=> written(Completed(m))
    BY <1>2, <1>3, LineOf DEF carried, sends, isIn
  <1>9. (refused' => refused) /\ (accepted' => accepted)
    BY <1>2, <1>3, <1>6 DEF refused, accepted
  <1>10. pending' = pending /\ current' = current
    BY CurrentKept DEF pending, open
  <1> HIDE DEF current, AcceptAnswer
  <1>11. UNCHANGED <<receipt, thread, child, request, turn, input, host, activeTurnId, confirmed,
                     overtaken, misjudged>>
    BY DEF AcceptAnswer
  <1>12. Submitted' /\ Worked' /\ Carried'
    BY <1>6, <1>8, <1>10, <1>11 DEF Submitted, Worked, Carried, open, closed
  <1>13. Known' /\ Attached' /\ Alone'
    BY <1>2, <1>4, <1>6, <1>8, <1>10, <1>11 DEF Known, Attached, Alone, onItsWay
  <1>14. Asked' /\ Answered' /\ Concluded'
    BY <1>2, <1>4, <1>6, <1>8, <1>9, <1>10, <1>11 DEF Asked, Answered, Concluded, Asking
  <1>15. Turns'
    <2>1. \A t : touched(t)' <=> touched(t)
      BY <1>8, <1>11 DEF touched
    <2>2. \A t : starting(t) => starting(t)'
      BY <1>6, <1>9, <1>10, <1>11 DEF starting
    <2> QED
      BY <1>2, <1>6, <1>8, <1>9, <1>10, <1>11, <2>1, <2>2 DEF Turns
  <1>16. TurnIsTracked'
    BY <1>8, <1>11 DEF TurnIsTracked
  <1> QED
    BY <1>7, <1>12, <1>13, <1>14, <1>15, <1>16

(* Reading the start or the end of a turn.                                  *)
LEMMA TurnReadKeeps ==
  ASSUME IInv, AcceptStarted \/ AcceptCompleted
  PROVE  IInv'
  <1> USE DEF IInv
  <1>1. PICK h : h = Head(stdout)
    OBVIOUS
  <1>2. PICK type \in {"turn/started", "turn/completed"} :
          read(type) /\ (type = "turn/started" <=> AcceptStarted)
    BY <1>1, HeadRead DEF AcceptStarted, AcceptCompleted
  <1>3. /\ host = "up" /\ stdout' \in Seq(Lines) /\ h \in Lines /\ h.type = type
        /\ \A l : written(l) <=> written(l)' \/ l = h
        /\ kinds(stdout) = kinds(stdout') \cup {type}
        /\ \A k : single(stdout, k) => single(stdout', k)
        /\ ordered(stdout, turn) =>
             /\ ordered(stdout', turn)
             /\ type = "turn/started" =>
                  /\ turn = h.of \/ Completed(h.of) \in ToSet(stdout')
                  /\ turn # Null /\ turn # h.of => Started(turn) \in ToSet(stdout')
    BY <1>1, <1>2, HeadRead
  <1>4. PICK t \in Messages : t = h.of /\ h = IF type = "turn/started" THEN Started(t)
                                                                      ELSE Completed(t)
    BY <1>2, <1>3, LineIs
  <1>5. /\ UNCHANGED <<journal, thread, child, request, turn, input, viewer, confirmed, imageInput,
                       overtaken, drain, acknowledged, misjudged, faults>>
        /\ host' = host /\ due' = (due \/ <<host, activeTurnId'>> # <<host, activeTurnId>>)
    BY DEF AcceptStarted, AcceptCompleted, becomes
  <1>6. /\ AcceptStarted => activeTurnId' = t /\ ledgerTurn' = t
        /\ ~AcceptStarted =>
             /\ activeTurnId' = (IF activeTurnId = t THEN Null ELSE activeTurnId)
             /\ ledgerTurn' = (IF ledgerTurn = t THEN Null ELSE ledgerTurn)
    BY <1>1, <1>4 DEF AcceptStarted, AcceptCompleted, becomes
  <1>7. TypeOK'
    <2>1. activeTurnId' \in Turn /\ ledgerTurn' \in Turn
      BY <1>6, Typed, NullTurn
    <2>2. due' \in BOOLEAN
      BY <1>5, Typed
    <2> QED
      BY <1>3, <1>5, <2>1, <2>2, Typed, ReadTyped
  <1>8. /\ \A m : carried(m)' <=> carried(m)
        /\ \A m : isIn(m)' <=> isIn(m)
        /\ \A m : written(Item(m))' <=> written(Item(m))
        /\ \A o : written(Answer(o))' <=> written(Answer(o))
        /\ \A l : written(l)' => written(l)
        /\ "answer" \in kinds(stdout') <=> "answer" \in kinds(stdout)
    BY <1>2, <1>3, <1>4, <1>5, LineOf DEF carried, sends, isIn
  <1>9. (refused' <=> refused) /\ (accepted' <=> accepted)
    BY <1>5, <1>8 DEF refused, accepted
  <1>10. pending' = pending /\ current' = current
    BY <1>5, CurrentKept DEF pending, open, journal
  <1> HIDE DEF current
  <1>11. UNCHANGED <<receipt, thread, child, request, turn, input, host, confirmed,
                     overtaken, misjudged, drain>>
    BY <1>5 DEF journal
  <1>12. Submitted' /\ Worked' /\ Carried'
    BY <1>8, <1>10, <1>11 DEF Submitted, Worked, Carried, open, closed
  <1>13. Known' /\ Attached' /\ Alone'
    BY <1>3, <1>8, <1>10, <1>11 DEF Known, Attached, Alone, onItsWay
  <1>14. Asked' /\ Answered' /\ Concluded'
    BY <1>3, <1>8, <1>9, <1>10, <1>11 DEF Asked, Answered, Concluded
  <1>15. \A u \in Messages : touched(u)' => touched(u)
    <2>1. \A u \in Messages : u # Null
      BY NullTurn
    <2>2. AcceptStarted => written(Started(t))
      BY <1>2, <1>3, <1>4
    <2> QED
      BY <1>6, <1>8, <1>11, <2>1, <2>2 DEF touched
  <1>16. Turns'
    <2>1. \A u : starting(u) <=> starting(u)'
      BY <1>9, <1>10, <1>11 DEF starting
    <2> QED
      BY <1>3, <1>8, <1>9, <1>10, <1>11, <1>15, <2>1 DEF Turns
  <1>17. TurnIsTracked'
    <2> SUFFICES ASSUME child = "attached"
                 PROVE  TurnIsTracked'
      BY <1>11 DEF TurnIsTracked
    <2>1. ordered(stdout, turn) /\ (turn # Null => ~written(Completed(turn)))
      BY DEF Turns
    <2>2. /\ activeTurnId # Null =>
               turn = activeTurnId \/ written(Completed(activeTurnId)) \/ overtaken
          /\ turn # Null => activeTurnId = turn \/ written(Started(turn))
      BY <1>3 DEF TurnIsTracked
    <2>3. CASE AcceptStarted
      <3>1. activeTurnId' = t /\ h = Started(t)
        BY <1>2, <1>4, <1>6, <2>3
      <3>2. turn = t \/ written(Completed(t))'
        BY <1>2, <1>3, <1>4, <2>1, <2>3 DEF written
      <3>3. turn # Null /\ turn # t => Started(turn) \in ToSet(stdout')
        BY <1>2, <1>3, <1>4, <2>1, <2>3
      <3>4. turn # Null => activeTurnId' = turn \/ Started(turn) \in ToSet(stdout')
        BY <3>1, <3>3
      <3>5. activeTurnId' # Null => turn = activeTurnId' \/ Completed(activeTurnId') \in ToSet(stdout')
        BY <3>1, <3>2 DEF written
      <3> QED
        BY <1>11, <3>4, <3>5 DEF TurnIsTracked, written
    <2>4. CASE ~AcceptStarted
      <3>1. h = Completed(t) /\ activeTurnId' = IF activeTurnId = t THEN Null ELSE activeTurnId
        BY <1>2, <1>4, <1>6, <2>4
      <3>2. turn # t
        BY <1>3, <2>1, <3>1, NullTurn
      <3>3. \A u : Started(u) # Completed(t)
        BY LineOf
      <3>4. \A u : Completed(u) = Completed(t) => u = t
        BY LineOf
      <3>5. activeTurnId' # Null => activeTurnId' = activeTurnId /\ activeTurnId # t
        BY <3>1
      <3>6. activeTurnId # Null /\ activeTurnId # t =>
              turn = activeTurnId \/ Completed(activeTurnId) \in ToSet(stdout') \/ overtaken
        BY <1>3, <2>2, <3>1, <3>4 DEF written
      <3>7. activeTurnId' # Null =>
              turn = activeTurnId' \/ Completed(activeTurnId') \in ToSet(stdout') \/ overtaken
        BY <3>5, <3>6
      <3>8. written(Started(turn)) => Started(turn) \in ToSet(stdout')
        BY <1>3, <3>1, <3>3 DEF written
      <3>9. turn # Null => activeTurnId' = turn \/ Started(turn) \in ToSet(stdout')
        BY <2>2, <3>1, <3>2, <3>8
      <3> QED
        BY <1>11, <3>7, <3>9 DEF TurnIsTracked, written
    <2> QED
      BY <2>3, <2>4
  <1> QED
    BY <1>7, <1>12, <1>13, <1>14, <1>16, <1>17

LEMMA AcceptItemKeeps ==
  ASSUME IInv, AcceptItem
  PROVE  IInv'
  <1> USE DEF IInv, AcceptItem, journal, files
  <1>1. PICK h : h = Head(stdout)
    OBVIOUS
  <1>2. /\ host = "up" /\ stdout' \in Seq(Lines) /\ h \in Lines /\ h.type = "item/completed"
        /\ \A l : written(l) <=> written(l)' \/ l = h
        /\ kinds(stdout) = kinds(stdout') \cup {"item/completed"}
        /\ \A k : single(stdout, k) => single(stdout', k)
        /\ "item/completed" \notin kinds(stdout')
        /\ ordered(stdout, turn) => ordered(stdout', turn)
    BY <1>1, HeadRead DEF Known
  <1>3. PICK m \in Messages : m = h.of /\ h = Item(m)
    BY <1>2, LineIs
  <1>4. /\ written(Item(m)) /\ isIn(m) /\ ~carried(m) /\ m = current /\ drain.live
        /\ drain.pc \in {"starting", "steering", "confirming"}
    BY <1>2, <1>3 DEF Alone, Known, Carried, onItsWay
  <1>5. pending' = pending /\ current' = current
    BY CurrentKept DEF pending, open
  <1>6. /\ \A n : carried(n)' <=> carried(n)
        /\ \A n : isIn(n)' <=> isIn(n)
        /\ \A l : l # Item(m) => (written(l)' <=> written(l))
        /\ \A n : written(Item(n)) <=> written(Item(n))' \/ n = m
        /\ \A n : ~written(Item(n))'
        /\ \A l : written(l)' => written(l)
    <2>1. \A n : ~written(Item(n))'
      BY <1>2, LineOf DEF written, kinds, ToSet
    <2>2. \A n : Item(n) = Item(m) => n = m
      BY LineOf
    <2> QED
      BY <1>2, <1>3, <2>1, <2>2 DEF carried, sends, isIn
  <1>7. /\ \A o : Answer(o) # Item(m)
        /\ \A t : Started(t) # Item(m) /\ Completed(t) # Item(m)
    BY LineOf
  <1>8. (drain.pc = "confirming" /\ goto("settle")) \/ (drain.pc # "confirming" /\ drain' = drain)
    BY <1>1, <1>3, <1>4
  <1>9. drain \in DrainState /\ drain.live = TRUE
    BY <1>4, Typed DEF DrainState
  <1>10. /\ drain' \in DrainState /\ drain'.live /\ drain'.answer = drain.answer
         /\ drain.pc = "confirming" => drain'.pc = "settle" /\ drain.answer = Null
         /\ drain.pc # "confirming" => drain' = drain
    <2>1. "settle" \in Pc /\ "confirming" \notin Asking
      BY DEF Pc, Closing, Asking
    <2> QED
      BY <1>8, <1>9, <2>1, Goes DEF Answered
  <1>11. confirmed' = confirmed \cup {m}
    BY <1>1, <1>3
  <1> HIDE DEF current, AcceptItem
  <1>12. UNCHANGED <<receipt, thread, child, request, turn, input, host, activeTurnId,
                     overtaken, misjudged>>
    BY DEF AcceptItem
  <1>13. TypeOK'
    <2>1. confirmed' \subseteq Messages
      BY <1>11, Typed
    <2> QED
      BY <1>2, <1>10, <2>1, Typed, ReadTyped DEF AcceptItem
  <1>14. (refused' <=> refused) /\ (accepted' <=> accepted)
    BY <1>6, <1>7, <1>10 DEF refused, accepted
  <1>15. "answer" \in kinds(stdout) <=> "answer" \in kinds(stdout')
    BY <1>2
  <1>16. Submitted' /\ Worked' /\ Carried'
    BY <1>4, <1>5, <1>6, <1>10, <1>12 DEF Submitted, Worked, Carried, open, closed, Working, Asking
  <1>17. Known'
    BY <1>2, <1>4, <1>6, <1>11, <1>12 DEF Known
  <1>18. Attached' /\ Alone'
    <2>1. Attached'
      BY <1>2, <1>10, <1>12 DEF Attached, Asking
    <2>2. \A n \in Messages : carried(n) => n = m
      BY <1>2, <1>4 DEF Alone, onItsWay
    <2>3. Alone'
      BY <1>4, <1>6, <2>2 DEF Alone, onItsWay
    <2> QED
      BY <2>1, <2>3
  <1>19. Asked' /\ Answered'
    <2>1. request = Null \/ drain' = drain
      BY <1>2, <1>10 DEF Asked, Asking
    <2>2. Asked'
      BY <1>5, <1>12, <1>15, <2>1 DEF Asked
    <2>3. Answered'
      BY <1>2, <1>10, <1>12, <1>15 DEF Answered, Asking
    <2> QED
      BY <2>2, <2>3
  <1>20. Concluded'
    BY <1>4, <1>5, <1>6, <1>10, <1>12, <1>14 DEF Concluded
  <1>21. Turns'
    <2>1. \A t : touched(t)' <=> touched(t)
      BY <1>6, <1>7, <1>12 DEF touched
    <2>2. \A t : starting(t) => starting(t)' \/ isIn(t)
      BY <1>4, <1>5, <1>10, <1>12, <1>14 DEF starting
    <2>3. drain'.pc = "starting" => drain.pc = "starting"
      BY <1>10
    <2> QED
      BY <1>2, <1>5, <1>6, <1>12, <1>14, <2>1, <2>2, <2>3 DEF Turns
  <1>22. TurnIsTracked'
    BY <1>6, <1>7, <1>12 DEF TurnIsTracked
  <1> QED
    BY <1>13, <1>16, <1>17, <1>18, <1>19, <1>20, <1>21, <1>22

LEMMA ReadTimesOutKeeps ==
  ASSUME IInv, ReadTimesOut
  PROVE  IInv'
  <1> USE DEF IInv
  <1>1. /\ drain.pc = "reading" /\ drain.answer = Null /\ drain.live /\ host = "up"
        /\ stdout \in Seq(Lines) /\ turn \in Turn /\ drain \in DrainState
    BY Typed DEF ReadTimesOut, Attached, Asking
  <1>2. \/ stdout' = stdout /\ "answer" \notin kinds(stdout)
        \/ \E k \in DOMAIN stdout : stdout[k].type = "answer" /\ stdout' = RemoveAt(stdout, k)
    <2>1. PICK t : t = RemoveFirstMatch(stdout, LAMBDA line : line.type = "answer") /\ stdout' = t
      BY Zenon DEF ReadTimesOut
    <2> QED
      BY <1>1, <2>1, AnswerDropped DEF Answered
  <1>3. /\ stdout' \in Seq(Lines) /\ "answer" \notin kinds(stdout')
        /\ \A l : written(l)' => written(l)
        /\ \A l : l.type # "answer" => (written(l)' <=> written(l))
        /\ \A k : single(stdout, k) => single(stdout', k)
        /\ ordered(stdout, turn) => ordered(stdout', turn)
    <2>1. CASE stdout' = stdout /\ "answer" \notin kinds(stdout)
      BY <1>1, <2>1 DEF written
    <2>2. CASE \E k \in DOMAIN stdout :
                 stdout[k].type = "answer" /\ stdout' = RemoveAt(stdout, k)
      <3>a. PICK s \in Seq(Lines) : s = stdout
        BY <1>1
      <3>b. PICK k \in DOMAIN s : s[k].type = "answer" /\ stdout' = RemoveAt(s, k)
        BY <2>2, <3>a
      <3>c. PICK t : t = stdout'
        OBVIOUS
      <3>1. /\ t \in Seq(Lines) /\ ToSet(s) = ToSet(t) \cup {s[k]}
            /\ \A j : single(s, j) => single(t, j)
            /\ single(s, "answer") => "answer" \notin kinds(t)
        BY <3>b, <3>c, Dropped
      <3>2. ordered(s, turn) => ordered(t, turn)
        BY <1>1, <3>b, <3>c, DroppedInOrder
      <3>3. \A l : (written(l) <=> l \in ToSet(s)) /\ (written(l)' <=> l \in ToSet(t))
        BY <3>a, <3>c DEF written
      <3> QED
        BY <3>a, <3>b, <3>c, <3>1, <3>2, <3>3 DEF Answered
    <2> QED
      BY <1>2, <2>1, <2>2
  <1>4. PICK pc \in {"retry", "begun"} :
          drain' = [drain EXCEPT !.pc = pc, !.interrupts = FALSE, !.again = TRUE]
    BY Zenon DEF ReadTimesOut
  <1>5. /\ drain' \in DrainState /\ drain'.pc = pc /\ drain'.answer = Null /\ drain'.live
        /\ drain'.interrupts = FALSE
    BY <1>1, <1>4 DEF DrainState, Pc, Closing
  <1>6. /\ request' = Null /\ fault
        /\ UNCHANGED <<journal, files, child, turn, input, viewer, broker, due, acknowledged,
                       misjudged>>
    BY Zenon DEF ReadTimesOut
  <1>7. UNCHANGED <<receipt, policy, fence, thread, ledgerTurn, child, turn, input, viewer, host,
                    activeTurnId, confirmed, imageInput, overtaken, due, acknowledged, misjudged>>
    BY <1>6 DEF journal, files, broker
  <1>8. TypeOK'
    <2>1. faults' \in 0 .. MaxFaults
      BY <1>6, FaultTyped, Typed
    <2> QED
      BY <1>3, <1>5, <1>6, <1>7, <2>1, Typed, TypedNext
  <1>9. pending' = pending /\ current' = current /\ pending # {}
    BY <1>1, <1>7, CurrentKept DEF pending, open, Worked, Working, Asking
  <1>10. /\ \A m \in Messages : ~onItsWay(m)
         /\ child = "attached" => \A t \in Messages : touched(t) => isIn(t)
    BY <1>1, Unburdened
  <1>11. /\ \A m : isIn(m)' <=> isIn(m)
         /\ \A m : written(Item(m))' <=> written(Item(m))
         /\ \A m : written(Started(m))' <=> written(Started(m))
         /\ \A m : written(Completed(m))' <=> written(Completed(m))
         /\ \A o : ~written(Answer(o))'
    <2>1. \A m : Item(m).type # "answer" /\ Started(m).type # "answer"
                   /\ Completed(m).type # "answer" /\ Answer(m).type = "answer"
      BY LineOf
    <2>2. \A o : ~written(Answer(o))'
      BY <1>3, <2>1 DEF written, kinds, ToSet
    <2> QED
      BY <1>3, <1>7, <2>1, <2>2 DEF isIn
  <1>12. \A m \in Messages : ~carried(m)' /\ ~onItsWay(m)'
    BY <1>6, <1>7, <1>10, <1>11 DEF onItsWay, carried, sends
  <1> HIDE DEF current
  <1>13. Submitted' /\ Worked' /\ Carried'
    BY <1>1, <1>5, <1>6, <1>7, <1>9, <1>12 DEF Submitted, Worked, Carried, open
  <1>14. Known' /\ Attached' /\ Alone'
    BY <1>1, <1>3, <1>5, <1>7, <1>11, <1>12 DEF Known, Attached, Alone, Asking
  <1>15. Asked' /\ Answered' /\ Concluded'
    BY <1>3, <1>5, <1>6 DEF Asked, Answered, Concluded
  <1>16. Turns'
    <2>1. \A t : touched(t)' <=> touched(t)
      BY <1>7, <1>11 DEF touched
    <2> QED
      BY <1>3, <1>5, <1>7, <1>10, <1>11, <2>1 DEF Turns
  <1>17. TurnIsTracked'
    BY <1>7, <1>11 DEF TurnIsTracked
  <1> QED
    BY <1>8, <1>13, <1>14, <1>15, <1>16, <1>17

---------------------------------------------------------------------------
(* The host fails; Viewer or app-server end and are started again.          *)
LEMMA NothingWritten ==
  ASSUME NEW s, s = << >>
  PROVE  /\ s \in Seq(Lines) /\ ToSet(s) = {} /\ kinds(s) = {}
         /\ \A type : single(s, type)
         /\ \A t : ordered(s, t)
  BY DEF ToSet, kinds, single, ordered

LEMMA HostDiesKeeps ==
  ASSUME IInv, hostDies, child' = IF child = "attached" THEN "detached" ELSE child,
         UNCHANGED <<request, turn, input>>, fault \/ UNCHANGED faults
  PROVE  IInv'
  <1> USE DEF IInv
  <1>1. /\ host' = "dead" /\ activeTurnId' = Null /\ due' \in BOOLEAN /\ overtaken' = FALSE
        /\ ledgerTurn' = Null /\ stdout' = << >>
        /\ UNCHANGED <<receipt, policy, fence, thread, viewer, confirmed, imageInput, misjudged>>
    BY NullTurn, Becomes, Typed DEF hostDies, journal
  <1>2. drain \in DrainState /\ child \in {"none", "attached", "detached"}
    BY Typed
  <1>3. PICK pc \in Pc :
          /\ drain' = [drain EXCEPT !.live = FALSE, !.pc = pc]
          /\ IF drain.answer = Null /\ drain.pc \in Asking \cup {"confirming"}
               THEN pc = "requeue" ELSE pc = drain.pc
    BY <1>2 DEF hostDies, Asking, Pc, Closing, DrainState
  <1>4. /\ drain' \in DrainState /\ drain'.live = FALSE /\ drain'.pc = pc
        /\ drain'.answer = drain.answer /\ drain'.turn = drain.turn
        /\ drain'.interrupts = drain.interrupts
    BY <1>2, <1>3 DEF DrainState
  <1>5. acknowledged' \subseteq Messages
    BY Typed DEF hostDies
  <1>6. TypeOK'
    <2>1. faults' \in 0 .. MaxFaults
      BY FaultTyped, Typed
    <2>2. child' \in {"none", "attached", "detached"}
      BY <1>2
    <2>3. stdout' \in Seq(Lines)
      BY <1>1, NothingWritten
    <2> QED
      BY <1>1, <1>4, <1>5, <2>1, <2>2, <2>3, NullTurn, Typed, TypedNext
  <1>7. pending' = pending /\ current' = current
    BY <1>1, CurrentKept DEF pending, open
  <1>8. child' # "attached" /\ (child' = "none" => child = "none")
    BY <1>2
  <1>9. /\ \A m : carried(m)' <=> carried(m)
        /\ \A m : isIn(m)' <=> isIn(m)
        /\ \A l : ~written(l)'
        /\ kinds(stdout') = {} /\ \A type : single(stdout', type)
    BY <1>1, NothingWritten DEF carried, sends, isIn, written
  <1>10. /\ pc \in Working => drain.pc \in Working
         /\ pc \in Asking => pc = drain.pc /\ drain.answer # Null
         /\ pc # "requeue" => pc = drain.pc
    BY <1>3 DEF Working, Asking
  <1> HIDE DEF current
  <1>11. Submitted' /\ Worked' /\ Carried'
    BY <1>1, <1>4, <1>7, <1>9, <1>10 DEF Submitted, Worked, Carried, open, closed
  <1>12. Known' /\ Attached' /\ Alone' /\ Asked'
    BY <1>1, <1>4, <1>8, <1>9, <1>10 DEF Known, Attached, Alone, Asked
  <1>13. Answered'
    BY <1>1, <1>3, <1>4, <1>9 DEF Answered
  <1>14. Concluded'
    BY <1>1, <1>4, <1>7, <1>9, <1>10 DEF Concluded, refused
  <1>15. Turns' /\ TurnIsTracked'
    BY <1>1, <1>8 DEF Turns, TurnIsTracked
  <1> QED
    BY <1>6, <1>11, <1>12, <1>13, <1>14, <1>15

LEMMA HostFailsKeeps ==
  ASSUME IInv, HostFails \/ ConfirmationTimesOut \/ HostSeesExit
  PROVE  IInv'
  <1>1. hostDies /\ UNCHANGED <<request, turn, input>> /\ (fault \/ UNCHANGED faults)
    BY DEF HostFails, ConfirmationTimesOut, HostSeesExit
  <1>2. child' = IF child = "attached" THEN "detached" ELSE child
    BY DEF HostFails, ConfirmationTimesOut, HostSeesExit
  <1> QED
    BY <1>1, <1>2, HostDiesKeeps

LEMMA ViewerCrashesKeeps ==
  ASSUME IInv, ViewerCrashes
  PROVE  IInv'
  <1> USE DEF IInv, ViewerCrashes, journal, files
  <1>1. /\ drain' \in DrainState /\ drain'.pc = "off" /\ drain'.answer = Null
        /\ drain'.live = FALSE
    BY IdleIs
  <1>2. TypeOK'
    <2>1. faults' \in 0 .. MaxFaults /\ stdout' \in Seq(Lines)
      BY FaultTyped, NothingWritten, Typed
    <2>2. child' \in {"none", "attached", "detached"}
      BY Typed
    <2> QED
      BY <1>1, <2>1, <2>2, NullTurn, Typed, TypedNext
  <1>3. child' # "attached" /\ (child' = "none" => child = "none")
    BY Typed
  <1>4. /\ \A m : carried(m)' <=> carried(m)
        /\ \A m : isIn(m)' <=> isIn(m)
        /\ \A l : ~written(l)'
        /\ kinds(stdout') = {} /\ \A type : single(stdout', type)
    BY NothingWritten DEF carried, sends, isIn, written
  <1>5. Submitted' /\ Worked' /\ Carried'
    BY <1>1, <1>4 DEF Submitted, Worked, Carried, open, closed, Working, Asking, Closing
  <1>6. Known' /\ Attached' /\ Alone' /\ Asked'
    BY <1>1, <1>3, <1>4 DEF Known, Attached, Alone, Asked, Asking
  <1>7. Answered' /\ Concluded' /\ Turns' /\ TurnIsTracked'
    BY <1>1, <1>3, <1>4 DEF Answered, Concluded, Turns, TurnIsTracked
  <1> QED
    BY <1>2, <1>5, <1>6, <1>7

LEMMA EngineExitsKeeps ==
  ASSUME IInv, EngineExits
  PROVE  IInv'
  <1> USE DEF IInv, EngineExits, journal, files, broker, queue
  <1>1. TypeOK'
    <2>1. faults' \in 0 .. MaxFaults
      BY FaultTyped, Typed
    <2> QED
      BY <2>1, NullTurn, Typed, TypedNext
  <1>2. pending' = pending /\ current' = current
    BY CurrentKept DEF pending, open
  <1>3. /\ \A m \in Messages : ~carried(m)'
        /\ \A m : isIn(m)' <=> isIn(m)
        /\ \A l : written(l)' <=> written(l)
    BY NullTurn DEF carried, sends, isIn, written
  <1>4. drain.pc \in Working => current \in Messages
    BY CurrentIsOldest DEF Worked
  <1> HIDE DEF current
  <1>5. Submitted' /\ Worked' /\ Carried'
    BY <1>2, <1>3 DEF Submitted, Worked, Carried, open
  <1>6. Known' /\ Attached' /\ Alone'
    BY <1>2, <1>3 DEF Known, Attached, Alone, onItsWay
  <1>7. Asked' /\ Answered'
    BY DEF Asked, Answered
  <1>8. Concluded'
    BY <1>2, <1>3, <1>4 DEF Concluded, refused, Working, Asking, Closing
  <1>9. Turns' /\ TurnIsTracked'
    BY DEF Turns, TurnIsTracked
  <1> QED
    BY <1>1, <1>5, <1>6, <1>7, <1>8, <1>9

LEMMA RecoverKeeps ==
  ASSUME IInv, NEW supported \in BOOLEAN, Recover(supported)
  PROVE  IInv'
  <1> USE DEF IInv, Recover, journal
  <1>1. activeTurnId' = Null /\ ledgerTurn' = Null /\ confirmed' = ToSet(thread)
    BY DEF reconcileAfterOpen, deliveries
  <1>2. TypeOK'
    <2>1. faults' \in 0 .. MaxFaults /\ stdout' \in Seq(Lines)
      BY FaultTyped, NothingWritten, Typed
    <2>2. ToSet(thread) \subseteq Messages
      BY Typed DEF ToSet
    <2> QED
      BY <1>1, <2>1, <2>2, NullTurn, Typed, TypedNext
  <1>3. pending' = pending /\ current' = current
    BY CurrentKept DEF pending, open
  <1>4. /\ \A m \in Messages : ~carried(m)'
        /\ \A m : isIn(m)' <=> isIn(m)
        /\ \A l : ~written(l)'
        /\ kinds(stdout') = {} /\ \A type : single(stdout', type)
        /\ ordered(stdout', Null)
    BY NullTurn, NothingWritten DEF carried, sends, isIn, written
  <1>5. drain.answer = Null /\ drain.live = FALSE /\ drain.pc \notin Asking
    <2>1. drain.live \in BOOLEAN
      BY Typed DEF DrainState
    <2> QED
      BY <2>1 DEF Attached
  <1>6. drain.pc \in Working => current \in Messages
    BY CurrentIsOldest DEF Worked
  <1> HIDE DEF current
  <1>7. Submitted' /\ Worked' /\ Carried'
    BY <1>3, <1>4 DEF Submitted, Worked, Carried, open
  <1>8. Known'
    BY <1>1, <1>4, InThread DEF Known
  <1>9. Attached' /\ Alone' /\ Asked' /\ Answered'
    BY <1>4, <1>5 DEF Attached, Alone, Asked, Answered, onItsWay
  <1>10. Concluded'
    BY <1>3, <1>4, <1>5, <1>6 DEF Concluded, refused, Working, Asking, Closing
  <1>11. Turns'
    BY <1>1, <1>4, NullTurn DEF Turns, touched
  <1>12. TurnIsTracked'
    BY <1>1 DEF TurnIsTracked
  <1> QED
    BY <1>2, <1>7, <1>8, <1>9, <1>10, <1>11, <1>12

(* What only adds a message at the end, or changes nothing here.            *)
LEMMA OthersKeep ==
  ASSUME IInv,
         UNCHANGED <<thread, child, request, turn, input, stdout, host, activeTurnId, confirmed,
                           overtaken, drain, misjudged>>,
         Submitted', pending # {} => pending' # {} /\ current' = current,
         \A m \in Messages : (open(m) => open(m)') /\ (closed(m) => closed(m)')
                               /\ (closed(m)' => receipt'[m] = receipt[m])
  PROVE  IInv' \/ ~TypeOK'
  <1> USE DEF IInv
  <1>1. /\ \A m : carried(m)' <=> carried(m)
        /\ \A m : isIn(m)' <=> isIn(m)
        /\ \A l : written(l)' <=> written(l)
        /\ \A t : touched(t)' <=> touched(t)
        /\ (refused' <=> refused) /\ (accepted' <=> accepted)
    BY DEF carried, sends, isIn, written, touched, refused, accepted
  <1>2. drain.pc \in Working => current' = current /\ pending' # {}
    BY DEF Worked
  <1> HIDE DEF current
  <1>3. Worked' /\ Carried'
    BY <1>1, <1>2 DEF Worked, Carried
  <1>4. Known'
    BY <1>1 DEF Known, closed
  <1>5. Attached' /\ Alone'
    BY <1>1, <1>2 DEF Attached, Alone, onItsWay, Working, Asking
  <1>6. Asked' /\ Answered'
    BY <1>1, <1>2 DEF Asked, Answered, Working
  <1>7. Concluded'
    BY <1>1, <1>2 DEF Concluded, Working, Asking, Closing
  <1>8. Turns'
    <2>1. \A t : starting(t) => starting(t)'
      BY <1>1, <1>2 DEF starting, Working, Asking
    <2>2. drain.pc = "starting" => current' = current
      BY <1>2 DEF Working, Asking
    <2> QED
      BY <1>1, <2>1, <2>2 DEF Turns
  <1>9. TurnIsTracked'
    BY TrackedKept
  <1> QED
    BY <1>3, <1>4, <1>5, <1>6, <1>7, <1>8, <1>9

LEMMA ViewerStartsKeeps ==
  ASSUME IInv, ViewerStarts \/ UNCHANGED vars
  PROVE  IInv'
  <1>1. UNCHANGED <<journal, files, engine, broker, drain, acknowledged, misjudged, faults>>
          /\ viewer' \in BOOLEAN /\ due' \in BOOLEAN
    BY Typed DEF ViewerStarts, vars, queue, IInv
  <1>2. pending' = pending /\ current' = current
    BY <1>1, CurrentKept DEF pending, open, journal
  <1>3. TypeOK'
    BY <1>1, Typed, TypedNext DEF IInv, journal, files, engine, broker
  <1>4. Submitted'
    BY <1>1 DEF IInv, Submitted, journal
  <1> HIDE DEF current
  <1> QED
    BY <1>1, <1>2, <1>3, <1>4, OthersKeep DEF journal, files, engine, broker, open, closed

LEMMA SubmitKeeps ==
  ASSUME IInv, NEW m \in Messages, NEW p \in Policies, Submit(m, p)
  PROVE  IInv'
  <1> USE DEF IInv, Submit, files, engine, broker
  <1>1. receipt \in [Messages -> Statuses] /\ policy \in [Messages -> Policies \cup {"queue"}]
    BY Typed
  <1>2. /\ receipt' \in [Messages -> Statuses] /\ receipt'[m] = "queued"
        /\ \A n \in Messages : n # m => receipt'[n] = receipt[n]
        /\ policy' \in [Messages -> Policies \cup {"queue"}]
    BY <1>1 DEF Statuses
  <1>3. TypeOK'
    BY <1>2, Typed, TypedNext
  <1>4. pending' = pending \cup {m} /\ m \notin pending
    BY <1>2 DEF pending, open
  <1>5. pending # {} => current' = current
    <2> SUFFICES ASSUME pending # {}
                 PROVE  current' = current
      OBVIOUS
    <2>1. /\ current \in pending /\ current \in Messages /\ open(current)
          /\ \A n \in pending : current <= n
      BY CurrentIsOldest
    <2>2. ~(m < current)
      BY <2>1 DEF Submitted, open
    <2>3. /\ current' \in pending' /\ \A n \in pending' : current' <= n
          /\ current' \in Messages
      <3>1. current' = CHOOSE x \in pending' : \A other \in pending' : x <= other
        BY DEF current
      <3>2. current \in pending' /\ \A n \in pending' : current <= n
        BY <1>4, <2>1, <2>2, CodexAssumption DEF Messages
      <3>3. pending' \subseteq Messages
        BY <1>4 DEF pending
      <3> HIDE DEF current
      <3> QED
        BY <3>1, <3>2, <3>3
    <2>4. current \in pending' /\ \A n \in pending' : current <= n
      BY <1>4, <2>1, <2>2, CodexAssumption DEF Messages
    <2> HIDE DEF current
    <2>5. current' <= current /\ current <= current'
      BY <2>3, <2>4
    <2> QED
      BY <2>1, <2>3, <2>5, CodexAssumption DEF Messages
  <1>6. Submitted'
    <2> SUFFICES ASSUME NEW a \in Messages, NEW b \in Messages, b < a, receipt'[b] = "unsent"
                 PROVE  receipt'[a] = "unsent"
      BY DEF Submitted
    <2>1. b # m /\ receipt[b] = "unsent"
      BY <1>2
    <2>2. receipt[a] = "unsent"
      BY <2>1 DEF Submitted
    <2>3. a # m
      <3>1. b \in 1 .. m - 1 \/ ~(b < m)
        BY CodexAssumption DEF Messages
      <3> QED
        BY <2>1, <3>1
    <2> QED
      BY <1>2, <2>2, <2>3
  <1>7. \A n \in Messages : (open(n) => open(n)') /\ (closed(n) => closed(n)')
                               /\ (closed(n)' => receipt'[n] = receipt[n])
    BY <1>2 DEF open, closed
  <1> HIDE DEF current
  <1> QED
    BY <1>3, <1>4, <1>5, <1>6, <1>7, OthersKeep

---------------------------------------------------------------------------
(* The app-server's steps.  What it writes reaches a host that is up, or    *)
(* goes nowhere.                                                            *)
LEMMA Unread ==
  ASSUME TypeOK, Attached, child # "none", child # "attached"
  PROVE  host # "up" /\ stdout = << >> /\ ~drain.live
  <1>1. child = "detached"
    BY Typed
  <1> QED
    BY <1>1 DEF Attached

LEMMA PrintsLine ==
  ASSUME TypeOK, NEW l \in Lines, child = "attached", print(<<l>>)
  PROVE  /\ stdout' \in Seq(Lines) /\ stdout' # << >>
         /\ \A k : written(k)' <=> written(k) \/ k = l
         /\ kinds(stdout') = kinds(stdout) \cup {l.type}
         /\ \A type : single(stdout, type) /\ (l.type = type => type \notin kinds(stdout))
              => single(stdout', type)
         /\ \A before, after \in Turn :
              /\ ordered(stdout, before)
              /\ \/ after = before /\ l.type # "turn/started"
                 \/ after = Null /\ l = Completed(before)
                 \/ before = Null /\ l = Started(after) /\ after # Null
              => ordered(stdout', after)
  <1>1. PICK s \in Seq(Lines) : s = stdout
    BY Typed
  <1>2. PICK t : t = s \o <<l>> /\ stdout' = t
    BY <1>1 DEF print
  <1>3. /\ t \in Seq(Lines) /\ t # << >>
        /\ ToSet(t) = ToSet(s) \cup {l} /\ kinds(t) = kinds(s) \cup {l.type}
        /\ \A type : single(s, type) /\ (l.type = type => type \notin kinds(s))
             => single(t, type)
    BY <1>2, Printed
  <1>4. \A before, after \in Turn :
          /\ ordered(s, before)
          /\ \/ after = before /\ l.type # "turn/started"
             \/ after = Null /\ l = Completed(before)
             \/ before = Null /\ l = Started(after) /\ after # Null
          => ordered(t, after)
    BY <1>2, OrderKept
  <1>5. \A k : (written(k) <=> k \in ToSet(s)) /\ (written(k)' <=> k \in ToSet(t))
    BY <1>1, <1>2 DEF written
  <1> QED
    BY <1>1, <1>2, <1>3, <1>4, <1>5

(* An answer and the notice of a turn's start or end.                       *)
isAfter(t, s, l) == t = s \o <<l>>

LEMMA PrintedAfter ==
  ASSUME NEW s \in Seq(Lines), NEW l \in Lines, NEW t, isAfter(t, s, l)
  PROVE  /\ t \in Seq(Lines) /\ t # << >>
         /\ ToSet(t) = ToSet(s) \cup {l} /\ kinds(t) = kinds(s) \cup {l.type}
         /\ \A type : single(s, type) /\ (l.type = type => type \notin kinds(s))
              => single(t, type)
         /\ \A before, after \in Turn :
              /\ ordered(s, before)
              /\ \/ after = before /\ l.type # "turn/started"
                 \/ after = Null /\ l = Completed(before)
                 \/ before = Null /\ l = Started(after) /\ after # Null
              => ordered(t, after)
  <1>1. t = s \o <<l>>
    BY DEF isAfter
  <1>2. /\ t \in Seq(Lines) /\ t # << >>
        /\ ToSet(t) = ToSet(s) \cup {l} /\ kinds(t) = kinds(s) \cup {l.type}
        /\ \A type : single(s, type) /\ (l.type = type => type \notin kinds(s))
              => single(t, type)
    BY <1>1, Printed
  <1>3. \A before, after \in Turn :
          /\ ordered(s, before)
          /\ \/ after = before /\ l.type # "turn/started"
             \/ after = Null /\ l = Completed(before)
             \/ before = Null /\ l = Started(after) /\ after # Null
          => ordered(t, after)
    BY <1>1, OrderKept
  <1> QED
    BY <1>2, <1>3

LEMMA PrintedBoth ==
  ASSUME NEW s \in Seq(Lines), NEW k \in Lines, NEW l \in Lines, NEW u, isAfter(u, s, k),
         NEW t, isAfter(t, u, l)
  PROVE  /\ t \in Seq(Lines) /\ t # << >>
         /\ ToSet(t) = ToSet(s) \cup {k, l} /\ kinds(t) = kinds(s) \cup {k.type, l.type}
         /\ \A type :
              /\ single(s, type)
              /\ k.type = type => type \notin kinds(s)
              /\ l.type = type => type \notin kinds(s) \cup {k.type}
              => single(t, type)
         /\ \A before, after \in Turn :
              /\ ordered(s, before) /\ k.type # "turn/started"
              /\ \/ after = Null /\ l = Completed(before)
                 \/ before = Null /\ l = Started(after) /\ after # Null
              => ordered(t, after)
  <1>1. /\ u \in Seq(Lines)
        /\ ToSet(u) = ToSet(s) \cup {k} /\ kinds(u) = kinds(s) \cup {k.type}
        /\ \A type : single(s, type) /\ (k.type = type => type \notin kinds(s))
             => single(u, type)
        /\ \A before \in Turn : ordered(s, before) /\ k.type # "turn/started"
             => ordered(u, before)
    BY PrintedAfter
  <1>2. /\ t \in Seq(Lines) /\ t # << >>
        /\ ToSet(t) = ToSet(u) \cup {l} /\ kinds(t) = kinds(u) \cup {l.type}
        /\ \A type : single(u, type) /\ (l.type = type => type \notin kinds(u))
             => single(t, type)
        /\ \A before, after \in Turn :
             /\ ordered(u, before)
             /\ \/ after = Null /\ l = Completed(before)
                \/ before = Null /\ l = Started(after) /\ after # Null
             => ordered(t, after)
    BY <1>1, PrintedAfter
  <1> QED
    BY <1>1, <1>2

LEMMA PrintsTwo ==
  ASSUME TypeOK, NEW k \in Lines, NEW l \in Lines, child = "attached",
         print(<<k, l>>)
  PROVE  /\ stdout' \in Seq(Lines) /\ stdout' # << >>
         /\ \A x : written(x)' <=> written(x) \/ x = k \/ x = l
         /\ kinds(stdout') = kinds(stdout) \cup {k.type, l.type}
         /\ \A type :
              /\ single(stdout, type)
              /\ k.type = type => type \notin kinds(stdout)
              /\ l.type = type => type \notin kinds(stdout) \cup {k.type}
              => single(stdout', type)
         /\ \A before, after \in Turn :
              /\ ordered(stdout, before) /\ k.type # "turn/started"
              /\ \/ after = Null /\ l = Completed(before)
                 \/ before = Null /\ l = Started(after) /\ after # Null
              => ordered(stdout', after)
  <1>1. PICK s \in Seq(Lines) : s = stdout
    BY Typed
  <1>2. PICK u : isAfter(u, s, k)
    BY DEF isAfter
  <1>3. PICK t : isAfter(t, u, l)
    BY DEF isAfter
  <1>4. stdout' = t
    <2>1. stdout' = stdout \o <<k, l>>
      BY DEF print
    <2>2. s \o <<k, l>> = (s \o <<k>>) \o <<l>>
      BY PrintedTwo
    <2> QED
      BY <1>1, <1>2, <1>3, <2>1, <2>2 DEF isAfter
  <1>7. /\ t \in Seq(Lines) /\ t # << >>
        /\ ToSet(t) = ToSet(s) \cup {k, l} /\ kinds(t) = kinds(s) \cup {k.type, l.type}
        /\ \A type :
             /\ single(s, type)
             /\ k.type = type => type \notin kinds(s)
             /\ l.type = type => type \notin kinds(s) \cup {k.type}
             => single(t, type)
        /\ \A before, after \in Turn :
             /\ ordered(s, before) /\ k.type # "turn/started"
             /\ \/ after = Null /\ l = Completed(before)
                \/ before = Null /\ l = Started(after) /\ after # Null
             => ordered(t, after)
    BY <1>2, <1>3, PrintedBoth
  <1>5. \A x : (written(x) <=> x \in ToSet(s)) /\ (written(x)' <=> x \in ToSet(t))
    BY <1>1, <1>4 DEF written
  <1>6. \A x : written(x)' <=> written(x) \/ x = k \/ x = l
    BY <1>5, <1>7
  <1> QED
    BY <1>1, <1>4, <1>6, <1>7

LEMMA EngineTyped ==
  ASSUME TypeOK, UNCHANGED <<journal, ledgerTurn, child, viewer, broker, queue, misjudged>>,
         thread' \in Seq(Messages), request' \in {Null} \cup Requests, turn' \in Turn,
         input' \in Turn, stdout' \in Seq(Lines), fault \/ UNCHANGED faults
  PROVE  TypeOK'
  <1>1. faults' \in 0 .. MaxFaults
    BY FaultTyped, Typed
  <1> QED
    BY <1>1, Typed, TypedNext DEF journal, broker, queue

(* The request the engine takes is the drain's, while the host is up.       *)
LEMMA Taken ==
  ASSUME IInv, child # "none", request # Null
  PROVE  /\ request \in Requests /\ input = Null
         /\ child = "attached" =>
              /\ host = "up" /\ drain.live /\ drain.pc \in Asking /\ drain.answer = Null
              /\ "answer" \notin kinds(stdout)
              /\ request.method = awaited[drain.pc] /\ request.message = current
              /\ request.method \in {"turn/steer", "turn/interrupt"} => request.turn # Null
              /\ \A o : ~written(Answer(o))
  <1>1. request \in Requests
    BY Typed DEF IInv
  <1>2. input = Null
    BY DEF IInv, Carried
  <1>3. child = "attached" => host = "up" /\ Asked
    BY DEF IInv, Attached
  <1> QED
    BY <1>1, <1>2, <1>3, Answering DEF Asked, written

LEMMA AnswersKeep ==
  ASSUME IInv, child # "none", request # Null, NEW o \in Outcomes, answered(o),
         UNCHANGED <<journal, files, child, turn, viewer, broker, queue, misjudged>>,
         fault \/ UNCHANGED faults,
         request.method = "turn/start" => o # "ok",
         input' = IF request.method = "turn/steer" /\ o = "ok" THEN request.message ELSE input
  PROVE  IInv'
  <1> USE DEF IInv, answered, journal, files, broker, queue
  <1>1. /\ request \in Requests /\ input = Null
        /\ child = "attached" =>
             /\ host = "up" /\ drain.live /\ drain.pc \in Asking /\ drain.answer = Null
             /\ "answer" \notin kinds(stdout)
             /\ request.method = awaited[drain.pc] /\ request.message = current
             /\ \A n : ~written(Answer(n))
    BY Taken
  <1>2. PICK l \in Lines : l = Answer(o) /\ l.type = "answer"
    BY LineOf
  <1>3. /\ stdout' \in Seq(Lines)
        /\ \A k : written(k)' => written(k) \/ (child = "attached" /\ k = Answer(o))
        /\ \A k : written(k) => written(k)'
        /\ "answer" \in kinds(stdout') => child = "attached"
        /\ \A type : single(stdout, type) => single(stdout', type)
        /\ child # "attached" => stdout' = << >> /\ host # "up" /\ "answer" \notin kinds(stdout')
        /\ child = "attached" /\ ordered(stdout, turn) => ordered(stdout', turn)
    <2>1. CASE child = "attached"
      <3>1. print(<<l>>) /\ turn \in Turn
        BY <1>2, Typed
      <3> QED
        BY <1>1, <1>2, <2>1, <3>1, PrintsLine
    <2>2. CASE child # "attached"
      <3>1. host # "up" /\ stdout' = stdout /\ stdout = << >>
        BY <2>2, Unread DEF print
      <3> QED
        BY <2>2, <3>1, NothingWritten DEF written
    <2> QED
      BY <2>1, <2>2
  <1>4. request' = Null
    OBVIOUS
  <1>5. TypeOK'
    <2>1. input' \in Turn
      BY <1>1, NullTurn DEF Requests
    <2> QED
      BY <1>3, <1>4, <2>1, EngineTyped, Typed
  <1>6. pending' = pending /\ current' = current
    BY CurrentKept DEF pending, open
  <1>7. /\ \A m \in Messages : carried(m)' => carried(m)
        /\ \A m \in Messages : carried(m)' => o = "ok" /\ request.method = "turn/steer"
        /\ \A m : isIn(m)' <=> isIn(m)
        /\ \A m : written(Item(m))' <=> written(Item(m))
        /\ \A m : written(Started(m))' <=> written(Started(m))
        /\ \A m : written(Completed(m))' <=> written(Completed(m))
    BY <1>1, <1>3, <1>4, NullTurn, LineOf DEF carried, sends, isIn
  <1> HIDE DEF current, answered
  <1>8. Submitted' /\ Worked' /\ Carried'
    BY <1>4, <1>6, <1>7 DEF Submitted, Worked, Carried, open, closed
  <1>9. Known' /\ Attached' /\ Alone'
    BY <1>1, <1>3, <1>6, <1>7 DEF Known, Attached, Alone, onItsWay
  <1>10. Asked' /\ Answered'
    BY <1>1, <1>3, <1>4 DEF Asked, Answered
  <1>11. drain.pc \in Working => current \in Messages
    BY CurrentIsOldest DEF Worked
  <1>12. Concluded'
    <2>1. ASSUME drain.pc \in {"starting", "steering"}, refused'
          PROVE  ~carried(current)' /\ ~isIn(current)
      <3>1. CASE refused
        BY <1>6, <1>7, <1>11, <2>1, <3>1 DEF Concluded, Working, Asking
      <3>2. CASE ~refused
        <4>1. child = "attached" /\ o # "ok"
          BY <1>3, <2>1, <3>2, LineOf DEF refused
        <4>2. sends(current)
          BY <1>1, <2>1, <4>1 DEF sends, awaited
        <4>3. ~isIn(current)
          BY <1>11, <2>1, <4>2 DEF Carried, carried, Working, Asking
        <4> QED
          BY <1>6, <1>7, <1>11, <2>1, <4>1, <4>3 DEF Working, Asking
      <3> QED
        BY <3>1, <3>2
    <2>2. drain.pc = "fail" => ~carried(current)'
      BY <1>6, <1>7, <1>11 DEF Concluded, Working, Closing
    <2> QED
      BY <1>6, <1>7, <2>1, <2>2 DEF Concluded
  <1>13. Turns'
    <2>1. \A t : touched(t)' <=> touched(t)
      BY <1>7 DEF touched
    <2>2. \A t : ~starting(t)
      BY DEF starting
    <2>3. child = "attached" /\ drain.pc = "starting" => ~accepted'
      <3>1. child = "attached" /\ drain.pc = "starting" => o # "ok"
        BY <1>1 DEF awaited
      <3> QED
        BY <1>1, <1>3, <3>1, LineOf, NullAssumption DEF accepted
    <2> QED
      BY <1>3, <1>7, <2>1, <2>2, <2>3 DEF Turns
  <1>14. TurnIsTracked'
    BY <1>7 DEF TurnIsTracked
  <1> QED
    BY <1>5, <1>8, <1>9, <1>10, <1>12, <1>13, <1>14

LEMMA EngineAnswersKeep ==
  ASSUME IInv, EngineLists \/ EngineReads \/ EngineRefuses \/ EngineSteers
  PROVE  IInv'
  <1>1. "ok" \in Outcomes /\ "error" \in Outcomes /\ "stale" \in Outcomes
    BY DEF Outcomes
  <1>2. CASE EngineLists
    BY <1>1, <1>2, AnswersKeep DEF EngineLists, asked
  <1>3. CASE EngineReads
    BY <1>1, <1>3, AnswersKeep DEF EngineReads, asked
  <1>4. CASE EngineRefuses
    BY <1>1, <1>4, AnswersKeep DEF EngineRefuses, asked
  <1>5. CASE EngineSteers
    BY <1>1, <1>5, AnswersKeep DEF EngineSteers, asked
  <1> QED
    BY <1>2, <1>3, <1>4, <1>5

---------------------------------------------------------------------------
LEMMA InPlace ==
  ASSUME NEW s \in Seq(Messages), NEW m0 \in Messages, NEW t, t = Append(s, m0)
  PROVE  /\ t \in Seq(Messages)
         /\ \A m : (\E i \in DOMAIN t : t[i] = m) <=> (\E i \in DOMAIN s : s[i] = m) \/ m = m0
  <1>1. t \in Seq(Messages)
    OBVIOUS
  <1>2. \A i \in DOMAIN s : i \in DOMAIN t /\ t[i] = s[i]
    OBVIOUS
  <1>3. Len(s) + 1 \in DOMAIN t /\ t[Len(s) + 1] = m0
    OBVIOUS
  <1>4. \A i \in DOMAIN t : i \in DOMAIN s \/ i = Len(s) + 1
    OBVIOUS
  <1>5. PICK n : n = Len(s) + 1
    OBVIOUS
  <1> QED
    BY <1>1, <1>2, <1>3, <1>4, <1>5

(* What a child writes, attached or not.                                    *)
LEMMA WritesLine ==
  ASSUME TypeOK, Attached, child # "none", NEW l \in Lines, print(<<l>>)
  PROVE  /\ stdout' \in Seq(Lines)
         /\ stdout' # << >> => child = "attached" /\ host = "up"
         /\ child # "attached" => host # "up"
         /\ \A k : written(k)' <=> written(k) \/ (child = "attached" /\ k = l)
         /\ \A type : type \in kinds(stdout')
              <=> type \in kinds(stdout) \/ (child = "attached" /\ type = l.type)
         /\ \A type :
              /\ single(stdout, type)
              /\ child = "attached" /\ l.type = type => type \notin kinds(stdout)
              => single(stdout', type)
         /\ child = "attached" =>
              \A before, after \in Turn :
                /\ ordered(stdout, before)
                /\ \/ after = before /\ l.type # "turn/started"
                   \/ after = Null /\ l = Completed(before)
                   \/ before = Null /\ l = Started(after) /\ after # Null
                => ordered(stdout', after)
  <1>1. CASE child = "attached"
    <2>1. host = "up"
      BY <1>1 DEF Attached
    <2> QED
      BY <1>1, <2>1, PrintsLine
  <1>2. CASE child # "attached"
    <2>1. host # "up" /\ stdout' = stdout /\ stdout = << >>
      BY <1>2, Unread DEF print
    <2> QED
      BY <1>2, <2>1, NothingWritten DEF written
  <1> QED
    BY <1>1, <1>2

LEMMA WritesTwo ==
  ASSUME TypeOK, Attached, child # "none", NEW k \in Lines, NEW l \in Lines,
         child = "attached" => print(<<k, l>>),
         child # "attached" => UNCHANGED stdout
  PROVE  /\ stdout' \in Seq(Lines)
         /\ stdout' # << >> => child = "attached" /\ host = "up"
         /\ child # "attached" => host # "up"
         /\ \A x : written(x)' <=> written(x) \/ (child = "attached" /\ (x = k \/ x = l))
         /\ \A type : type \in kinds(stdout')
              <=> type \in kinds(stdout) \/ (child = "attached" /\ type \in {k.type, l.type})
         /\ \A type :
              /\ single(stdout, type)
              /\ child = "attached" /\ k.type = type => type \notin kinds(stdout)
              /\ child = "attached" /\ l.type = type => type \notin kinds(stdout) \cup {k.type}
              => single(stdout', type)
         /\ child = "attached" =>
              \A before, after \in Turn :
                /\ ordered(stdout, before) /\ k.type # "turn/started"
                /\ \/ after = Null /\ l = Completed(before)
                   \/ before = Null /\ l = Started(after) /\ after # Null
                => ordered(stdout', after)
  <1>1. CASE child = "attached"
    <2>1. host = "up" /\ print(<<k, l>>)
      BY <1>1 DEF Attached
    <2>2. /\ stdout' \in Seq(Lines) /\ stdout' # << >>
          /\ \A x : written(x)' <=> written(x) \/ x = k \/ x = l
          /\ kinds(stdout') = kinds(stdout) \cup {k.type, l.type}
          /\ \A type :
               /\ single(stdout, type)
               /\ k.type = type => type \notin kinds(stdout)
               /\ l.type = type => type \notin kinds(stdout) \cup {k.type}
               => single(stdout', type)
          /\ \A before, after \in Turn :
               /\ ordered(stdout, before) /\ k.type # "turn/started"
               /\ \/ after = Null /\ l = Completed(before)
                  \/ before = Null /\ l = Started(after) /\ after # Null
               => ordered(stdout', after)
      BY <1>1, <2>1, PrintsTwo
    <2> QED
      BY <1>1, <2>1, <2>2
  <1>2. CASE child # "attached"
    <2>1. host # "up" /\ stdout' = stdout /\ stdout = << >>
      BY <1>2, Unread
    <2> QED
      BY <1>2, <2>1, NothingWritten DEF written
  <1> QED
    BY <1>1, <1>2

(* The engine puts what it took in the thread: the current message, which   *)
(* it lacked.                                                               *)
LEMMA EngineRecordsKeeps ==
  ASSUME IInv, EngineRecords
  PROVE  IInv'
  <1> USE DEF IInv, journal, broker, queue
  <1>0. /\ child # "none" /\ input # Null /\ input' = Null /\ print(<<Item(input)>>)
        /\ UNCHANGED <<receipt, policy, fence, ledgerTurn, child, request, turn, viewer, host,
                       activeTurnId, confirmed, imageInput, overtaken, drain, due,
                       acknowledged, misjudged, faults>>
    BY DEF EngineRecords
  <1>1. /\ input \in Messages /\ request = Null /\ open(input) /\ ~isIn(input)
        /\ input = current /\ pending # {}
    <2>1. input \in Messages
      BY <1>0, Typed DEF Turn
    <2>2. carried(input)
      BY DEF carried
    <2> QED
      BY <1>0, <2>1, <2>2, CarriedIsCurrent DEF Carried
  <1>2. PICK l \in Lines : l = Item(input) /\ l.type = "item/completed"
    BY <1>1, LineOf
  <1>3. thread' \in Seq(Messages) /\ \A m : isIn(m)' <=> isIn(m) \/ m = input
    <2>1. PICK s \in Seq(Messages) : s = thread
      BY Typed
    <2>2. PICK t : t = Append(s, input) /\ thread' = t
      BY <2>1 DEF EngineRecords
    <2>3. /\ t \in Seq(Messages)
          /\ \A m : (\E i \in DOMAIN t : t[i] = m) <=> (\E i \in DOMAIN s : s[i] = m) \/ m = input
      BY <1>1, <2>2, InPlace
    <2> QED
      BY <2>1, <2>2, <2>3 DEF isIn
  <1>4. /\ stdout' \in Seq(Lines)
        /\ stdout' # << >> => child = "attached" /\ host = "up"
        /\ child # "attached" => host # "up"
        /\ \A k : written(k)' <=> written(k) \/ (child = "attached" /\ k = l)
        /\ \A type : type \in kinds(stdout')
             <=> type \in kinds(stdout) \/ (child = "attached" /\ type = l.type)
        /\ \A type :
             /\ single(stdout, type)
             /\ child = "attached" /\ l.type = type => type \notin kinds(stdout)
             => single(stdout', type)
        /\ child = "attached" /\ ordered(stdout, turn) => ordered(stdout', turn)
    <2>1. print(<<l>>) /\ turn \in Turn
      BY <1>0, <1>2, Typed
    <2> QED
      BY <1>0, <1>2, <2>1, WritesLine
  <1>5. TypeOK'
    BY <1>0, <1>3, <1>4, NullTurn, EngineTyped, Typed
  <1>6. pending' = pending /\ current' = current
    BY <1>0, CurrentKept DEF pending, open
  <1>7. /\ \A m \in Messages : ~carried(m)'
        /\ \A m : written(Item(m))' <=> written(Item(m)) \/ (child = "attached" /\ m = input)
        /\ \A m : written(Started(m))' <=> written(Started(m))
        /\ \A m : written(Completed(m))' <=> written(Completed(m))
        /\ \A o : written(Answer(o))' <=> written(Answer(o))
        /\ (refused' <=> refused) /\ (accepted' <=> accepted)
    <2>1. /\ \A m : written(Item(m))' <=> written(Item(m)) \/ (child = "attached" /\ m = input)
          /\ \A m : written(Started(m))' <=> written(Started(m))
          /\ \A m : written(Completed(m))' <=> written(Completed(m))
          /\ \A o : written(Answer(o))' <=> written(Answer(o))
      BY <1>2, <1>4, LineOf
    <2>2. \A m \in Messages : ~carried(m)'
      BY <1>0, <1>1, NullTurn DEF carried, sends
    <2> QED
      BY <1>0, <2>1, <2>2 DEF refused, accepted
  <1>8. host = "up" => drain.live /\ drain.pc \in {"starting", "steering", "confirming"}
    <2>1. onItsWay(input)
      BY DEF onItsWay, carried
    <2> QED
      BY <1>1, <2>1 DEF Alone
  <1>9. "item/completed" \notin kinds(stdout)
    <2> SUFFICES ASSUME "item/completed" \in kinds(stdout)
                 PROVE  FALSE
      OBVIOUS
    <2>1. PICK i \in DOMAIN stdout : stdout[i].type = "item/completed"
      BY DEF kinds
    <2>2. stdout[i] \in Lines /\ stdout # << >>
      BY <2>1, Typed
    <2>3. stdout[i].of \in Messages /\ stdout[i] = Item(stdout[i].of)
      BY <2>1, <2>2, LineIs
    <2>4. written(Item(stdout[i].of))
      BY <2>1, <2>3 DEF written, ToSet
    <2>5. stdout[i].of = current /\ isIn(stdout[i].of)
      BY <2>2, <2>3, <2>4 DEF Attached, Alone, onItsWay, Known
    <2> QED
      BY <1>1, <2>5
  <1> HIDE DEF current
  <1>10. Submitted' /\ Worked' /\ Carried'
    BY <1>0, <1>1, <1>6, <1>7 DEF Submitted, Worked, Carried, open
  <1>11. Known'
    <2>1. single(stdout', "item/completed")
      BY <1>4, <1>9 DEF Known
    <2>2. ASSUME NEW m \in Messages
          PROVE  /\ receipt'[m] = "delivered" => isIn(m)'
                 /\ receipt'[m] = "failed" => ~isIn(m)' \/ m \in misjudged'
                 /\ m \in confirmed' \cup misjudged' => isIn(m)'
                 /\ written(Item(m))' => isIn(m)' /\ m \notin confirmed'
                 /\ host' = "up" /\ isIn(m)' => m \in confirmed' \/ written(Item(m))'
      <3>1. CASE m = input
        BY <1>0, <1>1, <1>3, <1>4, <1>7, <3>1 DEF Known, open
      <3>2. CASE m # input
        BY <1>0, <1>3, <1>7, <3>2 DEF Known
      <3> QED
        BY <3>1, <3>2
    <2> QED
      BY <2>1, <2>2 DEF Known
  <1>12. Attached'
    BY <1>0, <1>1, <1>4 DEF Attached
  <1>13. Alone'
    BY <1>0, <1>1, <1>6, <1>7, <1>8 DEF Alone, onItsWay
  <1>14. Asked' /\ Answered'
    BY <1>0, <1>1, <1>2, <1>4 DEF Asked, Answered
  <1>15. Concluded'
    <2>1. carried(current)
      BY <1>1 DEF carried
    <2> QED
      BY <1>0, <1>3, <1>6, <1>7, <1>8, <2>1, <1>1 DEF Concluded, Attached
  <1>16. Turns'
    <2>1. \A t : touched(t)' <=> touched(t)
      BY <1>0, <1>7 DEF touched
    <2>2. \A t : starting(t)' <=> starting(t)
      BY <1>0, <1>6, <1>7 DEF starting
    <2> QED
      BY <1>0, <1>3, <1>4, <1>6, <1>7, <2>1, <2>2 DEF Turns
  <1>17. TurnIsTracked'
    BY <1>0, <1>7 DEF TurnIsTracked
  <1> QED
    BY <1>5, <1>10, <1>11, <1>12, <1>13, <1>14, <1>15, <1>16, <1>17

(* A turn ends, of itself or because the engine gave it up.                 *)
TurnEnds == EngineFinishes \/ TurnBreaksOff

LEMMA TurnEndsKeeps ==
  ASSUME IInv, TurnEnds
  PROVE  IInv'
  <1> USE DEF IInv, journal, files, broker, queue
  <1>0. /\ child # "none" /\ turn # Null /\ turn' = Null /\ print(<<Completed(turn)>>)
        /\ input' = Null /\ (fault \/ UNCHANGED faults)
        /\ UNCHANGED <<receipt, policy, fence, thread, ledgerTurn, child, request, viewer, host,
                       activeTurnId, confirmed, imageInput, overtaken, drain, due,
                       acknowledged, misjudged>>
    BY DEF TurnEnds, EngineFinishes, TurnBreaksOff
  <1>1. turn \in Messages /\ turn \in Turn
    BY <1>0, Typed DEF Turn
  <1>2. PICK l \in Lines : l = Completed(turn) /\ l.type = "turn/completed"
    BY <1>1, LineOf
  <1>4. /\ stdout' \in Seq(Lines)
        /\ stdout' # << >> => child = "attached" /\ host = "up"
        /\ child # "attached" => host # "up"
        /\ \A k : written(k)' <=> written(k) \/ (child = "attached" /\ k = l)
        /\ \A type : type \in kinds(stdout')
             <=> type \in kinds(stdout) \/ (child = "attached" /\ type = l.type)
        /\ \A type : type # "turn/completed" /\ single(stdout, type) => single(stdout', type)
        /\ child = "attached" /\ ordered(stdout, turn) => ordered(stdout', Null)
    <2>1. print(<<l>>)
      BY <1>0, <1>2
    <2> QED
      BY <1>0, <1>1, <1>2, <2>1, NullTurn, WritesLine
  <1>5. TypeOK'
    BY <1>0, <1>4, NullTurn, EngineTyped, Typed
  <1>6. pending' = pending /\ current' = current
    BY <1>0, CurrentKept DEF pending, open
  <1>7. /\ \A m \in Messages : carried(m)' => carried(m)
        /\ \A m : isIn(m)' <=> isIn(m)
        /\ \A m : written(Item(m))' <=> written(Item(m))
        /\ \A m : written(Started(m))' <=> written(Started(m))
        /\ \A m : written(Completed(m))'
             <=> written(Completed(m)) \/ (child = "attached" /\ m = turn)
        /\ \A o : written(Answer(o))' <=> written(Answer(o))
        /\ (refused' <=> refused) /\ (accepted' <=> accepted)
    <2>1. /\ \A m : written(Item(m))' <=> written(Item(m))
          /\ \A m : written(Started(m))' <=> written(Started(m))
          /\ \A m : written(Completed(m))'
               <=> written(Completed(m)) \/ (child = "attached" /\ m = turn)
          /\ \A o : written(Answer(o))' <=> written(Answer(o))
      BY <1>2, <1>4, LineOf
    <2>2. \A m \in Messages : carried(m)' => carried(m)
      BY <1>0, NullTurn DEF carried, sends
    <2>3. \A m : isIn(m)' <=> isIn(m)
      BY <1>0 DEF isIn
    <2> QED
      BY <1>0, <2>1, <2>2, <2>3 DEF refused, accepted
  <1>8. drain.pc \in Working => current \in Messages
    BY CurrentIsOldest DEF Worked
  <1> HIDE DEF current
  <1>10. Submitted' /\ Worked' /\ Carried'
    BY <1>0, <1>6, <1>7 DEF Submitted, Worked, Carried, open, closed
  <1>11. Known' /\ Attached' /\ Alone'
    BY <1>0, <1>4, <1>6, <1>7 DEF Known, Attached, Alone, onItsWay
  <1>12. Asked' /\ Answered'
    BY <1>0, <1>2, <1>4, <1>6 DEF Asked, Answered
  <1>13. Concluded'
    BY <1>0, <1>6, <1>7, <1>8 DEF Concluded, Working, Asking, Closing
  <1>14. Turns'
    <2>1. \A t \in Messages : child = "attached" /\ touched(t)' => touched(t)
      BY <1>0, <1>7, NullTurn DEF touched
    <2>2. \A t : starting(t)' <=> starting(t)
      BY <1>0, <1>6, <1>7 DEF starting
    <2> QED
      BY <1>0, <1>4, <1>6, <1>7, <2>1, <2>2 DEF Turns
  <1>15. TurnIsTracked'
    BY <1>0, <1>7 DEF TurnIsTracked
  <1> QED
    BY <1>5, <1>10, <1>11, <1>12, <1>13, <1>14, <1>15

(* An accepted interrupt ends the turn too.                                 *)
LEMMA EngineInterruptsKeeps ==
  ASSUME IInv, EngineInterrupts
  PROVE  IInv'
  <1> USE DEF IInv, journal, files, broker, queue
  <1>a. child # "none" /\ request # Null /\ request.method = "turn/interrupt"
    BY DEF EngineInterrupts, asked
  <1>b. CASE turn # request.turn
    <2>1. "stale" \in Outcomes /\ answered("stale")
      BY <1>b DEF EngineInterrupts, Outcomes
    <2>2. UNCHANGED <<journal, files, child, turn, viewer, broker, queue, misjudged>>
            /\ UNCHANGED faults /\ UNCHANGED input
      BY <1>b DEF EngineInterrupts
    <2> QED
      BY <1>a, <2>1, <2>2, AnswersKeep
  <1>c. CASE turn = request.turn
    <2>0. /\ request' = Null /\ turn' = Null /\ input' = Null
          /\ print(<<Answer("ok"), Completed(turn)>>)
          /\ UNCHANGED <<receipt, policy, fence, thread, ledgerTurn, child, viewer, host,
                         activeTurnId, confirmed, imageInput, overtaken, drain, due,
                         acknowledged, misjudged, faults>>
      BY <1>c DEF EngineInterrupts
    <2>1. /\ input = Null
          /\ child = "attached" =>
               /\ host = "up" /\ drain.live /\ drain.pc = "interrupting" /\ drain.answer = Null
               /\ "answer" \notin kinds(stdout)
               /\ turn \in Messages
               /\ \A o : ~written(Answer(o))
      <3>1. /\ request \in Requests /\ input = Null
            /\ child = "attached" =>
                 /\ host = "up" /\ drain.live /\ drain.pc \in Asking /\ drain.answer = Null
                 /\ "answer" \notin kinds(stdout)
                 /\ request.method = awaited[drain.pc] /\ request.message = current
                 /\ request.method \in {"turn/steer", "turn/interrupt"} => request.turn # Null
                 /\ \A o : ~written(Answer(o))
        BY <1>a, Taken
      <3>2. child = "attached" => drain.pc = "interrupting"
        BY <1>a, <3>1 DEF awaited, Asking
      <3>3. child = "attached" => turn \in Messages
        BY <1>a, <1>c, <3>1, Typed DEF Turn
      <3> QED
        BY <3>1, <3>2, <3>3
    <2>2. /\ \A o : written(Answer(o))' <=> written(Answer(o)) \/ (child = "attached" /\ o = "ok")
          /\ \A m : written(Item(m))' <=> written(Item(m))
          /\ \A m : written(Started(m))' <=> written(Started(m))
          /\ \A m : written(Completed(m))'
               <=> written(Completed(m)) \/ (child = "attached" /\ m = turn)
          /\ stdout' \in Seq(Lines)
          /\ stdout' # << >> => child = "attached" /\ host = "up"
          /\ child # "attached" => host # "up"
          /\ "answer" \in kinds(stdout') <=> "answer" \in kinds(stdout) \/ child = "attached"
          /\ single(stdout', "answer") /\ single(stdout', "item/completed")
          /\ child = "attached" /\ ordered(stdout, turn) => ordered(stdout', Null)
      <3>1. PICK k \in Lines : k = Answer("ok") /\ k.type = "answer"
        BY LineOf DEF Outcomes
      <3>2. PICK l \in Lines :
              child = "attached" => l = Completed(turn) /\ l.type = "turn/completed"
        BY <2>1, <3>1, LineOf
      <3>3. /\ child = "attached" => print(<<k, l>>)
            /\ child # "attached" => UNCHANGED stdout
        BY <2>0, <3>1, <3>2 DEF print
      <3>4. /\ stdout' \in Seq(Lines)
            /\ stdout' # << >> => child = "attached" /\ host = "up"
            /\ child # "attached" => host # "up"
            /\ \A x : written(x)' <=> written(x) \/ (child = "attached" /\ (x = k \/ x = l))
            /\ \A type : type \in kinds(stdout')
                 <=> type \in kinds(stdout) \/ (child = "attached" /\ (type = k.type \/ type = l.type))
            /\ \A type :
                 /\ single(stdout, type)
                 /\ child = "attached" /\ k.type = type => type \notin kinds(stdout)
                 /\ child = "attached" /\ l.type = type => type \notin kinds(stdout) \cup {k.type}
                 => single(stdout', type)
            /\ child = "attached" =>
                 \A before, after \in Turn :
                   /\ ordered(stdout, before) /\ k.type # "turn/started"
                   /\ \/ after = Null /\ l = Completed(before)
                      \/ before = Null /\ l = Started(after) /\ after # Null
                   => ordered(stdout', after)
        BY <1>a, <3>3, WritesTwo
      <3>5. /\ \A o : written(Answer(o))' <=> written(Answer(o)) \/ (child = "attached" /\ o = "ok")
            /\ \A m : written(Item(m))' <=> written(Item(m))
            /\ \A m : written(Started(m))' <=> written(Started(m))
            /\ \A m : written(Completed(m))'
                 <=> written(Completed(m)) \/ (child = "attached" /\ m = turn)
        BY <3>1, <3>2, <3>4, LineOf
      <3>6. single(stdout', "answer") /\ single(stdout', "item/completed")
        BY <2>1, <3>1, <3>2, <3>4 DEF Answered, Known
      <3>7. child = "attached" /\ ordered(stdout, turn) => ordered(stdout', Null)
        BY <3>1, <3>2, <3>4, Typed, NullTurn
      <3> QED
        BY <3>1, <3>2, <3>4, <3>5, <3>6, <3>7
    <2>3. TypeOK'
      BY <2>0, <2>2, NullTurn, EngineTyped, Typed
    <2>4. pending' = pending /\ current' = current
      BY <2>0, CurrentKept DEF pending, open
    <2>5. /\ \A m \in Messages : ~carried(m)'
          /\ \A m : isIn(m)' <=> isIn(m)
          /\ (refused' <=> refused)
      BY <2>0, <2>2, NullTurn DEF carried, sends, isIn, refused
    <2>6. drain.pc \in Working => current \in Messages
      BY CurrentIsOldest DEF Worked
    <2> HIDE DEF current
    <2>7. Submitted' /\ Worked' /\ Carried'
      BY <2>0, <2>4, <2>5 DEF Submitted, Worked, Carried, open, closed
    <2>8. Known' /\ Attached' /\ Alone'
      BY <2>0, <2>2, <2>4, <2>5 DEF Known, Attached, Alone, onItsWay
    <2>9. Asked' /\ Answered'
      BY <2>0, <2>1, <2>2 DEF Asked, Answered, Asking
    <2>10. Concluded'
      BY <2>0, <2>4, <2>5, <2>6 DEF Concluded, Working, Asking, Closing
    <2>11. Turns'
      <3>1. \A t \in Messages : child = "attached" /\ touched(t)' => touched(t)
        BY <2>0, <2>2, NullTurn DEF touched
      <3>2. \A t : ~starting(t)
        BY <1>a DEF starting
      <3> QED
        BY <2>0, <2>1, <2>2, <2>5, <3>1, <3>2 DEF Turns
    <2>12. TurnIsTracked'
      BY <2>0, <2>2 DEF TurnIsTracked
    <2> QED
      BY <2>3, <2>7, <2>8, <2>9, <2>10, <2>11, <2>12
  <1> QED
    BY <1>b, <1>c

(* A turn starts with the message of the request.                           *)
LEMMA EngineStartsKeeps ==
  ASSUME IInv, EngineStarts
  PROVE  IInv'
  <1> USE DEF IInv, journal, files, broker, queue
  <1>a. child # "none" /\ request # Null /\ request.method = "turn/start" /\ turn = Null
    BY DEF EngineStarts, asked
  <1>b. PICK m0 : m0 = request.message
    OBVIOUS
  <1>0. /\ request' = Null /\ turn' = m0 /\ input' = m0
        /\ print(<<Answer("ok"), Started(m0)>>)
        /\ UNCHANGED <<receipt, policy, fence, thread, ledgerTurn, child, viewer, host,
                       activeTurnId, confirmed, imageInput, overtaken, drain, due,
                       acknowledged, misjudged, faults>>
    BY <1>b DEF EngineStarts
  <1>1. /\ m0 \in Messages /\ m0 # Null /\ m0 \in Turn
        /\ carried(m0) /\ open(m0) /\ ~isIn(m0) /\ m0 = current
        /\ input = Null
        /\ child = "attached" =>
             /\ host = "up" /\ drain.live /\ drain.pc = "starting" /\ drain.answer = Null
             /\ "answer" \notin kinds(stdout)
             /\ \A o : ~written(Answer(o))
    <2>1. /\ request \in Requests /\ input = Null
          /\ child = "attached" =>
               /\ host = "up" /\ drain.live /\ drain.pc \in Asking /\ drain.answer = Null
               /\ "answer" \notin kinds(stdout)
               /\ request.method = awaited[drain.pc] /\ request.message = current
               /\ \A o : ~written(Answer(o))
      BY <1>a, Taken
    <2>2. m0 \in Messages /\ m0 # Null /\ m0 \in Turn
      BY <1>b, <2>1, NullTurn DEF Requests
    <2>3. carried(m0)
      BY <1>a, <1>b DEF carried, sends
    <2>4. open(m0) /\ ~isIn(m0) /\ m0 = current
      BY <2>2, <2>3, CarriedIsCurrent DEF Carried
    <2>5. child = "attached" => drain.pc = "starting"
      BY <1>a, <2>1 DEF awaited, Asking
    <2> QED
      BY <2>1, <2>2, <2>3, <2>4, <2>5
  <1>2. /\ \A o : written(Answer(o))' <=> written(Answer(o)) \/ (child = "attached" /\ o = "ok")
        /\ \A m : written(Item(m))' <=> written(Item(m))
        /\ \A m : written(Started(m))'
             <=> written(Started(m)) \/ (child = "attached" /\ m = m0)
        /\ \A m : written(Completed(m))' <=> written(Completed(m))
        /\ stdout' \in Seq(Lines)
        /\ stdout' # << >> => child = "attached" /\ host = "up"
        /\ child # "attached" => host # "up"
        /\ "answer" \in kinds(stdout') <=> "answer" \in kinds(stdout) \/ child = "attached"
        /\ single(stdout', "answer") /\ single(stdout', "item/completed")
        /\ child = "attached" /\ ordered(stdout, Null) => ordered(stdout', m0)
    <2>1. PICK k \in Lines : k = Answer("ok") /\ k.type = "answer"
      BY LineOf DEF Outcomes
    <2>2. PICK l \in Lines : l = Started(m0) /\ l.type = "turn/started"
      BY <1>1, LineOf
    <2>3. /\ child = "attached" => print(<<k, l>>)
          /\ child # "attached" => UNCHANGED stdout
      BY <1>0, <2>1, <2>2 DEF print
    <2>4. /\ stdout' \in Seq(Lines)
          /\ stdout' # << >> => child = "attached" /\ host = "up"
          /\ child # "attached" => host # "up"
          /\ \A x : written(x)' <=> written(x) \/ (child = "attached" /\ (x = k \/ x = l))
          /\ \A type : type \in kinds(stdout')
               <=> type \in kinds(stdout) \/ (child = "attached" /\ (type = k.type \/ type = l.type))
          /\ \A type :
               /\ single(stdout, type)
               /\ child = "attached" /\ k.type = type => type \notin kinds(stdout)
               /\ child = "attached" /\ l.type = type => type \notin kinds(stdout) \cup {k.type}
               => single(stdout', type)
          /\ child = "attached" =>
               \A before, after \in Turn :
                 /\ ordered(stdout, before) /\ k.type # "turn/started"
                 /\ \/ after = Null /\ l = Completed(before)
                    \/ before = Null /\ l = Started(after) /\ after # Null
                 => ordered(stdout', after)
      BY <1>a, <2>3, WritesTwo
    <2>5. /\ \A o : written(Answer(o))' <=> written(Answer(o)) \/ (child = "attached" /\ o = "ok")
          /\ \A m : written(Item(m))' <=> written(Item(m))
          /\ \A m : written(Started(m))'
               <=> written(Started(m)) \/ (child = "attached" /\ m = m0)
          /\ \A m : written(Completed(m))' <=> written(Completed(m))
      BY <2>1, <2>2, <2>4, LineOf
    <2>6. single(stdout', "answer") /\ single(stdout', "item/completed")
      BY <1>1, <2>1, <2>2, <2>4 DEF Answered, Known
    <2>7. child = "attached" /\ ordered(stdout, Null) => ordered(stdout', m0)
      BY <1>1, <2>1, <2>2, <2>4, NullTurn
    <2> QED
      BY <2>1, <2>2, <2>4, <2>5, <2>6, <2>7
  <1>3. TypeOK'
    BY <1>0, <1>1, <1>2, NullTurn, EngineTyped, Typed
  <1>4. pending' = pending /\ current' = current
    BY <1>0, CurrentKept DEF pending, open
  <1>5. /\ \A m \in Messages : carried(m)' => m = m0
        /\ \A m : isIn(m)' <=> isIn(m)
        /\ (refused' <=> refused)
    BY <1>0, <1>2, NullTurn DEF carried, sends, isIn, refused
  <1>6. drain.pc \in Working => current \in Messages
    BY CurrentIsOldest DEF Worked
  <1>7. \A m \in Messages : carried(m)' => carried(m)
    BY <1>1, <1>5
  <1> HIDE DEF current
  <1>8. Submitted' /\ Worked' /\ Carried'
    BY <1>0, <1>4, <1>5, <1>7 DEF Submitted, Worked, Carried, open, closed
  <1>9. Known' /\ Attached' /\ Alone'
    BY <1>a, <1>0, <1>2, <1>4, <1>5, <1>7 DEF Known, Attached, Alone, onItsWay
  <1>10. Asked' /\ Answered'
    BY <1>0, <1>1, <1>2 DEF Asked, Answered, Asking
  <1>11. Concluded'
    BY <1>0, <1>4, <1>5, <1>6, <1>7 DEF Concluded, Working, Asking, Closing
  <1>12. Turns'
    <2> SUFFICES ASSUME child = "attached"
                 PROVE  Turns'
      BY <1>0 DEF Turns
    <2>1. \A t \in Messages : touched(t) => isIn(t)
      BY <1>a DEF Turns, starting
    <2>2. \A t \in Messages : touched(t)' => touched(t) \/ t = m0
      BY <1>0, <1>2 DEF touched
    <2>3. ~refused
      BY <1>1, NullAssumption DEF refused
    <2>4. starting(m0)'
      BY <1>0, <1>1, <1>4, <1>5, <2>3 DEF starting
    <2>5. ~written(Completed(m0))'
      BY <1>1, <1>2, <2>1 DEF touched
    <2>6. ordered(stdout', m0)
      BY <1>a, <1>2 DEF Turns
    <2>7. drain.pc = "starting" => turn' \in {Null, current'}
      BY <1>0, <1>1, <1>4
    <2>8. \A t \in Messages : touched(t)' => isIn(t)' \/ starting(t)'
      BY <1>5, <2>1, <2>2, <2>4
    <2> QED
      BY <1>0, <2>5, <2>6, <2>7, <2>8 DEF Turns
  <1>13. TurnIsTracked'
    BY <1>a, <1>0, <1>1, <1>2 DEF TurnIsTracked
  <1> QED
    BY <1>3, <1>8, <1>9, <1>10, <1>11, <1>12, <1>13

---------------------------------------------------------------------------
LEMMA InitHolds == Init => IInv
  <1> SUFFICES ASSUME Init
               PROVE  IInv
    OBVIOUS
  <1> USE DEF Init
  <1>1. stdout \in Seq(Lines) /\ kinds(stdout) = {} /\ (\A type : single(stdout, type))
          /\ ordered(stdout, turn) /\ \A l : ~written(l)
    BY NothingWritten DEF written
  <1>2. drain \in DrainState /\ drain.pc = "off" /\ drain.answer = Null /\ drain.live = FALSE
    BY IdleIs
  <1>3. TypeOK
    <2>1. faults \in 0 .. MaxFaults
      BY CodexAssumption
    <2>2. /\ receipt \in [Messages -> Statuses] /\ policy \in [Messages -> Policies \cup {"queue"}]
          /\ fence \in [Messages -> Fence] /\ thread \in Seq(Messages)
      BY DEF Statuses, Fence
    <2> QED
      BY <1>1, <1>2, <2>1, <2>2, NullTurn, Typed
  <1>4. /\ \A m \in Messages : receipt[m] = "unsent" /\ ~carried(m)
        /\ \A m : ~isIn(m)
    BY NullTurn DEF carried, sends, isIn
  <1>5. Submitted /\ Worked /\ Carried
    BY <1>2, <1>4 DEF Submitted, Worked, Carried, Working, Asking, Closing
  <1>6. Known
    <2>1. \A m : ~written(Item(m))
      BY <1>1
    <2>2. \A m : m \notin confirmed \cup misjudged
      OBVIOUS
    <2> HIDE DEF Init
    <2> QED
      BY <1>1, <1>4, <2>1, <2>2 DEF Known
  <1>9. Attached
    BY <1>2 DEF Attached, Asking
  <1>10. Alone
    BY <1>1, <1>4 DEF Alone, onItsWay
  <1>7. Asked /\ Answered /\ Concluded
    BY <1>1, <1>2 DEF Asked, Answered, Concluded
  <1>8. Turns /\ TurnIsTracked
    BY <1>1, <1>2, NullTurn DEF Turns, TurnIsTracked, touched
  <1> QED
    BY <1>3, <1>5, <1>6, <1>7, <1>8, <1>9, <1>10 DEF IInv

LEMMA StepKeeps ==
  ASSUME IInv, [Next]_vars
  PROVE  IInv'
  <1>1. CASE TimerFires \/ DrainStep
    BY <1>1, TimerFiresKeeps, NextEffectKeeps, SendKeeps, InterruptKeeps, InterruptAnsweredKeeps,
       ProbeAnsweredKeeps, ReadAnsweredKeeps, StartAnsweredKeeps, SteerAnsweredKeeps,
       ClosingKeeps
    DEF DrainStep
  <1>2. CASE ReadStdout \/ ConfirmationTimesOut \/ HostSeesExit
    BY <1>2, AcceptAnswerKeeps, TurnReadKeeps, AcceptItemKeeps, HostFailsKeeps DEF ReadStdout
  <1>3. CASE EngineAnswers \/ EngineRecords \/ EngineFinishes \/ EngineExits
    BY <1>3, EngineAnswersKeep, EngineStartsKeeps, EngineInterruptsKeeps, EngineRecordsKeeps,
       TurnEndsKeeps, EngineExitsKeeps
    DEF EngineAnswers, TurnEnds
  <1>4. CASE \E m \in Messages, p \in Policies : Submit(m, p)
    BY <1>4, SubmitKeeps
  <1>5. CASE ViewerStarts \/ UNCHANGED vars
    BY <1>5, ViewerStartsKeeps
  <1>6. CASE \E supported \in BOOLEAN : Recover(supported)
    BY <1>6, RecoverKeeps
  <1>7. CASE Failure
    BY <1>7, ReadTimesOutKeeps, HostFailsKeeps, EngineAnswersKeep, TurnEndsKeeps,
       ViewerCrashesKeeps
    DEF Failure, TurnEnds
  <1> QED
    BY <1>1, <1>2, <1>3, <1>4, <1>5, <1>6, <1>7 DEF Next

LEMMA Invariance == Spec => []IInv
  BY InitHolds, StepKeeps, PTL DEF Spec

(* Every variable keeps its type, whatever fails in whatever order.         *)
THEOREM CodexTyped == Spec => []TypeOK
  <1>1. IInv => TypeOK
    BY DEF IInv
  <1> QED
    BY <1>1, Invariance, PTL

(* The active turn CodexAppServerHost compares fences and interrupts with   *)
(* lags behind the app-server's only by lines not read yet, across          *)
(* restarts, and whether the answer to turn/start is taken before or after  *)
(* the turn's notices.                                                      *)
THEOREM ActiveTurnIsTracked == Spec => []TurnIsTracked
  <1>1. IInv => TurnIsTracked
    BY DEF IInv
  <1> QED
    BY <1>1, Invariance, PTL

---------------------------------------------------------------------------
(* Every step of delivery is a step its writer is promised, or shows        *)
(* nothing.                                                                 *)
view == [m \in Messages |-> shownStatus(m)]

LEMMA ShowsNothing ==
  ASSUME UNCHANGED thread, \A m \in Messages : shownStatus(m)' = shownStatus(m)
  PROVE  [Delivery!Next]_(Delivery!vars)
  BY DEF Delivery!vars

LEMMA ReportShows ==
  ASSUME IInv, drain.pc \in Closing, NEW status \in {"queued", "delivered", "failed"},
         report(status), UNCHANGED <<thread, misjudged>>,
         status = "delivered" => isIn(current),
         status = "failed" => ~isIn(current) \/ current \in misjudged
  PROVE  [Delivery!Next]_(Delivery!vars)
  <1>1. PICK m \in Messages : m = current /\ open(m)
    BY CurrentIsOldest DEF IInv, Worked, Working
  <1>2. receipt' = [receipt EXCEPT ![m] = status]
    BY <1>1 DEF report
  <1>3. receipt'[m] = status /\ \A n \in Messages : n # m => receipt'[n] = receipt[n]
    BY <1>2 DEF IInv, TypeOK
  <1>4. \A n \in Messages : n # m => shownStatus(n)' = shownStatus(n)
    BY <1>3 DEF shownStatus, open
  <1>5. shownStatus(m) = "open"
    BY <1>1 DEF shownStatus
  <1>6. CASE status = "queued" \/ m \in misjudged
    <2>1. shownStatus(m)' = "open"
      BY <1>3, <1>6 DEF shownStatus, open
    <2> QED
      BY <1>4, <1>5, <2>1, ShowsNothing
  <1>7. CASE status # "queued" /\ m \notin misjudged
    <2>1. shownStatus(m)' = status
      BY <1>3, <1>7 DEF shownStatus, open
    <2>2. view' = [view EXCEPT ![m] = status] /\ view[m] = "open"
      BY <1>4, <1>5, <2>1 DEF view
    <2>3. status = "delivered" <=> isIn(m)
      BY <1>1, <1>7
    <2>4. Delivery!isReceived(m) <=> isIn(m)
      BY DEF Delivery!isReceived, isIn
    <2>5. Delivery!Confirm(m) \/ Delivery!GiveUp(m)
      BY <1>7, <2>2, <2>3, <2>4 DEF Delivery!Confirm, Delivery!GiveUp, view
    <2> QED
      BY <2>5 DEF Delivery!Next, Delivery!Messages, Messages
  <1> QED
    BY <1>6, <1>7

LEMMA NextEffectShows ==
  ASSUME IInv, NextEffect
  PROVE  [Delivery!Next]_(Delivery!vars)
  <1>1. UNCHANGED <<thread, misjudged>>
    BY DEF NextEffect, files
  <1>2. CASE UNCHANGED receipt
    BY <1>1, <1>2, ShowsNothing DEF shownStatus, open
  <1>3. CASE ~UNCHANGED receipt
    <2>1. pending # {} /\ receipt' = [receipt EXCEPT ![current] = "delivering"]
      BY <1>3 DEF NextEffect, journal
    <2>2. current \in Messages /\ open(current)
      BY <2>1, CurrentIsOldest DEF IInv
    <2>3. \A m \in Messages : open(m)' <=> open(m)
      BY <2>1, <2>2 DEF open, IInv, TypeOK
    <2>4. \A m \in Messages : shownStatus(m)' = shownStatus(m)
      BY <1>1, <2>1, <2>2, <2>3 DEF shownStatus, IInv, TypeOK
    <2> QED
      BY <1>1, <2>4, ShowsNothing
  <1> QED
    BY <1>2, <1>3

(* A message failed for want of an image probe is still open when that      *)
(* happens.                                                                 *)
LEMMA ProbeAnsweredShows ==
  ASSUME IInv, ProbeAnswered
  PROVE  [Delivery!Next]_(Delivery!vars)
  <1>1. UNCHANGED <<receipt, thread>> /\ misjudged \subseteq misjudged'
          /\ misjudged' \subseteq misjudged \cup {current}
    BY DEF ProbeAnswered, journal, files
  <1>2. open(current)
    BY CurrentIsOldest DEF ProbeAnswered, IInv, Worked, Working, Asking
  <1>3. \A m \in Messages : shownStatus(m)' = shownStatus(m)
    BY <1>1, <1>2 DEF shownStatus, open
  <1> QED
    BY <1>1, <1>3, ShowsNothing

LEMMA EngineRecordsShows ==
  ASSUME IInv, EngineRecords
  PROVE  [Delivery!Next]_(Delivery!vars)
  <1> USE DEF IInv
  <1>1. PICK m \in Messages : m = input
    BY Typed DEF EngineRecords, Turn
  <1>2. open(m) /\ ~isIn(m) /\ \A n \in Messages : n < m => closed(n)
    BY <1>1 DEF Carried, carried
  <1>3. thread' = Append(thread, m) /\ view' = view
    BY <1>1 DEF EngineRecords, journal, view, shownStatus, open
  <1>4. view[m] = "open"
    BY <1>2 DEF view, shownStatus
  <1>5. ASSUME NEW n \in Messages, n < m
        PROVE  isIn(n) \/ view[n] = "failed"
    <2>1. closed(n)
      BY <1>2, <1>5
    <2>2. (receipt[n] = "delivered" => isIn(n)) /\ (n \in misjudged => isIn(n))
      BY DEF Known
    <2> QED
      BY <2>1, <2>2 DEF closed, view, shownStatus, open
  <1>6. 1 .. m - 1 \subseteq Messages /\ \A n \in 1 .. m - 1 : n < m
    BY CodexAssumption DEF Messages
  <1>7. Delivery!Receive(m)
    BY <1>2, <1>3, <1>4, <1>5, <1>6
    DEF Delivery!Receive, Delivery!inTurn, Delivery!isReceived, isIn, view
  <1> QED
    BY <1>7 DEF Delivery!Next, Delivery!Messages, Messages

LEMMA SubmitShows ==
  ASSUME IInv, NEW m \in Messages, NEW p \in Policies, Submit(m, p)
  PROVE  [Delivery!Next]_(Delivery!vars)
  <1>1. /\ receipt[m] = "unsent" /\ receipt' = [receipt EXCEPT ![m] = "queued"]
        /\ UNCHANGED <<thread, misjudged>> /\ \A n \in 1 .. m - 1 : receipt[n] # "unsent"
    BY DEF Submit, files
  <1>2. receipt'[m] = "queued" /\ \A n \in Messages : n # m => receipt'[n] = receipt[n]
    BY <1>1 DEF IInv, TypeOK
  <1>3. \A n \in Messages : n # m => shownStatus(n)' = shownStatus(n)
    BY <1>1, <1>2 DEF shownStatus, open
  <1>4. shownStatus(m)' = "open"
    BY <1>2 DEF shownStatus, open
  <1>5. CASE m \in misjudged
    <2>1. shownStatus(m) = "open"
      BY <1>5 DEF shownStatus
    <2> QED
      BY <1>1, <1>3, <1>4, <2>1, ShowsNothing
  <1>6. CASE m \notin misjudged
    <2>1. view' = [view EXCEPT ![m] = "open"] /\ view[m] = "unsent"
      BY <1>1, <1>3, <1>4, <1>6 DEF view, shownStatus, open
    <2>2. 1 .. m - 1 \subseteq Messages
      BY CodexAssumption DEF Messages
    <2>3. \A n \in 1 .. m - 1 : view[n] # "unsent"
      BY <1>1, <2>2 DEF view, shownStatus, open
    <2>4. Delivery!Submit(m)
      BY <1>1, <2>1, <2>3 DEF Delivery!Submit, view
    <2> QED
      BY <2>4 DEF Delivery!Next, Delivery!Messages, Messages
  <1> QED
    BY <1>5, <1>6

LEMMA StepShows ==
  ASSUME IInv, [Next]_vars
  PROVE  [Delivery!Next]_(Delivery!vars)
  <1> DEFINE silent == UNCHANGED <<receipt, thread, misjudged>>
  <1>1. ASSUME silent
        PROVE  [Delivery!Next]_(Delivery!vars)
    <2>1. \A m \in Messages : shownStatus(m)' = shownStatus(m)
      BY <1>1 DEF shownStatus, open
    <2> QED
      BY <1>1, <2>1, ShowsNothing
  <1>2. CASE TimerFires \/ Send \/ Interrupt \/ InterruptAnswered \/ ReadAnswered
               \/ StartAnswered \/ SteerAnswered
    <2>1. silent
      BY <1>2 DEF TimerFires, Send, Interrupt, InterruptAnswered, ReadAnswered, StartAnswered,
                  SteerAnswered, journal, files
    <2> QED
      BY <1>1, <2>1
  <1>3. CASE ReadStdout \/ HostFails \/ ConfirmationTimesOut \/ HostSeesExit \/ ReadTimesOut
    <2>1. silent
      BY <1>3 DEF ReadStdout, AcceptAnswer, AcceptStarted, AcceptItem, AcceptCompleted, HostFails,
                  ConfirmationTimesOut, HostSeesExit, hostDies, ReadTimesOut, journal, files
    <2> QED
      BY <1>1, <2>1
  <1>4. CASE EngineAnswers \/ EngineRefuses \/ EngineFinishes \/ TurnBreaksOff \/ EngineExits
    <2>1. silent
      BY <1>4 DEF EngineAnswers, EngineLists, EngineReads, EngineStarts, EngineSteers,
                  EngineInterrupts, EngineRefuses, EngineFinishes, TurnBreaksOff, EngineExits,
                  journal, files
    <2> QED
      BY <1>1, <2>1
  <1>5. CASE ViewerCrashes \/ ViewerStarts \/ UNCHANGED vars
    <2>1. silent
      BY <1>5 DEF ViewerCrashes, ViewerStarts, vars, journal, files
    <2> QED
      BY <1>1, <2>1
  <1>6. CASE \E supported \in BOOLEAN : Recover(supported)
    <2>1. silent
      BY <1>6 DEF Recover, journal
    <2> QED
      BY <1>1, <2>1
  <1>7. CASE NextEffect \/ ProbeAnswered \/ EngineRecords
    BY <1>7, NextEffectShows, ProbeAnsweredShows, EngineRecordsShows
  <1>8. CASE Requeue \/ Settle \/ Fail
    <2>1. PICK status \in {"queued", "delivered", "failed"} :
            /\ report(status)
            /\ status = "delivered" => isIn(current)
            /\ status = "failed" => ~isIn(current) \/ current \in misjudged
      BY <1>8 DEF Requeue, Settle, Fail, IInv, Concluded
    <2> QED
      BY <1>8, <2>1, ReportShows DEF Requeue, Settle, Fail, Closing, files
  <1>9. CASE \E m \in Messages, p \in Policies : Submit(m, p)
    BY <1>9, SubmitShows
  <1> HIDE DEF silent
  <1> QED
    BY <1>2, <1>3, <1>4, <1>5, <1>6, <1>7, <1>8, <1>9 DEF Next, DrainStep, Failure

(* Delivery to Codex implements MessageDelivery: whatever fails between two *)
(* steps of the queue, the host and the app-server, a message is put in the *)
(* thread at most once and in order, one shown delivered is in the thread,  *)
(* and one shown failed is not, those of `misjudged` excepted.              *)
THEOREM CodexKeepsItsPromises == Spec => DeliversAsPromised
  <1>1. Init => Delivery!Init
    BY DEF Init, Delivery!Init, Delivery!Messages, Messages, shownStatus, open
  <1>2. IInv /\ [Next]_vars => [Delivery!Next]_(Delivery!vars)
    BY StepShows
  <1> QED
    BY <1>1, <1>2, Invariance, PTL DEF Spec, DeliversAsPromised, Delivery!Spec

=============================================================================
